SPECIFICATION FairSpec
CONSTANTS
  Paths <- MCPaths
  Kind <- MCKind
  Refs <- MCRefs
  Deriver <- MCDeriver
  Requisites <- MCRequisites
  Jobs <- MCJobs
  Before <- MCBefore
  Remotes <- MCRemotes
  Targets = {"app"}
  Upstream = {"sys"}
  NarLen = 1
  BufCap = 1
  Concurrency = 2
  MaxProbes = 2
  MaxFaults = 1
INVARIANTS
  EntryIsWhole
  NothingForgotten
  ProxyGone
PROPERTIES
  JobReturns
