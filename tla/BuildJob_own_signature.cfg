SPECIFICATION Spec
CONSTANTS
  Paths <- MCPaths
  Kind <- MCKind
  Refs <- MCRefs
  Deriver <- MCDeriver
  Requisites <- MCRequisites
  Jobs <- MCRetried
  Before <- MCBefore
  Remotes <- MCRemotes
  Targets = {"app"}
  Upstream = {"sys"}
  NarLen = 1
  BufCap = 1
  Concurrency = 2
  MaxProbes = 2
  MaxFaults = 1
INVARIANTS
  NothingForgotten
