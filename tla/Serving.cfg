\* The proxy: four workloads over one shard of two paths. The streams: every reader,
\* every cut of every body, headers that are missing, wrong or do not parse.
CONSTANTS
  Parts = {"proxy", "stream"}
  Hashes = {a, b}
  Shards = {s1}
  ShardOf <- OneShard
  Tasks = {t1, t2}
  Workloads <- Mix
  NoRoot = NoRoot  NoShard = NoShard  NoHash = NoHash  Torn = Torn
  MaxSeq = 3
  MaxHot = 2
  Content <- MCContent
  Bodies <- MCBodies
  Lengths = {1, 2, 3, 4}
  MaxBytes = 3
  MAX_REDIRECTS = 2
  Upstreams = 2
  None = None  Invalid = Invalid  End = End  Error = Error
SYMMETRY Symmetry
SPECIFICATION ServingSpec
INVARIANTS
  AnswerFromOneRoot
  NarFollowsNarinfo
  NeverEmptied
  RefreshAloneTakesEffect
  EndIsWhole
