\* The worker: three workloads over one hash and its shard. The reader: two ledgers of one
\* architecture, one misbehaving answer, and every kind of foreign object.
CONSTANTS
  Parts = {"worker", "read"}
  Isolates = {i1, i2}
  Tasks = {t1, t2}
  Hashes = {h1}
  Workloads <- Mix
  L1Ttl = 1
  Debounce = 1
  NoRoot = NoRoot
  NoShard = NoShard
  NoValue = NoValue
  MaxSeq = 2
  MaxClock = 3
  Bits = 1
  HashLen = 2
  KnownSystems <- MCSystems
  MaxShardEntries = 2
  MaxGcRoots = 2
  MaxUncompressed = 4
  MaxNarSize = 4
  Readers = {r1}
  Asked <- MCAsked
  Ledgers <- MCLedgers
  MaxFaults = 1
  ForeignRoots = {"other_repo", "stale_merkle", "neighbour", "other_system", "miscounted"}
  ForeignManifests = {"v7", "unannotated", "two_layers", "other_merkle", "other_platform", "too_big"}
  ForeignIndexes = {"sized", "alias", "no_platform", "at_odds"}
  MaxManifestBytes = 4
  MaxBufferedBytes = 4
  MaxDescriptors = 2
  MaxLayers = 2
SPECIFICATION WorkerReadSpec
SYMMETRY Symmetric
INVARIANTS
  StalenessBounded
  MissIsTrue
  RootSound
  ShardSound
