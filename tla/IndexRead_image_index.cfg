CONSTANTS
  Bits = 1
  HashLen = 2
  KnownSystems <- MCSystems
  MaxShardEntries = 2
  MaxGcRoots = 2
  MaxUncompressed = 4
  MaxNarSize = 4
  Readers = {r1}
  Asked <- MCAsked
  Ledgers <- MCLedgers
  MaxFaults = 0
  ForeignRoots = {}
  ForeignManifests = {}
  ForeignIndexes = {}
  MaxManifestBytes = 4
  MaxBufferedBytes = 4
  MaxDescriptors = 2
  MaxLayers = 2
SPECIFICATION Spec
INVARIANTS IndexRoutes
