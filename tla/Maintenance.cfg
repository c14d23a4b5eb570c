\* Publishing: crashes and unreadable receipts; builds and purges by turns, or builds at any time.
\* Deletion of a package: requests fail, the cursor is ignored, another job pushes, the call
\* is repeated. Deletion of a tag or a batch: others push and delete between the requests.
CONSTANTS
  Parts = {"publish", "package", "tag"}
  app = app  lib = lib  tool = tool  libc = libc  fork = fork
  Hashes = {app, lib}
  Systems = {x86, arm}
  NoSystem = NoSystem
  Nars = {app, lib}
  RefsOf <- MCRefsOf
  NarOf <- OwnNar
  Upstream = {}
  Targets = {app, lib}
  Runs = {r1}
  Selectors <- AllSelectors
  Regimes <- BothRegimes
  NoRoot = NoRoot  NoBuild = NoBuild  NoSelector = NoSelector
  MaxRuns = 3
  index = index  manifest = manifest  rootblob = rootblob  narblob = narblob
  Tags <- TopTags
  PackageManifests = {index, manifest}
  Blobs = {rootblob, narblob}
  Children <- TopLists
  LayersOf <- RootLayers
  NarsOf <- ShardNars
  NoTarget = NoTarget  Tag = Tag
  Faults = {"error", "lazy", "stuck"}
  MaxPushes = 1
  MaxCalls = 2
  MaxPages = 2
  PageSize = 2
  PageCap = 2
  TagBlobs = {b1, b2, b3}
  MaxOthers = 2
  MaxFaults = 1
  NoOwner = NoOwner
SPECIFICATION MaintenanceSpec
INVARIANTS
  IndexIsLedger
  BlobsServable
  
  DeletesAfterDiscovery
  CompleteMeansGone
  LeftoversReported
  
CHECK_DEADLOCK FALSE
