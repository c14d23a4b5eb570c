\* Two paths with one NAR: a purge of one deletes the blob of both.
CONSTANTS
  app = app  lib = lib  tool = tool  libc = libc  fork = fork
  Hashes = {lib, fork}
  Systems = {x86, arm}
  NoSystem = NoSystem
  Nars = {lib}
  RefsOf <- MCRefsOf
  NarOf <- SharedNar
  Upstream = {}
  Targets = {lib, fork}
  Runs = {r1}
  Selectors <- AllSelectors
  Regimes <- OneGroupOnly
  NoRoot = NoRoot  NoBuild = NoBuild  NoSelector = NoSelector
  MaxRuns = 3
SPECIFICATION Spec
INVARIANT
  BlobsServable
