\* Two purges that overlap on a registry with If-Match.
CONSTANTS
  app = app  lib = lib  tool = tool  libc = libc  fork = fork
  Hashes = {lib, fork}
  Systems = {x86}
  NoSystem = NoSystem
  Nars = {lib, fork}
  RefsOf <- MCRefsOf
  NarOf <- OwnNar
  Upstream = {}
  Targets = {lib, fork}
  Runs = {r1, r2}
  Selectors <- PurgeSelectors
  Regimes <- PurgesOverlap
  NoRoot = NoRoot  NoBuild = NoBuild  NoSelector = NoSelector
  MaxRuns = 3
SPECIFICATION Spec
INVARIANT
  IndexIsLedger
