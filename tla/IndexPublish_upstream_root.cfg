\* A GC root that references a path of a public cache.
CONSTANTS
  app = app  lib = lib  tool = tool  libc = libc  fork = fork
  Hashes = {tool, libc, lib}
  Systems = {x86, arm}
  NoSystem = NoSystem
  Nars = {tool, libc, lib}
  RefsOf <- MCRefsOf
  NarOf <- OwnNar
  Upstream = {libc}
  Targets = {tool, lib}
  Runs = {r1}
  Selectors <- AllSelectors
  Regimes <- OneGroupOnly
  NoRoot = NoRoot  NoBuild = NoBuild  NoSelector = NoSelector
  MaxRuns = 3
SPECIFICATION Spec
INVARIANT
  FlakeProtected
