\* Every graph over three hashes, and over two hashes and two architectures.
CONSTANTS
  Hashes = {h1, h2, h3}
  x86 = x86
  arm = arm
  Systems = {x86, arm}
  NoSystem = NoSystem
  NoRoot = NoRoot
  Families <- AllFamilies
SYMMETRY HashSymmetry
SPECIFICATION Spec
INVARIANTS RootsProtected PurgeExact RootsExact NoDanglingReference
PROPERTY WorkRunsOut
