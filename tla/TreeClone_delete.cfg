\* A directory that has one entry too many.
SPECIFICATION Spec
CONSTANTS
  Name = {"a", "x", "k"}
  Root = "root"
  Up = "up"
  Parent <- MCParent
  Src <- MCSrc
  Before <- MCFew
  Target <- MCTarget
  IgnoreMissing = FALSE
  Concurrency = 2
  NumCPU = 4
  MayVanish = {}
  MayFail = {}
INVARIANTS NoDifferences
