\* Files that differ, are new, are to go and are the same; hard links in src
\* and in dst, a symbolic link; a file vanishes, an operation may fail; one shard
\* for two workers, so that Tree may hang.
SPECIFICATION FairSpec
CONSTANTS
  Name = {"a", "f", "g", "k", "b", "p", "q", "l"}
  Root = "root"
  Up = "up"
  Parent <- MCParent
  Src <- MCSrc
  Before <- MCTrees
  Target <- MCTarget
  IgnoreMissing = TRUE
  Concurrency = 1
  NumCPU = 2
  MayVanish = {"p"}
  MayFail = {"diff", "file", "rm", "ln", "fixup"}
INVARIANTS TypeOK Mirror DirsFixed Untouched HardLinks
PROPERTIES Returns
CHECK_DEADLOCK FALSE
