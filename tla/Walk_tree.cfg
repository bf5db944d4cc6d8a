\* Walk over one tree with two workers: an excluded file, a directory that may
\* fail, a mount point below, symlinks not followed.
SPECIFICATION FairSpec
CONSTANTS
  Node <- TreeNode  Kind <- TreeKind  Children <- TreeChildren  Target <- TreeTarget
  Inode <- TreeInode  Dev <- TreeDev  Filter <- PassAll
  Names <- RootR
  Flaky = {"b"}
  Exclude = {"x"}
  ApplyFails = {}
  BadGlob = FALSE
  Concurrency = 2
  NumCPU = 2
  FollowSymlinks = FALSE
  OneFS = TRUE
  IgnoreDuplicateInode = FALSE
  Type = {"file", "dir", "link"}
  ViaChan = TRUE
INVARIANTS TypeOK Balance NoSendOnClosed ParentFirst Complete OnlyExpected
PROPERTIES Termination
