\* WalkFunc with a symlink to a directory above, hard links, a symlink to a file
\* met elsewhere, a filter and an apply function that fail, a malformed pattern.
SPECIFICATION FairSpec
CONSTANTS
  Node <- LoopNode  Kind <- LoopKind  Children <- LoopChildren  Target <- LoopTarget
  Inode <- LoopInode  Dev <- OneDev  Filter <- LoopFilter
  Names <- RootR
  Flaky = {"s"}
  Exclude = {}
  ApplyFails = {"a"}
  BadGlob = TRUE
  Concurrency = 0
  NumCPU = 2
  FollowSymlinks = TRUE
  OneFS = FALSE
  IgnoreDuplicateInode = TRUE
  Type = {"file", "dir", "link"}
  ViaChan = FALSE
INVARIANTS OncePerInode Complete
PROPERTIES Termination
