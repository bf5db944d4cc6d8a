SPECIFICATION Spec
CONSTANTS
  Ops = {"CopyFile"}
  Inode = {1}
  Initially <- TwoBlocks
  Sources = {1}
  Dests <- MCDests
  Aims <- MCAims
  Values <- MCValues
  Contents = {}
  Chunk = 1
  Reflink = {"unsupported"}
  Caps = {}
  Fails = {}
  MaxChanges = 0
INVARIANT CopyWorks
