SPECIFICATION Spec
CONSTANTS
  Ops = {"CopyFile", "File", "Metadata"}
  Inode <- MCInode
  Initially <- MCInitially
  Sources <- MCSources
  Dests <- MCDests
  Aims <- MCAims
  Values <- MCValues
  Contents <- MCContents
  Chunk = 2
  Reflink = {"ok", "unsupported"}
  Caps = {"cap"}
  Fails = {"lstat", "create", "open", "clone", "range", "map", "close", "xattr", "chown", "chmod", "times"}
  MaxChanges = 2
INVARIANTS
  TypeOK
  Faithful
  OldOrNew
  MetaCloned
  NeverExposed
