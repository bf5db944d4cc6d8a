\* Two names, with entries that differ in one attribute or in kind; user ids are
\* ignored; the checks of the roots and the walks may fail.
SPECIFICATION FairSpec
CONSTANTS
  a = a  b = b
  Name = {a, b}
  Info <- MCInfo
  Entries <- MCEntries
  Ignore = {"uid"}
  Deep <- MCEqual
  MayFail = {"lstat", "walk"}
INVARIANTS TypeOK Partition Sorted SeenWhole
PROPERTIES Returns
