\* One name, entries that differ in one attribute.
SPECIFICATION Spec
CONSTANTS
  a = a  b = b
  Name = {a}
  Info <- MCInfo
  Entries <- MCEntries
  Ignore = {"uid"}
  Deep <- MCEqual
  MayFail = {}
INVARIANTS CommonIdentical
