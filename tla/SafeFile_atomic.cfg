\* Two SafeFiles that overwrite one name; another goroutine may abort the
\* first; every system call may fail and the machine may go down.
SPECIFICATION Spec
CONSTANTS
  f1 = f1  f2 = f2  o1 = o1  o2 = o2  x1 = x1
  File = {f1, f2}
  Proc = {o1, o2, x1}
  Owner = {o1, o2}
  Of <- MCOf
  Overwrite = {f1, f2}
  Before = {"none", "old", "special"}
  OtherOps = {"abort"}
  Fails = {"stat", "open", "write", "sync", "fclose", "rename", "crash"}
  MaxWrites = 2
INVARIANTS TypeOK Atomic CloseTruth TmpGone
PROPERTIES AtomicSpec
