------------------------------ MODULE SafeFile ------------------------------
(***************************************************************************)
(* fio.SafeFile (safefile.go): a file that is written under a temporary    *)
(* name and renamed to its real name by Close, or removed by Abort.        *)
(* Several SafeFiles may be made for the same name.  Each has an owner     *)
(* that creates it, writes, closes it and always aborts it at the end      *)
(* (`defer sf.Abort()'), and may have another goroutine that aborts or      *)
(* closes it.  A step is one system call or one access to sf.closed.       *)
(* sf.err is not atomic; where others only abort, its owner alone uses it. *)
(*                                                                         *)
(* The file system under it: a rename may be undone by a crash as long as  *)
(* the directory was not synced, and of a file's data only what was synced *)
(* is sure to be there after one.                                           *)
(***************************************************************************)
EXTENDS Integers

CONSTANTS
  File,        \* the SafeFiles
  Proc,        \* the goroutines that use them
  Of,          \* Of[p]: the SafeFile that p uses
  Owner,       \* the goroutines that create their SafeFile
  Overwrite,   \* the SafeFiles created with OPT_OVERWRITE
  Before,      \* what the name may refer to at first
  OtherOps,    \* what a goroutine that is not an owner calls
  Fails,       \* the operations that may fail
  MaxWrites    \* bound on the calls of Write of one owner

ASSUME Assumptions ==
  /\ Of \in [Proc -> File]
  /\ Owner \subseteq Proc /\ \A p, q \in Owner : Of[p] = Of[q] => p = q
  /\ Before \subseteq {"none", "old", "special"}
  /\ File \cap {"none", "old", "special"} = {}
  /\ OtherOps \subseteq {"close", "abort"}
  /\ MaxWrites \in Nat

VARIABLES
  target,    \* what the real name refers to: Before, or the data of a SafeFile
  past,      \* everything it has referred to
  tmp,       \* the SafeFiles whose temporary name exists
  n, torn,   \* data: chunks written, and whether a part of one follows them
  synced,    \* how many chunks are on disk for sure
  fdOpen,    \* the descriptor is open
  err,       \* sf.err # nil
  closed,    \* sf.closed: -1 aborted, 0 open, 1 closed
  pc,        \* where each goroutine is
  op,        \* the method a goroutine is in
  ret,       \* what New or Close returned to it
  calls,     \* calls of Write so far
  acked,     \* history: calls of Write that returned no error
  crashed    \* the machine went down

disk == <<target, past, tmp, n, torn, synced>>
sf == <<fdOpen, err, closed>>
proc == <<pc, op, ret>>
hist == <<calls, acked>>
vars == <<disk, sf, proc, hist, crashed>>

Goto(p, l) == pc' = [pc EXCEPT ![p] = l]
Return(p, r) == ret' = [ret EXCEPT ![p] = r]
May(o) == o \in Fails

Init ==
  /\ target \in Before
  /\ past = {target}
  /\ tmp = {}
  /\ n = [f \in File |-> 0] /\ synced = [f \in File |-> 0]
  /\ torn = [f \in File |-> FALSE]
  /\ fdOpen = [f \in File |-> FALSE]
  /\ err = [f \in File |-> FALSE]
  /\ closed = [f \in File |-> 0]
  /\ pc = [p \in Proc |-> IF p \in Owner THEN "new" ELSE "idle"]
  /\ op = [p \in Proc |-> "none"] /\ ret = [p \in Proc |-> "none"]
  /\ calls = [f \in File |-> 0] /\ acked = [f \in File |-> 0]
  /\ crashed = FALSE

-----------------------------------------------------------------------------
(* NewSafeFile: Stat of the real name, then OpenFile of the temporary one.  *)
(* A Stat that fails, for whatever reason, stands for a name that is free.  *)
Stat(p) ==
  /\ pc[p] = "new"
  /\ \/ /\ target = "none" \/ May("stat")
        /\ Goto(p, "open")
        /\ UNCHANGED ret
     \/ /\ target # "none"
        /\ IF Of[p] \in Overwrite /\ target # "special"
           THEN Goto(p, "open") /\ UNCHANGED ret
           ELSE Goto(p, "end") /\ Return(p, "refused")
  /\ UNCHANGED <<disk, sf, op, hist, crashed>>

Open(p) ==
  /\ pc[p] = "open"
  /\ \/ /\ tmp' = tmp \cup {Of[p]}
        /\ fdOpen' = [fdOpen EXCEPT ![Of[p]] = TRUE]
        /\ Goto(p, "ready")
        /\ UNCHANGED ret
     \/ /\ May("open")
        /\ Goto(p, "end")
        /\ Return(p, "refused")
        /\ UNCHANGED <<tmp, fdOpen>>
  /\ UNCHANGED <<target, past, n, torn, synced, err, closed, op, hist, crashed>>

-----------------------------------------------------------------------------
(* Write and WriteAt: the checks, which are the same, then the data *)

WriteCheck(p) ==
  LET f == Of[p] IN
  /\ pc[p] = "ready"
  /\ calls[f] < MaxWrites
  /\ calls' = [calls EXCEPT ![f] = @ + 1]
  /\ IF ~err[f] /\ closed[f] = 0 THEN Goto(p, "write") ELSE UNCHANGED pc
  /\ UNCHANGED <<disk, sf, op, ret, acked, crashed>>

(* mutant: the error of fullWrite is not kept *)
WriteDataForget(p) ==
  LET f == Of[p] IN
  /\ pc[p] = "write"
  /\ \/ /\ fdOpen[f]
        /\ n' = [n EXCEPT ![f] = @ + 1]
        /\ acked' = [acked EXCEPT ![f] = @ + 1]
        /\ UNCHANGED torn
     \/ /\ ~fdOpen[f] \/ May("write")
        /\ \/ UNCHANGED torn
           \/ fdOpen[f] /\ torn' = [torn EXCEPT ![f] = TRUE]
        /\ UNCHANGED <<n, acked>>
  /\ Goto(p, "ready")
  /\ UNCHANGED <<target, past, tmp, synced, fdOpen, err, closed, op, ret, calls, crashed>>

(* fullWrite; one that fails may leave a part of the chunk in the file.     *)
(* Either way its error, or nil, is the new sf.err.                         *)
WriteData(p) ==
  LET f == Of[p] IN
  /\ pc[p] = "write"
  /\ \/ /\ fdOpen[f]
        /\ n' = [n EXCEPT ![f] = @ + 1]
        /\ acked' = [acked EXCEPT ![f] = @ + 1]
        /\ err' = [err EXCEPT ![f] = FALSE]
        /\ UNCHANGED torn
     \/ /\ ~fdOpen[f] \/ May("write")
        /\ \/ UNCHANGED torn
           \/ fdOpen[f] /\ torn' = [torn EXCEPT ![f] = TRUE]
        /\ err' = [err EXCEPT ![f] = TRUE]
        /\ UNCHANGED <<n, acked>>
  /\ Goto(p, "ready")
  /\ UNCHANGED <<target, past, tmp, synced, fdOpen, closed, op, ret, calls, crashed>>

(* WriteAt at the end of the file is a Write, and so is one that fails; at  *)
(* an earlier offset it replaces a chunk, and leaves sf.err as it is.       *)
WriteOver(p) ==
  /\ pc[p] = "write"
  /\ fdOpen[Of[p]] /\ n[Of[p]] > 0
  /\ Goto(p, "ready")
  /\ UNCHANGED <<disk, sf, op, ret, hist, crashed>>

-----------------------------------------------------------------------------
(* Calls of Close and Abort *)

(* The owner closes, or gives up, which runs the deferred Abort. *)
OwnerCalls(p) ==
  /\ pc[p] = "ready"
  /\ \E o \in {"close", "abort"} : Goto(p, o) /\ op' = [op EXCEPT ![p] = o]
  /\ UNCHANGED <<disk, sf, ret, hist, crashed>>

(* Another goroutine has sf once NewSafeFile has returned it. *)
OtherCalls(p) ==
  /\ pc[p] = "idle"
  /\ \E q \in Owner : Of[q] = Of[p] /\ pc[q] \notin {"new", "open"} /\ ret[q] # "refused"
  /\ \E o \in OtherOps : Goto(p, o) /\ op' = [op EXCEPT ![p] = o]
  /\ UNCHANGED <<disk, sf, ret, hist, crashed>>

(* A method returns; the owner's Close is followed by its deferred Abort. *)
After(p) == IF op[p] = "close" /\ p \in Owner THEN "defer" ELSE "end"

Defer(p) ==
  /\ pc[p] = "defer"
  /\ Goto(p, "abort") /\ op' = [op EXCEPT ![p] = "abort"]
  /\ UNCHANGED <<disk, sf, ret, hist, crashed>>

(* mutant: sf.closed is decremented, not swapped *)
AbortAdd(p) ==
  /\ pc[p] = "abort"
  /\ closed' = [closed EXCEPT ![Of[p]] = @ - 1]
  /\ Goto(p, "cleanup")
  /\ UNCHANGED <<disk, fdOpen, err, op, ret, hist, crashed>>

(* Abort: the first to move sf.closed away from 0 cleans up. *)
AbortSwap(p) ==
  LET f == Of[p] IN
  /\ pc[p] = "abort"
  /\ IF closed[f] = 0
     THEN closed' = [closed EXCEPT ![f] = -1] /\ Goto(p, "cleanup")
     ELSE Goto(p, After(p)) /\ UNCHANGED closed
  /\ UNCHANGED <<disk, fdOpen, err, op, ret, hist, crashed>>

(* Close: a recorded error aborts and is returned. *)
ErrSeen(f) == err[f]

CloseCheck(p) ==
  /\ pc[p] = "close"
  /\ IF ErrSeen(Of[p]) THEN Goto(p, "abort") /\ Return(p, "error")
                       ELSE Goto(p, "swap") /\ UNCHANGED ret
  /\ UNCHANGED <<disk, sf, op, hist, crashed>>

(* mutant: a Close that comes second reports what sf.err says *)
CloseSwapQuiet(p) ==
  LET f == Of[p] IN
  /\ pc[p] = "swap"
  /\ IF closed[f] = 0
     THEN closed' = [closed EXCEPT ![f] = 1] /\ Goto(p, "sync") /\ UNCHANGED ret
     ELSE /\ Return(p, IF err[f] THEN "error" ELSE "nil")
          /\ Goto(p, After(p))
          /\ UNCHANGED closed
  /\ UNCHANGED <<disk, fdOpen, err, op, hist, crashed>>

CloseSwap(p) ==
  LET f == Of[p] IN
  /\ pc[p] = "swap"
  /\ IF closed[f] = 0
     THEN closed' = [closed EXCEPT ![f] = 1] /\ Goto(p, "sync") /\ UNCHANGED ret
     ELSE /\ Return(p, IF err[f] THEN "error" ELSE IF closed[f] < 0 THEN "aborted" ELSE "nil")
          /\ Goto(p, After(p))
          /\ UNCHANGED closed
  /\ UNCHANGED <<disk, fdOpen, err, op, hist, crashed>>

(* Close is past the compare-and-swap: an operation succeeds, or its error  *)
(* is kept in sf.err and returned, after the deferred cleanup *)
OnErrorReturn == "defer"  \* mutant: no deferred cleanup
OnError == "cleanup"

Succeeds(p, next) ==
  err' = [err EXCEPT ![Of[p]] = FALSE] /\ Goto(p, next) /\ UNCHANGED ret
Fail(p) ==
  err' = [err EXCEPT ![Of[p]] = TRUE] /\ Goto(p, OnError) /\ Return(p, "error")

(* mutant: Close does not sync *)
SyncSkipped(p) ==
  /\ pc[p] = "sync"
  /\ Succeeds(p, "fclose")
  /\ UNCHANGED <<disk, fdOpen, closed, op, hist, crashed>>

Sync(p) ==
  LET f == Of[p] IN
  /\ pc[p] = "sync"
  /\ \/ fdOpen[f] /\ Succeeds(p, "fclose") /\ synced' = [synced EXCEPT ![f] = n[f]]
     \/ (May("sync") \/ ~fdOpen[f]) /\ Fail(p) /\ UNCHANGED synced
  /\ UNCHANGED <<target, past, tmp, n, torn, fdOpen, closed, op, hist, crashed>>

FClose(p) ==
  /\ pc[p] = "fclose"
  /\ \/ fdOpen[Of[p]] /\ Succeeds(p, "rename")
     \/ (May("fclose") \/ ~fdOpen[Of[p]]) /\ Fail(p)
  /\ fdOpen' = [fdOpen EXCEPT ![Of[p]] = FALSE]
  /\ UNCHANGED <<disk, closed, op, hist, crashed>>

Rename(p) ==
  LET f == Of[p] IN
  /\ pc[p] = "rename"
  /\ \/ /\ f \in tmp
        /\ target' = f
        /\ past' = past \cup {f}
        /\ tmp' = tmp \ {f}
        /\ err' = [err EXCEPT ![f] = FALSE]
        /\ Goto(p, "cleanup") /\ Return(p, "nil")
     \/ /\ May("rename") \/ f \notin tmp
        /\ Fail(p)
        /\ UNCHANGED <<target, past, tmp>>
  /\ UNCHANGED <<n, torn, synced, fdOpen, closed, op, hist, crashed>>

(* cleanup: File.Close, which may be the second, and Remove of a temporary  *)
(* name that may be gone *)
CleanupClose(p) ==
  /\ pc[p] = "cleanup"
  /\ fdOpen' = [fdOpen EXCEPT ![Of[p]] = FALSE]
  /\ Goto(p, "remove")
  /\ UNCHANGED <<disk, err, closed, op, ret, hist, crashed>>

CleanupRemove(p) ==
  /\ pc[p] = "remove"
  /\ tmp' = tmp \ {Of[p]}
  /\ Goto(p, After(p))
  /\ UNCHANGED <<target, past, n, torn, synced, sf, op, ret, hist, crashed>>

-----------------------------------------------------------------------------
(* The machine goes down: nothing of this program runs again.  Any state of *)
(* the directory may be on disk, and of each file at least what was synced. *)
Crash ==
  /\ "crash" \in Fails
  /\ crashed' = TRUE
  /\ target' \in past
  /\ n' \in {m \in [File -> 0 .. MaxWrites] : \A f \in File : synced[f] <= m[f] /\ m[f] <= n[f]}
  /\ UNCHANGED <<past, tmp, torn, synced, sf, proc, hist>>

OwnerStep(p) ==
  p \in Owner /\ ( \/ Stat(p) \/ Open(p) \/ WriteCheck(p) \/ WriteData(p) \/ WriteOver(p)
                   \/ OwnerCalls(p) \/ Defer(p) )
CallStep(p) ==
  \/ OtherCalls(p) \/ AbortSwap(p) \/ CloseCheck(p) \/ CloseSwap(p) \/ Sync(p)
  \/ FClose(p) \/ Rename(p) \/ CleanupClose(p) \/ CleanupRemove(p)

Quiet ==
  /\ crashed \/ \A p \in Proc : pc[p] \in {"end", "idle"}
  /\ UNCHANGED vars

Next ==
  \/ ~crashed /\ \E p \in Proc : OwnerStep(p) \/ CallStep(p)
  \/ ~crashed /\ Crash
  \/ Quiet

Spec == Init /\ [][Next]_vars

-----------------------------------------------------------------------------
Label == {"new", "open", "ready", "write", "idle", "close", "swap", "sync", "fclose",
          "rename", "cleanup", "remove", "defer", "abort", "end"}

(* Every variable has the type of what it models; sf.closed in particular   *)
(* stays one of -1, 0 and 1, however often Close and Abort are called.       *)
TypeOK ==
  /\ target \in File \cup Before
  /\ past \subseteq File \cup Before
  /\ tmp \subseteq File
  /\ n \in [File -> Nat] /\ synced \in [File -> Nat]
  /\ torn \in [File -> BOOLEAN]
  /\ fdOpen \in [File -> BOOLEAN]
  /\ err \in [File -> BOOLEAN]
  /\ closed \in [File -> {-1, 0, 1}]
  /\ pc \in [Proc -> Label]
  /\ op \in [Proc -> {"none", "close", "abort"}]
  /\ ret \in [Proc -> {"none", "refused", "error", "aborted", "nil"}]
  /\ calls \in [File -> 0 .. MaxWrites] /\ acked \in [File -> Nat]
  /\ crashed \in BOOLEAN

(* Whatever fails, whoever aborts and whenever the machine goes down, the   *)
(* real name refers to something that was there before or to a file that    *)
(* holds every chunk Write accepted and no part of another one.             *)
Atomic == target \in File => ~torn[target] /\ n[target] = acked[target]

(* The first of Close and Abort decides: a SafeFile that was aborted never   *)
(* gets the real name, also when Close and Abort race.                      *)
Sealed == \A f \in File : closed[f] = -1 => f \notin past

(* What Close returns is what happened: nil if the real name was given to    *)
(* the file, and an error if it was not.                                    *)
CloseTruth ==
  \A p \in Proc :
    /\ ret[p] = "nil" => Of[p] \in past
    /\ ret[p] \in {"error", "aborted"} => Of[p] \notin past

(* When every call has returned, no temporary file is left.                 *)
TmpGone == ~crashed /\ (\A p \in Proc : pc[p] \in {"end", "idle"}) => tmp = {}

(* A file that is there when a SafeFile without OPT_OVERWRITE closes is left *)
(* alone (safefile.go:66-67; safefile_test.go:29, "bypassed overwrite        *)
(* protection").  It is not: the name is looked up before the file is made, *)
(* and a lookup that fails counts as a name that is free.                   *)
NoOverwrite ==
  [][\A f \in File \ Overwrite : target' = f /\ target # f /\ ~crashed' => target = "none"]_vars

(* The promise: AtomicFile, where a SafeFile is committed by the rename and  *)
(* aborted by Abort's compare-and-swap or by a Close that fails.            *)
Data(x) == IF x \in File THEN <<x, IF torn[x] THEN -1 ELSE n[x]>> ELSE <<x, 0>>
Fate(f) == IF f \in past THEN "committed"
           ELSE IF closed[f] = -1 \/ (closed[f] = 1 /\ err[f]) THEN "aborted" ELSE "open"

Promise == INSTANCE AtomicFile WITH
  SafeFile <- File,
  Before <- {<<b, 0>> : b \in Before},
  target <- Data(target),
  past <- {Data(x) : x \in past},
  text <- acked,
  outcome <- [f \in File |-> Fate(f)]

(* A SafeFile behaves as AtomicFile says.                                   *)
AtomicSpec == Promise!Spec
=============================================================================
