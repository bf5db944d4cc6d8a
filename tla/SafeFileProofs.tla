--------------------------- MODULE SafeFileProofs ---------------------------
(***************************************************************************)
(* Proofs about SafeFile, for any number of SafeFiles, goroutines, writes   *)
(* and failures, when goroutines other than the owner only call Abort.      *)
(* The inductive invariant says what the owner may rely on where it is: the *)
(* invariants to be proved do not say why nobody else can write to a file   *)
(* that is being committed, nor that sf.err is nil from the check in Close  *)
(* up to the rename.                                                        *)
(***************************************************************************)
EXTENDS SafeFile, TLAPS

Early == {"new", "open", "ready", "write", "close", "swap"}
Committing == {"sync", "fclose", "rename"}
Late == {"cleanup", "remove", "defer", "abort", "end"}
Passive == {"idle", "abort", "cleanup", "remove", "end"}

(* Only owners write and close. *)
Roles ==
  \A p \in Proc :
    IF p \in Owner THEN pc[p] \in Early \cup Committing \cup Late
    ELSE pc[p] \in Passive /\ op[p] \in {"none", "abort"} /\ ret[p] = "none"

(* What an owner knows of its file where it is. *)
Stages ==
  \A p \in Owner :
    /\ pc[p] \in Early => closed[Of[p]] # 1
    /\ pc[p] \in Early \cup Committing => ret[p] = "none" /\ Of[p] \notin past
    /\ pc[p] \in {"write", "swap"} \cup Committing => ~err[Of[p]]
    /\ pc[p] \in Committing => closed[Of[p]] = 1
    /\ pc[p] \in {"fclose", "rename"} /\ ~crashed => synced[Of[p]] = n[Of[p]]

(* No chunk is lost but by a crash, no part of one follows without an error. *)
Whole ==
  \A f \in File :
    /\ ~crashed => n[f] = acked[f]
    /\ ~err[f] => ~torn[f]
    /\ synced[f] <= n[f]

(* A file that was given the real name is whole and on disk. *)
Committed ==
  /\ target \in past
  /\ \A f \in File \cap past : closed[f] = 1 /\ ~torn[f] /\ n[f] = acked[f] /\ synced[f] = n[f]

IInv == TypeOK /\ Roles /\ Stages /\ Whole /\ Committed /\ CloseTruth

OnlyAborts == OtherOps \subseteq {"abort"}

-----------------------------------------------------------------------------
(* The initial states satisfy the invariant. *)
LEMMA InitIInv == Init => IInv
<1> SUFFICES ASSUME Init PROVE IInv
  OBVIOUS
<1> USE Assumptions DEF Init
<1>1. TypeOK
  <2>1. target \in File \cup Before /\ past \subseteq File \cup Before /\ tmp \subseteq File
    OBVIOUS
  <2>2. torn \in [File -> BOOLEAN] /\ fdOpen \in [File -> BOOLEAN] /\ err \in [File -> BOOLEAN]
    OBVIOUS
  <2>3. n \in [File -> Nat] /\ synced \in [File -> Nat] /\ acked \in [File -> Nat]
        /\ calls \in [File -> 0 .. MaxWrites] /\ closed \in [File -> {-1, 0, 1}]
    OBVIOUS
  <2>4. pc \in [Proc -> Label]
    BY DEF Label
  <2> QED BY <2>1, <2>2, <2>3, <2>4 DEF TypeOK
<1>2. Roles
  BY DEF Roles, Early, Committing, Late, Passive
<1>3. Stages
  BY DEF Stages, Early, Committing
<1>4. Whole /\ Committed /\ CloseTruth
  BY DEF Whole, Committed, CloseTruth
<1> QED BY <1>1, <1>2, <1>3, <1>4 DEF IInv

(* Who is where: a goroutine inside Close past the check is an owner. *)
LEMMA OwnerAt ==
  ASSUME IInv, NEW p \in Proc, pc[p] \in Early \cup Committing \cup {"defer"}
  PROVE  p \in Owner
BY DEF IInv, Roles, Early, Committing, Passive

(* Stat preserves the invariant. *)
LEMMA StatStep ==
  ASSUME IInv, OnlyAborts, NEW p \in Proc, p \in Owner, ~crashed, Stat(p)
  PROVE  IInv'
<1> USE Assumptions DEF Stat, disk, sf, hist, Goto, Return, Early, Committing, Late, Passive
<1>1. TypeOK'
  BY DEF IInv, TypeOK, Label
<1>2. Roles'
  BY OwnerAt DEF IInv, TypeOK, Roles
<1>3. Stages'
  BY OwnerAt DEF IInv, TypeOK, Roles, Stages, Whole, Committed
<1>4. Whole'
  BY OwnerAt DEF IInv, TypeOK, Stages, Whole
<1>5. Committed'
  BY OwnerAt DEF IInv, TypeOK, Stages, Whole, Committed
<1>6. CloseTruth'
  BY OwnerAt DEF IInv, TypeOK, Roles, Stages, Committed, CloseTruth
<1> QED BY <1>1, <1>2, <1>3, <1>4, <1>5, <1>6 DEF IInv

(* Open preserves the invariant. *)
LEMMA OpenStep ==
  ASSUME IInv, OnlyAborts, NEW p \in Proc, p \in Owner, ~crashed, Open(p)
  PROVE  IInv'
<1> USE Assumptions DEF Open, hist, Goto, Return, Early, Committing, Late, Passive
<1>0. Of[p] \in File
  OBVIOUS
<1>1. TypeOK'
  <2>1. tmp' \subseteq File
    BY <1>0 DEF IInv, TypeOK
  <2>2. err' \in [File -> BOOLEAN] /\ fdOpen' \in [File -> BOOLEAN]
    BY <1>0 DEF IInv, TypeOK, Label
  <2>3. pc' \in [Proc -> Label] /\ ret' \in [Proc -> {"none", "refused", "error", "aborted", "nil"}]
    BY <1>0 DEF IInv, TypeOK, Label
  <2> QED BY <2>1, <2>2, <2>3 DEF IInv, TypeOK
<1>2. Roles'
  BY OwnerAt DEF IInv, TypeOK, Roles
<1>3. Stages'
  BY OwnerAt DEF IInv, TypeOK, Roles, Stages, Whole, Committed
<1>4. Whole'
  BY OwnerAt DEF IInv, TypeOK, Stages, Whole
<1>5. Committed'
  BY OwnerAt DEF IInv, TypeOK, Stages, Whole, Committed
<1>6. CloseTruth'
  BY OwnerAt DEF IInv, TypeOK, Roles, Stages, Committed, CloseTruth
<1> QED BY <1>1, <1>2, <1>3, <1>4, <1>5, <1>6 DEF IInv

(* WriteCheck preserves the invariant. *)
LEMMA WriteCheckStep ==
  ASSUME IInv, OnlyAborts, NEW p \in Proc, p \in Owner, ~crashed, WriteCheck(p)
  PROVE  IInv'
<1> USE Assumptions DEF WriteCheck, disk, sf, Goto, Return, Early, Committing, Late, Passive
<1>1. TypeOK'
  BY DEF IInv, TypeOK, Label
<1>2. Roles'
  BY OwnerAt DEF IInv, TypeOK, Roles
<1>3. Stages'
  BY OwnerAt DEF IInv, TypeOK, Roles, Stages, Whole, Committed
<1>4. Whole'
  BY OwnerAt DEF IInv, TypeOK, Stages, Whole
<1>5. Committed'
  BY OwnerAt DEF IInv, TypeOK, Stages, Whole, Committed
<1>6. CloseTruth'
  BY OwnerAt DEF IInv, TypeOK, Roles, Stages, Committed, CloseTruth
<1> QED BY <1>1, <1>2, <1>3, <1>4, <1>5, <1>6 DEF IInv

(* WriteData preserves the invariant. *)
LEMMA WriteDataStep ==
  ASSUME IInv, OnlyAborts, NEW p \in Proc, p \in Owner, ~crashed, WriteData(p)
  PROVE  IInv'
<1> USE Assumptions DEF WriteData, Goto, Return, Early, Committing, Late, Passive
<1>0. Of[p] \in File
  OBVIOUS
<1>1. TypeOK'
  <2>1. n' \in [File -> Nat] /\ acked' \in [File -> Nat]
    BY <1>0 DEF IInv, TypeOK
  <2>2. torn' \in [File -> BOOLEAN]
    BY <1>0 DEF IInv, TypeOK
  <2>3. err' \in [File -> BOOLEAN] /\ fdOpen' \in [File -> BOOLEAN]
    <3>1. (err' = [err EXCEPT ![Of[p]] = FALSE] \/ err' = [err EXCEPT ![Of[p]] = TRUE]) /\ fdOpen' = fdOpen
      OBVIOUS
    <3> QED BY ONLY <3>1, IInv DEF IInv, TypeOK
  <2>4. pc' \in [Proc -> Label] /\ ret' \in [Proc -> {"none", "refused", "error", "aborted", "nil"}]
    <3>1. pc' = [pc EXCEPT ![p] = "ready"] /\ ret' = ret
      OBVIOUS
    <3> QED BY ONLY <3>1, IInv DEF IInv, TypeOK, Label
  <2> QED BY <2>1, <2>2, <2>3, <2>4 DEF IInv, TypeOK
<1>2. Roles'
  BY OwnerAt DEF IInv, TypeOK, Roles
<1>3. Stages'
  <2> SUFFICES ASSUME NEW q \in Owner PROVE Stages!(q)'
    BY DEF Stages
  <2>1. CASE q = p
    BY <2>1 DEF IInv, TypeOK, Stages
  <2>2. CASE q # p
    <3>1. Of[q] # Of[p] /\ Of[q] \in File
      BY <2>2
    <3> QED BY <2>2, <3>1 DEF IInv, TypeOK, Stages
  <2> QED BY <2>1, <2>2
<1>4. Whole'
  BY OwnerAt DEF IInv, TypeOK, Stages, Whole
<1>5. Committed'
  BY OwnerAt DEF IInv, TypeOK, Stages, Whole, Committed
<1>6. CloseTruth'
  BY OwnerAt DEF IInv, TypeOK, Roles, Stages, Committed, CloseTruth
<1> QED BY <1>1, <1>2, <1>3, <1>4, <1>5, <1>6 DEF IInv

(* WriteOver preserves the invariant. *)
LEMMA WriteOverStep ==
  ASSUME IInv, OnlyAborts, NEW p \in Proc, p \in Owner, ~crashed, WriteOver(p)
  PROVE  IInv'
<1> USE Assumptions DEF WriteOver, disk, sf, hist, Goto, Return, Early, Committing, Late, Passive
<1>1. TypeOK'
  BY DEF IInv, TypeOK, Label
<1>2. Roles'
  BY OwnerAt DEF IInv, TypeOK, Roles
<1>3. Stages'
  BY OwnerAt DEF IInv, TypeOK, Roles, Stages, Whole, Committed
<1>4. Whole'
  BY OwnerAt DEF IInv, TypeOK, Stages, Whole
<1>5. Committed'
  BY OwnerAt DEF IInv, TypeOK, Stages, Whole, Committed
<1>6. CloseTruth'
  BY OwnerAt DEF IInv, TypeOK, Roles, Stages, Committed, CloseTruth
<1> QED BY <1>1, <1>2, <1>3, <1>4, <1>5, <1>6 DEF IInv

(* OwnerCalls preserves the invariant. *)
LEMMA OwnerCallsStep ==
  ASSUME IInv, OnlyAborts, NEW p \in Proc, p \in Owner, ~crashed, OwnerCalls(p)
  PROVE  IInv'
<1> USE Assumptions DEF OwnerCalls, disk, sf, hist, Goto, Return, Early, Committing, Late, Passive
<1>1. TypeOK'
  BY DEF IInv, TypeOK, Label
<1>2. Roles'
  BY OwnerAt DEF IInv, TypeOK, Roles
<1>3. Stages'
  BY OwnerAt DEF IInv, TypeOK, Roles, Stages, Whole, Committed
<1>4. Whole'
  BY OwnerAt DEF IInv, TypeOK, Stages, Whole
<1>5. Committed'
  BY OwnerAt DEF IInv, TypeOK, Stages, Whole, Committed
<1>6. CloseTruth'
  BY OwnerAt DEF IInv, TypeOK, Roles, Stages, Committed, CloseTruth
<1> QED BY <1>1, <1>2, <1>3, <1>4, <1>5, <1>6 DEF IInv

(* Defer preserves the invariant. *)
LEMMA DeferStep ==
  ASSUME IInv, OnlyAborts, NEW p \in Proc, p \in Owner, ~crashed, Defer(p)
  PROVE  IInv'
<1> USE Assumptions DEF Defer, disk, sf, hist, Goto, Return, Early, Committing, Late, Passive
<1>1. TypeOK'
  BY DEF IInv, TypeOK, Label
<1>2. Roles'
  BY OwnerAt DEF IInv, TypeOK, Roles
<1>3. Stages'
  BY OwnerAt DEF IInv, TypeOK, Roles, Stages, Whole, Committed
<1>4. Whole'
  BY OwnerAt DEF IInv, TypeOK, Stages, Whole
<1>5. Committed'
  BY OwnerAt DEF IInv, TypeOK, Stages, Whole, Committed
<1>6. CloseTruth'
  BY OwnerAt DEF IInv, TypeOK, Roles, Stages, Committed, CloseTruth
<1> QED BY <1>1, <1>2, <1>3, <1>4, <1>5, <1>6 DEF IInv

(* OtherCalls preserves the invariant. *)
LEMMA OtherCallsStep ==
  ASSUME IInv, OnlyAborts, NEW p \in Proc, ~crashed, OtherCalls(p)
  PROVE  IInv'
<1> USE Assumptions DEF OtherCalls, disk, sf, hist, OnlyAborts, Goto, Return, Early, Committing, Late, Passive
<1>1. TypeOK'
  BY DEF IInv, TypeOK, Label
<1>2. Roles'
  BY OwnerAt DEF IInv, TypeOK, Roles
<1>3. Stages'
  BY OwnerAt DEF IInv, TypeOK, Roles, Stages, Whole, Committed
<1>4. Whole'
  BY OwnerAt DEF IInv, TypeOK, Stages, Whole
<1>5. Committed'
  BY OwnerAt DEF IInv, TypeOK, Stages, Whole, Committed
<1>6. CloseTruth'
  BY OwnerAt DEF IInv, TypeOK, Roles, Stages, Committed, CloseTruth
<1> QED BY <1>1, <1>2, <1>3, <1>4, <1>5, <1>6 DEF IInv

(* AbortSwap preserves the invariant. *)
LEMMA AbortSwapStep ==
  ASSUME IInv, OnlyAborts, NEW p \in Proc, ~crashed, AbortSwap(p)
  PROVE  IInv'
<1> USE Assumptions DEF AbortSwap, After, disk, hist, Goto, Return, Early, Committing, Late, Passive
<1>1. TypeOK'
  BY DEF IInv, TypeOK, Label
<1>2. Roles'
  BY OwnerAt DEF IInv, TypeOK, Roles
<1>3. Stages'
  BY OwnerAt DEF IInv, TypeOK, Roles, Stages, Whole, Committed
<1>4. Whole'
  BY OwnerAt DEF IInv, TypeOK, Stages, Whole
<1>5. Committed'
  BY OwnerAt DEF IInv, TypeOK, Stages, Whole, Committed
<1>6. CloseTruth'
  BY OwnerAt DEF IInv, TypeOK, Roles, Stages, Committed, CloseTruth
<1> QED BY <1>1, <1>2, <1>3, <1>4, <1>5, <1>6 DEF IInv

(* CloseCheck preserves the invariant. *)
LEMMA CloseCheckStep ==
  ASSUME IInv, OnlyAborts, NEW p \in Proc, ~crashed, CloseCheck(p)
  PROVE  IInv'
<1> USE Assumptions DEF CloseCheck, ErrSeen, disk, sf, hist, Goto, Return, Early, Committing, Late, Passive
<1>1. TypeOK'
  BY DEF IInv, TypeOK, Label
<1>2. Roles'
  BY OwnerAt DEF IInv, TypeOK, Roles
<1>3. Stages'
  BY OwnerAt DEF IInv, TypeOK, Roles, Stages, Whole, Committed
<1>4. Whole'
  BY OwnerAt DEF IInv, TypeOK, Stages, Whole
<1>5. Committed'
  BY OwnerAt DEF IInv, TypeOK, Stages, Whole, Committed
<1>6. CloseTruth'
  BY OwnerAt DEF IInv, TypeOK, Roles, Stages, Committed, CloseTruth
<1> QED BY <1>1, <1>2, <1>3, <1>4, <1>5, <1>6 DEF IInv

(* CloseSwap preserves the invariant. *)
LEMMA CloseSwapStep ==
  ASSUME IInv, OnlyAborts, NEW p \in Proc, ~crashed, CloseSwap(p)
  PROVE  IInv'
<1> USE Assumptions DEF CloseSwap, After, disk, hist, Goto, Return, Early, Committing, Late, Passive
<1>1. TypeOK'
  BY DEF IInv, TypeOK, Label
<1>2. Roles'
  BY OwnerAt DEF IInv, TypeOK, Roles
<1>3. Stages'
  BY OwnerAt DEF IInv, TypeOK, Roles, Stages, Whole, Committed
<1>4. Whole'
  BY OwnerAt DEF IInv, TypeOK, Stages, Whole
<1>5. Committed'
  BY OwnerAt DEF IInv, TypeOK, Stages, Whole, Committed
<1>6. CloseTruth'
  BY OwnerAt DEF IInv, TypeOK, Roles, Stages, Committed, CloseTruth
<1> QED BY <1>1, <1>2, <1>3, <1>4, <1>5, <1>6 DEF IInv

(* Sync preserves the invariant. *)
LEMMA SyncStep ==
  ASSUME IInv, OnlyAborts, NEW p \in Proc, ~crashed, Sync(p)
  PROVE  IInv'
<1> USE Assumptions DEF Sync, Succeeds, Fail, OnError, hist, Goto, Return, Early, Committing, Late, Passive
<1>0. Of[p] \in File
  OBVIOUS
<1>1. TypeOK'
  <2>1. synced' \in [File -> Nat]
    BY <1>0 DEF IInv, TypeOK
  <2>2. err' \in [File -> BOOLEAN] /\ fdOpen' \in [File -> BOOLEAN]
    BY <1>0 DEF IInv, TypeOK, Label
  <2>3. pc' \in [Proc -> Label] /\ ret' \in [Proc -> {"none", "refused", "error", "aborted", "nil"}]
    BY <1>0 DEF IInv, TypeOK, Label
  <2> QED BY <2>1, <2>2, <2>3 DEF IInv, TypeOK
<1>2. Roles'
  BY OwnerAt DEF IInv, TypeOK, Roles
<1>3. Stages'
  BY OwnerAt DEF IInv, TypeOK, Roles, Stages, Whole, Committed
<1>4. Whole'
  BY OwnerAt DEF IInv, TypeOK, Stages, Whole
<1>5. Committed'
  BY OwnerAt DEF IInv, TypeOK, Stages, Whole, Committed
<1>6. CloseTruth'
  BY OwnerAt DEF IInv, TypeOK, Roles, Stages, Committed, CloseTruth
<1> QED BY <1>1, <1>2, <1>3, <1>4, <1>5, <1>6 DEF IInv

(* FClose preserves the invariant. *)
LEMMA FCloseStep ==
  ASSUME IInv, OnlyAborts, NEW p \in Proc, ~crashed, FClose(p)
  PROVE  IInv'
<1> USE Assumptions DEF FClose, Succeeds, Fail, OnError, disk, hist, Goto, Return, Early, Committing, Late, Passive
<1>1. TypeOK'
  BY DEF IInv, TypeOK, Label
<1>2. Roles'
  BY OwnerAt DEF IInv, TypeOK, Roles
<1>3. Stages'
  BY OwnerAt DEF IInv, TypeOK, Roles, Stages, Whole, Committed
<1>4. Whole'
  BY OwnerAt DEF IInv, TypeOK, Stages, Whole
<1>5. Committed'
  BY OwnerAt DEF IInv, TypeOK, Stages, Whole, Committed
<1>6. CloseTruth'
  BY OwnerAt DEF IInv, TypeOK, Roles, Stages, Committed, CloseTruth
<1> QED BY <1>1, <1>2, <1>3, <1>4, <1>5, <1>6 DEF IInv

(* Rename preserves the invariant. *)
LEMMA RenameStep ==
  ASSUME IInv, OnlyAborts, NEW p \in Proc, ~crashed, Rename(p)
  PROVE  IInv'
<1> USE Assumptions DEF Rename, Fail, OnError, hist, Goto, Return, Early, Committing, Late, Passive
<1>0. Of[p] \in File
  OBVIOUS
<1>1. TypeOK'
  <2>1. target' \in File \cup Before /\ past' \subseteq File \cup Before
    BY <1>0 DEF IInv, TypeOK
  <2>2. tmp' \subseteq File
    BY <1>0 DEF IInv, TypeOK
  <2>3. err' \in [File -> BOOLEAN] /\ fdOpen' \in [File -> BOOLEAN]
    BY <1>0 DEF IInv, TypeOK, Label
  <2>4. pc' \in [Proc -> Label] /\ ret' \in [Proc -> {"none", "refused", "error", "aborted", "nil"}]
    BY <1>0 DEF IInv, TypeOK, Label
  <2> QED BY <2>1, <2>2, <2>3, <2>4 DEF IInv, TypeOK
<1>2. Roles'
  BY OwnerAt DEF IInv, TypeOK, Roles
<1>3. Stages'
  BY OwnerAt DEF IInv, TypeOK, Roles, Stages, Whole, Committed
<1>4. Whole'
  BY OwnerAt DEF IInv, TypeOK, Stages, Whole
<1>5. Committed'
  BY OwnerAt DEF IInv, TypeOK, Stages, Whole, Committed
<1>6. CloseTruth'
  BY OwnerAt DEF IInv, TypeOK, Roles, Stages, Committed, CloseTruth
<1> QED BY <1>1, <1>2, <1>3, <1>4, <1>5, <1>6 DEF IInv

(* CleanupClose preserves the invariant. *)
LEMMA CleanupCloseStep ==
  ASSUME IInv, OnlyAborts, NEW p \in Proc, ~crashed, CleanupClose(p)
  PROVE  IInv'
<1> USE Assumptions DEF CleanupClose, disk, hist, Goto, Return, Early, Committing, Late, Passive
<1>1. TypeOK'
  BY DEF IInv, TypeOK, Label
<1>2. Roles'
  BY OwnerAt DEF IInv, TypeOK, Roles
<1>3. Stages'
  BY OwnerAt DEF IInv, TypeOK, Roles, Stages, Whole, Committed
<1>4. Whole'
  BY OwnerAt DEF IInv, TypeOK, Stages, Whole
<1>5. Committed'
  BY OwnerAt DEF IInv, TypeOK, Stages, Whole, Committed
<1>6. CloseTruth'
  BY OwnerAt DEF IInv, TypeOK, Roles, Stages, Committed, CloseTruth
<1> QED BY <1>1, <1>2, <1>3, <1>4, <1>5, <1>6 DEF IInv

(* CleanupRemove preserves the invariant. *)
LEMMA CleanupRemoveStep ==
  ASSUME IInv, OnlyAborts, NEW p \in Proc, ~crashed, CleanupRemove(p)
  PROVE  IInv'
<1> USE Assumptions DEF CleanupRemove, After, sf, hist, Goto, Return, Early, Committing, Late, Passive
<1>1. TypeOK'
  BY DEF IInv, TypeOK, Label
<1>2. Roles'
  BY OwnerAt DEF IInv, TypeOK, Roles
<1>3. Stages'
  BY OwnerAt DEF IInv, TypeOK, Roles, Stages, Whole, Committed
<1>4. Whole'
  BY OwnerAt DEF IInv, TypeOK, Stages, Whole
<1>5. Committed'
  BY OwnerAt DEF IInv, TypeOK, Stages, Whole, Committed
<1>6. CloseTruth'
  BY OwnerAt DEF IInv, TypeOK, Roles, Stages, Committed, CloseTruth
<1> QED BY <1>1, <1>2, <1>3, <1>4, <1>5, <1>6 DEF IInv

(* Crash preserves the invariant: what is in past is on disk. *)
LEMMA CrashStep ==
  ASSUME IInv, Crash
  PROVE  IInv'
<1> USE Assumptions DEF Crash, sf, proc, hist
<1>1. TypeOK'
  <2>1. n' \in [File -> Nat] /\ (target' \in File \cup Before)
    BY DEF IInv, TypeOK
  <2>2. crashed' \in BOOLEAN
    OBVIOUS
  <2> QED BY <2>1, <2>2 DEF IInv, TypeOK
<1>2. Roles' /\ CloseTruth'
  BY DEF IInv, Roles, CloseTruth
<1>3. Stages'
  BY DEF IInv, Stages
<1>4. Whole' /\ Committed'
  BY DEF IInv, TypeOK, Whole, Committed
<1> QED BY <1>1, <1>2, <1>3, <1>4 DEF IInv

(* Every step preserves the invariant. *)
LEMMA NextIInv ==
  ASSUME IInv, OnlyAborts, [Next]_vars
  PROVE  IInv'
<1>1. CASE UNCHANGED vars
  BY <1>1 DEF vars, disk, sf, proc, hist, IInv, TypeOK, Roles, Stages, Whole, Committed, CloseTruth
<1>2. CASE ~crashed /\ \E p \in Proc : OwnerStep(p) \/ CallStep(p)
  <2>1. PICK p \in Proc : OwnerStep(p) \/ CallStep(p)
    BY <1>2
  <2> QED BY <1>2, <2>1, StatStep, OpenStep, WriteCheckStep, WriteDataStep, WriteOverStep,
             OwnerCallsStep, DeferStep, OtherCallsStep, AbortSwapStep, CloseCheckStep, CloseSwapStep, SyncStep,
             FCloseStep, RenameStep, CleanupCloseStep, CleanupRemoveStep
          DEF OwnerStep, CallStep
<1>3. CASE Crash
  BY <1>3, CrashStep
<1> QED BY <1>1, <1>2, <1>3 DEF Next, Quiet

(* The inductive invariant holds in every reachable state. *)
THEOREM Inductive ==
  ASSUME OnlyAborts
  PROVE  Spec => []IInv
<1>1. IInv /\ [Next]_vars => IInv'
  BY NextIInv
<1> QED BY InitIInv, <1>1, PTL DEF Spec

(* Every variable keeps its type. *)
THEOREM TypeCorrect ==
  ASSUME OnlyAborts
  PROVE  Spec => []TypeOK
<1>1. IInv => TypeOK
  BY DEF IInv
<1> QED BY Inductive, <1>1, PTL

(* The real name never refers to a part of what was written, whatever fails, *)
(* whoever aborts, however many SafeFiles race for it, and after a crash.    *)
THEOREM AtomicHolds ==
  ASSUME OnlyAborts
  PROVE  Spec => []Atomic
<1>1. IInv => Atomic
  BY Assumptions DEF IInv, TypeOK, Committed, Atomic
<1> QED BY Inductive, <1>1, PTL

(* Close and Abort: the first one decides. *)
THEOREM SealedHolds ==
  ASSUME OnlyAborts
  PROVE  Spec => []Sealed
<1>1. IInv => Sealed
  BY DEF IInv, Committed, Sealed
<1> QED BY Inductive, <1>1, PTL

(* What Close returns tells whether the real name was given to the file. *)
THEOREM CloseTruthHolds ==
  ASSUME OnlyAborts
  PROVE  Spec => []CloseTruth
<1>1. IInv => CloseTruth
  BY DEF IInv
<1> QED BY Inductive, <1>1, PTL

-----------------------------------------------------------------------------
(* The refinement: what a step does to the state that AtomicFile sees. *)

AbsPast == {Data(x) : x \in past}
AbsFate == [f \in File |-> Fate(f)]

(* Data of what was committed does not change any more, so the past of the   *)
(* name changes only by what is added to it. *)
LEMMA SamePast ==
  ASSUME IInv, past' = past,
         \A f \in File \cap past : n'[f] = n[f] /\ torn'[f] = torn[f]
  PROVE  AbsPast' = AbsPast /\ (target' = target => Data(target)' = Data(target))
<1>1. \A x \in past : Data(x)' = Data(x)
  BY DEF Data
<1>2. AbsPast' = AbsPast
  BY <1>1 DEF AbsPast
<1> QED BY <1>1, <1>2 DEF IInv, Committed

(* A step that keeps what was written, the past of the name and every fate   *)
(* is a stuttering step. *)
LEMMA Stutter ==
  ASSUME IInv, UNCHANGED <<target, past, n, torn, acked>>, AbsFate' = AbsFate
  PROVE  UNCHANGED Promise!vars
<1>1. AbsPast' = AbsPast /\ Data(target)' = Data(target)
  BY SamePast
<1> QED BY <1>1 DEF Promise!vars, AbsPast, AbsFate

(* A SafeFile that is given up, while its fate was open, is aborted. *)
LEMMA GivesUp ==
  ASSUME IInv, UNCHANGED <<target, past, n, torn, acked>>, NEW f \in File,
         Fate(f) = "open", Fate(f)' = "aborted",
         \A g \in File \ {f} : Fate(g)' = Fate(g)
  PROVE  Promise!Next
<1>1. AbsPast' = AbsPast /\ Data(target)' = Data(target)
  BY SamePast
<1>2. AbsFate[f] = "open" /\ AbsFate' = [AbsFate EXCEPT ![f] = "aborted"]
  BY DEF AbsFate
<1>3. Promise!Abort(f)
  BY <1>1, <1>2 DEF Promise!Abort, AbsPast, AbsFate
<1> QED BY <1>3 DEF Promise!Next

(* A step that touches nothing Fate looks at keeps the fates. *)
LEMMA SameFate ==
  ASSUME UNCHANGED <<past, closed, err>>
  PROVE  AbsFate' = AbsFate
BY DEF AbsFate, Fate

(* Write: a chunk is accepted, or nothing AtomicFile sees happens. *)
LEMMA WriteImplements ==
  ASSUME IInv, OnlyAborts, NEW p \in Proc, p \in Owner, ~crashed, WriteData(p)
  PROVE  Promise!Next \/ UNCHANGED Promise!vars
<1> DEFINE f == Of[p]
<1>1. f \in File /\ f \notin past /\ closed[f] # 1
  BY Assumptions DEF WriteData, IInv, Stages, Early
<1>2. past' = past /\ target' = target /\ closed' = closed
  BY DEF WriteData
<1>3. \A g \in File \ {f} : n'[g] = n[g] /\ torn'[g] = torn[g] /\ err'[g] = err[g]
  <2>1. n' = n \/ n' = [n EXCEPT ![f] = @ + 1]
    BY DEF WriteData
  <2>2. torn' = torn \/ torn' = [torn EXCEPT ![f] = TRUE]
    BY DEF WriteData
  <2>3. err' = [err EXCEPT ![f] = FALSE] \/ err' = [err EXCEPT ![f] = TRUE]
    BY DEF WriteData
  <2> QED BY ONLY <2>1, <2>2, <2>3, IInv, <1>1 DEF IInv, TypeOK
<1>4. AbsPast' = AbsPast /\ Data(target)' = Data(target)
  BY <1>1, <1>2, <1>3, SamePast
<1>5. AbsFate' = AbsFate
  <2>1. Fate(f)' = Fate(f)
    BY <1>1, <1>2 DEF Fate
  <2>2. \A g \in File \ {f} : Fate(g)' = Fate(g)
    BY <1>2, <1>3 DEF Fate
  <2> QED BY <2>1, <2>2 DEF AbsFate
<1>6. CASE acked' = acked
  BY <1>4, <1>5, <1>6 DEF Promise!vars, AbsPast, AbsFate
<1>7. CASE acked' = [acked EXCEPT ![f] = @ + 1]
  <2>1. AbsFate[f] # "committed"
    BY <1>1 DEF AbsFate, Fate
  <2>2. Promise!Write(f)
    BY <1>4, <1>5, <1>7, <2>1 DEF Promise!Write, AbsPast, AbsFate
  <2> QED BY <1>1, <2>2 DEF Promise!Next
<1> QED BY <1>6, <1>7 DEF WriteData

(* Abort: the compare-and-swap that succeeds aborts. *)
LEMMA AbortImplements ==
  ASSUME IInv, NEW p \in Proc, AbortSwap(p)
  PROVE  Promise!Next \/ UNCHANGED Promise!vars
<1> DEFINE f == Of[p]
<1>1. f \in File /\ UNCHANGED <<target, past, n, torn, acked, err>>
  BY Assumptions DEF AbortSwap, disk, hist
<1>2. CASE closed[f] = 0
  <2>1. closed' = [closed EXCEPT ![f] = -1]
    BY <1>2 DEF AbortSwap
  <2>2. f \notin past
    BY <1>1, <1>2 DEF IInv, Committed
  <2>3. Fate(f) = "open" /\ Fate(f)' = "aborted"
    BY <1>1, <1>2, <2>1, <2>2 DEF Fate, IInv, TypeOK
  <2>4. \A g \in File \ {f} : Fate(g)' = Fate(g)
    BY <1>1, <2>1 DEF Fate, IInv, TypeOK
  <2> QED BY <1>1, <2>3, <2>4, GivesUp
<1>3. CASE closed[f] # 0
  BY <1>1, <1>3, SameFate, Stutter DEF AbortSwap
<1> QED BY <1>2, <1>3

(* Close past its compare-and-swap: an operation that succeeds short of the  *)
(* rename changes nothing, one that fails aborts. *)
LEMMA CommitStages ==
  ASSUME IInv, NEW p \in Proc, pc[p] \in Committing,
         UNCHANGED <<target, past, n, torn, acked, closed>>,
         NEW b \in BOOLEAN, err' = [err EXCEPT ![Of[p]] = b]
  PROVE  Promise!Next \/ UNCHANGED Promise!vars
<1> DEFINE f == Of[p]
<1>1. f \in File /\ f \notin past /\ closed[f] = 1 /\ ~err[f]
  BY OwnerAt, Assumptions DEF IInv, Stages
<1>2. \A g \in File \ {f} : Fate(g)' = Fate(g)
  BY DEF Fate, IInv, TypeOK
<1>3. err'[f] = b
  BY <1>1 DEF IInv, TypeOK
<1>4. Fate(f) = "open"
  BY <1>1 DEF Fate
<1>5. CASE b = FALSE
  <2>1. Fate(f)' = "open"
    BY <1>1, <1>3, <1>5 DEF Fate
  <2>2. AbsFate' = AbsFate
    BY <1>2, <1>4, <2>1 DEF AbsFate
  <2> QED BY <2>2, Stutter
<1>6. CASE b = TRUE
  <2>1. Fate(f)' = "aborted"
    BY <1>1, <1>3, <1>6 DEF Fate
  <2> QED BY <1>1, <1>2, <1>4, <2>1, GivesUp
<1> QED BY <1>5, <1>6

(* The rename commits. *)
LEMMA RenameImplements ==
  ASSUME IInv, OnlyAborts, NEW p \in Proc, ~crashed, Rename(p)
  PROVE  Promise!Next \/ UNCHANGED Promise!vars
<1> DEFINE f == Of[p]
<1>1. f \in File /\ f \notin past /\ closed[f] = 1 /\ ~err[f] /\ pc[p] \in Committing
  BY OwnerAt, Assumptions DEF Rename, IInv, Stages, Committing
<1>2. CASE target' = f /\ past' = past \cup {f} /\ err' = [err EXCEPT ![f] = FALSE]
  <2>1. UNCHANGED <<n, torn, acked, closed>>
    BY DEF Rename, hist
  <2>2. ~torn[f] /\ n[f] = acked[f]
    BY <1>1 DEF IInv, Whole
  <2>3. Data(target)' = <<f, acked[f]>>
    BY <1>1, <1>2, <2>1, <2>2 DEF Data
  <2>4. AbsPast' = AbsPast \cup {Data(target)'}
    <3>1. \A x : Data(x)' = Data(x)
      BY <2>1 DEF Data
    <3> QED BY <1>2, <3>1 DEF AbsPast
  <2>5. Fate(f) = "open" /\ Fate(f)' = "committed"
    BY <1>1, <1>2 DEF Fate
  <2>6. \A g \in File \ {f} : Fate(g)' = Fate(g)
    BY <1>2, <2>1 DEF Fate, IInv, TypeOK
  <2>7. AbsFate[f] = "open" /\ AbsFate' = [AbsFate EXCEPT ![f] = "committed"]
    BY <1>1, <2>5, <2>6 DEF AbsFate
  <2>8. Promise!Commit(f)
    BY <2>1, <2>3, <2>4, <2>7 DEF Promise!Commit, AbsPast, AbsFate
  <2> QED BY <1>1, <2>8 DEF Promise!Next
<1>3. CASE UNCHANGED <<target, past>> /\ err' = [err EXCEPT ![f] = TRUE]
  <2>1. UNCHANGED <<target, past, n, torn, acked, closed>>
    BY <1>3 DEF Rename, hist
  <2> QED BY <1>1, <1>3, <2>1, CommitStages
<1> QED BY <1>2, <1>3 DEF Rename, Fail

(* A crash brings back something the name referred to, unharmed. *)
LEMMA CrashImplements ==
  ASSUME IInv, Crash
  PROVE  Promise!Next
<1>1. past' = past /\ target' \in past /\ UNCHANGED <<torn, acked, closed, err>>
  BY DEF Crash, sf, hist
<1>2. \A f \in File \cap past : n'[f] = n[f] /\ torn'[f] = torn[f]
  BY Assumptions DEF Crash, IInv, TypeOK, Committed
<1>3. \A x \in past : Data(x)' = Data(x)
  BY <1>1, <1>2 DEF Data
<1>4. AbsPast' = AbsPast /\ AbsFate' = AbsFate
  BY <1>1, <1>2, SamePast, SameFate
<1>5. Data(target)' \in AbsPast
  <2>1. Data(target)' \in AbsPast'
    BY <1>1 DEF AbsPast
  <2> QED BY <2>1, <1>4
<1>6. Promise!Crash
  BY <1>1, <1>4, <1>5 DEF Promise!Crash, AbsPast, AbsFate
<1> QED BY <1>6 DEF Promise!Next

(* A step of a goroutine is a step of AtomicFile, or is not seen by it. *)
LEMMA StepImplements ==
  ASSUME IInv, OnlyAborts, NEW p \in Proc, ~crashed, OwnerStep(p) \/ CallStep(p)
  PROVE  Promise!Next \/ UNCHANGED Promise!vars
<1>1. CASE Stat(p) \/ Open(p) \/ WriteCheck(p) \/ WriteOver(p) \/ OwnerCalls(p) \/ Defer(p)
           \/ OtherCalls(p) \/ CloseCheck(p) \/ CleanupClose(p) \/ CleanupRemove(p)
  <2>1. UNCHANGED <<target, past, n, torn, acked, closed, err>>
    BY <1>1 DEF Stat, Open, WriteCheck, WriteOver, OwnerCalls, Defer, OtherCalls, CloseCheck,
                CleanupClose, CleanupRemove, disk, sf, hist
  <2> QED BY <2>1, SameFate, Stutter
<1>2. CASE OwnerStep(p) /\ WriteData(p)
  BY <1>2, WriteImplements DEF OwnerStep
<1>3. CASE AbortSwap(p)
  BY <1>3, AbortImplements
<1>4. CASE CloseSwap(p)
  <2>1. UNCHANGED <<target, past, n, torn, acked, err>> /\ Of[p] \in File
    BY <1>4, Assumptions DEF CloseSwap, disk, hist
  <2>2. ~err[Of[p]]
    BY <1>4, OwnerAt DEF CloseSwap, IInv, Stages, Early
  <2>3. \A g \in File : Fate(g)' = Fate(g)
    BY <1>4, <2>1, <2>2 DEF CloseSwap, Fate, IInv, TypeOK
  <2>4. AbsFate' = AbsFate
    BY <2>3 DEF AbsFate
  <2> QED BY <2>1, <2>4, Stutter
<1>5. CASE Sync(p)
  <2>1. pc[p] \in Committing /\ UNCHANGED <<target, past, n, torn, acked, closed>>
    BY <1>5 DEF Sync, Committing, hist
  <2>2. err' = [err EXCEPT ![Of[p]] = FALSE] \/ err' = [err EXCEPT ![Of[p]] = TRUE]
    BY <1>5 DEF Sync, Succeeds, Fail
  <2> QED BY <2>1, <2>2, CommitStages
<1>6. CASE FClose(p)
  <2>1. pc[p] \in Committing /\ UNCHANGED <<target, past, n, torn, acked, closed>>
    BY <1>6 DEF FClose, Committing, disk, hist
  <2>2. err' = [err EXCEPT ![Of[p]] = FALSE] \/ err' = [err EXCEPT ![Of[p]] = TRUE]
    BY <1>6 DEF FClose, Succeeds, Fail
  <2> QED BY <2>1, <2>2, CommitStages
<1>7. CASE Rename(p)
  BY <1>7, RenameImplements
<1> QED BY <1>1, <1>2, <1>3, <1>4, <1>5, <1>6, <1>7 DEF OwnerStep, CallStep

(* SafeFile keeps the promise: every behaviour is one of AtomicFile. *)
THEOREM Implements ==
  ASSUME OnlyAborts
  PROVE  Spec => AtomicSpec
<1>1. Init => Promise!Init
  <2> SUFFICES ASSUME Init PROVE Promise!Init
    OBVIOUS
  <2>1. Data(target) = <<target, 0>> /\ target \notin File
    BY Assumptions DEF Init, Data
  <2>2. AbsPast = {Data(target)}
    BY DEF Init, AbsPast
  <2>3. AbsFate = [f \in File |-> "open"]
    BY <2>1 DEF Init, AbsFate, Fate
  <2> QED BY <2>1, <2>2, <2>3 DEF Init, Promise!Init, AbsPast, AbsFate
<1>2. IInv /\ [Next]_vars => [Promise!Next]_Promise!vars
  <2> SUFFICES ASSUME IInv, [Next]_vars PROVE Promise!Next \/ UNCHANGED Promise!vars
    OBVIOUS
  <2>1. CASE UNCHANGED vars
    <3>1. UNCHANGED <<target, past, n, torn, acked, closed, err>>
      BY <2>1 DEF vars, disk, sf, hist
    <3> QED BY <3>1, SameFate, Stutter
  <2>2. CASE ~crashed /\ \E p \in Proc : OwnerStep(p) \/ CallStep(p)
    BY <2>2, StepImplements
  <2>3. CASE Crash
    BY <2>3, CrashImplements
  <2> QED BY <2>1, <2>2, <2>3 DEF Next, Quiet
<1> QED BY Inductive, <1>1, <1>2, PTL DEF Spec, AtomicSpec, Promise!Spec
-----------------------------------------------------------------------------
(* No temporary file is left, whatever goroutines other than the owner call. *)
(* A temporary file that exists is somebody's to remove: of the owner, who   *)
(* always gets to Abort, as long as sf.closed is 0, then of whoever won the  *)
(* compare-and-swap.                                                         *)

Holding == {"ready", "write", "close", "swap", "defer", "abort"}
Cleaning == Committing \cup {"cleanup", "remove"}

Names ==
  /\ tmp \subseteq File
  /\ closed \in [File -> {-1, 0, 1}]
  /\ pc \in [Proc -> Label]

(* Nobody has a SafeFile that is not made yet. *)
Unmade ==
  \A q \in Owner :
    pc[q] \in {"new", "open"} =>
      /\ closed[Of[q]] = 0
      /\ \A p \in Proc : Of[p] = Of[q] /\ p # q => pc[p] = "idle"

Removes(p, f) ==
  /\ Of[p] = f
  /\ pc[p] \in Cleaning \/ (p \in Owner /\ closed[f] = 0 /\ pc[p] \in Holding)

Cleaner == \A f \in tmp : \E p \in Proc : Removes(p, f)

TmpInv == Names /\ Unmade /\ Cleaner

(* At first there is no temporary file, and nobody has a SafeFile. *)
LEMMA InitTmpInv == Init => TmpInv
BY Assumptions DEF Init, TmpInv, Names, Unmade, Cleaner, Label

(* A step that leaves sf.closed alone, adds no temporary file, and lets whoever *)
(* removes a file go on to do so, keeps Cleaner. *)
LEMMA CleanerKept ==
  ASSUME TmpInv, NEW p \in Proc, UNCHANGED closed, NEW l \in Label, pc' = [pc EXCEPT ![p] = l],
         tmp' \subseteq tmp, \A f \in tmp' : Removes(p, f) => Removes(p, f)'
  PROVE  Cleaner'
<1> SUFFICES ASSUME NEW f \in tmp' PROVE \E q \in Proc : Removes(q, f)'
  BY DEF Cleaner
<1>1. PICK q \in Proc : Removes(q, f)
  BY DEF TmpInv, Cleaner
<1>2. CASE q = p
  BY <1>1, <1>2
<1>3. CASE q # p
  <2>1. pc'[q] = pc[q]
    BY <1>3 DEF TmpInv, Names
  <2> QED BY <1>1, <2>1 DEF Removes
<1> QED BY <1>2, <1>3

(* Every step of a goroutine preserves TmpInv. *)
LEMMA TmpStep ==
  ASSUME TmpInv, NEW p \in Proc, OwnerStep(p) \/ CallStep(p)
  PROVE  TmpInv'
<1> USE Assumptions DEF Goto, Label
<1>0. Of[p] \in File
  OBVIOUS
<1>1. CASE p \in Owner /\ Stat(p)
  <2>1. PICK l \in {"open", "end"} : pc' = [pc EXCEPT ![p] = l] /\ pc[p] = "new"
    BY <1>1 DEF Stat
  <2>2. UNCHANGED <<tmp, closed>>
    BY <1>1 DEF Stat, disk, sf
  <2>3. Cleaner'
    BY <2>1, <2>2, CleanerKept DEF Removes, Cleaning, Committing, Holding
  <2> QED BY <1>1, <2>1, <2>2, <2>3 DEF TmpInv, Names, Unmade
<1>2. CASE p \in Owner /\ Open(p)
  <2>1. UNCHANGED closed /\ pc[p] = "open"
    BY <1>2 DEF Open
  <2>2. CASE pc' = [pc EXCEPT ![p] = "ready"] /\ tmp' = tmp \cup {Of[p]}
    <3>1. pc'[p] = "ready" /\ closed'[Of[p]] = 0 /\ \A q \in Proc \ {p} : pc'[q] = pc[q]
      BY <1>2, <2>1, <2>2 DEF TmpInv, Names, Unmade
    <3>2. Removes(p, Of[p])'
      BY <1>2, <3>1 DEF Removes, Holding
    <3>3. \A q \in Proc, f \in File : Removes(q, f) => Removes(q, f)'
      BY <1>2, <2>1, <3>1 DEF Removes, Cleaning, Committing, Holding
    <3>4. Cleaner'
      BY <2>2, <3>2, <3>3 DEF TmpInv, Names, Cleaner
    <3> QED BY <1>0, <1>2, <2>1, <2>2, <3>4 DEF TmpInv, Names, Unmade
  <2>3. CASE pc' = [pc EXCEPT ![p] = "end"] /\ UNCHANGED tmp
    <3>1. Cleaner'
      BY <2>1, <2>3, CleanerKept DEF Removes, Cleaning, Committing, Holding
    <3> QED BY <1>2, <2>1, <2>3, <3>1 DEF TmpInv, Names, Unmade
  <2> QED BY <1>2, <2>2, <2>3 DEF Open
<1>3. CASE p \in Owner /\ (WriteCheck(p) \/ WriteData(p) \/ WriteOver(p) \/ OwnerCalls(p) \/ Defer(p))
  <2>1. PICK l \in {"write", "ready", "close", "abort"} :
          (pc' = [pc EXCEPT ![p] = l] \/ pc' = pc) /\ pc[p] \in {"ready", "write", "defer"}
    BY <1>3 DEF WriteCheck, WriteData, WriteOver, OwnerCalls, Defer
  <2>2. UNCHANGED <<tmp, closed>>
    BY <1>3 DEF WriteCheck, WriteData, WriteOver, OwnerCalls, Defer, disk, sf
  <2>3. CASE pc' = [pc EXCEPT ![p] = l]
    <3>1. Cleaner'
      BY <2>1, <2>2, <2>3, CleanerKept DEF TmpInv, Names, Removes, Cleaning, Committing, Holding
    <3> QED BY <1>3, <2>1, <2>2, <2>3, <3>1 DEF TmpInv, Names, Unmade
  <2>4. CASE pc' = pc
    BY <2>2, <2>4 DEF TmpInv, Names, Unmade, Cleaner, Removes
  <2> QED BY <2>1, <2>3, <2>4
<1>4. CASE OtherCalls(p)
  <2>1. PICK l \in {"close", "abort"} : pc' = [pc EXCEPT ![p] = l] /\ pc[p] = "idle"
    BY <1>4 DEF OtherCalls
  <2>2. UNCHANGED <<tmp, closed>>
    BY <1>4 DEF OtherCalls, disk, sf
  <2>3. Cleaner'
    BY <2>1, <2>2, CleanerKept DEF Removes, Cleaning, Committing, Holding
  <2>4. PICK q \in Owner : Of[q] = Of[p] /\ pc[q] \notin {"new", "open"}
    BY <1>4 DEF OtherCalls
  <2>5. Unmade'
    BY <2>1, <2>2, <2>4 DEF TmpInv, Names, Unmade
  <2> QED BY <2>1, <2>2, <2>3, <2>5 DEF TmpInv, Names
<1>5. CASE AbortSwap(p) \/ CloseSwap(p)
  <2>1. UNCHANGED tmp /\ pc[p] \in {"abort", "swap"}
    BY <1>5 DEF AbortSwap, CloseSwap, disk
  <2>2. \A q \in Owner : Of[q] = Of[p] => pc[q] \notin {"new", "open"}
    BY <2>1 DEF TmpInv, Unmade
  <2>3. CASE closed[Of[p]] = 0
    <3>1. PICK c \in {-1, 1}, l \in {"cleanup", "sync"} :
            closed' = [closed EXCEPT ![Of[p]] = c] /\ pc' = [pc EXCEPT ![p] = l]
      BY <1>5, <2>3 DEF AbortSwap, CloseSwap
    <3>2. \A f \in tmp : f # Of[p] => \E q \in Proc : Removes(q, f)'
      BY <1>0, <3>1 DEF TmpInv, Names, Cleaner, Removes
    <3>3. Removes(p, Of[p])'
      BY <3>1 DEF TmpInv, Names, Removes, Cleaning, Committing
    <3>4. Cleaner'
      BY <2>1, <3>2, <3>3 DEF Cleaner
    <3> QED BY <1>0, <2>1, <2>2, <3>1, <3>4 DEF TmpInv, Names, Unmade
  <2>4. CASE closed[Of[p]] # 0
    <3>1. PICK l \in {"defer", "end"} : pc' = [pc EXCEPT ![p] = l] /\ UNCHANGED closed
      BY <1>5, <2>4 DEF AbortSwap, CloseSwap, After
    <3>2. Cleaner'
      BY <2>1, <2>4, <3>1, CleanerKept DEF Removes, Cleaning, Committing
    <3> QED BY <2>1, <2>2, <3>1, <3>2 DEF TmpInv, Names, Unmade
  <2> QED BY <2>3, <2>4
<1>6. CASE CloseCheck(p) \/ Sync(p) \/ FClose(p) \/ Rename(p) \/ CleanupClose(p)
  <2>1. PICK l \in {"abort", "swap"} \cup Cleaning :
          /\ pc' = [pc EXCEPT ![p] = l]
          /\ pc[p] = "close" \/ (pc[p] \in Cleaning /\ l \in Cleaning)
    BY <1>6 DEF CloseCheck, Sync, FClose, Rename, CleanupClose, Succeeds, Fail, OnError, Cleaning, Committing
  <2>2. UNCHANGED closed /\ tmp' \subseteq tmp
    BY <1>6 DEF CloseCheck, Sync, FClose, Rename, CleanupClose, disk, sf
  <2>3. Cleaner'
    BY <2>1, <2>2, CleanerKept DEF TmpInv, Names, Removes, Cleaning, Committing, Holding
  <2> QED BY <2>1, <2>2, <2>3 DEF TmpInv, Names, Unmade, Cleaning, Committing
<1>7. CASE CleanupRemove(p)
  <2>1. PICK l \in {"defer", "end"} : pc' = [pc EXCEPT ![p] = l] /\ pc[p] = "remove"
    BY <1>7 DEF CleanupRemove, After
  <2>2. UNCHANGED closed /\ tmp' = tmp \ {Of[p]}
    BY <1>7 DEF CleanupRemove, sf
  <2>3. Cleaner'
    BY <2>1, <2>2, CleanerKept DEF Removes
  <2> QED BY <2>1, <2>2, <2>3 DEF TmpInv, Names, Unmade
<1> QED BY <1>1, <1>2, <1>3, <1>4, <1>5, <1>6, <1>7 DEF OwnerStep, CallStep

(* When every call has returned no temporary file is left, whichever of Close *)
(* and Abort the goroutines raced with and whatever failed.                  *)
THEOREM TmpGoneHolds == Spec => []TmpGone
<1>1. TmpInv /\ [Next]_vars => TmpInv'
  <2> SUFFICES ASSUME TmpInv, [Next]_vars PROVE TmpInv'
    OBVIOUS
  <2>1. CASE Quiet \/ Crash \/ UNCHANGED vars
    BY <2>1 DEF Quiet, Crash, vars, disk, sf, proc, TmpInv, Names, Unmade, Cleaner, Removes
  <2>2. CASE \E p \in Proc : OwnerStep(p) \/ CallStep(p)
    BY <2>2, TmpStep
  <2> QED BY <2>1, <2>2 DEF Next
<1>2. TmpInv => TmpGone
  BY DEF TmpInv, Cleaner, Removes, Cleaning, Committing, Holding, TmpGone
<1> QED BY InitTmpInv, <1>1, <1>2, PTL DEF Spec
=============================================================================
