--------------------------- MODULE WorkPoolProofs ---------------------------
(***************************************************************************)
(* Proofs about WorkPool, for every number of workers, tasks and clients,  *)
(* and whether or not the clients follow the protocol: the types (the      *)
(* WaitGroup never goes negative), the barrier, that each accepted unit is *)
(* in one place, and that no worker meets a closed error channel.          *)
(***************************************************************************)
EXTENDS WorkPool, FiniteSetTheorems, SequenceTheorems, TLAPS

(* The goroutines that have not called wg.Done *)
Active == {w \in Worker : worker[w] # "exited"}

InChan(t) == \E i \in 1 .. Len(ch) : ch[i] = t
Holds(w, t) == worker[w] = "run" /\ item[w] = t

(* Where the one copy of an accepted unit is *)
Place(t) ==
  /\ \A i, j \in 1 .. Len(ch) : ch[i] = t /\ ch[j] = t => i = j
  /\ \A v, w \in Worker : Holds(v, t) /\ Holds(w, t) => v = w
  /\ InChan(t) => ~InHand(t)
  /\ InChan(t) \/ InHand(t) => Accepted(t) /\ runs[t] = 0
  /\ ~Accepted(t) => runs[t] = 0
  /\ Accepted(t) /\ ~InChan(t) /\ ~InHand(t) => runs[t] = 1

Ledger == \A t \in Task : Place(t)

CountInv ==
  /\ wg = Cardinality(Active)
  /\ \A w \in Worker : worker[w] = "exited" => ch = <<>> /\ chClosed
  /\ echClosed => wg = 0
  /\ \A q \in Waiter : waiter[q] # "ready" => wg = 0

TodoInv == \A s \in Submitter : todo[s] \subseteq Assigned[s]

IInv == TypeOK /\ CountInv /\ TodoInv /\ Ledger

-----------------------------------------------------------------------------
(* There is at least one worker, and there are finitely many. *)
LEMMA WorkerFinite ==
  /\ PoolSize \in Nat \ {0}
  /\ Worker # {}
  /\ IsFiniteSet(Worker) /\ Cardinality(Worker) = PoolSize
<1>1. PoolSize \in Nat \ {0}
  BY Assumptions DEF PoolSize
<1>2. IsFiniteSet(1 .. PoolSize) /\ Cardinality(1 .. PoolSize) = PoolSize
  BY <1>1, FS_Interval
<1>3. 1 \in 1 .. PoolSize
  BY <1>1
<1> QED
  BY <1>1, <1>2, <1>3 DEF Worker

(* The active workers are finitely many, and they are none only when every *)
(* worker has called Done.                                                  *)
LEMMA ActiveFinite ==
  /\ IsFiniteSet(Active)
  /\ Cardinality(Active) \in Nat
  /\ Cardinality(Active) = 0 => \A w \in Worker : worker[w] = "exited"
<1>1. Active \subseteq Worker
  BY DEF Active
<1>2. IsFiniteSet(Active)
  BY <1>1, WorkerFinite, FS_Subset
<1>3. Cardinality(Active) \in Nat /\ (Cardinality(Active) = 0 <=> Active = {})
  BY <1>2, FS_EmptySet, FS_CardinalityType
<1> QED
  BY <1>2, <1>3 DEF Active

(* A worker that calls Done leaves one active worker less. *)
LEMMA ActiveDrop ==
  ASSUME NEW w \in Worker, TypeOK, worker[w] # "exited",
         worker' = [worker EXCEPT ![w] = "exited"]
  PROVE  Cardinality(Active') = Cardinality(Active) - 1 /\ Cardinality(Active) > 0
<1>1. w \in Active
  BY DEF Active
<1>2. Active' = Active \ {w}
  BY DEF Active, TypeOK
<1>3. Cardinality(Active \ {w}) = Cardinality(Active) - 1
  BY <1>1, ActiveFinite, FS_RemoveElement
<1>4. Cardinality(Active) # 0
  BY <1>1, ActiveFinite, FS_EmptySet
<1> QED
  BY <1>2, <1>3, <1>4, ActiveFinite

(* A step of a worker that neither was nor becomes "exited" leaves the     *)
(* count alone.                                                             *)
LEMMA ActiveSame ==
  ASSUME NEW w \in Worker, NEW p, TypeOK, worker[w] # "exited", p # "exited",
         worker' = [worker EXCEPT ![w] = p]
  PROVE  Active' = Active
BY DEF Active, TypeOK

-----------------------------------------------------------------------------
(* The initial state *)
LEMMA InitIInv == Init => IInv
<1> SUFFICES ASSUME Init PROVE IInv
  OBVIOUS
<1>1. (CHOOSE t \in Task : TRUE) \in Task
  BY Assumptions
<1>2. TypeOK
  <2>1. wg \in Nat
    BY WorkerFinite DEF Init, Added
  <2>2. item \in [Worker -> Task]
    BY <1>1 DEF Init
  <2>3. todo \in [Submitter -> SUBSET Task]
    BY Assumptions DEF Init
  <2>4. ch \in Seq(Task) /\ ech \in Seq(Error) /\ errs \in Seq(Error)
    BY DEF Init
  <2> QED
    BY <2>1, <2>2, <2>3, <2>4 DEF Init, TypeOK
<1>3. CountInv
  <2>1. Active = Worker
    BY DEF Init, Active
  <2> QED
    BY <2>1, WorkerFinite DEF Init, CountInv, Added
<1>4. TodoInv
  BY Assumptions DEF Init, TodoInv
<1>5. Ledger
  BY DEF Init, Ledger, Place, InChan, InHand, Holds, Accepted
<1> QED
  BY <1>2, <1>3, <1>4, <1>5 DEF IInv

-----------------------------------------------------------------------------
(* The types *)
LEMMA TypeStep == TypeOK /\ CountInv /\ Next => TypeOK'
<1> SUFFICES ASSUME TypeOK, CountInv, Next PROVE TypeOK'
  OBVIOUS
<1> USE DEF TypeOK, hist, clients, chans
<1>1. ASSUME NEW w \in Worker, Recv(w) PROVE TypeOK'
  <2>1. Head(ch) \in Task /\ Tail(ch) \in Seq(Task)
    BY <1>1, HeadTailProperties DEF Recv
  <2> QED
    BY <1>1, <2>1 DEF Recv
<1>2. ASSUME NEW w \in Worker, RangeEnd(w) PROVE TypeOK'
  <2>1. wg > 0
    BY <1>2, ActiveDrop DEF RangeEnd, CountInv
  <2> QED
    BY <1>2, <2>1 DEF RangeEnd
<1>3. ASSUME NEW w \in Worker, RunItem(w) PROVE TypeOK'
  <2>1. PICK o \in Outcome :
          /\ worker' = [worker EXCEPT ![w] = AfterRun[o]]
          /\ raised' = IF o \in {"ok", "throw"} THEN raised ELSE raised \cup {item[w]}
          /\ fatal' = IF o = "throw" THEN "panic_in_recover" ELSE fatal
    BY <1>3 DEF RunItem
  <2>2. AfterRun[o] \in {"recv", "send", "report", "recover", "dead"}
    BY Assumptions DEF Outcomes, AfterRun
  <2>3. worker' \in [Worker -> {"recv", "run", "report", "send", "recover", "exited", "dead"}]
    BY <2>1, <2>2
  <2>4. raised' \subseteq Error
    BY <2>1 DEF Error
  <2>5. runs' \in [Task -> Nat]
    BY <1>3 DEF RunItem
  <2> QED
    BY <1>3, <2>1, <2>3, <2>4, <2>5 DEF RunItem
<1>4. ASSUME NEW w \in Worker, ReportItem(w) PROVE TypeOK'
  BY <1>4 DEF ReportItem
<1>5. ASSUME NEW e \in Error, SendEch(e) PROVE ech' \in Seq(Error) /\ fatal' \in {fatal, "send_on_closed_ech"}
  <2>1. CASE echClosed
    BY <1>5, <2>1 DEF SendEch
  <2>2. CASE ~echClosed
    <3>1. ech' = Append(ech, e) /\ fatal' = fatal
      BY <1>5, <2>2 DEF SendEch
    <3>2. Append(ech, e) \in Seq(Error)
      BY AppendProperties
    <3> QED
      BY <3>1, <3>2
  <2> QED
    BY <2>1, <2>2
<1>6. ASSUME NEW w \in Worker, SendErr(w) PROVE TypeOK'
  <2>1. item[w] \in Error
    BY DEF Error
  <2> QED
    BY <1>5, <1>6, <2>1 DEF SendErr, AfterSend
<1>7. CASE Harvest
  <2>1. Head(ech) \in Error /\ Tail(ech) \in Seq(Error)
    BY <1>7, HeadTailProperties DEF Harvest
  <2> QED
    BY <1>7, <2>1 DEF Harvest
<1>8. CASE HarvestEnd
  BY <1>8 DEF HarvestEnd
<1>9. ASSUME NEW s \in Submitter, SubmitCheck(s) PROVE TypeOK'
  BY <1>9 DEF SubmitCheck
<1>10. ASSUME NEW s \in Submitter, SubmitSend(s) PROVE TypeOK'
  <2>1. CASE chClosed
    BY <1>10, <2>1 DEF SubmitSend
  <2>2. CASE ~chClosed
    <3>1. PICK t \in todo[s] :
            /\ ch' = Append(ch, t)
            /\ todo' = [todo EXCEPT ![s] = @ \ {t}]
      BY <1>10, <2>2 DEF SubmitSend
    <3>2. ch' \in Seq(Task)
      BY <3>1, AppendProperties
    <3>3. todo' \in [Submitter -> SUBSET Task]
      BY <3>1
    <3> QED
      BY <1>10, <2>2, <3>2, <3>3 DEF SubmitSend
  <2> QED
    BY <2>1, <2>2
<1>11. ASSUME NEW c \in Closer, CloseSwap(c) PROVE TypeOK'
  BY <1>11 DEF CloseSwap
<1>12. ASSUME NEW c \in Closer, CloseChan(c) PROVE TypeOK'
  BY <1>12 DEF CloseChan
<1>13. ASSUME NEW q \in Waiter, WaitWorkers(q) \/ WaitClose(q) \/ WaitHarvest(q) PROVE TypeOK'
  BY <1>13 DEF WaitWorkers, WaitClose, WaitHarvest
<1>14. ASSUME NEW r \in Reporter, ErrCheck(r) PROVE TypeOK'
  BY <1>14 DEF ErrCheck, Error
<1>15. ASSUME NEW r \in Reporter, ErrSend(r) PROVE TypeOK'
  <2>1. r \in Error
    BY DEF Error
  <2> QED
    BY <1>5, <1>15, <2>1 DEF ErrSend
<1>16. CASE Quiet
  BY <1>16 DEF Quiet, vars
<1> QED
  BY <1>1, <1>2, <1>3, <1>4, <1>6, <1>7, <1>8, <1>9, <1>10, <1>11, <1>12, <1>13, <1>14, <1>15, <1>16
  DEF Next, WorkerStep, HarvesterStep, SubmitStep, CloseStep, WaitStep, ErrStep

-----------------------------------------------------------------------------
(* The counter of the WaitGroup, and what a closed channel tells *)
LEMMA CountStep == TypeOK /\ CountInv /\ Next => CountInv'
<1> SUFFICES ASSUME TypeOK, CountInv, Next PROVE CountInv'
  OBVIOUS
<1> USE DEF CountInv, hist, clients, chans
<1>1. ASSUME NEW w \in Worker, Recv(w) PROVE CountInv'
  <2>1. Active' = Active
    BY <1>1, ActiveSame DEF Recv
  <2>2. \A v \in Worker : worker'[v] # "exited"
    BY <1>1 DEF Recv, TypeOK
  <2> QED
    BY <1>1, <2>1, <2>2 DEF Recv
<1>2. ASSUME NEW w \in Worker, RangeEnd(w) PROVE CountInv'
  <2>1. Cardinality(Active') = Cardinality(Active) - 1 /\ Cardinality(Active) > 0
    BY <1>2, ActiveDrop DEF RangeEnd
  <2>2. wg' = Cardinality(Active') /\ wg # 0
    BY <1>2, <2>1 DEF RangeEnd
  <2>3. ch = <<>> /\ chClosed
    BY <1>2 DEF RangeEnd, RangeOver
  <2> QED
    BY <1>2, <2>2, <2>3 DEF RangeEnd
<1>3. ASSUME NEW w \in Worker, NEW p, p # "exited", worker[w] # "exited",
             worker' = [worker EXCEPT ![w] = p],
             UNCHANGED <<wg, ch, chClosed, echClosed, waiter>>
      PROVE  CountInv'
  <2>1. Active' = Active
    BY <1>3, ActiveSame
  <2>2. \A v \in Worker : worker'[v] = "exited" => worker[v] = "exited"
    BY <1>3 DEF TypeOK
  <2> QED
    BY <1>3, <2>1, <2>2
<1>4. ASSUME NEW w \in Worker, RunItem(w) PROVE CountInv'
  <2>1. PICK o \in Outcome : worker' = [worker EXCEPT ![w] = AfterRun[o]]
    BY <1>4 DEF RunItem
  <2>2. AfterRun[o] # "exited"
    BY Assumptions DEF Outcomes, AfterRun
  <2> QED
    BY <1>3, <1>4, <2>1, <2>2 DEF RunItem
<1>5. ASSUME NEW w \in Worker, ReportItem(w) PROVE CountInv'
  BY <1>3, <1>5 DEF ReportItem
<1>6. ASSUME NEW w \in Worker, SendErr(w) PROVE CountInv'
  BY <1>3, <1>6 DEF SendErr, AfterSend
<1>7. ASSUME UNCHANGED <<wg, worker, ch, chClosed, echClosed, waiter>> PROVE CountInv'
  BY <1>7 DEF Active
<1>8. CASE HarvesterStep
  BY <1>7, <1>8 DEF HarvesterStep, Harvest, HarvestEnd
<1>9. ASSUME NEW s \in Submitter, SubmitCheck(s) PROVE CountInv'
  BY <1>7, <1>9 DEF SubmitCheck
<1>10. ASSUME NEW s \in Submitter, SubmitSend(s) PROVE CountInv'
  <2>1. CASE chClosed
    BY <1>7, <1>10, <2>1 DEF SubmitSend
  <2>2. CASE ~chClosed
    <3>1. Active' = Active
      BY <1>10 DEF SubmitSend, Active
    <3> QED
      BY <1>10, <2>2, <3>1 DEF SubmitSend
  <2> QED
    BY <2>1, <2>2
<1>11. ASSUME NEW c \in Closer, CloseSwap(c) PROVE CountInv'
  BY <1>7, <1>11 DEF CloseSwap
<1>12. ASSUME NEW c \in Closer, CloseChan(c) PROVE CountInv'
  <2>1. Active' = Active
    BY <1>12 DEF CloseChan, Active
  <2> QED
    BY <1>12, <2>1 DEF CloseChan
<1>13. ASSUME NEW q \in Waiter, WaitWorkers(q) \/ WaitClose(q) \/ WaitHarvest(q) PROVE CountInv'
  <2>1. Active' = Active
    BY <1>13 DEF WaitWorkers, WaitClose, WaitHarvest, Active
  <2>2. wg = 0
    BY <1>13 DEF WaitWorkers, WaitClose, WaitHarvest, WorkersDone
  <2> QED
    BY <1>13, <2>1, <2>2 DEF WaitWorkers, WaitClose, WaitHarvest
<1>14. ASSUME NEW r \in Reporter, ErrStep(r) PROVE CountInv'
  BY <1>7, <1>14 DEF ErrStep, ErrCheck, ErrSend
<1>15. CASE Quiet
  BY <1>7, <1>15 DEF Quiet, vars
<1> QED
  BY <1>1, <1>2, <1>4, <1>5, <1>6, <1>8, <1>9, <1>10, <1>11, <1>12, <1>13, <1>14, <1>15
  DEF Next, WorkerStep, SubmitStep, CloseStep, WaitStep

-----------------------------------------------------------------------------
(* The units still to submit *)
LEMMA TodoStep == TypeOK /\ TodoInv /\ Next => TodoInv'
<1> SUFFICES ASSUME TypeOK, TodoInv, Next PROVE TodoInv'
  OBVIOUS
<1> USE DEF TodoInv, hist, clients, chans
<1>1. ASSUME NEW s \in Submitter, SubmitSend(s) PROVE TodoInv'
  <2>1. UNCHANGED todo \/ \E t \in todo[s] : todo' = [todo EXCEPT ![s] = @ \ {t}]
    BY <1>1 DEF SubmitSend
  <2> QED
    BY <2>1 DEF TypeOK
<1>2. ASSUME NEW s \in Submitter, SubmitCheck(s) PROVE TodoInv'
  BY <1>2 DEF SubmitCheck
<1>3. ASSUME NEW w \in Worker, WorkerStep(w) PROVE TodoInv'
  BY <1>3 DEF WorkerStep, Recv, RangeEnd, RunItem, ReportItem, SendErr
<1>4. CASE HarvesterStep
  BY <1>4 DEF HarvesterStep, Harvest, HarvestEnd
<1>5. ASSUME NEW c \in Closer, CloseStep(c) PROVE TodoInv'
  BY <1>5 DEF CloseStep, CloseSwap, CloseChan
<1>6. ASSUME NEW q \in Waiter, WaitStep(q) PROVE TodoInv'
  BY <1>6 DEF WaitStep, WaitWorkers, WaitClose, WaitHarvest
<1>7. ASSUME NEW r \in Reporter, ErrStep(r) PROVE TodoInv'
  BY <1>7 DEF ErrStep, ErrCheck, ErrSend
<1>8. CASE Quiet
  BY <1>8 DEF Quiet, vars
<1> QED
  BY <1>1, <1>2, <1>3, <1>4, <1>5, <1>6, <1>7, <1>8 DEF Next, SubmitStep

(* Where a unit is does not change if the channel, the counts and the set  *)
(* of running workers do not.                                               *)
LEMMA LedgerSame ==
  ASSUME Ledger, UNCHANGED <<ch, todo, runs>>,
         \A w \in Worker, t \in Task : Holds(w, t)' <=> Holds(w, t)
  PROVE  Ledger'
<1>1. \A t \in Task : InChan(t)' <=> InChan(t)
  BY DEF InChan
<1>2. \A t \in Task : InHand(t)' <=> InHand(t)
  BY DEF InHand, Holds
<1>3. \A t \in Task : Accepted(t)' <=> Accepted(t)
  BY DEF Accepted
<1> QED
  BY <1>1, <1>2, <1>3 DEF Ledger, Place

(* A unit leaves the channel for the hand of one worker. *)
LEMMA LedgerRecv ==
  ASSUME TypeOK, Ledger, NEW w \in Worker, Recv(w)
  PROVE  Ledger'
<1> DEFINE t0 == Head(ch)
<1>1. ch # <<>> /\ ch' = Tail(ch) /\ UNCHANGED <<todo, runs>>
  BY DEF Recv, clients, hist
<1>2. t0 \in Task /\ t0 = ch[1] /\ Len(ch) \in Nat \ {0}
  BY <1>1, HeadTailProperties DEF TypeOK
<1>3. Len(ch') = Len(ch) - 1 /\ \A i \in 1 .. Len(ch') : i + 1 \in 1 .. Len(ch) /\ ch'[i] = ch[i + 1]
  BY <1>1, <1>2, HeadTailProperties DEF TypeOK
<1>4. \A v \in Worker, t \in Task :
        Holds(v, t)' <=> (v = w /\ t = t0) \/ (v # w /\ Holds(v, t))
  BY DEF Recv, Holds, TypeOK
<1>5. InChan(t0) /\ ~InHand(t0) /\ Accepted(t0) /\ runs[t0] = 0
  <2>1. InChan(t0)
    BY <1>2 DEF InChan
  <2> QED
    BY <2>1, <1>2 DEF Ledger, Place
<1>6. \A t \in Task : Accepted(t)' <=> Accepted(t)
  BY <1>1 DEF Accepted
<1> SUFFICES ASSUME NEW t \in Task PROVE Place(t)'
  BY DEF Ledger
<1>7. \A i, j \in 1 .. Len(ch') : ch'[i] = t /\ ch'[j] = t => i = j
  <2> SUFFICES ASSUME NEW i \in 1 .. Len(ch'), NEW j \in 1 .. Len(ch'), ch'[i] = t, ch'[j] = t
               PROVE  i = j
    OBVIOUS
  <2>1. ch[i + 1] = t /\ ch[j + 1] = t /\ i + 1 \in 1 .. Len(ch) /\ j + 1 \in 1 .. Len(ch)
    BY <1>3
  <2>2. i + 1 = j + 1
    BY <2>1 DEF Ledger, Place
  <2> QED
    BY <2>2
<1>8. CASE t = t0
  <2>1. ~InChan(t)'
    <3> SUFFICES ASSUME NEW i \in 1 .. Len(ch'), ch'[i] = t PROVE FALSE
      BY DEF InChan
    <3>1. ch[i + 1] = t /\ i + 1 \in 1 .. Len(ch) /\ ch[1] = t /\ 1 \in 1 .. Len(ch)
      BY <1>2, <1>3, <1>8
    <3>2. i + 1 = 1
      BY <3>1 DEF Ledger, Place
    <3> QED
      BY <3>2
  <2>2. InHand(t)'
    BY <1>4, <1>8 DEF InHand, Holds
  <2>3. \A v \in Worker : ~Holds(v, t)
    BY <1>5, <1>8 DEF InHand, Holds
  <2>4. \A u, v \in Worker : Holds(u, t)' /\ Holds(v, t)' => u = v
    BY <1>4, <2>3
  <2> QED
    BY <1>1, <1>5, <1>6, <1>7, <1>8, <2>1, <2>2, <2>4 DEF Place
<1>9. CASE t # t0
  <2>1. InChan(t)' <=> InChan(t)
    <3>1. ASSUME InChan(t)' PROVE InChan(t)
      BY <1>3, <3>1 DEF InChan
    <3>2. ASSUME InChan(t) PROVE InChan(t)'
      <4>1. PICK i \in 1 .. Len(ch) : ch[i] = t
        BY <3>2 DEF InChan
      <4>2. i # 1
        BY <1>2, <1>9, <4>1
      <4>3. i - 1 \in 1 .. Len(ch') /\ ch'[i - 1] = ch[(i - 1) + 1]
        BY <1>2, <1>3, <4>1, <4>2
      <4> QED
        BY <4>1, <4>3 DEF InChan
    <3> QED
      BY <3>1, <3>2
  <2>2. \A v \in Worker : Holds(v, t)' <=> Holds(v, t)
    <3>1. ~Holds(w, t)
      BY DEF Recv, Holds
    <3> QED
      BY <1>4, <1>9, <3>1
  <2>3. InHand(t)' <=> InHand(t)
    BY <2>2 DEF InHand, Holds
  <2>4. Place(t)
    BY DEF Ledger
  <2> QED
    BY <1>1, <1>6, <1>7, <2>1, <2>2, <2>3, <2>4 DEF Place
<1> QED
  BY <1>8, <1>9

(* The worker that holds a unit is the one that runs it, once. *)
LEMMA LedgerRun ==
  ASSUME TypeOK, Ledger, NEW w \in Worker, RunItem(w)
  PROVE  Ledger'
<1> DEFINE t0 == item[w]
<1>1. t0 \in Task /\ Holds(w, t0) /\ InHand(t0)
  BY DEF RunItem, TypeOK, Holds, InHand
<1>2. UNCHANGED <<ch, todo, item>> /\ runs' = [runs EXCEPT ![t0] = @ + 1]
  BY DEF RunItem, clients, chans
<1>3. worker'[w] # "run" /\ \A v \in Worker : v # w => worker'[v] = worker[v]
  <2>1. PICK o \in Outcome : worker' = [worker EXCEPT ![w] = AfterRun[o]]
    BY DEF RunItem
  <2>2. AfterRun[o] # "run"
    BY Assumptions DEF Outcomes, AfterRun
  <2> QED
    BY <2>1, <2>2 DEF TypeOK
<1>4. \A v \in Worker, t \in Task : Holds(v, t)' <=> v # w /\ Holds(v, t)
  BY <1>2, <1>3 DEF Holds
<1>5. \A t \in Task : (InChan(t)' <=> InChan(t)) /\ (Accepted(t)' <=> Accepted(t))
  BY <1>2 DEF InChan, Accepted
<1> SUFFICES ASSUME NEW t \in Task PROVE Place(t)'
  BY DEF Ledger
<1>6. Place(t)
  BY DEF Ledger
<1>7. CASE t = t0
  <2>1. ~InHand(t)'
    BY <1>1, <1>4, <1>6, <1>7 DEF InHand, Holds, Place
  <2>2. Accepted(t) /\ ~InChan(t) /\ runs[t] = 0 /\ runs'[t] = 1
    BY <1>1, <1>2, <1>6, <1>7 DEF Place, TypeOK
  <2> QED
    BY <1>2, <1>4, <1>5, <1>6, <2>1, <2>2 DEF Place
<1>8. CASE t # t0
  <2>1. \A v \in Worker : Holds(v, t)' <=> Holds(v, t)
    BY <1>4, <1>8 DEF Holds
  <2>2. InHand(t)' <=> InHand(t)
    BY <2>1 DEF InHand, Holds
  <2>3. runs'[t] = runs[t]
    BY <1>2, <1>8 DEF TypeOK
  <2> QED
    BY <1>2, <1>5, <1>6, <2>1, <2>2, <2>3 DEF Place
<1> QED
  BY <1>7, <1>8

(* A submitted unit enters the channel, and had not been anywhere before. *)
LEMMA LedgerSubmit ==
  ASSUME TypeOK, TodoInv, Ledger, NEW s \in Submitter, SubmitSend(s)
  PROVE  Ledger'
<1>1. UNCHANGED <<worker, item, runs>>
  BY DEF SubmitSend, hist
<1>2. \A v \in Worker, t \in Task : Holds(v, t)' <=> Holds(v, t)
  BY <1>1 DEF Holds
<1>3. CASE chClosed
  <2>1. UNCHANGED <<ch, todo>>
    BY <1>3 DEF SubmitSend
  <2> QED
    BY <1>1, <1>2, <2>1, LedgerSame
<1>4. CASE ~chClosed
  <2>1. PICK t0 \in todo[s] : ch' = Append(ch, t0) /\ todo' = [todo EXCEPT ![s] = @ \ {t0}]
    BY <1>4 DEF SubmitSend
  <2>2. t0 \in Task /\ t0 \in Assigned[s]
    BY <2>1 DEF TypeOK, TodoInv
  <2>3. ~Accepted(t0)
    BY <2>1, <2>2, Assumptions DEF Accepted
  <2>4. ~InChan(t0) /\ ~InHand(t0) /\ runs[t0] = 0
    BY <2>2, <2>3 DEF Ledger, Place
  <2>5. /\ Len(ch) \in Nat /\ Len(ch') = Len(ch) + 1 /\ ch'[Len(ch) + 1] = t0
        /\ \A i \in 1 .. Len(ch) : ch'[i] = ch[i]
    BY <2>1, <2>2, AppendProperties, LenProperties DEF TypeOK
  <2>6. \A t \in Task : Accepted(t)' <=> Accepted(t) \/ t = t0
    BY <2>1, <2>2 DEF Accepted, TypeOK
  <2>7. \A t \in Task : InChan(t)' <=> InChan(t) \/ t = t0
    BY <2>5 DEF InChan
  <2>8. \A t \in Task : InHand(t)' <=> InHand(t)
    BY <1>2 DEF InHand, Holds
  <2> SUFFICES ASSUME NEW t \in Task PROVE Place(t)'
    BY DEF Ledger
  <2>9. Place(t)
    BY DEF Ledger
  <2>10. \A i, j \in 1 .. Len(ch') : ch'[i] = t /\ ch'[j] = t => i = j
    <3>1. CASE t = t0
      BY <2>4, <2>5, <3>1 DEF InChan
    <3>2. CASE t # t0
      BY <2>5, <2>9, <3>2 DEF Place
    <3> QED
      BY <3>1, <3>2
  <2> QED
    BY <1>1, <1>2, <2>2, <2>4, <2>6, <2>7, <2>8, <2>9, <2>10 DEF Place
<1> QED
  BY <1>3, <1>4

(* Every step keeps each accepted unit in one place. *)
LEMMA LedgerStep == TypeOK /\ TodoInv /\ Ledger /\ Next => Ledger'
<1> SUFFICES ASSUME TypeOK, TodoInv, Ledger, Next PROVE Ledger'
  OBVIOUS
<1> USE DEF hist, clients, chans
<1>1. ASSUME NEW w \in Worker, WorkerStep(w) PROVE Ledger'
  <2>1. ASSUME RangeEnd(w) \/ ReportItem(w) \/ SendErr(w) PROVE Ledger'
    <3>1. UNCHANGED <<ch, todo, runs, item>>
      BY <2>1 DEF RangeEnd, ReportItem, SendErr
    <3>2. worker[w] # "run" /\ worker'[w] # "run"
      BY <2>1 DEF RangeEnd, ReportItem, SendErr, AfterSend, TypeOK
    <3>3. \A v \in Worker : v # w => worker'[v] = worker[v]
      BY <2>1 DEF RangeEnd, ReportItem, SendErr, TypeOK
    <3>4. \A v \in Worker, t \in Task : Holds(v, t)' <=> Holds(v, t)
      BY <3>1, <3>2, <3>3 DEF Holds
    <3> QED
      BY <3>1, <3>4, LedgerSame
  <2> QED
    BY <1>1, <2>1, LedgerRecv, LedgerRun DEF WorkerStep
<1>2. ASSUME UNCHANGED <<ch, todo, runs, item, worker>> PROVE Ledger'
  BY <1>2, LedgerSame DEF Holds
<1>3. CASE HarvesterStep
  BY <1>2, <1>3 DEF HarvesterStep, Harvest, HarvestEnd
<1>4. ASSUME NEW s \in Submitter, SubmitStep(s) PROVE Ledger'
  <2>1. CASE SubmitCheck(s)
    BY <1>2, <2>1 DEF SubmitCheck
  <2> QED
    BY <1>4, <2>1, LedgerSubmit DEF SubmitStep
<1>5. ASSUME NEW c \in Closer, CloseStep(c) PROVE Ledger'
  BY <1>2, <1>5 DEF CloseStep, CloseSwap, CloseChan
<1>6. ASSUME NEW q \in Waiter, WaitStep(q) PROVE Ledger'
  BY <1>2, <1>6 DEF WaitStep, WaitWorkers, WaitClose, WaitHarvest
<1>7. ASSUME NEW r \in Reporter, ErrStep(r) PROVE Ledger'
  BY <1>2, <1>7 DEF ErrStep, ErrCheck, ErrSend
<1>8. CASE Quiet
  BY <1>2, <1>8 DEF Quiet, vars
<1> QED
  BY <1>1, <1>3, <1>4, <1>5, <1>6, <1>7, <1>8 DEF Next

-----------------------------------------------------------------------------
(* The inductive invariant holds in every reachable state. *)
THEOREM Inductive == Spec => []IInv
<1>1. IInv /\ [Next]_vars => IInv'
  <2> SUFFICES ASSUME IInv, [Next]_vars PROVE IInv'
    OBVIOUS
  <2>1. CASE Next
    BY <2>1, TypeStep, CountStep, TodoStep, LedgerStep DEF IInv
  <2>2. CASE UNCHANGED vars
    <3> USE DEF vars, hist, clients, chans
    <3>1. TypeOK'
      BY <2>2 DEF IInv, TypeOK
    <3>2. CountInv'
      BY <2>2 DEF IInv, CountInv, Active
    <3>3. TodoInv'
      BY <2>2 DEF IInv, TodoInv
    <3>4. Ledger'
      BY <2>2, LedgerSame DEF IInv, Holds
    <3> QED
      BY <3>1, <3>2, <3>3, <3>4 DEF IInv
  <2> QED
    BY <2>1, <2>2
<1> QED
  BY InitIInv, <1>1, PTL DEF Spec

(* Once wg has reached zero, every worker has left its loop. *)
LEMMA AllExited ==
  ASSUME IInv, wg = 0
  PROVE  /\ \A w \in Worker : worker[w] = "exited"
         /\ ch = <<>>
<1>1. \A w \in Worker : worker[w] = "exited"
  BY ActiveFinite DEF IInv, CountInv
<1> QED
  BY <1>1, WorkerFinite DEF IInv, CountInv

(* The types hold: in particular wg.Done never takes the counter below     *)
(* zero, where sync.WaitGroup panics.                                       *)
THEOREM TypeCorrect == Spec => []TypeOK
BY Inductive, PTL DEF IInv

(* When Wait gets past wg.Wait(), every unit Submit accepted has been run,  *)
(* however many workers there are and however the clients race.             *)
THEOREM BarrierHolds == Spec => []Barrier
<1>1. IInv => Barrier
  <2> SUFFICES ASSUME IInv, NEW q \in Waiter, waiter[q] # "ready",
                      NEW t \in Task, Accepted(t)
               PROVE  runs[t] = 1
    BY DEF Barrier
  <2>1. (\A w \in Worker : worker[w] = "exited") /\ ch = <<>>
    BY AllExited DEF IInv, CountInv
  <2>2. ~InChan(t) /\ ~InHand(t)
    BY <2>1 DEF InChan, InHand
  <2> QED
    BY <2>2 DEF IInv, Ledger, Place
<1> QED
  BY Inductive, <1>1, PTL

(* However the methods are called, Wait closes the error channel only when *)
(* no worker can still send on it.                                          *)
THEOREM EchOpenForWorkers == Spec => []WorkersFindEchOpen
<1>1. IInv => WorkersFindEchOpen
  BY AllExited DEF IInv, CountInv, WorkersFindEchOpen
<1> QED
  BY Inductive, <1>1, PTL

(* A set whose elements are all equal has at most one. *)
LEMMA AtMostOne ==
  ASSUME NEW S, \A x, y \in S : x = y
  PROVE  Cardinality(S) = IF S = {} THEN 0 ELSE 1
<1>1. CASE S = {}
  BY <1>1, FS_EmptySet
<1>2. CASE S # {}
  <2>1. PICK x \in S : TRUE
    BY <1>2
  <2>2. S = {x}
    BY <2>1
  <2>3. Cardinality({x}) = 1
    BY FS_Singleton
  <2> QED
    BY <1>2, <2>2, <2>3
<1> QED
  BY <1>1, <1>2

(* Every accepted unit is in the channel, or in one worker's hand, or was  *)
(* run once: none is lost and none is run twice.                            *)
THEOREM ConservationHolds == Spec => []Conservation
<1>1. IInv => Conservation
  <2> SUFFICES ASSUME IInv, NEW t \in Task
               PROVE  Cardinality({i \in 1 .. Len(ch) : ch[i] = t})
                        + Cardinality({w \in Worker : worker[w] = "run" /\ item[w] = t}) + runs[t]
                      = IF Accepted(t) THEN 1 ELSE 0
    BY DEF Conservation
  <2> DEFINE inCh == {i \in 1 .. Len(ch) : ch[i] = t}
             inHand == {w \in Worker : worker[w] = "run" /\ item[w] = t}
  <2>1. Place(t) /\ runs[t] \in Nat
    BY DEF IInv, Ledger, TypeOK
  <2>2. Cardinality(inCh) = IF InChan(t) THEN 1 ELSE 0
    <3>1. \A x, y \in inCh : x = y
      BY <2>1 DEF Place
    <3>2. inCh = {} <=> ~InChan(t)
      BY DEF InChan
    <3> HIDE DEF inCh
    <3> QED
      BY <3>1, <3>2, AtMostOne
  <2>3. Cardinality(inHand) = IF InHand(t) THEN 1 ELSE 0
    <3>1. \A x, y \in inHand : x = y
      BY <2>1 DEF Place, Holds
    <3>2. inHand = {} <=> ~InHand(t)
      BY DEF InHand
    <3> HIDE DEF inHand
    <3> QED
      BY <3>1, <3>2, AtMostOne
  <2> HIDE DEF inCh, inHand
  <2>4. Cardinality(inCh) + Cardinality(inHand) + runs[t] = IF Accepted(t) THEN 1 ELSE 0
    BY <2>1, <2>2, <2>3 DEF Place
  <2> QED
    BY <2>4 DEF inCh, inHand
<1> QED
  BY Inductive, <1>1, PTL

-----------------------------------------------------------------------------
(* Errors.  An error that was raised is in wp.errs, in the error channel, or *)
(* owed by the one goroutine that is about to send it; Seen joins the two    *)
(* sequences, so that the harvester changes nothing.                         *)

Seen == errs \o ech
Distinct(q) == \A i, j \in 1 .. Len(q) : q[i] = q[j] => i = j
Owing == {"report", "send", "recover"}

Owed ==
  /\ \A w \in Worker : worker[w] \in Owing => item[w] \in raised /\ item[w] \notin Elems(Seen)
  /\ \A v, w \in Worker :
       worker[v] \in Owing /\ worker[w] \in Owing /\ item[v] = item[w] => v = w
  /\ \A r \in Reporter :
       /\ reporter[r] = "ready" => r \notin raised
       /\ reporter[r] = "send" => r \in raised /\ r \notin Elems(Seen)

ErrInv ==
  /\ Distinct(Seen) /\ Elems(Seen) \subseteq raised
  /\ \A t \in Task : t \in raised => runs[t] > 0
  /\ Owed

(* An element put at the end of a sequence is one element more, and a new   *)
(* one leaves them distinct.                                                *)
LEMMA AppendElems ==
  ASSUME NEW S, NEW q \in Seq(S), NEW e \in S
  PROVE  /\ Elems(Append(q, e)) = Elems(q) \cup {e}
         /\ Distinct(q) /\ e \notin Elems(q) => Distinct(Append(q, e))
<1> DEFINE a == Append(q, e)
<1>1. /\ Len(q) \in Nat /\ Len(a) = Len(q) + 1 /\ a[Len(q) + 1] = e
      /\ \A i \in 1 .. Len(q) : a[i] = q[i]
  BY AppendProperties, LenProperties
<1> HIDE DEF a
<1>2. Elems(a) = Elems(q) \cup {e}
  BY <1>1 DEF Elems
<1>3. ASSUME Distinct(q), e \notin Elems(q) PROVE Distinct(a)
  BY <1>1, <1>3 DEF Distinct, Elems
<1> QED BY <1>2, <1>3 DEF a

(* A send on the error channel adds its error to what was seen. *)
LEMMA SeenSend ==
  ASSUME TypeOK, NEW e \in Error, ech' = Append(ech, e), errs' = errs
  PROVE  Seen' = Append(Seen, e) /\ Seen \in Seq(Error)
<1>1. Seen \in Seq(Error)
  BY ConcatProperties DEF TypeOK, Seen
<1>2. Append(ech, e) = ech \o <<e>> /\ Append(Seen, e) = Seen \o <<e>> /\ <<e>> \in Seq(Error)
  BY <1>1, AppendIsConcat DEF TypeOK
<1>3. errs \o (ech \o <<e>>) = (errs \o ech) \o <<e>>
  BY <1>2, ConcatAssociative DEF TypeOK
<1> QED BY <1>1, <1>2, <1>3 DEF Seen

(* The harvester moves an error from one sequence to the other. *)
LEMMA SeenHarvest ==
  ASSUME TypeOK, Harvest
  PROVE  Seen' = Seen
<1> DEFINE h == Head(ech)
           t == Tail(ech)
<1>1. ech \in Seq(Error) /\ ech # <<>> /\ errs \in Seq(Error)
  BY DEF TypeOK, Harvest
<1>2. h \in Error /\ t \in Seq(Error) /\ <<h>> \in Seq(Error)
  BY <1>1, HeadTailProperties
<1>3. ech = <<h>> \o t
  BY <1>1
<1>4. Append(errs, h) = errs \o <<h>>
  BY <1>1, <1>2, AppendIsConcat
<1>5. (errs \o <<h>>) \o t = errs \o (<<h>> \o t)
  BY <1>1, <1>2, ConcatAssociative
<1> QED BY <1>3, <1>4, <1>5 DEF Seen, Harvest

(* At first nothing was raised. *)
LEMMA InitErrInv == Init => ErrInv
<1> SUFFICES ASSUME Init PROVE ErrInv
  OBVIOUS
<1>1. Seen = <<>> /\ Len(<<>>) = 0
  BY DEF Init, Seen
<1>2. Distinct(Seen) /\ Elems(Seen) = {}
  BY <1>1 DEF Distinct, Elems
<1> QED BY <1>2 DEF Init, ErrInv, Owed, Owing

(* A worker sends what it owes, or the process ends. *)
LEMMA ErrSendErr ==
  ASSUME IInv, ErrInv, NEW w \in Worker, SendErr(w)
  PROVE  ErrInv'
<1> DEFINE e == item[w]
<1>1. e \in Error /\ e \in raised /\ e \notin Elems(Seen) /\ worker[w] \in Owing
  BY DEF SendErr, IInv, TypeOK, Error, ErrInv, Owed, Owing
<1>2. /\ worker' = [worker EXCEPT ![w] = AfterSend(@)]
      /\ UNCHANGED <<errs, item, reporter, raised, runs>>
  BY DEF SendErr, clients, hist
<1>3. worker'[w] \notin Owing /\ \A v \in Worker \ {w} : worker'[v] = worker[v]
  BY <1>2 DEF AfterSend, IInv, TypeOK, Owing
<1>4. CASE ech' = Append(ech, e)
  <2>1. Seen' = Append(Seen, e) /\ Seen \in Seq(Error)
    BY <1>1, <1>2, <1>4, SeenSend DEF IInv
  <2>2. Elems(Seen') = Elems(Seen) \cup {e} /\ Distinct(Seen')
    BY <1>1, <2>1, AppendElems DEF ErrInv
  <2>3. \A r \in Reporter : r # e
    BY Assumptions DEF IInv, TypeOK
  <2>4. \A v \in Worker \ {w} : worker[v] \in Owing => item[v] # e
    BY <1>1 DEF ErrInv, Owed
  <2>5. Owed'
    BY <1>2, <1>3, <2>2, <2>3, <2>4 DEF ErrInv, Owed
  <2>6. Elems(Seen)' = Elems(Seen') /\ Distinct(Seen)' = Distinct(Seen')
    BY DEF Elems, Distinct
  <2> QED BY <1>1, <1>2, <2>2, <2>5, <2>6 DEF ErrInv
<1>5. CASE UNCHANGED ech
  <2>1. Seen' = Seen
    BY <1>2, <1>5 DEF Seen
  <2>2. Elems(Seen)' = Elems(Seen) /\ Distinct(Seen)' = Distinct(Seen)
    BY <2>1 DEF Elems, Distinct
  <2>3. Owed'
    BY <1>2, <1>3, <2>2 DEF ErrInv, Owed
  <2> QED BY <1>2, <2>2, <2>3 DEF ErrInv
<1> QED BY <1>4, <1>5 DEF SendErr, SendEch

(* A goroutine that called Err sends its error, or the process ends. *)
LEMMA ErrErrSend ==
  ASSUME IInv, ErrInv, NEW r \in Reporter, ErrSend(r)
  PROVE  ErrInv'
<1>1. r \in Error /\ r \in raised /\ r \notin Elems(Seen)
  BY DEF ErrSend, Error, ErrInv, Owed
<1>2. /\ reporter' = [reporter EXCEPT ![r] = "sent"]
      /\ UNCHANGED <<errs, item, worker, raised, runs>>
  BY DEF ErrSend, hist
<1>3. reporter'[r] = "sent" /\ \A u \in Reporter \ {r} : reporter'[u] = reporter[u]
  BY <1>2 DEF IInv, TypeOK
<1>4. CASE ech' = Append(ech, r)
  <2>1. Seen' = Append(Seen, r) /\ Seen \in Seq(Error)
    BY <1>1, <1>2, <1>4, SeenSend DEF IInv
  <2>2. Elems(Seen') = Elems(Seen) \cup {r} /\ Distinct(Seen')
    BY <1>1, <2>1, AppendElems DEF ErrInv
  <2>3. \A w \in Worker : item[w] # r
    BY Assumptions DEF IInv, TypeOK
  <2>4. Elems(Seen)' = Elems(Seen') /\ Distinct(Seen)' = Distinct(Seen')
    BY DEF Elems, Distinct
  <2>5. Owed'
    BY <1>2, <1>3, <2>2, <2>3, <2>4 DEF ErrInv, Owed
  <2> QED BY <1>1, <1>2, <2>2, <2>4, <2>5 DEF ErrInv
<1>5. CASE UNCHANGED ech
  <2>1. Seen' = Seen
    BY <1>2, <1>5 DEF Seen
  <2>2. Elems(Seen)' = Elems(Seen) /\ Distinct(Seen)' = Distinct(Seen)
    BY <2>1 DEF Elems, Distinct
  <2>3. Owed'
    BY <1>2, <1>3, <2>2 DEF ErrInv, Owed
  <2> QED BY <1>2, <2>2, <2>3 DEF ErrInv
<1> QED BY <1>4, <1>5 DEF ErrSend, SendEch

(* A work function raises the error of a unit that never ran before, which   *)
(* nobody has seen and nobody else owes.                                     *)
LEMMA ErrRunItem ==
  ASSUME IInv, ErrInv, NEW w \in Worker, RunItem(w)
  PROVE  ErrInv'
<1> DEFINE t == item[w]
<1>1. t \in Task /\ Holds(w, t) /\ InHand(t)
  BY DEF RunItem, IInv, TypeOK, Holds, InHand
<1>2. runs[t] = 0 /\ t \notin raised
  BY <1>1 DEF IInv, Ledger, Place, ErrInv
<1>3. UNCHANGED <<errs, ech, item, reporter>> /\ runs' = [runs EXCEPT ![t] = @ + 1]
  BY DEF RunItem, clients, chans
<1>4. PICK o \in Outcome :
        /\ worker' = [worker EXCEPT ![w] = AfterRun[o]]
        /\ raised' = IF o \in {"ok", "throw"} THEN raised ELSE raised \cup {t}
  BY DEF RunItem
<1>5. /\ AfterRun[o] \in Owing => o \notin {"ok", "throw"}
      /\ worker'[w] = AfterRun[o] /\ \A v \in Worker \ {w} : worker'[v] = worker[v]
  BY <1>4, Assumptions DEF AfterRun, Owing, Outcomes, IInv, TypeOK
<1>6. Seen' = Seen
  BY <1>3 DEF Seen
<1>7. Elems(Seen)' = Elems(Seen) /\ Distinct(Seen)' = Distinct(Seen)
  BY <1>6 DEF Elems, Distinct
<1>8. runs'[t] = 1 /\ \A u \in Task \ {t} : runs'[u] = runs[u]
  BY <1>1, <1>2, <1>3 DEF IInv, TypeOK
<1>9. \A u \in Task : u \in raised' => runs'[u] > 0
  BY <1>4, <1>8 DEF ErrInv
<1>10. \A v \in Worker \ {w} : worker[v] \in Owing => item[v] # t
  BY <1>2 DEF ErrInv, Owed
<1>11. t \notin Elems(Seen) /\ \A r \in Reporter : r # t
  BY <1>1, <1>2, Assumptions DEF ErrInv
<1>12. Owed'
  BY <1>3, <1>4, <1>5, <1>7, <1>10, <1>11 DEF ErrInv, Owed
<1> QED BY <1>4, <1>7, <1>9, <1>12 DEF ErrInv

(* The errors survive a step that touches none of what they depend on. *)
LEMMA ErrSame ==
  ASSUME ErrInv, Seen' = Seen, UNCHANGED <<item, reporter, raised, runs>>,
         \A v \in Worker : worker'[v] \in Owing => worker[v] \in Owing
  PROVE  ErrInv'
<1>1. Elems(Seen)' = Elems(Seen) /\ Distinct(Seen)' = Distinct(Seen)
  BY DEF Elems, Distinct
<1>2. Owed'
  BY <1>1 DEF ErrInv, Owed
<1> QED BY <1>1, <1>2 DEF ErrInv

(* Every step keeps the errors in order. *)
LEMMA ErrNextStep ==
  ASSUME IInv, ErrInv, [Next]_vars
  PROVE  ErrInv'
<1>1. ASSUME NEW w \in Worker, Recv(w) PROVE ErrInv'
  <2>1. /\ worker' = [worker EXCEPT ![w] = "run"] /\ worker[w] = "recv"
        /\ item' = [item EXCEPT ![w] = Head(ch)]
        /\ UNCHANGED <<errs, ech, reporter, raised, runs>>
    BY <1>1 DEF Recv, clients, hist
  <2>2. worker'[w] \notin Owing /\ \A v \in Worker \ {w} : worker'[v] = worker[v] /\ item'[v] = item[v]
    BY <2>1 DEF Owing, IInv, TypeOK
  <2>3. Seen' = Seen
    BY <2>1 DEF Seen
  <2>4. Elems(Seen)' = Elems(Seen) /\ Distinct(Seen)' = Distinct(Seen)
    BY <2>3 DEF Elems, Distinct
  <2>5. Owed'
    BY <2>1, <2>2, <2>4 DEF ErrInv, Owed
  <2> QED BY <2>1, <2>4, <2>5 DEF ErrInv
<1>2. ASSUME NEW w \in Worker, RangeEnd(w) \/ ReportItem(w) PROVE ErrInv'
  <2>1. UNCHANGED <<errs, ech, item, reporter, raised, runs>>
    BY <1>2 DEF RangeEnd, ReportItem, chans, clients, hist
  <2>2. \A v \in Worker : worker'[v] \in Owing => worker[v] \in Owing
    BY <1>2 DEF RangeEnd, ReportItem, Owing, IInv, TypeOK
  <2> QED BY <2>1, <2>2, ErrSame DEF Seen
<1>3. CASE Harvest
  BY <1>3, SeenHarvest, ErrSame DEF Harvest, clients, hist, IInv
<1>4. ASSUME UNCHANGED <<errs, ech, item, worker, reporter, raised, runs>> PROVE ErrInv'
  BY <1>4, ErrSame DEF Seen
<1>5. CASE HarvestEnd
  BY <1>4, <1>5 DEF HarvestEnd, chans, clients, hist
<1>6. ASSUME NEW s \in Submitter, SubmitCheck(s) \/ SubmitSend(s) PROVE ErrInv'
  BY <1>4, <1>6 DEF SubmitCheck, SubmitSend, chans, hist
<1>7. ASSUME NEW c \in Closer, CloseSwap(c) \/ CloseChan(c) PROVE ErrInv'
  BY <1>4, <1>7 DEF CloseSwap, CloseChan, chans, hist
<1>8. ASSUME NEW q \in Waiter, WaitWorkers(q) \/ WaitClose(q) \/ WaitHarvest(q) PROVE ErrInv'
  BY <1>4, <1>8 DEF WaitWorkers, WaitClose, WaitHarvest, chans, hist
<1>9. ASSUME NEW r \in Reporter, ErrCheck(r) PROVE ErrInv'
  <2>1. /\ reporter[r] = "ready" /\ raised' = raised \cup {r}
        /\ reporter' \in {[reporter EXCEPT ![r] = "send"], [reporter EXCEPT ![r] = "dropped"]}
        /\ UNCHANGED <<errs, ech, item, worker, runs>>
    BY <1>9 DEF ErrCheck, chans
  <2>2. r \notin raised /\ r \notin Elems(Seen) /\ r \notin Task
    BY <2>1, Assumptions DEF ErrInv, Owed
  <2>3. Seen' = Seen
    BY <2>1 DEF Seen
  <2>4. Elems(Seen)' = Elems(Seen) /\ Distinct(Seen)' = Distinct(Seen)
    BY <2>3 DEF Elems, Distinct
  <2>5. reporter'[r] # "ready" /\ \A u \in Reporter \ {r} : reporter'[u] = reporter[u]
    BY <2>1 DEF IInv, TypeOK
  <2>6. Owed'
    BY <2>1, <2>2, <2>4, <2>5 DEF ErrInv, Owed
  <2> QED BY <2>1, <2>2, <2>4, <2>6 DEF ErrInv
<1>10. CASE UNCHANGED vars
  BY <1>4, <1>10 DEF vars, chans, clients, hist
<1> QED
  BY <1>1, <1>2, <1>3, <1>5, <1>6, <1>7, <1>8, <1>9, <1>10, ErrSendErr, ErrErrSend, ErrRunItem
  DEF Next, WorkerStep, HarvesterStep, SubmitStep, CloseStep, WaitStep, ErrStep, Quiet

(* Both invariants hold in every reachable state. *)
THEOREM ErrInductive == Spec => [](IInv /\ ErrInv)
<1>1. IInv /\ ErrInv /\ [Next]_vars => ErrInv'
  BY ErrNextStep
<1> QED BY Inductive, InitErrInv, <1>1, PTL DEF Spec

(* However the methods are called, whoever panics and however many goroutines *)
(* report, wp.errs never holds an error nobody raised, and none twice.       *)
THEOREM ErrorsGenuineHolds == Spec => []ErrorsGenuine
<1>1. ErrInv => ErrorsGenuine
  BY DEF ErrInv, Seen, Distinct, ErrorsGenuine
<1> QED BY ErrInductive, <1>1, PTL

-----------------------------------------------------------------------------
(* The protocol, as cmp/engine.go and clone/tree.go follow it: one goroutine *)
(* calls Close after every Submit and then Wait, and the work functions      *)
(* return nil or an error.                                                   *)

Protocol ==
  /\ Disciplined
  /\ Outcome \subseteq {"ok", "err"} /\ Reporter = {}
  /\ \A c, d \in Closer : c = d
  /\ \A p, q \in Waiter : p = q

(* Closing has an order: nothing is left to submit, stopped is set, then the *)
(* channel is closed.                                                        *)
Closing ==
  /\ \A s \in Submitter : submitter[s] = "send" => todo[s] # {}
  /\ stopped => Joined
  /\ chClosed => stopped
  /\ \A c \in Closer :
       /\ closer[c] = "ready" => ~stopped
       /\ closer[c] = "close" => stopped /\ ~chClosed

(* So has waiting: the error channel is closed, then drained. *)
Waiting ==
  /\ \A q \in Waiter :
       /\ waiter[q] \in {"ready", "close"} => ~echClosed
       /\ waiter[q] = "returned" => ewg = 0
  /\ ewg = 0 => ech = <<>> /\ echClosed

(* What was raised was seen, or its worker is about to send it. *)
Reported ==
  /\ \A w \in Worker : worker[w] \in {"recv", "run", "send", "exited"}
  /\ \A e \in raised : e \in Elems(Seen) \/ \E w \in Worker : worker[w] = "send" /\ item[w] = e

ProtoInv == Alive /\ Closing /\ Waiting /\ Reported

(* The new pool is open and nothing was raised. *)
LEMMA InitProtoInv ==
  ASSUME Init
  PROVE  ProtoInv
BY DEF Init, ProtoInv, Alive, Closing, Waiting, Reported

(* An error that was seen stays seen. *)
LEMMA SeenKept ==
  ASSUME Seen' = Seen
  PROVE  Elems(Seen)' = Elems(Seen)
BY DEF Elems

(* The workers, by the protocol: nothing panics, and every error is sent. *)
LEMMA ProtoWorker ==
  ASSUME IInv, ErrInv, Protocol, ProtoInv, NEW w \in Worker, WorkerStep(w)
  PROVE  ProtoInv'
<1> USE DEF Protocol
<1>1. UNCHANGED <<stopped, chClosed, echClosed, ewg, todo, submitter, closer, waiter, errs>>
  BY DEF WorkerStep, Recv, RangeEnd, RunItem, ReportItem, SendErr, chans, clients
<1>2. Closing'
  BY <1>1 DEF ProtoInv, Closing, Joined
<1>3. worker[w] # "exited" /\ worker[w] \in {"recv", "run", "send"}
  BY DEF WorkerStep, Recv, RangeEnd, RunItem, ReportItem, SendErr, ProtoInv, Reported
<1>4. CASE Recv(w) \/ RangeEnd(w) \/ RunItem(w)
  <2>1. UNCHANGED <<ech, fatal>>
    BY <1>4 DEF Recv, RangeEnd, RunItem, chans
  <2>2. Seen' = Seen
    BY <1>1, <2>1 DEF Seen
  <2>3. Waiting' /\ Alive'
    BY <1>1, <2>1 DEF ProtoInv, Waiting, Alive
  <2>4. CASE Recv(w) \/ RangeEnd(w)
    <3>1. /\ worker[w] = "recv" /\ worker'[w] \in {"run", "exited"} /\ raised' = raised
          /\ \A v \in Worker \ {w} : worker'[v] = worker[v] /\ item'[v] = item[v]
      BY <2>4 DEF Recv, RangeEnd, hist, IInv, TypeOK
    <3>2. Reported'
      BY <2>2, <3>1, SeenKept DEF ProtoInv, Reported
    <3> QED BY <1>2, <2>3, <3>2 DEF ProtoInv
  <2>5. CASE RunItem(w)
    <3>1. PICK o \in Outcome :
            /\ worker' = [worker EXCEPT ![w] = AfterRun[o]]
            /\ raised' = IF o \in {"ok", "throw"} THEN raised ELSE raised \cup {item[w]}
      BY <2>5 DEF RunItem
    <3>2. /\ worker[w] = "run" /\ worker'[w] = IF o = "ok" THEN "recv" ELSE "send"
          /\ \A v \in Worker \ {w} : worker'[v] = worker[v]
          /\ item' = item
      BY <2>5, <3>1 DEF RunItem, AfterRun, IInv, TypeOK
    <3>3. Reported'
      BY <2>2, <3>1, <3>2, SeenKept DEF ProtoInv, Reported
    <3> QED BY <1>2, <2>3, <3>3 DEF ProtoInv
  <2> QED BY <1>4, <2>4, <2>5
<1>5. CASE SendErr(w)
  <2>1. ~echClosed /\ worker[w] = "send"
    BY <1>3, <1>5, AllExited DEF SendErr, IInv, CountInv
  <2>2. ech' = Append(ech, item[w]) /\ fatal' = fatal /\ raised' = raised /\ item' = item
    BY <1>5, <2>1 DEF SendErr, SendEch, hist
  <2>3. item[w] \in Error
    BY DEF IInv, TypeOK, Error
  <2>4. Elems(Seen)' = Elems(Seen) \cup {item[w]}
    <3>1. Seen' = Append(Seen, item[w]) /\ Seen \in Seq(Error)
      BY <1>1, <2>2, <2>3, SeenSend DEF IInv
    <3>2. Elems(Seen') = Elems(Seen) \cup {item[w]}
      BY <2>3, <3>1, AppendElems
    <3> QED BY <3>2 DEF Elems
  <2>5. worker'[w] = "recv" /\ \A v \in Worker \ {w} : worker'[v] = worker[v]
    BY <1>5, <2>1 DEF SendErr, AfterSend, IInv, TypeOK
  <2>6. Reported'
    BY <2>2, <2>4, <2>5 DEF ProtoInv, Reported
  <2>7. Waiting' /\ Alive'
    BY <1>1, <2>1, <2>2 DEF ProtoInv, Waiting, Alive
  <2> QED BY <1>2, <2>6, <2>7 DEF ProtoInv
<1> QED BY <1>4, <1>5 DEF WorkerStep, ReportItem, ProtoInv, Reported

(* The others, by the protocol. *)
LEMMA ProtoOthers ==
  ASSUME IInv, ErrInv, Protocol, ProtoInv,
         \/ HarvesterStep
         \/ \E s \in Submitter : SubmitStep(s)
         \/ \E c \in Closer : CloseStep(c)
         \/ \E q \in Waiter : WaitStep(q)
  PROVE  ProtoInv'
<1> USE DEF Protocol
<1>0. UNCHANGED <<worker, item, raised>>
  BY DEF HarvesterStep, Harvest, HarvestEnd, SubmitStep, SubmitCheck, SubmitSend, CloseStep,
         CloseSwap, CloseChan, WaitStep, WaitWorkers, WaitClose, WaitHarvest, clients, hist
<1>1. ASSUME Seen' = Seen PROVE Reported'
  BY <1>0, <1>1, SeenKept DEF ProtoInv, Reported
<1>2. CASE HarvesterStep
  <2>1. UNCHANGED <<stopped, chClosed, echClosed, todo, submitter, closer, waiter, fatal>> /\ ewg = 1
    BY <1>2 DEF HarvesterStep, Harvest, HarvestEnd, chans, clients
  <2>2. Closing' /\ Alive'
    BY <2>1 DEF ProtoInv, Closing, Joined, Alive
  <2>3. Waiting'
    BY <1>2, <2>1 DEF HarvesterStep, Harvest, HarvestEnd, chans, ProtoInv, Waiting
  <2>4. Seen' = Seen
    BY <1>2, SeenHarvest DEF HarvesterStep, HarvestEnd, chans, Seen, IInv
  <2> QED BY <1>1, <2>2, <2>3, <2>4 DEF ProtoInv
<1>3. ASSUME NEW s \in Submitter, SubmitStep(s) PROVE ProtoInv'
  <2>1. UNCHANGED <<stopped, chClosed, ech, echClosed, ewg, errs, closer, waiter>>
    BY <1>3 DEF SubmitStep, SubmitCheck, SubmitSend, chans
  <2>2. todo[s] # {}
    BY <1>3 DEF SubmitStep, SubmitCheck, SubmitSend, ProtoInv, Closing
  <2>3. ~stopped /\ ~chClosed
    BY <2>2 DEF ProtoInv, Closing, Joined
  <2>4. fatal' = fatal
    BY <1>3, <2>3 DEF SubmitStep, SubmitCheck, SubmitSend
  <2>5. \A u \in Submitter : submitter'[u] = "send" => todo'[u] # {}
    <3>1. CASE SubmitCheck(s)
      BY <2>2, <2>3, <3>1 DEF SubmitCheck, ProtoInv, Closing, IInv, TypeOK
    <3>2. CASE SubmitSend(s)
      <4>1. PICK t \in todo[s] : todo' = [todo EXCEPT ![s] = @ \ {t}]
        BY <2>3, <3>2 DEF SubmitSend
      <4>2. submitter' = [submitter EXCEPT ![s] = "ready"]
        BY <2>3, <3>2 DEF SubmitSend
      <4>3. \A u \in Submitter \ {s} : todo'[u] = todo[u] /\ submitter'[u] = submitter[u]
        BY <4>1, <4>2 DEF IInv, TypeOK
      <4>4. submitter'[s] = "ready"
        BY <4>2 DEF IInv, TypeOK
      <4> QED BY <4>3, <4>4 DEF ProtoInv, Closing
    <3> QED BY <1>3, <3>1, <3>2 DEF SubmitStep
  <2>6. Closing'
    BY <2>1, <2>3, <2>5 DEF ProtoInv, Closing
  <2>7. Waiting' /\ Alive' /\ Seen' = Seen
    BY <2>1, <2>4 DEF ProtoInv, Waiting, Alive, Seen
  <2> QED BY <1>1, <2>6, <2>7 DEF ProtoInv
<1>4. ASSUME NEW c \in Closer, CloseStep(c) PROVE ProtoInv'
  <2>1. UNCHANGED <<ech, echClosed, ewg, errs, todo, submitter, waiter>> /\ Seen' = Seen
    BY <1>4 DEF CloseStep, CloseSwap, CloseChan, chans, Seen
  <2>2. CASE CloseSwap(c)
    <3>1. Joined /\ ~stopped
      BY <2>2 DEF CloseSwap, ProtoInv, Closing
    <3>2. UNCHANGED <<chClosed, fatal>> /\ stopped' = TRUE /\ closer' = [closer EXCEPT ![c] = "close"]
      BY <2>2, <3>1 DEF CloseSwap, chans
    <3>3. Joined'
      BY <2>1, <3>1 DEF Joined
    <3>4. Closing'
      BY <2>1, <3>1, <3>2, <3>3 DEF ProtoInv, Closing, IInv, TypeOK
    <3> QED BY <1>1, <2>1, <3>2, <3>4 DEF ProtoInv, Waiting, Alive
  <2>3. CASE CloseChan(c)
    <3>1. UNCHANGED <<stopped, fatal>> /\ chClosed' = TRUE /\ closer' = [closer EXCEPT ![c] = "done"]
      BY <2>3 DEF CloseChan
    <3>2. stopped
      BY <2>3 DEF CloseChan, ProtoInv, Closing
    <3>3. \A d \in Closer : closer'[d] = "done"
      BY <3>1 DEF IInv, TypeOK
    <3>4. Closing'
      BY <2>1, <3>1, <3>2, <3>3 DEF ProtoInv, Closing, Joined
    <3> QED BY <1>1, <2>1, <3>1, <3>4 DEF ProtoInv, Waiting, Alive
  <2> QED BY <1>4, <2>2, <2>3 DEF CloseStep
<1>5. ASSUME NEW q \in Waiter, WaitStep(q) PROVE ProtoInv'
  <2>1. UNCHANGED <<stopped, chClosed, ech, ewg, errs, todo, submitter, closer>> /\ Seen' = Seen
    BY <1>5 DEF WaitStep, WaitWorkers, WaitClose, WaitHarvest, chans, Seen
  <2>2. Closing'
    BY <2>1 DEF ProtoInv, Closing, Joined
  <2>3. fatal' = fatal
    BY <1>5 DEF WaitStep, WaitWorkers, WaitClose, WaitHarvest, ProtoInv, Waiting
  <2>4. Waiting'
    <3>1. CASE WaitWorkers(q)
      BY <2>1, <3>1 DEF WaitWorkers, chans, ProtoInv, Waiting, IInv, TypeOK
    <3>2. CASE WaitClose(q)
      BY <2>1, <3>2 DEF WaitClose, ProtoInv, Waiting, IInv, TypeOK
    <3>3. CASE WaitHarvest(q)
      BY <2>1, <3>3 DEF WaitHarvest, HarvestDone, chans, ProtoInv, Waiting, IInv, TypeOK
    <3> QED BY <1>5, <3>1, <3>2, <3>3 DEF WaitStep
  <2> QED BY <1>1, <2>1, <2>2, <2>3, <2>4 DEF ProtoInv, Alive
<1> QED BY <1>2, <1>3, <1>4, <1>5

(* By the protocol, the three invariants hold in every reachable state. *)
THEOREM ProtoInductive ==
  ASSUME Protocol
  PROVE  Spec => [](IInv /\ ErrInv /\ ProtoInv)
<1>1. IInv /\ ErrInv /\ ProtoInv /\ [Next]_vars => ProtoInv'
  <2> SUFFICES ASSUME IInv, ErrInv, ProtoInv, [Next]_vars PROVE ProtoInv'
    OBVIOUS
  <2>1. CASE UNCHANGED vars
    BY <2>1, SeenKept DEF vars, chans, clients, hist, Seen, ProtoInv, Alive, Closing, Joined, Waiting, Reported
  <2>2. CASE Next /\ ~UNCHANGED vars
    BY <2>2, ProtoWorker, ProtoOthers DEF Next, Quiet, Protocol
  <2> QED BY <2>1, <2>2
<1>2. Init => ProtoInv
  BY InitProtoInv
<1> QED BY ErrInductive, <1>1, <1>2, PTL DEF Spec

(* By the protocol no call panics: nothing is sent on a closed channel, and  *)
(* no channel is closed twice, whatever the number of workers and units.     *)
THEOREM NoCrashHolds ==
  ASSUME Protocol
  PROVE  Spec => []NoCrash
<1>1. ProtoInv => NoCrash
  BY DEF ProtoInv, NoCrash
<1> QED BY ProtoInductive, <1>1, PTL

(* A Wait that has returned has all that was raised, each error once. *)
LEMMA AllHarvested ==
  ASSUME IInv, ErrInv, ProtoInv, NEW q \in Waiter, waiter[q] # "ready", ewg = 0
  PROVE  Elems(errs) = raised /\ Len(errs) = Cardinality(raised)
<1>1. \A w \in Worker : worker[w] = "exited"
  BY AllExited DEF IInv, CountInv
<1>2. Seen = errs
  BY ConcatEmptySeq DEF ProtoInv, Waiting, Seen, IInv, TypeOK
<1>3. Elems(errs) = raised /\ Distinct(errs)
  BY <1>1, <1>2 DEF ProtoInv, Reported, ErrInv
<1>4. Len(errs) \in Nat
  BY LenProperties DEF IInv, TypeOK
<1>5. Len(errs) = Cardinality(raised)
  <2> DEFINE D == 1 .. Len(errs)
             at == [i \in D |-> errs[i]]
  <2>1. IsFiniteSet(D) /\ Cardinality(D) = Len(errs)
    <3>1. \A k \in Nat : IsFiniteSet(1 .. k) /\ Cardinality(1 .. k) = k
      BY FS_Interval
    <3> QED BY <1>4, <3>1
  <2>2. at \in Bijection(D, raised)
    BY <1>3 DEF Bijection, Injection, Surjection, IsInjective, Distinct, Elems
  <2> HIDE DEF D, at
  <2>3. Cardinality(raised) = Cardinality(D)
    BY <2>1, <2>2, FS_Bijection DEF ExistsBijection
  <2> QED BY <2>1, <2>3
<1> QED BY <1>3, <1>5

(* By the protocol, Wait returns every error of every work function once.    *)
THEOREM NoLostErrorsHolds ==
  ASSUME Protocol
  PROVE  Spec => []NoLostErrors
<1>1. IInv /\ ErrInv /\ ProtoInv => NoLostErrors
  BY AllHarvested DEF NoLostErrors, ProtoInv, Waiting
<1> QED BY ProtoInductive, <1>1, PTL

-----------------------------------------------------------------------------
(* The refinement, without its fairness: what a step does to the state Pool  *)
(* sees.  By the ledger, what is pending is what was accepted and never ran. *)

Finished == {t \in Task : runs[t] > 0}
Returns == \E q \in Waiter : waiter[q] = "returned"
Status == IF Returns THEN "returned" ELSE IF chClosed THEN "closed" ELSE "open"
Result == IF Returns THEN Elems(errs) ELSE {}
Pending == {t \in Task : Accepted(t) /\ runs[t] = 0}

(* What the mapping calls pending *)
LEMMA PendingIs == IInv => Elems(ch) \cup Running = Pending
<1> SUFFICES ASSUME IInv PROVE Elems(ch) \cup Running = Pending
  OBVIOUS
<1>1. \A t \in Task : t \in Elems(ch) \cup Running <=> InChan(t) \/ InHand(t)
  BY DEF Elems, Running, InChan, InHand
<1>2. \A t \in Task : InChan(t) \/ InHand(t) <=> Accepted(t) /\ runs[t] = 0
  BY DEF IInv, Ledger, Place
<1>3. Elems(ch) \subseteq Task
  BY ElementOfSeq DEF Elems, IInv, TypeOK
<1>4. Running \subseteq Task
  BY DEF Running, IInv, TypeOK
<1> QED BY <1>1, <1>2, <1>3, <1>4 DEF Pending

(* The same in the next state *)
LEMMA PendingNext == IInv' => (Elems(ch) \cup Running)' = Pending'
<1>1. IInv' => (Elems(ch) \cup Running = Pending)'
  BY PendingIs, PTL
<1> QED BY <1>1

(* What was accepted depends on what is left to submit. *)
LEMMA AcceptedKept ==
  ASSUME UNCHANGED todo
  PROVE  \A t \in Task : Accepted(t)' <=> Accepted(t)
BY DEF Accepted

(* A step that keeps what is left to submit, what ran, what was raised, and  *)
(* whether the pool is closed and Wait is back, is a stuttering step.        *)
LEMMA PoolStutter ==
  ASSUME IInv, IInv', UNCHANGED <<todo, runs, raised, chClosed>>, Returns' = Returns,
         Returns => UNCHANGED errs
  PROVE  UNCHANGED Promise!vars
<1>1. Pending' = Pending
  BY AcceptedKept DEF Pending
<1>2. (Elems(ch) \cup Running)' = Elems(ch) \cup Running
  <2>1. (Elems(ch) \cup Running)' = Pending'
    BY PendingNext
  <2> QED BY <1>1, <2>1, PendingIs
<1>3. Elems(errs)' = Elems(errs) \/ ~Returns
  BY DEF Elems
<1> QED BY <1>2, <1>3 DEF Promise!vars, Returns

(* Everything the rest of the proof needs of one state. *)
PoolInv == IInv /\ ErrInv /\ ProtoInv

(* Once Wait is back, the pool is closed, no unit is pending, no worker runs *)
(* and the harvester has finished.                                           *)
LEMMA AfterReturn ==
  ASSUME PoolInv, NEW q \in Waiter, waiter[q] # "ready"
  PROVE  chClosed /\ Pending = {} /\ \A w \in Worker : worker[w] = "exited"
<1>1. (\A w \in Worker : worker[w] = "exited") /\ ch = <<>>
  BY AllExited DEF PoolInv, IInv, CountInv
<1>2. chClosed
  BY <1>1, WorkerFinite DEF PoolInv, IInv, CountInv
<1>3. \A t \in Task : ~InChan(t) /\ ~InHand(t)
  BY <1>1 DEF InChan, InHand
<1>4. Pending = {}
  BY <1>3 DEF Pending, PoolInv, IInv, Ledger, Place
<1> QED BY <1>1, <1>2, <1>4

(* Submit accepts. *)
LEMMA SubmitImplements ==
  ASSUME PoolInv, PoolInv', NEW s \in Submitter, SubmitSend(s)
  PROVE  Promise!Next
<1>1. todo[s] # {} /\ ~chClosed /\ UNCHANGED <<runs, raised, chClosed, waiter, errs>>
  BY DEF SubmitSend, PoolInv, ProtoInv, Closing, Joined, hist
<1>2. PICK t \in todo[s] : todo' = [todo EXCEPT ![s] = @ \ {t}]
  BY <1>1 DEF SubmitSend
<1>3. t \in Task /\ t \in Assigned[s]
  BY <1>2 DEF PoolInv, IInv, TypeOK, TodoInv
<1>4. ~Accepted(t) /\ \A u \in Task : Accepted(u)' <=> Accepted(u) \/ u = t
  <2>1. ~Accepted(t)
    BY <1>2, <1>3, Assumptions DEF Accepted
  <2>2. todo'[s] = todo[s] \ {t} /\ \A v \in Submitter \ {s} : todo'[v] = todo[v]
    BY <1>2 DEF PoolInv, IInv, TypeOK
  <2> QED BY <1>3, <2>1, <2>2 DEF Accepted
<1>5. runs[t] = 0
  BY <1>3, <1>4 DEF PoolInv, IInv, Ledger, Place
<1>6. Pending' = Pending \cup {t} /\ t \notin Pending \cup Finished
  BY <1>1, <1>3, <1>4, <1>5 DEF Pending, Finished
<1>7. Elems(ch) \cup Running = Pending
  BY PendingIs DEF PoolInv
<1>8. (Elems(ch) \cup Running)' = Pending'
  BY PendingNext DEF PoolInv
<1>9. ~Returns
  BY <1>1, AfterReturn DEF Returns
<1>10. Promise!Submit(t)
  BY <1>1, <1>6, <1>7, <1>8, <1>9 DEF Promise!Submit, Finished, Returns
<1> QED BY <1>3, <1>10 DEF Promise!Next

(* The work function finishes a unit, well or with an error. *)
LEMMA RunImplements ==
  ASSUME PoolInv, PoolInv', NEW w \in Worker, RunItem(w)
  PROVE  Promise!Next
<1>1. PICK t \in Task : t = item[w] /\ Holds(w, t) /\ InHand(t)
  BY DEF RunItem, PoolInv, IInv, TypeOK, Holds, InHand
<1>2. runs[t] = 0 /\ Accepted(t)
  BY <1>1 DEF PoolInv, IInv, Ledger, Place
<1>3. UNCHANGED <<todo, chClosed, waiter, errs>> /\ runs' = [runs EXCEPT ![t] = @ + 1]
  BY <1>1 DEF RunItem, clients, chans
<1>4. raised' \in {raised, raised \cup {t}}
  BY <1>1 DEF RunItem
<1>5. runs'[t] = 1 /\ \A u \in Task \ {t} : runs'[u] = runs[u]
  BY <1>1, <1>2, <1>3 DEF PoolInv, IInv, TypeOK
<1>6. Pending' = Pending \ {t} /\ t \in Pending
  BY <1>1, <1>2, <1>3, <1>5, AcceptedKept DEF Pending
<1>7. Finished' = Finished \cup {t}
  BY <1>1, <1>5 DEF Finished
<1>8. Elems(ch) \cup Running = Pending
  BY PendingIs DEF PoolInv
<1>9. (Elems(ch) \cup Running)' = Pending'
  BY PendingNext DEF PoolInv
<1>10. Elems(errs)' = Elems(errs)
  BY <1>3 DEF Elems
<1>11. Promise!Finish(t)
  BY <1>3, <1>4, <1>6, <1>7, <1>8, <1>9, <1>10 DEF Promise!Finish, Finished
<1> QED BY <1>1, <1>11 DEF Promise!Next

(* close(wp.ch) closes. *)
LEMMA CloseImplements ==
  ASSUME PoolInv, PoolInv', NEW c \in Closer, CloseChan(c)
  PROVE  Promise!Next
<1>1. ~chClosed /\ chClosed' /\ UNCHANGED <<todo, runs, raised, waiter, errs>>
  BY DEF CloseChan, PoolInv, ProtoInv, Closing, hist
<1>2. ~Returns
  BY <1>1, AfterReturn DEF Returns
<1>3. Pending' = Pending
  BY <1>1, AcceptedKept DEF Pending
<1>4. Elems(ch) \cup Running = Pending
  BY PendingIs DEF PoolInv
<1>5. (Elems(ch) \cup Running)' = Pending'
  BY PendingNext DEF PoolInv
<1>6. Promise!Close
  BY <1>1, <1>2, <1>3, <1>4, <1>5 DEF Promise!Close, Returns
<1> QED BY <1>6 DEF Promise!Next

(* Wait returns, with what failed. *)
LEMMA WaitImplements ==
  ASSUME PoolInv, PoolInv', Protocol, NEW q \in Waiter, WaitHarvest(q)
  PROVE  Promise!Next
<1>1. ewg = 0 /\ waiter[q] = "drain" /\ UNCHANGED <<todo, runs, raised, chClosed, errs>>
  BY DEF WaitHarvest, HarvestDone, chans, hist
<1>2. ~Returns /\ Returns'
  BY <1>1 DEF WaitHarvest, Returns, Protocol, PoolInv, IInv, TypeOK
<1>3. chClosed /\ Pending = {}
  BY <1>1, AfterReturn
<1>4. Elems(errs)' = raised
  BY <1>1, AllHarvested DEF PoolInv, Elems
<1>5. Pending' = Pending
  BY <1>1, AcceptedKept DEF Pending
<1>6. Elems(ch) \cup Running = Pending
  BY PendingIs DEF PoolInv
<1>7. (Elems(ch) \cup Running)' = Pending'
  BY PendingNext DEF PoolInv
<1>8. Promise!Return
  BY <1>1, <1>2, <1>3, <1>4, <1>5, <1>6, <1>7 DEF Promise!Return, Returns
<1> QED BY <1>8 DEF Promise!Next

(* Every step is a step of Pool, or is not seen by it. *)
LEMMA PoolStep ==
  ASSUME PoolInv, PoolInv', Protocol, [Next]_vars
  PROVE  Promise!Next \/ UNCHANGED Promise!vars
<1>1. ASSUME UNCHANGED <<todo, runs, raised, chClosed, errs>>, Returns' = Returns
      PROVE  UNCHANGED Promise!vars
  BY <1>1, PoolStutter DEF PoolInv
<1>2. ASSUME NEW w \in Worker, WorkerStep(w) PROVE Promise!Next \/ UNCHANGED Promise!vars
  <2>1. CASE Recv(w) \/ RangeEnd(w) \/ ReportItem(w) \/ SendErr(w)
    <3>1. UNCHANGED <<todo, runs, raised, chClosed, errs, waiter>>
      BY <2>1 DEF Recv, RangeEnd, ReportItem, SendErr, chans, clients, hist
    <3> QED BY <1>1, <3>1 DEF Returns
  <2> QED BY <1>2, <2>1, RunImplements DEF WorkerStep
<1>3. CASE HarvesterStep
  <2>1. UNCHANGED <<todo, runs, raised, chClosed, waiter>> /\ ewg = 1
    BY <1>3 DEF HarvesterStep, Harvest, HarvestEnd, chans, clients, hist
  <2>2. ~Returns
    BY <2>1 DEF Returns, PoolInv, ProtoInv, Waiting
  <2> QED BY <2>1, <2>2, PoolStutter DEF Returns, PoolInv
<1>4. ASSUME NEW s \in Submitter, SubmitStep(s) PROVE Promise!Next \/ UNCHANGED Promise!vars
  <2>1. CASE SubmitCheck(s)
    <3>1. UNCHANGED <<todo, runs, raised, chClosed, errs, waiter>>
      BY <2>1 DEF SubmitCheck, chans, hist
    <3> QED BY <1>1, <3>1 DEF Returns
  <2> QED BY <1>4, <2>1, SubmitImplements DEF SubmitStep
<1>5. ASSUME NEW c \in Closer, CloseStep(c) PROVE Promise!Next \/ UNCHANGED Promise!vars
  <2>1. CASE CloseSwap(c)
    <3>1. UNCHANGED <<todo, runs, raised, chClosed, errs, waiter>>
      BY <2>1 DEF CloseSwap, chans, hist
    <3> QED BY <1>1, <3>1 DEF Returns
  <2> QED BY <1>5, <2>1, CloseImplements DEF CloseStep
<1>6. ASSUME NEW q \in Waiter, WaitStep(q) PROVE Promise!Next \/ UNCHANGED Promise!vars
  <2>1. CASE WaitWorkers(q) \/ WaitClose(q)
    <3>1. UNCHANGED <<todo, runs, raised, chClosed, errs>>
      BY <2>1 DEF WaitWorkers, WaitClose, chans, hist
    <3>2. Returns' = Returns
      BY <2>1 DEF WaitWorkers, WaitClose, Returns, PoolInv, IInv, TypeOK
    <3> QED BY <1>1, <3>1, <3>2
  <2> QED BY <1>6, <2>1, WaitImplements DEF WaitStep
<1>7. CASE UNCHANGED vars
  BY <1>1, <1>7 DEF vars, chans, clients, hist, Returns
<1> QED BY <1>2, <1>3, <1>4, <1>5, <1>6, <1>7 DEF Next, Quiet, Protocol

(* A pool used by the protocol takes only the steps Pool allows: what PoolSpec *)
(* says without its fairness.                                                *)
THEOREM ImplementsPool ==
  ASSUME Protocol
  PROVE  Spec => Promise!Init /\ [][Promise!Next]_Promise!vars
<1>1. Init => Promise!Init
  <2> SUFFICES ASSUME Init PROVE Promise!Init
    OBVIOUS
  <2>1. Elems(ch) = {} /\ Running = {}
    BY DEF Init, Elems, Running
  <2> QED BY <2>1 DEF Init, Promise!Init
<1>2. PoolInv /\ PoolInv' /\ [Next]_vars => [Promise!Next]_Promise!vars
  BY PoolStep
<1>3. Spec => []PoolInv
  BY ProtoInductive DEF PoolInv
<1> QED BY <1>1, <1>2, <1>3, PTL DEF Spec
=============================================================================
