------------------------------ MODULE WorkPool ------------------------------
(***************************************************************************)
(* fio.WorkPool (workpool.go): worker goroutines that receive work from a  *)
(* bounded channel, an error channel of capacity one drained by a          *)
(* harvester goroutine, and the methods Submit, Close, Wait and Err called *)
(* by client goroutines.  One action is one step between two points where  *)
(* another goroutine can run: a channel operation, an atomic load or swap, *)
(* a WaitGroup operation, or the caller's work function.                   *)
(*                                                                         *)
(* A panic nobody recovers ends the process: it is recorded in `fatal' and *)
(* nothing happens after it.                                               *)
(***************************************************************************)
EXTENDS Integers, Sequences, FiniteSets

CONSTANTS
  Task,         \* units of work
  NWorkers,     \* nworkers passed to NewWorkPool
  NumCPU,       \* runtime.NumCPU()
  Submitter,    \* goroutines that call Submit
  Assigned,     \* Assigned[s]: the units submitter s submits
  Closer,       \* goroutines that call Close, once each
  Waiter,       \* goroutines that call Wait, once each
  Reporter,     \* goroutines that call Err, once each, with their own error
  Outcome,      \* how a work function may end, a subset of Outcomes
  Disciplined   \* Close follows every Submit, and Wait follows Close

Outcomes == {"ok", "err", "report", "panic", "throw"}

ASSUME Assumptions ==
  /\ Task # {}
  /\ NumCPU \in Nat \ {0}
  /\ NWorkers \in Int
  /\ Assigned \in [Submitter -> SUBSET Task]
  /\ \A s1, s2 \in Submitter : s1 # s2 => Assigned[s1] \cap Assigned[s2] = {}
  /\ Task \cap Reporter = {}
  /\ Outcome \subseteq Outcomes
  /\ Disciplined \in BOOLEAN

VARIABLES
  stopped,    \* wp.stopped
  wg,         \* counter of wp.wg
  ch,         \* contents of wp.ch
  chClosed,
  ech,        \* contents of wp.ech
  echClosed,
  ewg,        \* counter of wp.ewg
  errs,       \* wp.errs
  worker,     \* where each worker goroutine is
  item,       \* the unit a worker received last
  todo,       \* todo[s]: units submitter s has still to submit
  submitter,  \* where each submitter is inside Submit
  closer, waiter, reporter,
  fatal,      \* the panic that ended the process, or "none"
  runs,       \* history: how often the work function was called on each unit
  raised      \* history: errors returned by work functions or passed to Err

chans == <<ch, chClosed, ech, echClosed>>
hist == <<runs, raised>>
clients == <<todo, submitter, closer, waiter, reporter>>
vars == <<stopped, wg, chans, ewg, errs, worker, item, clients, fatal, hist>>

(* nworkers <= 1 means "use every cpu" *)
PoolSize == IF NWorkers <= 1 THEN NumCPU ELSE NWorkers
Worker == 1 .. PoolSize

AddedOne == 1   \* mutant: wg.Add(1) outside the loop
(* wp.wg.Add(nworkers), once for all the goroutines *)
Added == PoolSize

EchCap == 1
Error == Task \cup Reporter

Elems(q) == {q[i] : i \in 1 .. Len(q)}

-----------------------------------------------------------------------------
(* NewWorkPool *)
Init ==
  /\ stopped = FALSE
  /\ wg = Added /\ ewg = 1
  /\ ch = <<>> /\ chClosed = FALSE
  /\ ech = <<>> /\ echClosed = FALSE
  /\ errs = <<>>
  /\ worker = [w \in Worker |-> "recv"]
  /\ item \in [Worker -> {CHOOSE t \in Task : TRUE}]
  /\ todo = Assigned
  /\ submitter = [s \in Submitter |-> "ready"]
  /\ closer = [c \in Closer |-> "ready"]
  /\ waiter = [q \in Waiter |-> "ready"]
  /\ reporter = [r \in Reporter |-> "ready"]
  /\ fatal = "none"
  /\ runs = [t \in Task |-> 0]
  /\ raised = {}

(* A send on wp.ech: it panics on a closed channel and blocks on a full one. *)
SendEch(e) ==
  IF echClosed
  THEN fatal' = "send_on_closed_ech" /\ UNCHANGED ech
  ELSE Len(ech) < EchCap /\ ech' = Append(ech, e) /\ UNCHANGED fatal

-----------------------------------------------------------------------------
(* The worker goroutines: for w := range wp.ch { fp(i, w) ... }; wg.Done() *)

\* mutant: the unit is looked at and not taken
RecvPeek(w) ==
  /\ worker[w] = "recv"
  /\ ch # <<>>
  /\ item' = [item EXCEPT ![w] = Head(ch)]
  /\ worker' = [worker EXCEPT ![w] = "run"]
  /\ UNCHANGED <<stopped, wg, chans, ewg, errs, clients, fatal, hist>>

Recv(w) ==
  /\ worker[w] = "recv"
  /\ ch # <<>>
  /\ item' = [item EXCEPT ![w] = Head(ch)]
  /\ ch' = Tail(ch)
  /\ worker' = [worker EXCEPT ![w] = "run"]
  /\ UNCHANGED <<stopped, wg, chClosed, ech, echClosed, ewg, errs, clients, fatal, hist>>

RangeOverEarly == chClosed   \* mutant: a closed channel ends the loop at once
RangeOver == ch = <<>> /\ chClosed

RangeEnd(w) ==
  /\ worker[w] = "recv"
  /\ RangeOver
  /\ worker' = [worker EXCEPT ![w] = "exited"]
  /\ wg' = wg - 1
  /\ UNCHANGED <<stopped, chans, ewg, errs, item, clients, fatal, hist>>

(* The caller's function on item[w].  "report" is a function that hands its *)
(* error to wp.Err while it runs; "panic" panics with an error value, which *)
(* the deferred recover passes on; "throw" panics with any other value, so  *)
(* that the type assertion e.(error) panics again.                          *)
AfterRun == [ok |-> "recv", err |-> "send", report |-> "report",
             panic |-> "recover", throw |-> "dead"]

RunItem(w) ==
  /\ worker[w] = "run"
  /\ runs' = [runs EXCEPT ![item[w]] = @ + 1]
  /\ \E o \in Outcome :
       /\ worker' = [worker EXCEPT ![w] = AfterRun[o]]
       /\ raised' = IF o \in {"ok", "throw"} THEN raised ELSE raised \cup {item[w]}
       /\ fatal' = IF o = "throw" THEN "panic_in_recover" ELSE fatal
  /\ UNCHANGED <<stopped, wg, chans, ewg, errs, item, clients>>

(* The load of wp.stopped in Err, called by the work function. *)
ErrGuard == ~stopped

ReportItem(w) ==
  /\ worker[w] = "report"
  /\ worker' = [worker EXCEPT ![w] = IF ErrGuard THEN "send" ELSE "recv"]
  /\ UNCHANGED <<stopped, wg, chans, ewg, errs, item, clients, fatal, hist>>

(* The loop continues after a send; after the deferred recover it does not, *)
(* and wg.Done() at its end is skipped.                                     *)
AfterSendReturn(p) == "dead"   \* mutant: a worker gives up at its first error
AfterSend(p) == IF p = "send" THEN "recv" ELSE "dead"

SendErr(w) ==
  /\ worker[w] \in {"send", "recover"}
  /\ SendEch(item[w])
  /\ worker' = [worker EXCEPT ![w] = AfterSend(@)]
  /\ UNCHANGED <<stopped, wg, ch, chClosed, echClosed, ewg, errs, item, clients, hist>>

-----------------------------------------------------------------------------
(* The harvester: for e := range wp.ech { errs = append(errs, e) }; ewg.Done() *)

\* mutant: the error is read and not taken
HarvestPeek ==
  /\ ewg = 1
  /\ ech # <<>> /\ Len(errs) < 4
  /\ errs' = Append(errs, Head(ech))
  /\ UNCHANGED <<stopped, wg, chans, ewg, worker, item, clients, fatal, hist>>

Harvest ==
  /\ ewg = 1
  /\ ech # <<>>
  /\ errs' = Append(errs, Head(ech))
  /\ ech' = Tail(ech)
  /\ UNCHANGED <<stopped, wg, ch, chClosed, echClosed, ewg, worker, item, clients, fatal, hist>>

HarvestEnd ==
  /\ ewg = 1
  /\ ech = <<>> /\ echClosed
  /\ ewg' = 0
  /\ UNCHANGED <<stopped, wg, chans, errs, worker, item, clients, fatal, hist>>

-----------------------------------------------------------------------------
(* Submit: the load of stopped, then the send on wp.ch *)

SubmitCheck(s) ==
  /\ submitter[s] = "ready"
  /\ todo[s] # {}
  /\ IF stopped
     THEN fatal' = "worker_stopped" /\ UNCHANGED submitter
     ELSE submitter' = [submitter EXCEPT ![s] = "send"] /\ UNCHANGED fatal
  /\ UNCHANGED <<stopped, wg, chans, ewg, errs, worker, item, todo, closer, waiter, reporter, hist>>

SubmitSend(s) ==
  /\ submitter[s] = "send"
  /\ IF chClosed
     THEN fatal' = "send_on_closed_ch" /\ UNCHANGED <<ch, todo, submitter>>
     ELSE /\ Len(ch) < PoolSize
          /\ \E t \in todo[s] :
               /\ ch' = Append(ch, t)
               /\ todo' = [todo EXCEPT ![s] = @ \ {t}]
          /\ submitter' = [submitter EXCEPT ![s] = "ready"]
          /\ UNCHANGED fatal
  /\ UNCHANGED <<stopped, wg, chClosed, ech, echClosed, ewg, errs, worker, item,
                 closer, waiter, reporter, hist>>

-----------------------------------------------------------------------------
(* Close: the swap of stopped, then close(wp.ch) *)

(* The callers in cmp/engine.go and clone/tree.go join their submitting     *)
(* goroutines before Close, and call Wait after Close in the same goroutine *)
Joined == \A s \in Submitter : todo[s] = {}
AllClosed == \A c \in Closer : closer[c] = "done"

CloseSwap(c) ==
  /\ closer[c] = "ready"
  /\ Disciplined => Joined
  /\ stopped' = TRUE
  /\ IF stopped
     THEN fatal' = "worker_already_closed" /\ UNCHANGED closer
     ELSE closer' = [closer EXCEPT ![c] = "close"] /\ UNCHANGED fatal
  /\ UNCHANGED <<wg, chans, ewg, errs, worker, item, todo, submitter, waiter, reporter, hist>>

CloseChan(c) ==
  /\ closer[c] = "close"
  /\ chClosed' = TRUE
  /\ closer' = [closer EXCEPT ![c] = "done"]
  /\ UNCHANGED <<stopped, wg, ch, ech, echClosed, ewg, errs, worker, item,
                 todo, submitter, waiter, reporter, fatal, hist>>

-----------------------------------------------------------------------------
(* Wait: wg.Wait(), close(wp.ech), ewg.Wait(), then errs is read *)

WorkersDoneLoose == wg <= 1     \* mutant: off by one
WorkersDone == wg = 0

HarvestDoneSkipped == TRUE      \* mutant: Wait reads errs at once
HarvestDone == ewg = 0

WaitWorkers(q) ==
  /\ waiter[q] = "ready"
  /\ Disciplined => AllClosed
  /\ WorkersDone
  /\ waiter' = [waiter EXCEPT ![q] = "close"]
  /\ UNCHANGED <<stopped, wg, chans, ewg, errs, worker, item,
                 todo, submitter, closer, reporter, fatal, hist>>

WaitClose(q) ==
  /\ waiter[q] = "close"
  /\ echClosed' = TRUE
  /\ IF echClosed
     THEN fatal' = "close_of_closed_ech" /\ UNCHANGED waiter
     ELSE waiter' = [waiter EXCEPT ![q] = "drain"] /\ UNCHANGED fatal
  /\ UNCHANGED <<stopped, wg, ch, chClosed, ech, ewg, errs, worker, item,
                 todo, submitter, closer, reporter, hist>>

WaitHarvest(q) ==
  /\ waiter[q] = "drain"
  /\ HarvestDone
  /\ waiter' = [waiter EXCEPT ![q] = "returned"]
  /\ UNCHANGED <<stopped, wg, chans, ewg, errs, worker, item,
                 todo, submitter, closer, reporter, fatal, hist>>

-----------------------------------------------------------------------------
(* Err, called by a goroutine the work function left behind *)

ErrCheck(r) ==
  /\ reporter[r] = "ready"
  /\ raised' = raised \cup {r}
  /\ reporter' = [reporter EXCEPT ![r] = IF ErrGuard THEN "send" ELSE "dropped"]
  /\ UNCHANGED <<stopped, wg, chans, ewg, errs, worker, item,
                 todo, submitter, closer, waiter, fatal, runs>>

ErrSend(r) ==
  /\ reporter[r] = "send"
  /\ SendEch(r)
  /\ reporter' = [reporter EXCEPT ![r] = "sent"]
  /\ UNCHANGED <<stopped, wg, ch, chClosed, echClosed, ewg, errs, worker, item,
                 todo, submitter, closer, waiter, hist>>

-----------------------------------------------------------------------------
Alive == fatal = "none"

WorkerStep(w) == Alive /\ (Recv(w) \/ RangeEnd(w) \/ RunItem(w) \/ ReportItem(w) \/ SendErr(w))
HarvesterStep == Alive /\ (Harvest \/ HarvestEnd)
SubmitStep(s) == Alive /\ (SubmitCheck(s) \/ SubmitSend(s))
CloseStep(c) == Alive /\ (CloseSwap(c) \/ CloseChan(c))
WaitStep(q) == Alive /\ (WaitWorkers(q) \/ WaitClose(q) \/ WaitHarvest(q))
ErrStep(r) == Alive /\ (ErrCheck(r) \/ ErrSend(r))

(* The process ended with a panic, or every goroutine has finished. *)
Quiet ==
  /\ \/ ~Alive
     \/ /\ \A w \in Worker : worker[w] = "exited"
        /\ HarvestDone
        /\ Joined /\ AllClosed
        /\ \A q \in Waiter : waiter[q] = "returned"
        /\ \A r \in Reporter : reporter[r] \in {"sent", "dropped"}
  /\ UNCHANGED vars

Next ==
  \/ \E w \in Worker : WorkerStep(w)
  \/ HarvesterStep
  \/ \E s \in Submitter : SubmitStep(s)
  \/ \E c \in Closer : CloseStep(c)
  \/ \E q \in Waiter : WaitStep(q)
  \/ \E r \in Reporter : ErrStep(r)
  \/ Quiet

(* The Go scheduler runs every runnable goroutine eventually. *)
Fairness ==
  /\ \A w \in Worker : WF_vars(WorkerStep(w))
  /\ WF_vars(HarvesterStep)
  /\ \A s \in Submitter : WF_vars(SubmitStep(s))
  /\ \A c \in Closer : WF_vars(CloseStep(c))
  /\ \A q \in Waiter : WF_vars(WaitStep(q))
  /\ \A r \in Reporter : WF_vars(ErrStep(r))

Spec == Init /\ [][Next]_vars
FairSpec == Spec /\ Fairness

-----------------------------------------------------------------------------
(* Every variable has the type of the field or goroutine state it models;  *)
(* wg in particular never goes below zero, where Done panics.              *)
TypeOK ==
  /\ stopped \in BOOLEAN /\ chClosed \in BOOLEAN /\ echClosed \in BOOLEAN
  /\ wg \in Nat /\ ewg \in {0, 1}
  /\ ch \in Seq(Task) /\ ech \in Seq(Error) /\ errs \in Seq(Error)
  /\ worker \in [Worker -> {"recv", "run", "report", "send", "recover", "exited", "dead"}]
  /\ item \in [Worker -> Task]
  /\ todo \in [Submitter -> SUBSET Task]
  /\ submitter \in [Submitter -> {"ready", "send"}]
  /\ closer \in [Closer -> {"ready", "close", "done"}]
  /\ waiter \in [Waiter -> {"ready", "close", "drain", "returned"}]
  /\ reporter \in [Reporter -> {"ready", "send", "sent", "dropped"}]
  /\ fatal \in {"none", "send_on_closed_ech", "panic_in_recover", "worker_stopped",
                "send_on_closed_ch", "worker_already_closed", "close_of_closed_ech"}
  /\ runs \in [Task -> Nat] /\ raised \subseteq Error

(* A unit some submitter has handed over. *)
Accepted(t) == \E s \in Submitter : t \in Assigned[s] \ todo[s]
InHand(t) == \E w \in Worker : worker[w] = "run" /\ item[w] = t

(* An accepted unit is never lost and never given to two workers: it waits  *)
(* in the channel, or one worker holds it, or it was run once (range loop   *)
(* of the workers against Submit, any number of them).                      *)
Conservation ==
  \A t \in Task :
    Cardinality({i \in 1 .. Len(ch) : ch[i] = t})
      + Cardinality({w \in Worker : worker[w] = "run" /\ item[w] = t}) + runs[t]
    = IF Accepted(t) THEN 1 ELSE 0

(* Once Wait is past wg.Wait(), every accepted unit has been run: this is   *)
(* what lets cmp process the right side "only after we've done the left     *)
(* side", and clone create files only after the directories.                *)
Barrier ==
  \A q \in Waiter : waiter[q] # "ready" =>
    \A t \in Task : Accepted(t) => runs[t] = 1

(* Wait returns every error of every work function, each of them once.     *)
NoLostErrors ==
  \A q \in Waiter : waiter[q] = "returned" =>
    /\ Elems(errs) = raised
    /\ Len(errs) = Cardinality(raised)

(* No call sequence that follows the protocol panics: nothing is sent on a *)
(* closed channel and nothing is closed twice.                              *)
NoCrash == Alive

(* However the methods are called, no worker finds wp.ech closed: only     *)
(* wg = 0 lets Wait close it.                                               *)
WorkersFindEchOpen ==
  echClosed => \A w \in Worker : worker[w] \notin {"run", "report", "send", "recover"}

(* However the methods are called, an error reaches wp.errs at most once    *)
(* and only if somebody raised it.                                          *)
ErrorsGenuine ==
  LET seen == errs \o ech IN
    /\ Elems(seen) \subseteq raised
    /\ \A i, j \in 1 .. Len(seen) : seen[i] = seen[j] => i = j

(* Used by the protocol, every Wait comes back: no error volume and no      *)
(* order of the goroutines blocks the workers, the harvester and the        *)
(* waiter on one another.                                                   *)
WaitReturns == <>(\A q \in Waiter : waiter[q] = "returned")

-----------------------------------------------------------------------------
(* The pool implements its promise. *)
Running == {item[w] : w \in {v \in Worker : worker[v] = "run"}}

Promise == INSTANCE Pool WITH
  pending  <- Elems(ch) \cup Running,
  finished <- {t \in Task : runs[t] > 0},
  failed   <- raised,
  status   <- IF \E q \in Waiter : waiter[q] = "returned" THEN "returned"
              ELSE IF chClosed THEN "closed" ELSE "open",
  result   <- IF \E q \in Waiter : waiter[q] = "returned" THEN Elems(errs) ELSE {}

(* A pool used by the protocol behaves as Pool says, and Wait does return. *)
PoolSpec == Promise!Spec
=============================================================================
