-------------------------------- MODULE Pool --------------------------------
(***************************************************************************)
(* What a caller of fio.WorkPool is promised, with the goroutines and the  *)
(* channels left out: work is accepted while the pool is open, every       *)
(* accepted unit is finished once, in any order, and the one call of Wait  *)
(* returns after the pool is closed and everything accepted is finished,   *)
(* with exactly the errors of the units that failed.                       *)
(***************************************************************************)
CONSTANT Task

VARIABLES
  pending,   \* units accepted and not finished
  finished,  \* units finished
  failed,    \* finished units that returned an error
  status,    \* "open", "closed" (no more work), "returned" (Wait is back)
  result     \* what Wait returned

vars == <<pending, finished, failed, status, result>>

(* Only what was finished has failed, and only what was submitted is there. *)
TypeOK ==
  /\ pending \subseteq Task
  /\ finished \subseteq Task
  /\ failed \subseteq finished
  /\ status \in {"open", "closed", "returned"}
  /\ result \subseteq Task

Init ==
  /\ pending = {} /\ finished = {} /\ failed = {}
  /\ status = "open"
  /\ result = {}

Submit(t) ==
  /\ status = "open"
  /\ t \notin pending \cup finished
  /\ pending' = pending \cup {t}
  /\ UNCHANGED <<finished, failed, status, result>>

Finish(t) ==
  /\ t \in pending
  /\ pending' = pending \ {t}
  /\ finished' = finished \cup {t}
  /\ failed' \in {failed, failed \cup {t}}
  /\ UNCHANGED <<status, result>>

Close ==
  /\ status = "open"
  /\ status' = "closed"
  /\ UNCHANGED <<pending, finished, failed, result>>

Return ==
  /\ status = "closed"
  /\ pending = {}
  /\ status' = "returned"
  /\ result' = failed
  /\ UNCHANGED <<pending, finished, failed>>

Next ==
  \/ \E t \in Task : Submit(t) \/ Finish(t)
  \/ Close
  \/ Return

Spec == Init /\ [][Next]_vars /\ WF_vars(Return)
=============================================================================
