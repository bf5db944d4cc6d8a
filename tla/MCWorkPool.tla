----------------------------- MODULE MCWorkPool -----------------------------
(* Small instances of WorkPool: who submits what. *)
EXTENDS WorkPool

CONSTANTS t1, t2, t3, s1, s2

\* cmp/engine.go submits from one goroutine, clone/tree.go from several
MCAssigned == [s \in Submitter |-> IF s = s1 THEN Task \ {t3} ELSE {t3} \cap Task]
=============================================================================
