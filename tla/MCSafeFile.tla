----------------------------- MODULE MCSafeFile -----------------------------
(* Small instances of SafeFile: up to two SafeFiles for one name, each with  *)
(* its owner, and another goroutine that uses the first one. *)
EXTENDS SafeFile

CONSTANTS f1, f2, o1, o2, x1

MCOf == [p \in Proc |-> IF p = o2 THEN f2 ELSE f1]
=============================================================================
