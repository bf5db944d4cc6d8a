--------------------------- MODULE TreeDiffProofs ---------------------------
(***************************************************************************)
(* Proofs about TreeDiff, for any trees: the tables of a Difference cover    *)
(* both trees, do not overlap, and say what they mean in whatever order the *)
(* workers run.  The invariant to be proved says nothing of how far the     *)
(* workers are; the inductive one says, in each phase, which names have     *)
(* been sorted and which are marked as done.                                *)
(***************************************************************************)
EXTENDS TreeDiff, TLAPS

InSome(n) == \E t \in Table : n \in table[t]

(* the names that lhsDiff marks as done: there is an entry of the same mode  *)
(* on both sides *)
Matched(n) ==
  n \in There("src") /\ n \in There("dst") /\ SameMode(tree["src"][n], tree["dst"][n])

Walked ==
  /\ \A s \in Side : map[s] \subseteq There(s)
  /\ \A s \in Side : walk[s] = "ok" => map[s] = There(s)

(* Before the first pool nothing is sorted. *)
Untouched ==
  pc \in {"lstat", "walk", "error"} =>
    /\ done = {} /\ marked = {} /\ pending = {} /\ finished = {} /\ status = "open"
    /\ \A n \in Name : ~InSome(n)

(* In the first phase the sorted names are those the pool has finished. *)
LeftPhase ==
  pc = "lhs" =>
    /\ Submitted \subseteq There("src")
    /\ pending \cap finished = {}
    /\ \A n \in Name : InSome(n) <=> n \in finished
    /\ \A n \in Name : n \in done <=> n \in marked \cup finished /\ Matched(n)
    /\ marked \subseteq done
    /\ status # "open" => Submitted = There("src")
    /\ status = "returned" => pending = {}

(* In the second one, those and all the names on the left. *)
RightPhase ==
  pc = "rhs" =>
    /\ Submitted \subseteq There("dst")
    /\ pending \cap finished = {}
    /\ marked = {}
    /\ \A n \in Name : InSome(n) <=> n \in There("src") \cup finished
    /\ \A n \in Name : n \in done <=> Matched(n)
    /\ status # "open" => Submitted = There("dst")
    /\ status = "returned" => pending = {}

AllSorted ==
  pc = "done" =>
    /\ marked = {} /\ pending = {}
    /\ \A n \in Name : InSome(n) <=> n \in There("src") \cup There("dst")

Phases == Untouched /\ LeftPhase /\ RightPhase /\ AllSorted

IInv == TypeOK /\ Walked /\ SeenWhole /\ Phases /\ Sorted

-----------------------------------------------------------------------------
(* Storing a name in the table it belongs to. *)
LEMMA PutSorts ==
  ASSUME TypeOK, Sorted, NEW n \in Name, NEW t \in Table, t = Meaning(n),
         Put(t, n), tree' = tree
  PROVE  /\ table' \in [Table -> SUBSET Name]
         /\ Sorted'
         /\ \A m \in Name : InSome(m)' <=> InSome(m) \/ m = n
<1>1. \A u \in Table : table'[u] = IF u = t THEN table[u] \cup {n} ELSE table[u]
  BY DEF Put, TypeOK
<1>2. table' \in [Table -> SUBSET Name]
  BY DEF Put, TypeOK
<1>3. \A m : Meaning(m)' = Meaning(m)
  BY DEF Meaning, There
<1>4. Sorted'
  BY <1>1, <1>3 DEF Sorted
<1>5. \A m \in Name : InSome(m)' <=> InSome(m) \/ m = n
  BY <1>1 DEF InSome
<1> QED BY <1>2, <1>4, <1>5

(* A step that changes no table keeps them sorted. *)
LEMMA SameTables ==
  ASSUME Sorted, tree' = tree, table' = table
  PROVE  Sorted' /\ \A m : InSome(m)' <=> InSome(m)
<1>1. \A m : Meaning(m)' = Meaning(m)
  BY DEF Meaning, There
<1> QED BY <1>1 DEF Sorted, InSome

(* What does not depend on the state of the comparison. *)
LEMMA SameTree ==
  ASSUME tree' = tree
  PROVE  /\ There("src")' = There("src") /\ There("dst")' = There("dst")
         /\ \A s \in Side : There(s)' = There(s)
         /\ \A n : Matched(n)' <=> Matched(n)
BY DEF There, Matched

(* The walks are over when the comparison runs. *)
LEMMA SameWalked ==
  ASSUME Walked, SeenWhole, UNCHANGED trees, pc' = pc \/ pc \in {"lhs", "rhs"}
  PROVE  Walked' /\ SeenWhole'
BY DEF Walked, SeenWhole, trees, There

(* Finish: the unit moves from pending to finished. *)
LEMMA Finishes ==
  ASSUME TypeOK, NEW n \in Name, Finish(n)
  PROVE  /\ n \in pending
         /\ pending' = pending \ {n} /\ finished' = finished \cup {n}
         /\ status' = status
         /\ Submitted' = Submitted
         /\ WP!TypeOK'
<1>1. n \in pending /\ pending' = pending \ {n} /\ finished' = finished \cup {n}
      /\ status' = status /\ result' = result /\ failed' = failed
  BY DEF Finish, WP!Finish
<1>2. Submitted' = Submitted
  BY <1>1 DEF Submitted
<1>3. WP!TypeOK'
  BY <1>1 DEF TypeOK, WP!TypeOK
<1> QED BY <1>1, <1>2, <1>3

-----------------------------------------------------------------------------
(* The initial states satisfy the invariant. *)
LEMMA InitIInv == Init => IInv
<1> SUFFICES ASSUME Init PROVE IInv
  OBVIOUS
<1>1. TypeOK
  <2>1. tree \in [Side -> [Name -> Info \cup {Absent}]]
    BY DEF Init, Trees
  <2> QED BY <2>1 DEF Init, TypeOK, WP!Init, WP!TypeOK
<1>2. Walked /\ SeenWhole
  BY DEF Init, Walked, SeenWhole
<1>3. Phases
  BY DEF Init, WP!Init, Phases, Untouched, LeftPhase, RightPhase, AllSorted, InSome
<1>4. Sorted
  BY DEF Init, Sorted
<1> QED BY <1>1, <1>2, <1>3, <1>4 DEF IInv

(* The walks change no table. *)
LEMMA WalkingStep ==
  ASSUME IInv, Walking
  PROVE  IInv'
<1>1. UNCHANGED <<tree, diff, pool>> /\ pc \in {"lstat", "walk"}
  BY DEF Walking, Lstat, Join, WalkEnds, Store, trees
<1>2. Sorted' /\ \A m : InSome(m)' <=> InSome(m)
  BY <1>1, SameTables DEF IInv, diff
<1>3. TypeOK'
  <2>1. map' \in [Side -> SUBSET Name]
    BY DEF Walking, Lstat, Join, WalkEnds, Store, trees, IInv, TypeOK
  <2>2. walk' \in [Side -> {"walking", "ok", "err"}]
    BY DEF Walking, Lstat, Join, WalkEnds, Store, trees, IInv, TypeOK
  <2>3. pc' \in {"lstat", "walk", "lhs", "rhs", "done", "error"}
    BY DEF Walking, Lstat, Join, WalkEnds, Store, IInv, TypeOK
  <2> QED BY <1>1, <2>1, <2>2, <2>3 DEF IInv, TypeOK, WP!TypeOK, diff, pool
<1>4. Walked'
  <2> USE SameTree, <1>1 DEF IInv, TypeOK, Walked
  <2>1. CASE Lstat \/ Join
    BY <2>1 DEF Lstat, Join, trees
  <2>2. ASSUME NEW s \in Side, WalkEnds(s) PROVE Walked'
    BY <2>2 DEF WalkEnds
  <2>3. ASSUME NEW s \in Side, NEW n \in Name, Store(s, n) PROVE Walked'
    BY <2>3 DEF Store
  <2> QED BY <2>1, <2>2, <2>3 DEF Walking
<1>5. SeenWhole' /\ (pc' \in {"lstat", "walk", "lhs", "error"})
  <2>1. CASE Join
    <3>1. pc' = "lhs" => \A s \in Side : walk[s] = "ok"
      BY <2>1 DEF Join, WalkFailed, IInv, TypeOK
    <3>2. pc' \in {"lhs", "error"} /\ map' = map
      BY <2>1 DEF Join, trees
    <3> QED BY <1>1, <3>1, <3>2, SameTree DEF IInv, Walked, SeenWhole
  <2>2. CASE ~Join
    <3>1. pc' \in {"lstat", "walk", "error"}
      BY <2>2 DEF Walking, Lstat, WalkEnds, Store
    <3> QED BY <3>1 DEF SeenWhole
  <2> QED BY <2>1, <2>2
<1>6. Phases'
  <2>1. Untouched
    BY DEF IInv, Phases
  <2>2. Untouched'
    BY <1>1, <1>2, <2>1 DEF Untouched, diff, pool
  <2>3. LeftPhase'
    BY <1>1, <1>2, <2>1 DEF Untouched, LeftPhase, Submitted, diff, pool
  <2>4. RightPhase' /\ AllSorted'
    BY <1>5 DEF RightPhase, AllSorted
  <2> QED BY <2>2, <2>3, <2>4 DEF Phases
<1> QED BY <1>2, <1>3, <1>4, <1>5, <1>6 DEF IInv

(* Submitting to a pool and closing it. *)
LEMMA SubmitStep ==
  ASSUME IInv, NEW n \in Name, Submit(n)
  PROVE  IInv'
<1>1. UNCHANGED <<trees, tree, pc, diff, table, done, marked>> /\ pc \in {"lhs", "rhs"}
  BY DEF Submit, trees, diff
<1>2. /\ n \in Current /\ n \notin pending \cup finished /\ status = "open"
      /\ pending' = pending \cup {n} /\ finished' = finished /\ status' = status
      /\ failed' = failed /\ result' = result
  BY DEF Submit, WP!Submit
<1>3. Current = IF pc = "lhs" THEN There("src") ELSE There("dst")
  BY <1>1 DEF Current, IInv, SeenWhole, Side
<1>4. TypeOK'
  BY <1>1, <1>2 DEF IInv, TypeOK, WP!TypeOK, trees
<1>5. Walked' /\ SeenWhole' /\ Sorted'
  BY <1>1, SameWalked, SameTables DEF IInv
<1>6. Phases'
  BY <1>1, <1>2, <1>3, SameTables, SameTree
     DEF IInv, Phases, Untouched, LeftPhase, RightPhase, AllSorted, Submitted
<1> QED BY <1>4, <1>5, <1>6 DEF IInv

LEMMA CloseStep ==
  ASSUME IInv, Close
  PROVE  IInv'
<1>1. UNCHANGED <<trees, tree, pc, diff, table, done, marked>> /\ pc \in {"lhs", "rhs"}
  BY DEF Close, trees, diff
<1>2. Submitted = Current /\ status' = "closed" /\ UNCHANGED <<pending, finished, failed, result>>
  BY DEF Close, WP!Close
<1>3. Current = IF pc = "lhs" THEN There("src") ELSE There("dst")
  BY <1>1 DEF Current, IInv, SeenWhole, Side
<1>4. TypeOK'
  BY <1>1, <1>2 DEF IInv, TypeOK, WP!TypeOK, trees
<1>5. Walked' /\ SeenWhole' /\ Sorted'
  BY <1>1, SameWalked, SameTables DEF IInv
<1>6. Phases'
  BY <1>1, <1>2, <1>3, SameTables, SameTree
     DEF IInv, Phases, Untouched, LeftPhase, RightPhase, AllSorted, Submitted
<1> QED BY <1>4, <1>5, <1>6 DEF IInv

(* Wait returns: the pool is closed and nothing is pending. *)
LEMMA WaitStep ==
  ASSUME IInv, Wait
  PROVE  IInv'
<1>1. UNCHANGED <<trees, tree, pc, diff, table, done, marked>>
  BY DEF Wait, trees, diff
<1>2. /\ status = "closed" /\ pending = {} /\ status' = "returned" /\ result' = failed
      /\ UNCHANGED <<pending, finished, failed>>
  BY DEF Wait, WP!Return
<1>3. TypeOK'
  BY <1>1, <1>2 DEF IInv, TypeOK, WP!TypeOK, trees
<1>4. Walked' /\ SeenWhole' /\ Sorted'
  BY <1>1, SameWalked, SameTables DEF IInv
<1>5. Phases'
  BY <1>1, <1>2, SameTables, SameTree
     DEF IInv, Phases, Untouched, LeftPhase, RightPhase, AllSorted, Submitted
<1> QED BY <1>3, <1>4, <1>5 DEF IInv

(* The next pool starts, or the Difference is made: every name the finished  *)
(* phase had to sort is sorted. *)
LEMMA NextPoolStep ==
  ASSUME IInv, NextPool
  PROVE  IInv'
<1>1. UNCHANGED <<trees, tree, table, marked>> /\ pc \in {"lhs", "rhs"} /\ status = "returned"
  BY DEF NextPool, WaitDone, trees
<1>2. /\ pending' = {} /\ finished' = {} /\ failed' = {} /\ result' = {} /\ status' = "open"
      /\ pc' = IF pc = "lhs" THEN "rhs" ELSE "done"
      /\ done' = IF pc = "lhs" THEN done ELSE {}
  BY DEF NextPool
<1>3. marked = {} /\ pending = {}
  BY <1>1 DEF IInv, TypeOK, Phases, LeftPhase, RightPhase
<1>4. TypeOK'
  BY <1>1, <1>2, <1>3 DEF IInv, TypeOK, WP!TypeOK, trees
<1>5. Walked' /\ SeenWhole' /\ Sorted'
  BY <1>1, SameWalked, SameTables DEF IInv
<1>6. CASE pc = "lhs"
  <2>1. RightPhase'
    BY <1>1, <1>2, <1>3, <1>6, SameTables, SameTree
       DEF IInv, Phases, LeftPhase, RightPhase, Submitted, Matched
  <2>2. Untouched' /\ LeftPhase' /\ AllSorted'
    BY <1>2, <1>6 DEF Untouched, LeftPhase, AllSorted
  <2> QED BY <1>4, <1>5, <2>1, <2>2 DEF IInv, Phases
<1>7. CASE pc = "rhs"
  <2>1. AllSorted'
    BY <1>1, <1>2, <1>3, <1>7, SameTables, SameTree
       DEF IInv, Phases, RightPhase, AllSorted, Submitted
  <2>2. Untouched' /\ LeftPhase' /\ RightPhase'
    BY <1>2, <1>7 DEF Untouched, LeftPhase, RightPhase
  <2> QED BY <1>4, <1>5, <2>1, <2>2 DEF IInv, Phases
<1> QED BY <1>1, <1>6, <1>7

(* A worker of the first pool sorts a name, or marks it. *)
LEMMA LhsLoadStep ==
  ASSUME IInv, NEW n \in Name, LhsLoad(n)
  PROVE  IInv'
<1> DEFINE l == tree["src"][n]
           r == tree["dst"][n]
<1>1. UNCHANGED <<trees, tree, pc>> /\ pc = "lhs" /\ n \in pending /\ n \notin marked
  BY DEF LhsLoad, trees
<1>2. n \in There("src") /\ map["dst"] = There("dst")
  BY <1>1 DEF IInv, Phases, LeftPhase, Submitted, SeenWhole, Side
<1>3. Walked' /\ SeenWhole'
  BY <1>1, SameWalked DEF IInv
<1>4. ASSUME NEW t \in Table, t = Meaning(n), Put(t, n), Finish(n), UNCHANGED <<done, marked>>,
             ~Matched(n)
      PROVE  IInv'
  <2>1. /\ table' \in [Table -> SUBSET Name] /\ Sorted'
        /\ \A m \in Name : InSome(m)' <=> InSome(m) \/ m = n
    BY <1>1, <1>4, PutSorts DEF IInv
  <2>2. TypeOK'
    BY <1>1, <1>4, <2>1, Finishes DEF IInv, TypeOK, trees
  <2>3. LeftPhase'
    BY <1>1, <1>4, <2>1, Finishes, SameTree DEF IInv, Phases, LeftPhase
  <2>4. Phases'
    BY <1>1, <2>3 DEF Phases, Untouched, RightPhase, AllSorted
  <2> QED BY <1>3, <2>1, <2>2, <2>4 DEF IInv
<1>5. CASE n \notin map["dst"]
  <2>1. Kind(l, "LeftDirs", "LeftFiles") \in Table /\ Kind(l, "LeftDirs", "LeftFiles") = Meaning(n)
    BY <1>2, <1>5 DEF Kind, Table, Meaning
  <2>2. ~Matched(n)
    BY <1>2, <1>5 DEF Matched
  <2> QED BY <1>4, <1>5, <2>1, <2>2 DEF LhsLoad
<1>6. CASE n \in map["dst"] /\ ~SameMode(l, r)
  <2>1. "Funny" \in Table /\ "Funny" = Meaning(n)
    BY <1>2, <1>6 DEF Table, Meaning
  <2>2. ~Matched(n)
    BY <1>6 DEF Matched
  <2> QED BY <1>4, <1>6, <2>1, <2>2 DEF LhsLoad
<1>7. CASE n \in map["dst"] /\ SameMode(l, r)
  <2>1. done' = done \cup {n} /\ marked' = marked \cup {n} /\ UNCHANGED <<table, pool>>
    BY <1>7 DEF LhsLoad
  <2>2. Matched(n)
    BY <1>2, <1>7 DEF Matched
  <2>3. TypeOK'
    BY <1>1, <2>1 DEF IInv, TypeOK, WP!TypeOK, pool, trees
  <2>4. LeftPhase'
    BY <1>1, <2>1, <2>2, SameTables, SameTree DEF IInv, Phases, LeftPhase, Submitted, pool
  <2>5. Phases'
    BY <1>1, <2>4 DEF Phases, Untouched, RightPhase, AllSorted
  <2> QED BY <1>1, <1>3, <2>1, <2>3, <2>5, SameTables DEF IInv
<1> QED BY <1>5, <1>6, <1>7

(* It compares a marked one. *)
LEMMA LhsCompareStep ==
  ASSUME IInv, NEW n \in Name, LhsCompare(n)
  PROVE  IInv'
<1> DEFINE l == tree["src"][n]
           r == tree["dst"][n]
           t == IF Same(l, r) THEN Kind(l, "CommonDirs", "CommonFiles") ELSE "Diff"
<1>1. UNCHANGED <<trees, tree, pc, done>> /\ n \in marked /\ marked' = marked \ {n}
      /\ Put(t, n) /\ Finish(n)
  BY DEF LhsCompare, trees
<1>2. pc = "lhs" /\ Matched(n)
  BY <1>1 DEF IInv, TypeOK, Phases, Untouched, LeftPhase, RightPhase, AllSorted
<1>3. t \in Table /\ t = Meaning(n)
  BY <1>2 DEF Kind, Table, Meaning, Matched
<1>4. Walked' /\ SeenWhole'
  BY <1>1, SameWalked DEF IInv
<1>5. /\ table' \in [Table -> SUBSET Name] /\ Sorted'
      /\ \A m \in Name : InSome(m)' <=> InSome(m) \/ m = n
  <2> HIDE DEF t
  <2> QED BY <1>1, <1>3, PutSorts DEF IInv
<1>6. TypeOK'
  BY <1>1, <1>5, Finishes DEF IInv, TypeOK, trees
<1>7. LeftPhase'
  BY <1>1, <1>2, <1>5, Finishes, SameTree DEF IInv, Phases, LeftPhase
<1>8. Phases'
  BY <1>1, <1>2, <1>7 DEF Phases, Untouched, RightPhase, AllSorted
<1> QED BY <1>4, <1>5, <1>6, <1>8 DEF IInv

(* A worker of the second pool sorts a name that was not seen on the left. *)
LEMMA RhsLoadStep ==
  ASSUME IInv, NEW n \in Name, RhsLoad(n)
  PROVE  IInv'
<1> DEFINE r == tree["dst"][n]
           t == Kind(r, "RightDirs", "RightFiles")
<1>1. UNCHANGED <<trees, tree, pc, done, marked>> /\ pc = "rhs" /\ n \in pending /\ Finish(n)
  BY DEF RhsLoad, trees
<1>2. n \in There("dst")
  BY <1>1 DEF IInv, Phases, RightPhase, Submitted
<1>3. SeenOnLeft(n) <=> n \in There("src")
  <2>1. n \in table["Funny"] => n \in There("src")
    <3>1. n \in table["Funny"] => "Funny" = Meaning(n)
      BY DEF IInv, Sorted, Table
    <3> QED BY <1>2, <3>1 DEF Meaning, Kind
  <2>2. n \in There("src") /\ ~Matched(n) => n \in table["Funny"]
    <3> SUFFICES ASSUME n \in There("src"), ~Matched(n) PROVE n \in table["Funny"]
      OBVIOUS
    <3>1. InSome(n)
      BY <1>1 DEF IInv, Phases, RightPhase
    <3>2. Meaning(n) = "Funny"
      BY <1>2 DEF Meaning, Matched
    <3> QED BY <3>1, <3>2 DEF InSome, IInv, Sorted
  <2>3. n \in done <=> Matched(n)
    BY <1>1 DEF IInv, Phases, RightPhase
  <2>4. Matched(n) => n \in There("src")
    BY DEF Matched
  <2> QED BY <2>1, <2>2, <2>3, <2>4 DEF SeenOnLeft
<1>4. Walked' /\ SeenWhole'
  BY <1>1, SameWalked DEF IInv
<1>5. /\ table' \in [Table -> SUBSET Name] /\ Sorted'
      /\ \A m \in Name : InSome(m)' <=> InSome(m) \/ (m = n /\ n \notin There("src"))
  <2>1. CASE SeenOnLeft(n)
    BY <1>1, <1>3, <2>1, SameTables DEF RhsLoad, IInv, TypeOK
  <2>2. CASE ~SeenOnLeft(n)
    <3>1. t \in Table /\ t = Meaning(n)
      BY <1>2, <1>3, <2>2 DEF Kind, Table, Meaning
    <3>2. Put(t, n)
      BY <2>2 DEF RhsLoad
    <3> HIDE DEF t
    <3> QED BY <1>1, <1>3, <2>2, <3>1, <3>2, PutSorts DEF IInv
  <2> QED BY <2>1, <2>2
<1>6. TypeOK'
  BY <1>1, <1>5, Finishes DEF IInv, TypeOK, Phases, RightPhase, trees
<1>7. RightPhase'
  BY <1>1, <1>5, Finishes, SameTree DEF IInv, Phases, RightPhase
<1>8. Phases'
  BY <1>1, <1>7 DEF Phases, Untouched, LeftPhase, AllSorted
<1> QED BY <1>4, <1>5, <1>6, <1>8 DEF IInv

(* Every step preserves the invariant. *)
LEMMA NextIInv == IInv /\ [Next]_vars => IInv'
<1> SUFFICES ASSUME IInv, [Next]_vars PROVE IInv'
  OBVIOUS
<1>1. CASE UNCHANGED vars
  BY <1>1 DEF vars, trees, diff, pool, IInv, TypeOK, WP!TypeOK, Walked, SeenWhole, Sorted, Phases,
              Untouched, LeftPhase, RightPhase, AllSorted, InSome, Matched, Meaning, There, Submitted
<1>2. CASE Walking
  BY <1>2, WalkingStep
<1>3. CASE Pooling
  BY <1>3, SubmitStep, CloseStep, WaitStep, NextPoolStep DEF Pooling
<1>4. CASE Working
  BY <1>4, LhsLoadStep, LhsCompareStep, RhsLoadStep DEF Working
<1> QED BY <1>1, <1>2, <1>3, <1>4 DEF Next, Stopped

(* The inductive invariant holds in every reachable state. *)
THEOREM Inductive == Spec => []IInv
BY InitIInv, NextIInv, PTL DEF Spec

(* Every variable keeps its type. *)
THEOREM TypeCorrect == Spec => []TypeOK
<1>1. IInv => TypeOK
  BY DEF IInv
<1> QED BY Inductive, <1>1, PTL

(* The tables do not overlap, and those of a finished Difference cover both  *)
(* trees. *)
THEOREM PartitionHolds == Spec => []Partition
<1>1. IInv => Partition
  BY DEF IInv, Sorted, Phases, AllSorted, Partition, InTable, InSome
<1> QED BY Inductive, <1>1, PTL

(* Every name is in the table that the two trees alone determine. *)
THEOREM SortedHolds == Spec => []Sorted
<1>1. IInv => Sorted
  BY DEF IInv
<1> QED BY Inductive, <1>1, PTL

(* The comparison only ever runs on two trees that were walked to the end. *)
THEOREM SeenWholeHolds == Spec => []SeenWhole
<1>1. IInv => SeenWhole
  BY DEF IInv
<1> QED BY Inductive, <1>1, PTL

(* A tree does not differ from one that is equal to it. *)
THEOREM ReflexiveHolds == Spec => []Reflexive
<1>1. IInv => Reflexive
  <2> SUFFICES ASSUME IInv, tree["src"] = tree["dst"], \A i \in Info : <<i, i>> \in Deep,
                      NEW t \in Table \ {"CommonDirs", "CommonFiles"}, NEW n \in table[t]
               PROVE  FALSE
    BY DEF Reflexive
  <2>1. n \in Name /\ t = Meaning(n)
    BY DEF IInv, TypeOK, Sorted
  <2>2. There("src") = There("dst")
    BY DEF There
  <2>3. CASE n \in There("src")
    <3>1. tree["src"][n] \in Info
      BY <2>1, <2>3 DEF IInv, TypeOK, Side, There
    <3>2. Same(tree["src"][n], tree["dst"][n]) /\ SameMode(tree["src"][n], tree["dst"][n])
      BY <3>1 DEF Same, FileEq, SameMode, XattrEqual
    <3> QED BY <2>1, <2>2, <2>3, <3>2 DEF Meaning, Kind
  <2>4. CASE n \notin There("src")
    <3>1. n \notin There("dst") /\ ~InSome(n)
      BY <2>1, <2>2, <2>4 DEF IInv, TypeOK, Phases, Untouched, LeftPhase, RightPhase, AllSorted,
                               WP!TypeOK, Submitted
    <3> QED BY <3>1 DEF InSome
  <2> QED BY <2>3, <2>4
<1> QED BY Inductive, <1>1, PTL
=============================================================================
