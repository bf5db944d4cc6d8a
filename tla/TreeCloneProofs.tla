--------------------------- MODULE TreeCloneProofs ---------------------------
(***************************************************************************)
(* Proofs about TreeClone, for any two trees, any failures and any order of *)
(* the workers: a file that is the same on both sides stays the file it was, *)
(* whatever is copied, deleted or fixed up.  The inductive invariant says    *)
(* which tables the units of each pool come from, and that a submitting      *)
(* goroutine that is about to store a name in m keeps its pool open.         *)
(***************************************************************************)
EXTENDS TreeClone, TLAPS

Inos == {Src[n].ino : n \in {k \in Name : Src[k].type = "file"}}

Shape ==
  /\ dst = [n \in Name |-> dst[n]]
  /\ before \in Before
  /\ table \in [Name -> Tables]
  /\ links \in [Name -> Name \cup {"none"}]
  /\ holding \in [{"Diff", "LeftFiles"} -> Name \cup {"none"}]
  /\ m \in [Inos -> Name \cup {"none"}]
  /\ pc = "start" => dst = before /\ modified = {} /\ \A n \in Name : table[n] = "none"

(* What the comparison of src and of what dst was says of a name *)
Compared ==
  \A n \in Name :
    /\ table[n] = "CommonFiles" =>
         /\ before[n] # Absent /\ before[n].type # "dir"
         /\ Src[n] # Absent /\ Src[n].type # "dir"
    /\ table[n] \in Right => before[n] # Absent /\ Src[n] = Absent
    /\ table[n] \in {"LeftDirs", "LeftFiles", "Diff"} => Src[n] # Absent

(* The units of each pool *)
Units ==
  /\ pc \notin {"dirs", "work", "links"} => pending = {}
  /\ pc = "dirs" => pending \subseteq In({"LeftDirs"})
  /\ pc = "work" => pending \subseteq In({"LeftFiles", "Diff"} \cup Right)
  /\ pc = "links" => pending \subseteq ToLink
  /\ ToLink \subseteq In({"LeftFiles", "Diff"})

(* A goroutine inside hardlinker.track holds a unit nobody has submitted. *)
Held ==
  \A g \in {"Diff", "LeftFiles"} : holding[g] # "none" =>
    /\ pc = "work" /\ status = "open"
    /\ holding[g] \in In({g}) \ (Submitted \cup ToLink)

(* The second pool is closed when every unit for it was submitted or put aside. *)
Joined ==
  pc = "work" /\ status # "open" => In({"LeftFiles", "Diff"} \cup Right) \subseteq Submitted \cup ToLink

(* Only directories of src are to be fixed up, or those deletions name. *)
Modified == \A d \in modified \cap Name : table[d] # "CommonFiles"

(* A file that is the same on both sides stays the file it was. *)
Kept == \A n \in In({"CommonFiles"}) : dst[n] = before[n]

IInv == Shape /\ Compared /\ Units /\ Held /\ Joined /\ Modified /\ Kept

-----------------------------------------------------------------------------
(* The tables do not change after the comparison. *)
LEMMA SameCompared ==
  ASSUME Compared, UNCHANGED <<table, before>>
  PROVE  Compared'
BY DEF Compared

(* A file that is the same on both sides is a file on both sides. *)
LEMMA Common ==
  ASSUME IInv, NEW k \in Name, table[k] = "CommonFiles"
  PROVE  /\ dst[k] # Absent /\ dst[k].type # "dir"
         /\ Src[k] # Absent /\ Src[k].type # "dir"
<1>1. dst[k] = before[k]
  BY DEF IInv, Kept, In
<1> QED BY <1>1 DEF IInv, Compared

(* The units of the pools are names that differ. *)
LEMMA UnitTables ==
  ASSUME IInv, NEW n \in pending
  PROVE  /\ n \in Name /\ pc \in {"dirs", "work", "links"}
         /\ table[n] \in {"LeftDirs", "LeftFiles", "Diff"} \cup Right
         /\ pc # "work" => table[n] \in {"LeftDirs", "LeftFiles", "Diff"}
         /\ table[n] # "CommonFiles"
<1>1. pc \in {"dirs", "work", "links"}
  BY DEF IInv, Units
<1>2. n \in Name
  BY <1>1 DEF IInv, Units, In, ToLink
<1>3. CASE pc = "dirs"
  BY <1>2, <1>3 DEF IInv, Units, In
<1>4. CASE pc = "work"
  BY <1>2, <1>4 DEF IInv, Units, In, Right
<1>5. CASE pc = "links"
  BY <1>2, <1>5 DEF IInv, Units, In
<1> QED BY <1>1, <1>2, <1>3, <1>4, <1>5

(* A directory that was in dst, or is in src, is not a file on both sides. *)
LEMMA NotCommon ==
  ASSUME IInv, NEW d \in Name, Src[d].type = "dir" \/ before[d].type = "dir"
  PROVE  table[d] # "CommonFiles"
BY DEF IInv, Compared

(* What a unit tracks is never a file on both sides. *)
LEMMA TracksDirs ==
  ASSUME IInv, NEW n \in pending, NEW d \in Tracked(n) \cap Name
  PROVE  table[d] # "CommonFiles"
<1>1. n \in Name /\ table[n] \in {"LeftDirs", "LeftFiles", "Diff"} \cup Right
  BY UnitTables
<1>2. TreeOK(Src) /\ TreeOK(before)
  BY Assumptions DEF IInv, Shape
<1>3. CASE n \in In(Right)
  <2>1. d = DirOf(Parent[n]) /\ before[n] # Absent
    BY <1>1, <1>3 DEF Tracked, IInv, Compared, In
  <2>2. Parent[n] \in Name /\ d = Parent[Parent[n]]
    BY <2>1, <1>1, Assumptions DEF DirOf
  <2>3. before[Parent[n]].type = "dir"
    BY <2>1, <2>2, <1>1, <1>2, Assumptions DEF TreeOK
  <2>4. before[Parent[n]] # Absent
    BY <2>3 DEF Absent
  <2>5. before[d].type = "dir"
    BY <2>2, <2>4, <1>2, Assumptions DEF TreeOK
  <2> QED BY <2>5, NotCommon
<1>4. CASE n \notin In(Right)
  <2>1. d = Parent[n] /\ Src[n] # Absent
    BY <1>1, <1>4 DEF Tracked, IInv, Compared, In
  <2>2. Src[d].type = "dir"
    BY <2>1, <1>1, <1>2, Assumptions DEF TreeOK
  <2> QED BY <2>2, NotCommon
<1> QED BY <1>3, <1>4

-----------------------------------------------------------------------------
(* The operations on the file system: each yields a tree, and keeps what is  *)
(* there, is no directory, and is not what it is about. *)
LEMMA ChangedKeeps ==
  ASSUME NEW t, NEW S, NEW k \in Name, t[k].type # "dir"
  PROVE  Changed(t, S)[k] = t[k]
BY DEF Changed, IsDir

LEMMA PutKeeps ==
  ASSUME NEW t, t = [j \in Name |-> t[j]], NEW n \in Name, NEW e,
         NEW k \in Name, k # n, t[k].type # "dir"
  PROVE  Put(t, n, e)[k] = t[k]
<1> DEFINE u == [t EXCEPT ![n] = e]
<1>1. u[k] = t[k]
  OBVIOUS
<1>2. Changed(u, {n})[k] = u[k]
  BY <1>1, ChangedKeeps
<1> QED BY <1>1, <1>2 DEF Put

LEMMA MkdirAllKeeps ==
  ASSUME NEW t, NEW n, NEW k \in Name, t[k] # Absent, t[k].type # "dir"
  PROVE  MkdirAll(t, n)[k] = t[k]
<1> DEFINE new == {j \in Above(n) \cup {n} : t[j] = Absent}
           u == [j \in Name |-> IF j \in new THEN [type |-> "dir", ino |-> j, ver |-> "now"] ELSE t[j]]
<1>1. u[k] = t[k]
  OBVIOUS
<1>2. Changed(u, new)[k] = u[k]
  BY <1>1, ChangedKeeps
<1> QED BY <1>1, <1>2 DEF MkdirAll

LEMMA RemovedKeeps ==
  ASSUME NEW t, NEW S, NEW k \in Name, k \notin S, t[k].type # "dir"
  PROVE  Removed(t, S)[k] = t[k]
<1> DEFINE u == [j \in Name |-> IF j \in S THEN Absent ELSE t[j]]
           R == {j \in S : t[j] # Absent}
<1>1. u[k] = t[k]
  OBVIOUS
<1>2. Changed(u, R)[k] = u[k]
  BY <1>1, ChangedKeeps
<1> QED BY <1>1, <1>2 DEF Removed

(* Each of these is a tree of the same names. *)
LEMMA Trees ==
  ASSUME NEW t, NEW S, NEW n, NEW e
  PROVE  /\ Changed(t, S) = [j \in Name |-> Changed(t, S)[j]]
         /\ Put(t, n, e) = [j \in Name |-> Put(t, n, e)[j]]
         /\ MkdirAll(t, n) = [j \in Name |-> MkdirAll(t, n)[j]]
         /\ Removed(t, S) = [j \in Name |-> Removed(t, S)[j]]
<1>1. ASSUME NEW u, NEW R PROVE Changed(u, R) = [j \in Name |-> Changed(u, R)[j]]
  BY DEF Changed
<1> QED BY <1>1 DEF Put, MkdirAll, Removed

(* Nothing below what src has not is in src. *)
LEMMA UnderAbsent ==
  ASSUME NEW n \in Name, Src[n] = Absent, NEW k \in Under[n]
  PROVE  k \in Name /\ Src[k] = Absent
<1> DEFINE S == {j \in Name : Src[j] = Absent}
<1>1. \A j \in Name : Parent[j] \in S => j \in S
  <2> SUFFICES ASSUME NEW j \in Name, Parent[j] \in S, Src[j] # Absent PROVE FALSE
    OBVIOUS
  <2>1. Parent[j] # Root
    BY Assumptions
  <2>2. Src[Parent[j]].type = "dir"
    BY <2>1, Assumptions DEF TreeOK
  <2> QED BY <2>2 DEF Absent
<1>2. S \in SUBSET Name /\ n \in S
  OBVIOUS
<1>3. k \in Name /\ (n \in S /\ (\A j \in Name : Parent[j] \in S => j \in S) => k \in S)
  BY <1>2 DEF Under
<1> QED BY <1>1, <1>2, <1>3

-----------------------------------------------------------------------------
(* The initial states satisfy the invariant. *)
LEMMA InitIInv == Init => IInv
<1> SUFFICES ASSUME Init PROVE IInv
  OBVIOUS
<1>1. Shape
  <2>1. dst = [n \in Name |-> dst[n]] /\ before \in Before /\ dst = before
    BY Assumptions DEF Init
  <2>2. table \in [Name -> Tables] /\ \A n \in Name : table[n] = "none"
    BY DEF Init, Tables
  <2>3. m \in [Inos -> Name \cup {"none"}]
    BY DEF Init, Inos
  <2> QED BY <2>1, <2>2, <2>3 DEF Init, Shape
<1>2. Compared /\ Kept
  BY DEF Init, Compared, Kept, In, Right
<1>3. Units /\ Held /\ Joined
  BY DEF Init, WP!Init, Units, Held, Joined, ToLink
<1>4. Modified
  BY DEF Init, Modified
<1> QED BY <1>1, <1>2, <1>3, <1>4 DEF IInv

(* A tree like dst, in which no file that is the same on both sides differs *)
Keeps(t) ==
  /\ t = [j \in Name |-> t[j]]
  /\ \A k \in Name : table[k] = "CommonFiles" => t[k] = dst[k]

(* A step of a worker or of fixup: it keeps every file that is the same on   *)
(* both sides, submits nothing, and tracks nothing but directories. *)
LEMMA KeepsFiles ==
  ASSUME IInv, pc # "start",
         UNCHANGED <<pc, before, table, hard, status>>,
         pending' \subseteq pending, Submitted' = Submitted,
         Keeps(dst'),
         \A d \in modified' \cap Name : d \in modified \/ table[d] # "CommonFiles"
  PROVE  IInv'
<1>1. Shape'
  BY DEF IInv, Shape, Keeps, hard
<1>2. Compared'
  BY SameCompared DEF IInv
<1>3. Units'
  BY DEF IInv, Units, In, ToLink, hard
<1>4. Held' /\ Joined'
  BY DEF IInv, Held, Joined, In, ToLink, hard
<1>5. Modified' /\ Kept'
  BY DEF IInv, Modified, Kept, Keeps, In
<1> QED BY <1>1, <1>2, <1>3, <1>4, <1>5 DEF IInv

(* A unit that ends moves from pending to finished. *)
LEMMA Finishes ==
  ASSUME NEW n, NEW ok, Finish(n, ok)
  PROVE  pending' \subseteq pending /\ Submitted' = Submitted /\ status' = status
<1>1. /\ n \in pending /\ pending' = pending \ {n} /\ finished' = finished \cup {n}
      /\ status' = status
  BY DEF Finish, WP!Finish
<1> QED BY <1>1 DEF Submitted

(* A unit tracks directories, whether it ends well or not. *)
LEMMA Ends ==
  ASSUME IInv, NEW n \in pending, Fine(n) \/ Broken(n) \/ Missing(n)
  PROVE  /\ pending' \subseteq pending /\ Submitted' = Submitted /\ status' = status
         /\ \A d \in modified' \cap Name : d \in modified \/ table[d] # "CommonFiles"
<1>1. CASE Fine(n)
  BY <1>1, Finishes, TracksDirs DEF Fine
<1>2. CASE Broken(n)
  BY <1>2, Finishes DEF Broken
<1> QED BY <1>1, <1>2 DEF Missing

(* A unit that does not end yet changes nothing of the pool. *)
LEMMA GoesOn ==
  ASSUME UNCHANGED <<pool, modified>>
  PROVE  /\ pending' \subseteq pending /\ Submitted' = Submitted /\ status' = status
         /\ \A d \in modified' \cap Name : d \in modified \/ table[d] # "CommonFiles"
BY DEF pool, Submitted

-----------------------------------------------------------------------------
(* The comparison makes the tables. *)
LEMMA CompareStep ==
  ASSUME IInv, Compare
  PROVE  IInv'
<1>1. /\ pc = "start" /\ pc' \in {"dirs", "error", "panic"} /\ dst = before
      /\ UNCHANGED <<dst, before, modified, m, links, holding, pending, finished, status>>
      /\ \/ table' = [n \in Name |-> Meaning(n)]
         \/ table' = table
  BY DEF Compare, hard, pool, IInv, Shape
<1>2. pending = {} /\ ToLink' = {} /\ \A g \in {"Diff", "LeftFiles"} : holding[g] = "none"
  <2>1. pending = {} /\ ToLink = {}
    BY <1>1 DEF IInv, Units, Shape, In, ToLink
  <2> QED BY <1>1, <2>1 DEF IInv, Held, ToLink
<1>3. CASE table' = table
  <2>1. Shape' /\ Compared'
    BY <1>1, <1>3, SameCompared DEF IInv, Shape
  <2>2. Units' /\ Held' /\ Joined'
    BY <1>1, <1>2 DEF Units, Held, Joined
  <2>3. Modified' /\ Kept'
    BY <1>1, <1>3 DEF IInv, Modified, Kept, In
  <2> QED BY <2>1, <2>2, <2>3 DEF IInv
<1>4. CASE table' = [n \in Name |-> Meaning(n)]
  <2>1. \A n \in Name : Meaning(n) \in Tables
    BY DEF Meaning, Tables
  <2>2. Shape'
    BY <1>1, <1>4, <2>1 DEF IInv, Shape
  <2>3. Compared'
    <3> SUFFICES ASSUME NEW n \in Name
                 PROVE  /\ Meaning(n) = "CommonFiles" =>
                             /\ dst[n] # Absent /\ dst[n].type # "dir"
                             /\ Src[n] # Absent /\ Src[n].type # "dir"
                        /\ Meaning(n) \in Right => dst[n] # Absent /\ Src[n] = Absent
                        /\ Meaning(n) \in {"LeftDirs", "LeftFiles", "Diff"} => Src[n] # Absent
      BY <1>1, <1>4 DEF Compared
    <3> QED BY DEF Meaning, Right
  <2>4. Units' /\ Held' /\ Joined'
    BY <1>1, <1>2 DEF Units, Held, Joined
  <2>5. Kept'
    BY <1>1 DEF Kept, In
  <2>6. Modified'
    BY <1>1 DEF IInv, Shape, Modified
  <2> QED BY <2>2, <2>3, <2>4, <2>5, <2>6 DEF IInv
<1> QED BY <1>1, <1>3, <1>4

(* A submitting goroutine hands over a unit of the table it goes through. *)
LEMMA SubmitSame ==
  ASSUME NEW n, Submit(n)
  PROVE  /\ n \notin Submitted /\ status = "open" /\ status' = status
         /\ pending' = pending \cup {n} /\ Submitted' = Submitted \cup {n}
         /\ UNCHANGED <<pc, dst, before, table>>
<1>1. /\ n \notin pending \cup finished /\ status = "open" /\ status' = status
      /\ pending' = pending \cup {n} /\ finished' = finished
  BY DEF Submit, WP!Submit
<1> QED BY <1>1 DEF Submit, Submitted

LEMMA SubmitDirStep ==
  ASSUME IInv, NEW n \in Name, SubmitDir(n)
  PROVE  IInv'
<1>1. /\ pc = "dirs" /\ n \in In({"LeftDirs"}) /\ Submit(n)
      /\ modified' = modified \cup {n} /\ UNCHANGED <<m, links, holding>>
  BY DEF SubmitDir, hard
<1>2. Shape' /\ Compared' /\ Kept'
  BY <1>1, SubmitSame, SameCompared DEF IInv, Shape, Kept, In
<1>3. Units'
  BY <1>1, SubmitSame DEF IInv, Units, In, ToLink
<1>4. Held' /\ Joined'
  BY <1>1, SubmitSame DEF IInv, Held, Joined
<1>5. Modified'
  BY <1>1, SubmitSame DEF IInv, Modified, In
<1> QED BY <1>2, <1>3, <1>4, <1>5 DEF IInv

(* Deletions are names that nobody in track holds. *)
LEMMA SubmitDelStep ==
  ASSUME IInv, NEW n \in Name, SubmitDel(n)
  PROVE  IInv'
<1>1. /\ pc = "work" /\ n \in In(Right) /\ Submit(n)
      /\ UNCHANGED <<modified, m, links, holding>>
  BY DEF SubmitDel, hard
<1>2. Shape' /\ Compared' /\ Kept' /\ Modified'
  BY <1>1, SubmitSame, SameCompared DEF IInv, Shape, Kept, Modified, In
<1>3. Units'
  BY <1>1, SubmitSame DEF IInv, Units, In, ToLink
<1>4. Held' /\ Joined'
  BY <1>1, SubmitSame DEF IInv, Held, Joined, In, ToLink, Right
<1> QED BY <1>2, <1>3, <1>4 DEF IInv

LEMMA SubmitLinkStep ==
  ASSUME IInv, NEW n \in Name, SubmitLink(n)
  PROVE  IInv'
<1>1. /\ pc = "links" /\ n \in ToLink /\ Submit(n)
      /\ UNCHANGED <<modified, m, links, holding>>
  BY DEF SubmitLink, hard
<1>2. Shape' /\ Compared' /\ Kept' /\ Modified'
  BY <1>1, SubmitSame, SameCompared DEF IInv, Shape, Kept, Modified, In
<1>3. Units'
  BY <1>1, SubmitSame DEF IInv, Units, In, ToLink
<1>4. Held' /\ Joined'
  BY <1>1, SubmitSame DEF IInv, Held, Joined
<1> QED BY <1>2, <1>3, <1>4 DEF IInv

(* A goroutine that is about to store a name keeps it from being submitted   *)
(* by anybody else: the other one goes through another table. *)
LEMMA TrackStep ==
  ASSUME IInv, NEW g \in {"Diff", "LeftFiles"}, NEW n \in Name, Track(g, n)
  PROVE  IInv'
<1>1. /\ pc = "work" /\ holding[g] = "none" /\ modified' = modified
      /\ n \in In({g}) \ Submitted /\ links[n] = "none"
  BY DEF Track
<1> n \notin ToLink /\ status = "open"
  BY <1>1 DEF IInv, Joined, In, ToLink
<1>2. CASE Submit(n) /\ UNCHANGED hard
  <2>1. Shape' /\ Compared' /\ Kept' /\ Modified'
    BY <1>1, <1>2, SubmitSame, SameCompared DEF IInv, Shape, Kept, Modified, In, hard
  <2>2. Units'
    BY <1>1, <1>2, SubmitSame DEF IInv, Units, In, ToLink, hard
  <2>3. Held' /\ Joined'
    BY <1>1, <1>2, SubmitSame DEF IInv, Held, Joined, In, ToLink, hard
  <2> QED BY <2>1, <2>2, <2>3 DEF IInv
<1>3. CASE /\ Linked(n) /\ m[Src[n].ino] # "none"
           /\ links' = [links EXCEPT ![n] = m[Src[n].ino]]
           /\ UNCHANGED <<m, holding, pc, dst, linkMode, before, table, gone, step, end, pool>>
  <2>1. UNCHANGED <<m, holding, pc, dst, before, table, pending, finished, status>>
    BY <1>3 DEF pool
  <2>2. links' \in [Name -> Name \cup {"none"}] /\ ToLink' = ToLink \cup {n}
    <3>1. Src[n].ino \in Inos
      BY <1>3 DEF Linked, Inos
    <3>2. m[Src[n].ino] \in Name
      BY <1>3, <3>1 DEF IInv, Shape
    <3>3. "none" \notin Name
      BY Assumptions
    <3> QED BY <1>1, <1>3, <3>2, <3>3 DEF IInv, Shape, ToLink
  <2>3. Shape' /\ Compared' /\ Kept' /\ Modified'
    BY <1>1, <2>1, <2>2, SameCompared DEF IInv, Shape, Kept, Modified, In
  <2>4. Units'
    BY <1>1, <2>1, <2>2 DEF IInv, Units, In
  <2>5. Held' /\ Joined'
    BY <1>1, <2>1, <2>2 DEF IInv, Held, Joined, In, Submitted
  <2> QED BY <2>3, <2>4, <2>5 DEF IInv
<1>4. CASE /\ holding' = [holding EXCEPT ![g] = n]
           /\ UNCHANGED <<m, links, pc, dst, linkMode, before, table, gone, step, end, pool>>
  <2>1. UNCHANGED <<m, links, pc, dst, before, table, pending, finished, status>>
    BY <1>4 DEF pool
  <2>2. Shape' /\ Compared' /\ Kept' /\ Modified'
    BY <1>1, <1>4, <2>1, SameCompared DEF IInv, Shape, Kept, Modified, In
  <2>3. Units'
    BY <1>1, <2>1 DEF IInv, Units, In, ToLink
  <2>4. Held' /\ Joined'
    BY <1>1, <1>4, <2>1 DEF IInv, Shape, Held, Joined, In, Submitted, ToLink
  <2> QED BY <2>2, <2>3, <2>4 DEF IInv
<1> QED BY <1>2, <1>3, <1>4 DEF Track

(* The name it holds is stored and submitted. *)
LEMMA RememberStep ==
  ASSUME IInv, NEW g \in {"Diff", "LeftFiles"}, Remember(g)
  PROVE  IInv'
<1> DEFINE n == holding[g]
<1>1. /\ n # "none" /\ m' = [m EXCEPT ![Src[n].ino] = n] /\ Submit(n)
      /\ holding' = [holding EXCEPT ![g] = "none"]
      /\ UNCHANGED <<modified, links>>
  BY DEF Remember
<1>2. pc = "work" /\ n \in In({g}) \ (Submitted \cup ToLink)
  BY <1>1 DEF IInv, Held
<1>3. n \in Name
  BY <1>2 DEF In
<1> HIDE DEF n
<1>4. m' \in [Inos -> Name \cup {"none"}]
  BY <1>1, <1>3 DEF IInv, Shape
<1>5. Shape'
  BY <1>1, <1>2, <1>4, SubmitSame DEF IInv, Shape
<1>6. Compared' /\ Kept' /\ Modified'
  BY <1>1, SubmitSame, SameCompared DEF IInv, Kept, Modified, In
<1>7. Units'
  BY <1>1, <1>2, SubmitSame DEF IInv, Units, In, ToLink
<1>8. Held' /\ Joined'
  BY <1>1, <1>2, SubmitSame DEF IInv, Shape, Held, Joined, In, ToLink
<1> QED BY <1>5, <1>6, <1>7, <1>8 DEF IInv

-----------------------------------------------------------------------------
(* The pool is closed when nobody has anything left to submit. *)
LEMMA CloseStep ==
  ASSUME IInv, Close
  PROVE  IInv'
<1>1. /\ AllSubmitted /\ status' = "closed"
      /\ UNCHANGED <<pc, dst, before, table, modified, m, links, holding, pending, finished>>
  BY DEF Close, WP!Close, hard
<1>2. pc = "work" => In({"LeftFiles", "Diff"} \cup Right) \subseteq Submitted \cup ToLink
  BY <1>1 DEF AllSubmitted
<1>3. \A g \in {"Diff", "LeftFiles"} : holding[g] = "none"
  BY <1>2 DEF IInv, Held, In
<1>4. Shape' /\ Compared' /\ Kept' /\ Modified'
  BY <1>1, SameCompared DEF IInv, Shape, Kept, Modified, In
<1>5. Units'
  BY <1>1 DEF IInv, Units, In, ToLink
<1>6. Held' /\ Joined'
  BY <1>1, <1>2, <1>3 DEF Held, Joined, In, ToLink, Submitted
<1> QED BY <1>4, <1>5, <1>6 DEF IInv

(* Wait returns: nobody is in track any more. *)
LEMMA WaitStep ==
  ASSUME IInv, Wait
  PROVE  IInv'
<1>1. /\ status = "closed" /\ status' = "returned"
      /\ UNCHANGED <<pc, dst, before, table, modified, m, links, holding, pending, finished>>
  BY DEF Wait, WP!Return, hard
<1>2. Shape' /\ Compared' /\ Kept' /\ Modified'
  BY <1>1, SameCompared DEF IInv, Shape, Kept, Modified, In
<1>3. Units'
  BY <1>1 DEF IInv, Units, In, ToLink
<1>4. Held' /\ Joined'
  BY <1>1 DEF IInv, Held, Joined, In, ToLink, Submitted
<1> QED BY <1>2, <1>3, <1>4 DEF IInv

(* The next pool is empty. *)
LEMMA NextPoolStep ==
  ASSUME IInv, NextPool
  PROVE  IInv'
<1>1. /\ status = "returned" /\ status' = "open" /\ pending' = {} /\ finished' = {}
      /\ pc \in DOMAIN Following
      /\ pc' = IF result = {} THEN Following[pc] ELSE "error"
      /\ UNCHANGED <<dst, before, table, modified, m, links, holding>>
  BY DEF NextPool, PoolDone, hard
<1>2. pc' \in {"work", "links", "fixup", "error"}
  BY <1>1 DEF Following
<1>3. Shape' /\ Compared' /\ Kept' /\ Modified'
  BY <1>1, <1>2, SameCompared DEF IInv, Shape, Kept, Modified, In
<1>4. Units'
  BY <1>1, <1>2 DEF IInv, Units, In, ToLink
<1>5. Held' /\ Joined'
  BY <1>1 DEF IInv, Held, Joined
<1> QED BY <1>3, <1>4, <1>5 DEF IInv

LEMMA ReturnStep ==
  ASSUME IInv, Return
  PROVE  IInv'
<1>1. /\ pc = "fixup" /\ pc' \in {"ok", "error"}
      /\ UNCHANGED <<dst, before, table, modified, m, links, holding, pending, finished, status>>
  BY DEF Return, hard, pool
<1>2. Shape' /\ Compared' /\ Kept' /\ Modified'
  BY <1>1, SameCompared DEF IInv, Shape, Kept, Modified, In
<1>3. Units' /\ Held' /\ Joined'
  BY <1>1 DEF IInv, Units, Held, Joined, In, ToLink
<1> QED BY <1>2, <1>3 DEF IInv

(* Somebody deletes from the source: nothing of this program changes. *)
LEMMA VanishStep ==
  ASSUME IInv, NEW n \in Name, Vanish(n)
  PROVE  IInv'
<1>1. pc # "start" /\ UNCHANGED <<pc, dst, before, table, modified, hard, pool>>
  BY DEF Vanish
<1>2. Keeps(dst')
  BY <1>1 DEF IInv, Shape, Keeps
<1> QED BY <1>1, <1>2, GoesOn, KeepsFiles DEF pool

-----------------------------------------------------------------------------
(* Giving a name its metadata changes no other name. *)
LEMMA MetaKeeps ==
  ASSUME NEW t, t = [j \in Name |-> t[j]], NEW n \in Name
  PROVE  /\ Meta(t, n) = [j \in Name |-> Meta(t, n)[j]]
         /\ \A k \in Name \ {n} : Meta(t, n)[k] = t[k]
BY DEF Meta

(* Whatever is done to a name that differs, the files that do not are kept.  *)
LEMMA SelfKept == IInv => Keeps(dst)
BY DEF IInv, Shape, Keeps

LEMMA ChangedKept ==
  ASSUME IInv, NEW S
  PROVE  Keeps(Changed(dst, S))
BY Trees, Common, ChangedKeeps DEF Keeps

LEMMA PutKept ==
  ASSUME IInv, NEW t, Keeps(t), NEW n \in Name, table[n] # "CommonFiles", NEW e
  PROVE  Keeps(Put(t, n, e))
<1>1. Put(t, n, e) = [j \in Name |-> Put(t, n, e)[j]]
  BY Trees
<1>2. ASSUME NEW k \in Name, table[k] = "CommonFiles" PROVE Put(t, n, e)[k] = dst[k]
  <2>1. t[k] = dst[k] /\ t[k].type # "dir" /\ k # n
    BY <1>2, Common DEF Keeps
  <2> QED BY <2>1, PutKeeps DEF Keeps
<1> QED BY <1>1, <1>2 DEF Keeps

LEMMA MkdirKept ==
  ASSUME IInv, NEW n
  PROVE  Keeps(MkdirAll(dst, n)) /\ Keeps(MkdirAbove(dst, n))
<1>1. ASSUME NEW d PROVE Keeps(MkdirAll(dst, d))
  <2>1. MkdirAll(dst, d) = [j \in Name |-> MkdirAll(dst, d)[j]]
    BY Trees
  <2>2. ASSUME NEW k \in Name, table[k] = "CommonFiles" PROVE MkdirAll(dst, d)[k] = dst[k]
    BY <2>2, Common, MkdirAllKeeps
  <2> QED BY <2>1, <2>2 DEF Keeps
<1>2. CASE Parent[n] \in Name
  BY <1>1, <1>2 DEF MkdirAbove
<1>3. CASE Parent[n] \notin Name
  BY <1>1, <1>3, SelfKept DEF MkdirAbove
<1> QED BY <1>1, <1>2, <1>3

LEMMA RemovedKept ==
  ASSUME IInv, NEW S, \A k \in Name : table[k] = "CommonFiles" => k \notin S
  PROVE  Keeps(Removed(dst, S))
<1>1. Removed(dst, S) = [j \in Name |-> Removed(dst, S)[j]]
  BY Trees
<1>2. ASSUME NEW k \in Name, table[k] = "CommonFiles" PROVE Removed(dst, S)[k] = dst[k]
  BY <1>2, Common, RemovedKeeps
<1> QED BY <1>1, <1>2 DEF Keeps

LEMMA MetaKept ==
  ASSUME IInv, NEW n \in Name, table[n] # "CommonFiles"
  PROVE  Keeps(Meta(dst, n))
<1>1. dst = [j \in Name |-> dst[j]]
  BY DEF IInv, Shape
<1> QED BY <1>1, MetaKeeps DEF Keeps

LEMMA MakeStep ==
  ASSUME IInv, NEW n \in Name, Make(n)
  PROVE  IInv'
<1> DEFINE e == [type |-> Src[n].type, ino |-> n, ver |-> "now"]
<1>1. n \in pending /\ pc # "start" /\ UNCHANGED <<pc, before, table, hard>>
  BY DEF Make, Copying
<1>2. \/ (Missing(n) \/ Broken(n)) /\ dst' \in {dst, Changed(dst, {n})}
      \/ /\ UNCHANGED <<pool, modified>>
         /\ dst' \in {MkdirAll(dst, n), Put(MkdirAbove(dst, n), n, e)}
  BY DEF Make
<1> HIDE DEF e
<1>3. /\ pending' \subseteq pending /\ Submitted' = Submitted /\ status' = status
      /\ \A d \in modified' \cap Name : d \in modified \/ table[d] # "CommonFiles"
  BY <1>1, <1>2, Ends, GoesOn
<1>4. Keeps(dst')
  <2>1. CASE dst' \in {dst, Changed(dst, {n})}
    BY <2>1, SelfKept, ChangedKept
  <2>2. CASE dst' \in {MkdirAll(dst, n), Put(MkdirAbove(dst, n), n, e)}
    BY <1>1, <2>2, UnitTables, MkdirKept, PutKept
  <2> QED BY <1>2, <2>1, <2>2
<1> QED BY <1>1, <1>3, <1>4, KeepsFiles

LEMMA UpdateStep ==
  ASSUME IInv, NEW n \in Name, Update(n)
  PROVE  IInv'
<1>1. /\ n \in pending /\ pc # "start" /\ UNCHANGED <<pc, before, table, hard>>
      /\ Broken(n) \/ Missing(n) \/ Fine(n)
      /\ dst' \in {dst, Meta(dst, n)}
  BY DEF Update, Copying
<1>2. /\ pending' \subseteq pending /\ Submitted' = Submitted /\ status' = status
      /\ \A d \in modified' \cap Name : d \in modified \/ table[d] # "CommonFiles"
  BY <1>1, Ends
<1>3. Keeps(dst')
  BY <1>1, UnitTables, SelfKept, MetaKept
<1> QED BY <1>1, <1>2, <1>3, KeepsFiles

(* A worker past the shards changes nothing but its step. *)
LEMMA PastShardsStep ==
  ASSUME IInv, NEW n \in Name, PastShards(n)
  PROVE  IInv'
<1>1. pc # "start" /\ UNCHANGED <<pc, dst, before, table, modified, hard, pool>>
  BY DEF PastShards
<1>2. Keeps(dst')
  BY <1>1, SelfKept
<1> QED BY <1>1, <1>2, GoesOn, KeepsFiles DEF pool

(* What is deleted is not in src, nor is what is below it. *)
LEMMA DeleteStep ==
  ASSUME IInv, NEW n \in Name, Delete(n)
  PROVE  IInv'
<1>1. /\ n \in pending /\ pc = "work" /\ n \in In(Right) /\ UNCHANGED <<pc, before, table, hard>>
      /\ Fine(n) \/ Broken(n)
      /\ dst' \in {dst, Removed(dst, Under[n])}
  BY DEF Delete
<1>2. /\ pending' \subseteq pending /\ Submitted' = Submitted /\ status' = status
      /\ \A d \in modified' \cap Name : d \in modified \/ table[d] # "CommonFiles"
  BY <1>1, Ends
<1>3. Src[n] = Absent
  BY <1>1 DEF IInv, Compared, In
<1>4. ASSUME NEW k \in Name, table[k] = "CommonFiles" PROVE k \notin Under[n]
  BY <1>3, <1>4, UnderAbsent, Common
<1>5. Keeps(dst')
  BY <1>1, <1>4, SelfKept, RemovedKept
<1> QED BY <1>1, <1>2, <1>5, KeepsFiles

LEMMA UnlinkStep ==
  ASSUME IInv, NEW n \in Name, Unlink(n)
  PROVE  IInv'
<1>1. /\ n \in pending /\ pc = "links"
      /\ UNCHANGED <<pc, before, table, hard, modified, pool>>
      /\ dst' = Removed(dst, {n})
  BY DEF Unlink
<1>2. /\ pending' \subseteq pending /\ Submitted' = Submitted /\ status' = status
      /\ \A d \in modified' \cap Name : d \in modified \/ table[d] # "CommonFiles"
  BY <1>1, GoesOn
<1>3. Keeps(dst')
  BY <1>1, UnitTables, RemovedKept
<1> QED BY <1>1, <1>2, <1>3, KeepsFiles

LEMMA LinkStep ==
  ASSUME IInv, NEW n \in Name, Link(n)
  PROVE  IInv'
<1> DEFINE old == dst[links[n]]
<1>1. /\ n \in pending /\ pc = "links" /\ UNCHANGED <<pc, before, table, hard>>
      /\ Fine(n) \/ Broken(n)
      /\ dst' \in {dst, Put(dst, n, old)}
  BY DEF Link
<1> HIDE DEF old
<1>2. /\ pending' \subseteq pending /\ Submitted' = Submitted /\ status' = status
      /\ \A d \in modified' \cap Name : d \in modified \/ table[d] # "CommonFiles"
  BY <1>1, Ends
<1>3. Keeps(dst')
  BY <1>1, UnitTables, SelfKept, PutKept
<1> QED BY <1>1, <1>2, <1>3, KeepsFiles

(* A directory that is fixed up is no file. *)
LEMMA FixupStep ==
  ASSUME IInv, NEW d \in Name \cup {Root, Up}, Fixup(d)
  PROVE  IInv'
<1>1. /\ pc = "fixup" /\ d \in modified /\ modified' = modified \ {d}
      /\ UNCHANGED <<pc, before, table, hard, pool>>
      /\ dst' = dst \/ (d \in Name /\ dst' = Meta(dst, d))
  BY DEF Fixup, Fixed
<1>2. /\ pending' \subseteq pending /\ Submitted' = Submitted /\ status' = status
      /\ \A c \in modified' \cap Name : c \in modified \/ table[c] # "CommonFiles"
  BY <1>1 DEF pool, Submitted
<1>3. Keeps(dst')
  BY <1>1, SelfKept, MetaKept DEF IInv, Modified
<1> QED BY <1>1, <1>2, <1>3, KeepsFiles

-----------------------------------------------------------------------------
(* Every step preserves the invariant. *)
LEMMA NextIInv == IInv /\ [Next]_vars => IInv'
<1> SUFFICES ASSUME IInv, [Next]_vars PROVE IInv'
  OBVIOUS
<1>1. CASE UNCHANGED vars
  BY <1>1 DEF vars, hard, pool, IInv, Shape, Compared, Units, Held, Joined, Modified, Kept,
              In, ToLink, Submitted
<1>2. CASE Main
  BY <1>2, CompareStep, CloseStep, WaitStep, NextPoolStep, ReturnStep, FixupStep DEF Main
<1>3. CASE Submitting
  BY <1>3, SubmitDirStep, SubmitDelStep, SubmitLinkStep, RememberStep, TrackStep DEF Submitting
<1>4. CASE Working
  BY <1>4, MakeStep, UpdateStep, PastShardsStep, DeleteStep, UnlinkStep, LinkStep DEF Working
<1>5. ASSUME NEW n \in Name, Vanish(n) PROVE IInv'
  BY <1>5, VanishStep
<1> QED BY <1>1, <1>2, <1>3, <1>4, <1>5 DEF Next, Stopped

(* The inductive invariant holds in every reachable state. *)
THEOREM Inductive == Spec => []IInv
BY InitIInv, NextIInv, PTL DEF Spec
=============================================================================
