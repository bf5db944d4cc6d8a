------------------------------ MODULE TreeDiff ------------------------------
(***************************************************************************)
(* cmp.FsTree (cmp/cmp.go, cmp/engine.go): two trees are walked at the same *)
(* time, each into a concurrent map; then a pool of workers sorts every     *)
(* name of the left map into the tables of the Difference, and, when that   *)
(* is over, a second pool the names that are only on the right.  cmp.Diff    *)
(* is the part that starts with the maps full.                              *)
(*                                                                         *)
(* The pools are the abstract ones of Pool, which WorkPool implements.  One  *)
(* step of a worker ends with one change of a map.                          *)
(***************************************************************************)
EXTENDS Naturals, FiniteSets

CONSTANTS
  Name,        \* names relative to the root of a tree
  Info,        \* what an entry may be: records, see InfoOK
  Entries,     \* Entries[n]: what the entry n may be, in this instance
  Ignore,      \* the IGN_xxx flags given to WithIgnoreAttr
  Deep,        \* the pairs of Info that deepEq finds equal, all without one
  MayFail      \* what may fail: "lstat", "walk"

Side == {"src", "dst"}
Absent == [type |-> "absent"]

(* perm is Mode().Perm(), special the other bits of the mode but the type;  *)
(* xattr is a set of <<key, value>>, to the target of a symbolic link.       *)
InfoOK(i) ==
  /\ DOMAIN i = {"type", "perm", "special", "size", "mtime", "uid", "gid", "xattr", "to"}
  /\ i.type \in {"dir", "file", "symlink", "other"}

ASSUME Assumptions ==
  /\ \A i \in Info : InfoOK(i)
  /\ Entries \in [Name -> SUBSET Info]
  /\ Ignore \subseteq {"uid", "gid", "xattr"}
  /\ Deep \subseteq Info \X Info
  /\ MayFail \subseteq {"lstat", "walk"}

Table == {"LeftDirs", "LeftFiles", "RightDirs", "RightFiles",
          "CommonDirs", "CommonFiles", "Diff", "Funny"}

VARIABLES
  tree,     \* tree[s][n]: what the file system has under n on side s
  map,      \* map[s]: the names stored in lhs and rhs
  walk,     \* how each of the two walks is doing
  pc,       \* where FsTree is
  done,     \* cmp.done
  table,    \* table[t]: the names in each table of the Difference
  marked,   \* names of which lhsDiff has stored done and nothing else yet
  pending, finished, failed, status, result   \* the work pool

pool == <<pending, finished, failed, status, result>>
trees == <<tree, map, walk>>
diff == <<done, table, marked>>
vars == <<trees, pc, diff, pool>>

WP == INSTANCE Pool WITH Task <- Name

Trees == {f \in [Name -> Info \cup {Absent}] : \A n \in Name : f[n] \in Entries[n] \cup {Absent}}

Init ==
  /\ tree \in [Side -> Trees]
  /\ map = [s \in Side |-> {}]
  /\ walk = [s \in Side |-> "walking"]
  /\ pc = "lstat"
  /\ done = {} /\ marked = {}
  /\ table = [t \in Table |-> {}]
  /\ WP!Init

There(s) == {n \in Name : tree[s][n] # Absent}

-----------------------------------------------------------------------------
(* FsTree: the checks of the roots *)
Lstat ==
  /\ pc = "lstat"
  /\ \/ pc' = "walk"
     \/ "lstat" \in MayFail /\ pc' = "error"
  /\ UNCHANGED <<trees, diff, pool>>

(* The two goroutines: walk.WalkFunc with a function that stores the entry *)
Store(s, n) ==
  /\ pc = "walk" /\ walk[s] = "walking"
  /\ n \in There(s) \ map[s]
  /\ map' = [map EXCEPT ![s] = @ \cup {n}]
  /\ UNCHANGED <<tree, walk, pc, diff, pool>>

WalkEnds(s) ==
  /\ pc = "walk" /\ walk[s] = "walking"
  /\ \/ map[s] = There(s) /\ walk' = [walk EXCEPT ![s] = "ok"]
     \/ "walk" \in MayFail /\ walk' = [walk EXCEPT ![s] = "err"]
  /\ UNCHANGED <<tree, map, pc, diff, pool>>

(* wg.Wait(), and the two errors *)
WalkFailedLeft == walk["src"] = "err"   \* mutant: err_R is not looked at
WalkFailed == \E s \in Side : walk[s] = "err"

Join ==
  /\ pc = "walk"
  /\ \A s \in Side : walk[s] # "walking"
  /\ pc' = IF WalkFailed THEN "error" ELSE "lhs"
  /\ UNCHANGED <<trees, diff, pool>>

-----------------------------------------------------------------------------
(* doDiff: Range over a map, Close, Wait; once for each side *)

Current == map[IF pc = "lhs" THEN "src" ELSE "dst"]
Submitted == pending \cup finished

Submit(n) ==
  /\ pc \in {"lhs", "rhs"}
  /\ n \in Current
  /\ WP!Submit(n)
  /\ UNCHANGED <<trees, pc, diff>>

CloseForgotten == FALSE   \* mutant
Close ==
  /\ pc \in {"lhs", "rhs"}
  /\ Submitted = Current
  /\ WP!Close
  /\ UNCHANGED <<trees, pc, diff>>

(* The functions of the pools return nil. *)
Finish(n) == WP!Finish(n) /\ failed' = failed

Wait ==
  /\ WP!Return
  /\ UNCHANGED <<trees, pc, diff>>

(* The second pool is made when Wait for the first has returned. *)
\* mutant: Wait for the first pool is not called
WaitDoneEarly == (status = "closed" /\ pc = "lhs") \/ status = "returned"
WaitDone == status = "returned"

NextPool ==
  /\ WaitDone
  /\ pc \in {"lhs", "rhs"}
  /\ pc' = IF pc = "lhs" THEN "rhs" ELSE "done"
  /\ pending' = {} /\ finished' = {} /\ failed' = {} /\ result' = {}
  /\ status' = "open"
  /\ IF pc = "lhs" THEN UNCHANGED done ELSE done' = {}    \* cmpInternal: done.Clear()
  /\ UNCHANGED <<trees, table, marked>>

-----------------------------------------------------------------------------
(* The comparison of two entries *)

Put(t, n) == table' = [table EXCEPT ![t] = @ \cup {n}]
Kind(i, dirs, files) == IF i.type = "dir" THEN dirs ELSE files

SameMode(l, r) == l.type = r.type /\ l.special = r.special

(* Xattr.Equal: its second loop goes over x again, not over y *)
XattrEqual(x, y) == x \subseteq y

FileEq(l, r) ==
  /\ l.type # "symlink" => l.mtime = r.mtime
  /\ "uid" \in Ignore \/ l.uid = r.uid
  /\ "gid" \in Ignore \/ l.gid = r.gid
  /\ "xattr" \in Ignore \/ XattrEqual(l.xattr, r.xattr)
  /\ <<l, r>> \in Deep

Same(l, r) == (l.type = "file" => l.size = r.size) /\ FileEq(l, r)

(* lhsDiff: a name that is only on the left or whose modes do not match is  *)
(* sorted at once; any other is marked done first, then compared.           *)
LhsLoad(n) ==
  LET l == tree["src"][n]
      r == tree["dst"][n] IN
  /\ pc = "lhs" /\ n \in pending \ marked
  /\ IF n \notin map["dst"]
     THEN Put(Kind(l, "LeftDirs", "LeftFiles"), n) /\ Finish(n) /\ UNCHANGED <<done, marked>>
     ELSE IF ~SameMode(l, r)
     THEN Put("Funny", n) /\ Finish(n) /\ UNCHANGED <<done, marked>>
     ELSE done' = done \cup {n} /\ marked' = marked \cup {n} /\ UNCHANGED <<table, pool>>
  /\ UNCHANGED <<trees, pc>>

LhsCompare(n) ==
  LET l == tree["src"][n]
      r == tree["dst"][n] IN
  /\ n \in marked
  /\ Put(IF Same(l, r) THEN Kind(l, "CommonDirs", "CommonFiles") ELSE "Diff", n)
  /\ marked' = marked \ {n}
  /\ Finish(n)
  /\ UNCHANGED <<trees, pc, done>>

(* rhsDiff: what lhsDiff did not see on both sides is only on the right. *)
SeenDone(n) == n \in done              \* mutant: funny is not looked up
SeenFunny(n) == n \in table["Funny"]   \* mutant: done is not looked up
SeenOnLeft(n) == n \in done \cup table["Funny"]

RhsLoad(n) ==
  /\ pc = "rhs" /\ n \in pending
  /\ IF SeenOnLeft(n) THEN UNCHANGED table
     ELSE Put(Kind(tree["dst"][n], "RightDirs", "RightFiles"), n)
  /\ Finish(n)
  /\ UNCHANGED <<trees, pc, done, marked>>

Walking == Lstat \/ Join \/ \E s \in Side : WalkEnds(s) \/ \E n \in Name : Store(s, n)
Pooling == Close \/ Wait \/ NextPool \/ \E n \in Name : Submit(n)
Working == \E n \in Name : LhsLoad(n) \/ LhsCompare(n) \/ RhsLoad(n)
Stopped == pc \in {"done", "error"} /\ UNCHANGED vars

Next == Walking \/ Pooling \/ Working \/ Stopped

Spec == Init /\ [][Next]_vars
FairSpec == Spec /\ WF_vars(Walking \/ Pooling \/ Working)

-----------------------------------------------------------------------------
(* Every variable has the type of the map or phase it models, and a name    *)
(* that lhsDiff has marked done is one that its pool is still working on.    *)
TypeOK ==
  /\ tree \in [Side -> [Name -> Info \cup {Absent}]]
  /\ map \in [Side -> SUBSET Name]
  /\ walk \in [Side -> {"walking", "ok", "err"}]
  /\ pc \in {"lstat", "walk", "lhs", "rhs", "done", "error"}
  /\ done \subseteq Name /\ marked \subseteq pending
  /\ table \in [Table -> SUBSET Name]
  /\ WP!TypeOK

(* No name is ever in two tables, and when FsTree returns a Difference every *)
(* entry of both trees is in one: the workers of the second pool find        *)
(* everything that those of the first have done.                            *)
InTable(n) == {t \in Table : n \in table[t]}

Partition ==
  \A n \in Name :
    /\ \A t, u \in InTable(n) : t = u
    /\ pc = "done" => (InTable(n) # {} <=> n \in There("src") \cup There("dst"))

(* What the tables mean, whatever the order in which the workers ran.        *)
Meaning(n) ==
  LET l == tree["src"][n]
      r == tree["dst"][n] IN
  IF n \notin There("dst") THEN Kind(l, "LeftDirs", "LeftFiles")
  ELSE IF n \notin There("src") THEN Kind(r, "RightDirs", "RightFiles")
  ELSE IF ~SameMode(l, r) THEN "Funny"
  ELSE IF Same(l, r) THEN Kind(l, "CommonDirs", "CommonFiles")
  ELSE "Diff"

Sorted == \A t \in Table : \A n \in table[t] : t = Meaning(n)

(* A tree has no difference from one that is equal to it (what clone.Tree    *)
(* relies on to find its work done), unless the caller's deepEq says so.     *)
Reflexive ==
  tree["src"] = tree["dst"] /\ (\A i \in Info : <<i, i>> \in Deep) =>
    \A t \in Table \ {"CommonDirs", "CommonFiles"} : table[t] = {}

(* A Difference is only made of two trees that were seen whole.              *)
SeenWhole == pc \in {"lhs", "rhs", "done"} => \A s \in Side : map[s] = There(s)

(* FsTree returns.                                                          *)
Returns == <>(pc \in {"done", "error"})

(* CommonDirs and CommonFiles are documented as "identical on both sides"    *)
(* (cmp.go:189-193), of which FsTree "compares every comparable attribute of *)
(* fio.Info - unless explicitly ignored" (cmp.go:248-250).  They need not    *)
(* be: permissions, the targets of symbolic links and attributes that only   *)
(* the right side has are not compared.                                     *)
CommonIdentical ==
  pc = "done" =>
    \A n \in table["CommonDirs"] \cup table["CommonFiles"] :
      LET l == tree["src"][n]
          r == tree["dst"][n] IN
      l.perm = r.perm /\ l.to = r.to /\ ("xattr" \in Ignore \/ l.xattr = r.xattr)
=============================================================================
