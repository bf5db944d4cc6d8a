------------------------------ MODULE TreeClone ------------------------------
(***************************************************************************)
(* clone.Tree (clone/tree.go, hardlink.go, file.go): a tree dst is made     *)
(* equal to a tree src.  cmp.FsTree sorts the names of both into tables; a   *)
(* first pool of workers makes the new directories, a second one copies and *)
(* deletes, fed by four goroutines, a third one makes the hard links that    *)
(* were put aside; at the end the directories that were changed get their   *)
(* metadata back, one after the other.                                       *)
(*                                                                         *)
(* The tables are those TreeDiff computes, the pools those of Pool, and a    *)
(* regular file appears under its name at once, as AtomicFile says.  A       *)
(* goroutine's step ends with one change of the file system or of the        *)
(* hardlinker's maps.                                                        *)
(***************************************************************************)
EXTENDS Integers, FiniteSets

CONSTANTS
  Name,           \* names relative to the root of a tree
  Root, Up,       \* the root itself and the directory it is in
  Parent,         \* Parent[n]: the directory n is in
  Src,            \* Src[n]: the entry n of the source
  Before,         \* the trees dst may be at first
  Target,         \* Target[n]: the name that a symbolic link n refers to,
                  \* which is no symbolic link
  IgnoreMissing,  \* WithIgnoreMissing
  Concurrency,    \* of WithWalkOptions, and the shards of cc.dirs
  NumCPU,         \* runtime.NumCPU()
  MayVanish,      \* names that may be deleted from the source meanwhile
  MayFail         \* what else may fail: "diff", "file", "rm", "ln", "fixup"

Absent == [type |-> "absent"]

(* ino tells which names are hard links of one file; ver is what cmp        *)
(* compares: size and mtime of a file, mtime of a directory, owner of a     *)
(* symbolic link.  Files of one ver have the same content.  In dst, what     *)
(* this program made has the name it was made under for its ino, and a       *)
(* directory's ver is "now" after a change of its entries.  Modes are not    *)
(* compared; which files have one of a symbolic link is linkMode.            *)
EntryOK(e) ==
  e = Absent \/ (DOMAIN e = {"type", "ino", "ver"} /\ e.type \in {"dir", "file", "symlink"})

(* What is there is in a directory that is there. *)
TreeOK(t) == \A n \in Name : t[n] # Absent => Parent[n] = Root \/ t[Parent[n]].type = "dir"

ASSUME Assumptions ==
  /\ Root \notin Name /\ Up \notin Name /\ Root # Up /\ "none" \notin Name
  /\ Parent \in [Name -> Name \cup {Root}]
  /\ DOMAIN Src = Name /\ \A n \in Name : EntryOK(Src[n]) /\ (Src[n] # Absent => Src[n].ver # "now")
  /\ \A t \in Before : t = [n \in Name |-> t[n]] /\ \A n \in Name : EntryOK(t[n])
  /\ TreeOK(Src) /\ \A t \in Before : TreeOK(t)
  /\ \A n, k \in Name : Src[n].type = "file" /\ Src[k].type = "file" /\ Src[n].ino = Src[k].ino
                        => Src[n].ver = Src[k].ver
  /\ \A t \in Before, n \in Name : t[n] # Absent => t[n].ino \notin Name
  /\ Target \in [{n \in Name : Src[n].type = "symlink"} -> Name]
  /\ \A n \in DOMAIN Target, t \in Before \cup {Src} : t[Target[n]].type # "symlink"
  /\ IgnoreMissing \in BOOLEAN
  /\ Concurrency \in Nat /\ NumCPU \in Nat \ {0}
  /\ MayVanish \subseteq Name /\ MayFail \subseteq {"diff", "file", "rm", "ln", "fixup"}

VARIABLES
  pc,        \* where Tree is
  dst,       \* dst[n]: the entry n of the destination
  linkMode,  \* the inodes in dst that got the mode of a symbolic link
  before,    \* history: what dst was when Tree was called
  table,     \* the Difference: which of its tables each name is in
  gone,      \* names deleted from the source meanwhile
  step,      \* step[n]: what a worker that has begun with n does next, or
             \* "lost" if it panicked
  modified,  \* cc.dirs, all shards together
  m, links,  \* the hardlinker's maps; links[n] is "none" if there is none
  holding,   \* the name a submitting goroutine is about to store in m
  fixerr,    \* fixup has met an error
  outside,   \* Up has been given the metadata of the directory above src
  pending, finished, failed, status, result   \* the work pool

pool == <<pending, finished, failed, status, result>>
hard == <<m, links, holding>>
end == <<fixerr, outside>>
vars == <<pc, dst, linkMode, before, table, gone, step, modified, hard, end, pool>>

WP == INSTANCE Pool WITH Task <- Name

(* What is at or below n, what is above it, and the directory d is in *)
Under == [n \in Name |->
  {k \in Name : \A S \in SUBSET Name :
     n \in S /\ (\A j \in Name : Parent[j] \in S => j \in S) => k \in S}]
Above(n) == {k \in Name : n \in Under[k]} \ {n}
DirOf(d) == IF d \in Name THEN Parent[d] ELSE Up

(* What cmp.FsTree finds, see TreeDiff *)
Meaning(n) ==
  LET s == Src[n]
      d == dst[n]
      Kind(e, dir, file) == IF e.type = "dir" THEN dir ELSE file IN
  IF s = Absent /\ d = Absent THEN "none"
  ELSE IF d = Absent THEN Kind(s, "LeftDirs", "LeftFiles")
  ELSE IF s = Absent THEN Kind(d, "RightDirs", "RightFiles")
  ELSE IF s.type # d.type THEN "Funny"
  ELSE IF s.ver = d.ver THEN Kind(s, "CommonDirs", "CommonFiles") ELSE "Diff"
In(S) == {n \in Name : table[n] \in S}
Tables == {"none", "LeftDirs", "LeftFiles", "RightDirs", "RightFiles",
           "CommonDirs", "CommonFiles", "Diff", "Funny"}
Right == {"RightFiles", "RightDirs"}

Init ==
  /\ pc = "start"
  /\ dst \in Before /\ before = dst /\ linkMode = {}
  /\ table = [n \in Name |-> "none"]
  /\ gone = {}
  /\ step = [n \in Name |-> "none"]
  /\ modified = {}
  /\ m = [i \in {Src[n].ino : n \in {k \in Name : Src[k].type = "file"}} |-> "none"]
  /\ links = [n \in Name |-> "none"]
  /\ holding = [g \in {"Diff", "LeftFiles"} |-> "none"]
  /\ fixerr = FALSE /\ outside = FALSE
  /\ WP!Init

-----------------------------------------------------------------------------
(* The file system *)

IsDir(e) == e.type = "dir"

(* The entries S were added, removed or replaced in the directories above *)
Changed(t, S) ==
  [n \in Name |-> IF IsDir(t[n]) /\ \E k \in S : Parent[k] = n
                  THEN [t[n] EXCEPT !.ver = "now"] ELSE t[n]]

(* MkdirAll(n): the directories missing above n, and n itself *)
MkdirAll(t, n) ==
  LET new == {k \in Above(n) \cup {n} : t[k] = Absent}
  IN  Changed([k \in Name |-> IF k \in new THEN [type |-> "dir", ino |-> k, ver |-> "now"] ELSE t[k]], new)
MkdirAbove(t, n) == IF Parent[n] \in Name THEN MkdirAll(t, Parent[n]) ELSE t

\* mutant: a file is written in place, under all its names
PutInPlace(t, n, e) ==
  Changed([k \in Name |-> IF k = n THEN e
                          ELSE IF t[n] # Absent /\ t[k] # Absent /\ t[k].ino = t[n].ino
                          THEN [t[k] EXCEPT !.ver = e.ver] ELSE t[k]], {n})
Put(t, n, e) == Changed([t EXCEPT ![n] = e], {n})
Removed(t, S) == Changed([n \in Name |-> IF n \in S THEN Absent ELSE t[n]], {n \in S : t[n] # Absent})

(* Somebody deletes n from the source. *)
Vanish(n) ==
  /\ pc \notin {"start", "ok", "error", "panic"}
  /\ n \in MayVanish \ gone
  /\ gone' = gone \cup Under[n]
  /\ UNCHANGED <<pc, dst, linkMode, before, table, step, modified, hard, end, pool>>

-----------------------------------------------------------------------------
(* Tree: the comparison, the refusal of funny entries, and cc.dirs[0], which  *)
(* panics if there is no shard *)
Compare ==
  /\ pc = "start"
  /\ \/ /\ table' = [n \in Name |-> Meaning(n)]
        /\ pc' = IF \E n \in Name : Meaning(n) = "Funny" THEN "error"
                  ELSE IF Concurrency = 0 THEN "panic" ELSE "dirs"
     \/ "diff" \in MayFail /\ pc' = "error" /\ UNCHANGED table
  /\ UNCHANGED <<dst, linkMode, before, gone, step, modified, hard, end, pool>>

Submitted == pending \cup finished
Submit(n) == WP!Submit(n) /\ UNCHANGED <<pc, dst, linkMode, before, table, gone, step, end>>

(* The new directories, in the order of their names *)
SubmitDir(n) ==
  /\ pc = "dirs" /\ n \in In({"LeftDirs"})
  /\ Above(n) \cap In({"LeftDirs"}) \subseteq Submitted
  /\ Submit(n)
  /\ modified' = modified \cup {n}
  /\ UNCHANGED hard

SubmitDel(n) ==
  /\ pc = "work" /\ n \in In(Right)
  /\ Submit(n)
  /\ UNCHANGED <<modified, hard>>

(* hardlinker.track: Load, and Store of a name that is the first of its file *)
Linked(n) == Src[n].type = "file" /\ \E k \in Name \ {n} : Src[k].type = "file" /\ Src[k].ino = Src[n].ino

Track(g, n) ==
  /\ pc = "work" /\ holding[g] = "none"
  /\ n \in In({g}) \ Submitted /\ links[n] = "none"
  /\ \/ /\ ~Linked(n)
        /\ Submit(n)
        /\ UNCHANGED hard
     \/ /\ Linked(n) /\ m[Src[n].ino] # "none"
        /\ links' = [links EXCEPT ![n] = m[Src[n].ino]]
        /\ UNCHANGED <<m, holding, pc, dst, linkMode, before, table, gone, step, end, pool>>
     \/ /\ Linked(n) /\ m[Src[n].ino] = "none"
        /\ holding' = [holding EXCEPT ![g] = n]
        /\ UNCHANGED <<m, links, pc, dst, linkMode, before, table, gone, step, end, pool>>
  /\ UNCHANGED modified

\* mutant: nothing is stored
RememberNothing(g) ==
  /\ holding[g] # "none"
  /\ holding' = [holding EXCEPT ![g] = "none"]
  /\ Submit(holding[g])
  /\ UNCHANGED <<modified, m, links>>

Remember(g) ==
  LET n == holding[g] IN
  /\ n # "none"
  /\ m' = [m EXCEPT ![Src[n].ino] = n]
  /\ holding' = [holding EXCEPT ![g] = "none"]
  /\ Submit(n)
  /\ UNCHANGED <<modified, links>>

ToLink == {n \in Name : links[n] # "none"}

SubmitLink(n) ==
  /\ pc = "links" /\ n \in ToLink
  /\ Submit(n)
  /\ UNCHANGED <<modified, hard>>

\* mutant: the goroutines that submit deletions are not counted in wg
AllSubmittedBut ==
  CASE pc = "dirs" -> In({"LeftDirs"}) \subseteq Submitted
    [] pc = "work" -> In({"LeftFiles", "Diff"}) \subseteq Submitted \cup ToLink
    [] pc = "links" -> ToLink \subseteq Submitted
    [] OTHER -> FALSE

\* mutant: what track has put aside is waited for
AllSubmittedHere ==
  CASE pc = "dirs" -> In({"LeftDirs"}) \subseteq Submitted
    [] pc = "work" -> In({"LeftFiles", "Diff"} \cup Right) \subseteq Submitted
    [] pc = "links" -> ToLink \subseteq Submitted
    [] OTHER -> FALSE

(* The submitting goroutines are joined before Close. *)
AllSubmitted ==
  CASE pc = "dirs" -> In({"LeftDirs"}) \subseteq Submitted
    [] pc = "work" -> In({"LeftFiles", "Diff"} \cup Right) \subseteq Submitted \cup ToLink
    [] pc = "links" -> ToLink \subseteq Submitted
    [] OTHER -> FALSE

Close ==
  /\ AllSubmitted
  /\ WP!Close
  /\ UNCHANGED <<pc, dst, linkMode, before, table, gone, step, modified, hard, end>>

Wait ==
  /\ WP!Return
  /\ UNCHANGED <<pc, dst, linkMode, before, table, gone, step, modified, hard, end>>

(* Wait has returned: an error of any unit is the result of Tree. *)
Following == [dirs |-> "work", work |-> "links", links |-> "fixup"]

PoolDoneEarly == status \in {"closed", "returned"}   \* mutant: no Wait
PoolDone == status = "returned"

NextPool ==
  /\ PoolDone /\ pc \in DOMAIN Following
  /\ pc' = IF result = {} THEN Following[pc] ELSE "error"
  /\ pending' = {} /\ finished' = {} /\ failed' = {} /\ result' = {}
  /\ status' = "open"
  /\ UNCHANGED <<dst, linkMode, before, table, gone, step, modified, hard, end>>

-----------------------------------------------------------------------------
(* The workers.  A unit ends with an error or without one; what dowork did   *)
(* without one it tracks. *)

Finish(n, ok) ==
  /\ WP!Finish(n)
  /\ failed' = IF ok THEN failed ELSE failed \cup {n}
  /\ step' = [step EXCEPT ![n] = "none"]

\* mutant: only deletions are tracked
TrackedDel(n) == IF pc = "dirs" \/ n \notin In(Right) THEN {} ELSE {DirOf(Parent[n])}

(* track(name) and, for deletions, track(filepath.Dir(name)) *)
Tracked(n) == IF pc = "dirs" THEN {}
              ELSE IF n \in In(Right) THEN {DirOf(Parent[n])} ELSE {Parent[n]}
Fine(n) == Finish(n, TRUE) /\ modified' = modified \cup Tracked(n)
Broken(n) == Finish(n, FALSE) /\ UNCHANGED modified
Missing(n) == IF IgnoreMissing THEN Fine(n) ELSE Broken(n)

Copying(n) == n \in pending /\ (pc = "dirs" \/ (pc = "work" /\ n \notin In(Right)))

(* File: Lstat, then what depends on the type *)
Make(n) ==
  LET s == Src[n] IN
  /\ Copying(n) /\ step[n] = "none"
  /\ \/ n \in gone /\ Missing(n) /\ UNCHANGED dst
     \/ "file" \in MayFail /\ Broken(n) /\ dst' \in {dst, Changed(dst, {n})}
     \/ /\ n \notin gone
        /\ IF s.type = "symlink" /\ dst[n] # Absent      \* Symlink does not replace
           THEN Broken(n) /\ UNCHANGED dst
           ELSE /\ dst' = IF s.type = "dir" THEN MkdirAll(dst, n)
                          ELSE Put(MkdirAbove(dst, n), n, [type |-> s.type, ino |-> n, ver |-> "now"])
                /\ step' = [step EXCEPT ![n] = "meta"]
                /\ UNCHANGED <<pool, modified>>
  /\ UNCHANGED <<pc, linkMode, before, table, gone, hard, end>>

(* updateMeta: the owner, then chmod, then the times.  Chmod follows a       *)
(* symbolic link, to what may not be there yet, or gets the mode of the link. *)
Meta(t, n) == [t EXCEPT ![n].ver = Src[n].ver]
Dangling(n) == Src[n].type = "symlink" /\ dst[Target[n]] = Absent
OwnMode(n) == linkMode \ {e.ino : e \in {dst[n]} \ {Absent}}
Chmoded(n) ==
  CASE Src[n].type # "symlink" -> OwnMode(n)
    [] Dangling(n) -> linkMode
    [] OTHER -> linkMode \cup {dst[Target[n]].ino}

Update(n) ==
  /\ Copying(n) /\ step[n] = "meta"
  /\ \/ "file" \in MayFail /\ Broken(n) /\ linkMode' \in {linkMode, OwnMode(n)} /\ UNCHANGED dst
     \/ /\ IF Dangling(n) THEN Missing(n) ELSE Fine(n)
        /\ dst' = Meta(dst, n) /\ linkMode' = Chmoded(n)
  /\ UNCHANGED <<pc, before, table, gone, hard, end>>

(* A pool of one worker has as many as there are cpus (workpool.go:70).  One *)
(* that finds no shard of cc.dirs panics before dowork, and is gone without   *)
(* wg.Done: its unit is never finished.                                      *)
PoolSize == IF Concurrency <= 1 THEN NumCPU ELSE Concurrency

PastShards(n) ==
  /\ n \in pending /\ pc \in {"work", "links"} /\ step[n] = "none"
  /\ Cardinality({k \in Name : step[k] = "lost"}) < PoolSize - Concurrency
  /\ step' = [step EXCEPT ![n] = "lost"]
  /\ UNCHANGED <<pc, dst, linkMode, before, table, gone, modified, hard, end, pool>>

(* RemoveAll; what is not there any more is no error *)
Delete(n) ==
  /\ n \in pending /\ pc = "work" /\ n \in In(Right) /\ step[n] = "none"
  /\ \/ Fine(n) /\ dst' = Removed(dst, Under[n])
     \/ "rm" \in MayFail /\ Broken(n) /\ UNCHANGED dst
  /\ UNCHANGED <<pc, linkMode, before, table, gone, hard, end>>

(* Remove of whatever is there, then Link *)
Unlink(n) ==
  /\ n \in pending /\ pc = "links" /\ step[n] = "none"
  /\ dst' = Removed(dst, {n})
  /\ step' = [step EXCEPT ![n] = "link"]
  /\ UNCHANGED <<pc, linkMode, before, table, gone, modified, hard, end, pool>>

Link(n) ==
  LET old == dst[links[n]] IN
  /\ n \in pending /\ pc = "links" /\ step[n] = "link"
  /\ \/ old # Absent /\ Fine(n) /\ dst' = Put(dst, n, old)
     \/ (old = Absent \/ "ln" \in MayFail) /\ Broken(n) /\ UNCHANGED dst
  /\ UNCHANGED <<pc, linkMode, before, table, gone, hard, end>>

-----------------------------------------------------------------------------
(* fixup: the directories that were changed, the deepest first.  The root    *)
(* is left out; what is not in the source any more is passed over.           *)

Fixed(d) == modified' = modified \ {d}

Fixup(d) ==
  /\ pc = "fixup" /\ d \in modified
  /\ d \in Name => Under[d] \cap modified = {d}
  /\ d \notin Name => modified \cap Name = {}
  /\ Fixed(d)
  /\ \/ /\ d = Root \/ (d \in Name /\ (Src[d] = Absent \/ d \in gone))
        /\ UNCHANGED <<dst, linkMode, end>>
     \/ /\ d \in Name /\ Src[d] # Absent /\ d \notin gone
        /\ \/ dst[d] # Absent /\ dst' = Meta(dst, d) /\ linkMode' = OwnMode(d) /\ UNCHANGED end
           \/ /\ dst[d] = Absent \/ "fixup" \in MayFail
              /\ fixerr' = TRUE /\ linkMode' \in {linkMode, OwnMode(d)} /\ UNCHANGED <<dst, outside>>
     \/ /\ d = Up /\ outside' = TRUE /\ fixerr' \in {fixerr, fixerr \/ "fixup" \in MayFail}
        /\ UNCHANGED <<dst, linkMode>>
  /\ UNCHANGED <<pc, before, table, gone, step, hard, pool>>

Return ==
  /\ pc = "fixup" /\ modified = {}
  /\ pc' = IF fixerr THEN "error" ELSE "ok"
  /\ UNCHANGED <<dst, linkMode, before, table, gone, step, modified, hard, end, pool>>

Main == Compare \/ Close \/ Wait \/ NextPool \/ Return \/ \E d \in Name \cup {Root, Up} : Fixup(d)
Submitting ==
  \/ \E n \in Name : SubmitDir(n) \/ SubmitDel(n) \/ SubmitLink(n)
  \/ \E g \in {"Diff", "LeftFiles"} : Remember(g) \/ \E n \in Name : Track(g, n)
Working == \E n \in Name : Make(n) \/ Update(n) \/ PastShards(n) \/ Delete(n) \/ Unlink(n) \/ Link(n)
Stopped == pc \in {"ok", "error", "panic"} /\ UNCHANGED vars

Next == Main \/ Submitting \/ Working \/ (\E n \in Name : Vanish(n)) \/ Stopped

Spec == Init /\ [][Next]_vars
FairSpec == Spec /\ WF_vars(Main \/ Submitting \/ Working)

-----------------------------------------------------------------------------
(* Only units of the pool are worked on, and a file put aside for a hard     *)
(* link is not copied as well.                                              *)
TypeOK ==
  /\ pc \in {"start", "dirs", "work", "links", "fixup", "ok", "error", "panic"}
  /\ DOMAIN dst = Name /\ \A n \in Name : EntryOK(dst[n])
  /\ before \in Before /\ gone \subseteq Name
  /\ linkMode \subseteq Name \cup {before[n].ino : n \in {k \in Name : before[k] # Absent}}
  /\ table \in [Name -> Tables]
  /\ step \in [Name -> {"none", "meta", "link", "lost"}]
  /\ \A n \in Name : step[n] # "none" => n \in pending
  /\ modified \subseteq Name \cup {Root, Up}
  /\ links \in [Name -> Name \cup {"none"}]
  /\ pc = "work" => ToLink \cap Submitted = {}
  /\ fixerr \in BOOLEAN /\ outside \in BOOLEAN
  /\ WP!TypeOK

(* When Tree returns nil, dst has the entries of src and no other: whatever  *)
(* the order in which directories are made, files copied, linked and        *)
(* deleted, no failure of a worker is lost on the way.  Left aside is what   *)
(* was deleted from the source meanwhile, and a name that is then Stale: it  *)
(* waited to be made a link of a name that was deleted before it was copied  *)
(* over the file dst had there, and becomes a link of that old file.         *)
Mirrored(n) ==
  /\ dst[n] = Absent <=> Src[n] = Absent
  /\ dst[n] # Absent =>
       /\ dst[n].type = Src[n].type
       /\ dst[n].type = "file" => dst[n].ver = Src[n].ver
Stale(n) == n \in ToLink /\ links[n] \in gone /\ table[links[n]] = "Diff"
Aside == gone \cup {n \in Name : Stale(n)}
Mirror == pc = "ok" => \A n \in Name \ Aside : Mirrored(n)

(* A directory gets its mtime back after everything that is made in it,     *)
(* whichever worker comes last, if nothing was deleted from it and if it is  *)
(* not one that had its mtime but lacked a directory.                        *)
Losing(d) ==
  \E n \in Name : Parent[n] = d /\ (n \in In(Right) \/ (table[d] = "CommonDirs" /\ table[n] = "LeftDirs"))
Dirs == {n \in Name : Src[n].type = "dir"}
DirsFixed == pc = "ok" => \A d \in Dirs \ gone : Losing(d) \/ dst[d].ver = Src[d].ver

(* A file that is the same on both sides stays the file it was, with its    *)
(* content, size and mtime, also through a hard link that dst has and src   *)
(* has not.  Its mode may change: only if a symbolic link that is new in dst *)
(* refers to it, or to another name dst has for it.                         *)
Referred ==
  {before[Target[l]].ino :
     l \in {k \in In({"LeftFiles"}) \cap DOMAIN Target : before[Target[k]] # Absent}}
Untouched ==
  \A n \in In({"CommonFiles"}) :
    /\ dst[n] = before[n]
    /\ dst[n].ino \in linkMode => dst[n].ino \in Referred

(* Two names in dst are links of one file only if they are in src; and they  *)
(* are if every name of that file is new, or every name has changed, and     *)
(* none was deleted meanwhile.  Stale names are left aside, as in Mirror.     *)
SameFile(n, k) == Src[n].type = "file" /\ Src[k].type = "file" /\ Src[n].ino = Src[k].ino
Group(n) == {k \in Name : SameFile(n, k)}
HardLinks ==
  pc = "ok" =>
    \A n, k \in In({"LeftFiles", "Diff"}) \ Aside :
      Src[n].type = "file" /\ Src[k].type = "file" =>
        /\ dst[n].ino = dst[k].ino => SameFile(n, k)
        /\ SameFile(n, k) /\ (\E g \in {"LeftFiles", "Diff"} : Group(n) \subseteq In({g}) \ gone) =>
             dst[n].ino = dst[k].ino

(* Tree returns, unless a worker that has no shard of cc.dirs panics: then  *)
(* Wait waits for its unit for ever.                                         *)
Returns == <>(pc \in {"ok", "error"} \/ \E n \in Name : step[n] = "lost")

(* "now run a cmp to ensure there are no differences" (clone/dir_test.go:43, *)
(* after a Tree that returned nil).  There may be one: a deletion tracks the *)
(* directory above the one it changes (tree.go:414 and :398).               *)
NoDifferences ==
  pc = "ok" => \A n \in Name \ gone : Mirrored(n) /\ (n \in Dirs => dst[n].ver = Src[n].ver)

(* "skipping over identical files" (README.md:18): what is the same on both *)
(* sides is left alone.  But the chmod of a symbolic link that was just made *)
(* follows it to such a file (clone/file.go:148).                           *)
Skipped == \A n \in In({"CommonFiles"}) : dst[n] = before[n] /\ dst[n].ino \notin linkMode
=============================================================================
