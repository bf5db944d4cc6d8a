--------------------------- MODULE TreeCloneMirror ---------------------------
(***************************************************************************)
(* Proofs about TreeClone: when Tree returns nil, dst has the entries of     *)
(* src and no other.  Mirror only speaks of the end; the invariant says of   *)
(* every name, at every step, why dst does not have it yet, why it still     *)
(* has it, or that it is as src has it.  That holds because the pools come   *)
(* one after the other: a unit of one is done, or has failed, before the     *)
(* next one begins, and a failure makes Tree return it.  So a link finds     *)
(* what it is a link of, and no deletion meets what a copy makes.            *)
(*                                                                         *)
(* Then come the modes that a chmod gives to what a symbolic link refers to, *)
(* the hard links of dst, which are those of src, and its directories, which *)
(* have their mtimes.  The links hold because the names of a file that are   *)
(* in one table go through one goroutine, which stores the first of them in  *)
(* the hardlinker before it looks up the next.  The mtimes need a reason for *)
(* every directory that has not its own: the unit that changed it is not     *)
(* done, or has tracked it for fixup.                                        *)
(***************************************************************************)
EXTENDS TreeCloneProofs

Running == {"dirs", "work", "links", "fixup", "ok"}
AfterWork == {"links", "fixup", "ok"}
SecondPool == {"LeftFiles", "Diff"} \cup Right

(* Which units are done *)
Succeeded == finished \ failed
MadeDir(n) == table[n] = "LeftDirs" /\ (pc \in {"work"} \cup AfterWork \/ (pc = "dirs" /\ n \in Succeeded))
Copied(n) ==
  /\ table[n] \in SecondPool /\ n \notin ToLink
  /\ pc \in AfterWork \/ (pc = "work" /\ n \in Succeeded)
LinkMade(n) == n \in ToLink /\ (pc \in {"fixup", "ok"} \/ (pc = "links" /\ n \in Succeeded))

(* What the tables say of the source *)
Judged ==
  pc \in Running => \A n \in Name :
    /\ Src[n] = Absent => table[n] \in Right \cup {"none"}
    /\ Src[n].type = "dir" => table[n] \in {"LeftDirs", "CommonDirs", "Diff"}
    /\ Src[n].type \in {"file", "symlink"} => table[n] \in {"LeftFiles", "CommonFiles", "Diff"}
    /\ table[n] = "CommonFiles" => before[n].type = Src[n].type /\ before[n].ver = Src[n].ver

Typed ==
  /\ pc \in Running \cup {"start", "error", "panic"}
  /\ \A n \in Name : EntryOK(dst[n])
  /\ gone \subseteq Name /\ \A n \in gone : Under[n] \subseteq gone
  /\ step \in [Name -> {"none", "meta", "link", "lost"}]
  /\ modified \subseteq Name \cup {Root, Up}
  /\ fixerr \in BOOLEAN /\ outside \in BOOLEAN
  /\ WP!TypeOK
  /\ \A n \in Name : step[n] # "none" => n \in pending
  /\ pc = "work" => ToLink \cap Submitted = {}
  /\ pending \cap finished = {}
  /\ pc = "start" => Submitted = {} /\ failed = {} /\ status = "open" /\ gone = {}

(* Wait returns when every unit is finished, with what failed. *)
Waited ==
  /\ pc = "dirs" /\ status # "open" => In({"LeftDirs"}) \subseteq Submitted
  /\ pc = "links" /\ status # "open" => ToLink \subseteq Submitted
  /\ status = "returned" => pending = {} /\ result = failed

(* What dst has is of the kind the source has, or is still to be deleted. *)
KindOf(n) ==
  dst[n] # Absent => \/ Src[n] # Absent /\ dst[n].type = Src[n].type
                     \/ table[n] \in Right /\ ~Copied(n)

(* What dst lacks is still to be made. *)
LackOf(n) ==
  n \notin gone /\ Src[n] # Absent /\ dst[n] = Absent =>
    \/ table[n] = "LeftDirs" /\ ~MadeDir(n)
    \/ table[n] = "LeftFiles" /\ n \notin ToLink /\ ~Copied(n)
    \/ n \in ToLink /\ ~LinkMade(n)

(* A new file that is not begun is not there, and what is done is as the     *)
(* source has it. *)
Unmade(n) ==
  /\ table[n] = "LeftFiles" /\ n \notin ToLink
  /\ pc = "dirs" \/ (pc = "work" /\ n \notin finished /\ step[n] # "meta")
StateOf(n) ==
  /\ step[n] = "meta" => /\ pc \in {"dirs", "work"} /\ table[n] \notin Right /\ dst[n] # Absent
                         /\ Src[n].type = "file" => dst[n].ino = n
  /\ step[n] = "link" => pc = "links"
  /\ Src[n].type = "file" =>
       /\ Unmade(n) => dst[n] = Absent
       /\ Copied(n) /\ (n \notin gone \/ (table[n] = "LeftFiles" /\ dst[n] # Absent)) =>
            dst[n].ver = Src[n].ver /\ dst[n].ino = n
       /\ LinkMade(n) /\ n \notin Aside => dst[n].ver = Src[n].ver /\ dst[n].ino = links[n]

Made == pc \in Running => \A n \in Name : KindOf(n) /\ LackOf(n) /\ StateOf(n)

(* What the hardlinker has stored *)
Firsts ==
  {n \in In({"LeftFiles", "Diff"}) \ ToLink :
     /\ Src[n].type = "file"
     /\ pc = "work" => n \in Submitted
     /\ pc \in {"work"} \cup AfterWork \cup {"error"}}
Stored ==
  /\ \A i \in DOMAIN m : m[i] # "none" => m[i] \in Firsts /\ Src[m[i]].ino = i
  /\ \A n \in ToLink : links[n] \in Firsts /\ SameFile(n, links[n])
  /\ \A g \in {"Diff", "LeftFiles"} : holding[g] # "none" => Linked(holding[g])

-----------------------------------------------------------------------------
(* What an operation on the file system does to the entry k of a tree t that *)
(* it is not about: a directory may get another mtime.                       *)
Alike(t, u, k) ==
  /\ u[k] = Absent <=> t[k] = Absent
  /\ u[k].type = t[k].type
  /\ t[k].type # "dir" => u[k] = t[k]
  /\ EntryOK(u[k])

LEMMA ChangedAlike ==
  ASSUME NEW t, NEW S, NEW k \in Name, EntryOK(t[k])
  PROVE  /\ Alike(t, Changed(t, S), k)
         /\ (\A j \in S : Parent[j] # k) => Changed(t, S)[k] = t[k]
<1>1. CASE IsDir(t[k]) /\ \E j \in S : Parent[j] = k
  <2>1. Changed(t, S)[k] = [t[k] EXCEPT !.ver = "now"]
    BY <1>1 DEF Changed
  <2>2. DOMAIN t[k] = {"type", "ino", "ver"} /\ t[k].type = "dir" /\ t[k] # Absent
    BY <1>1 DEF EntryOK, IsDir, Absent
  <2>3. DOMAIN [t[k] EXCEPT !.ver = "now"] = {"type", "ino", "ver"} /\ [t[k] EXCEPT !.ver = "now"].type = "dir"
    BY <2>2
  <2>4. [t[k] EXCEPT !.ver = "now"] # Absent
    BY <2>3 DEF Absent
  <2> QED BY <1>1, <2>1, <2>2, <2>3, <2>4 DEF Alike, EntryOK
<1>2. CASE ~(IsDir(t[k]) /\ \E j \in S : Parent[j] = k)
  <2>1. Changed(t, S)[k] = t[k]
    BY <1>2 DEF Changed
  <2> QED BY <2>1 DEF Alike
<1> QED BY <1>1, <1>2

(* A name that is put gets the entry, and others are as they were. *)
LEMMA PutAlike ==
  ASSUME NEW t, t = [j \in Name |-> t[j]], NEW n \in Name, NEW e, EntryOK(e), e.type # "dir",
         NEW k \in Name, EntryOK(t[k])
  PROVE  /\ Put(t, n, e)[n] = e
         /\ k # n => Alike(t, Put(t, n, e), k)
         /\ k # n /\ Parent[n] # k => Put(t, n, e)[k] = t[k]
<1> DEFINE u == [t EXCEPT ![n] = e]
<1>1. u[n] = e /\ (k # n => u[k] = t[k])
  OBVIOUS
<1>2. Put(t, n, e) = Changed(u, {n})
  BY DEF Put
<1> HIDE DEF u
<1>3. Changed(u, {n})[n] = e
  BY <1>1, ChangedAlike DEF Alike
<1>4. ASSUME k # n
      PROVE  Alike(t, Changed(u, {n}), k) /\ (Parent[n] # k => Changed(u, {n})[k] = t[k])
  <2>1. EntryOK(u[k])
    BY <1>1, <1>4
  <2>2. /\ Alike(u, Changed(u, {n}), k)
        /\ Parent[n] # k => Changed(u, {n})[k] = u[k]
    BY <2>1, ChangedAlike
  <2> QED BY <1>1, <1>4, <2>2 DEF Alike
<1> QED BY <1>2, <1>3, <1>4

(* What is removed is absent, and what is not is as it was. *)
LEMMA RemovedAlike ==
  ASSUME NEW t, NEW S, NEW k \in Name, EntryOK(t[k])
  PROVE  /\ k \in S => Removed(t, S)[k] = Absent
         /\ k \notin S => Alike(t, Removed(t, S), k)
         /\ k \notin S /\ (\A j \in S : t[j] # Absent => Parent[j] # k) => Removed(t, S)[k] = t[k]
<1> DEFINE u == [j \in Name |-> IF j \in S THEN Absent ELSE t[j]]
           R == {j \in S : t[j] # Absent}
<1>1. u[k] = IF k \in S THEN Absent ELSE t[k]
  OBVIOUS
<1>2. Removed(t, S) = Changed(u, R)
  BY DEF Removed
<1>3. EntryOK(u[k])
  BY <1>1 DEF EntryOK
<1> HIDE DEF u
<1>4. /\ Alike(u, Changed(u, R), k)
      /\ (\A j \in R : Parent[j] # k) => Changed(u, R)[k] = u[k]
  BY <1>3, ChangedAlike
<1> QED BY <1>1, <1>2, <1>4 DEF Alike

(* MkdirAll makes the directories that are missing, if any are. *)
LEMMA MkdirAlike ==
  ASSUME NEW t, t = [j \in Name |-> t[j]], NEW n \in Name, NEW k \in Name, EntryOK(t[k])
  PROVE  LET u == MkdirAll(t, n) IN
         /\ t[k] # Absent \/ k \notin Above(n) \cup {n} => Alike(t, u, k)
         /\ t[k] = Absent /\ k \in Above(n) \cup {n} => u[k] # Absent /\ u[k].type = "dir" /\ EntryOK(u[k])
         /\ (\A j \in Above(n) \cup {n} : t[j] = Absent => Parent[j] # k) /\ t[k] # Absent => u[k] = t[k]
<1> DEFINE new == {j \in Above(n) \cup {n} : t[j] = Absent}
           u == [j \in Name |-> IF j \in new THEN [type |-> "dir", ino |-> j, ver |-> "now"] ELSE t[j]]
           d == [type |-> "dir", ino |-> k, ver |-> "now"]
<1>1. u[k] = IF k \in new THEN d ELSE t[k]
  OBVIOUS
<1>2. MkdirAll(t, n) = Changed(u, new)
  BY DEF MkdirAll
<1>3. d # Absent /\ d.type = "dir" /\ EntryOK(d)
  <2>1. DOMAIN d = {"type", "ino", "ver"} /\ d.type = "dir"
    OBVIOUS
  <2> HIDE DEF d
  <2> QED BY <2>1 DEF EntryOK, Absent
<1>4. EntryOK(u[k])
  BY <1>1, <1>3
<1> HIDE DEF u, d
<1>5. /\ Alike(u, Changed(u, new), k)
      /\ (\A j \in new : Parent[j] # k) => Changed(u, new)[k] = u[k]
  BY <1>4, ChangedAlike
<1>6. k \in new <=> k \in Above(n) \cup {n} /\ t[k] = Absent
  OBVIOUS
<1> HIDE DEF new
<1>7. CASE k \in new
  BY <1>1, <1>2, <1>3, <1>5, <1>6, <1>7 DEF Alike
<1>8. CASE k \notin new
  <2>1. u[k] = t[k]
    BY <1>1, <1>8
  <2>2. (\A j \in Above(n) \cup {n} : t[j] = Absent => Parent[j] # k) => \A j \in new : Parent[j] # k
    BY DEF new
  <2> QED BY <1>2, <1>5, <1>6, <1>8, <2>1, <2>2 DEF Alike
<1> QED BY <1>7, <1>8

(* The metadata given to an entry that is there *)
LEMMA MetaAlike ==
  ASSUME NEW t, t = [j \in Name |-> t[j]], NEW n \in Name, EntryOK(t[n])
  PROVE  /\ \A k \in Name \ {n} : Meta(t, n)[k] = t[k]
         /\ EntryOK(Meta(t, n)[n]) /\ Meta(t, n)[n].type = t[n].type
         /\ Meta(t, n)[n] = Absent <=> t[n] = Absent
         /\ t[n] # Absent => Meta(t, n)[n].ver = Src[n].ver /\ Meta(t, n)[n].ino = t[n].ino
<1>1. Meta(t, n)[n] = [t[n] EXCEPT !.ver = Src[n].ver]
  BY DEF Meta
<1>2. \A k \in Name \ {n} : Meta(t, n)[k] = t[k]
  BY DEF Meta
<1>3. CASE t[n] = Absent
  <2>1. [t[n] EXCEPT !.ver = Src[n].ver] = Absent
    BY <1>3 DEF Absent
  <2> QED BY <1>1, <1>2, <1>3, <2>1
<1>4. CASE t[n] # Absent
  <2>1. DOMAIN t[n] = {"type", "ino", "ver"} /\ t[n].type \in {"dir", "file", "symlink"}
    BY <1>4 DEF EntryOK
  <2> DEFINE v == [t[n] EXCEPT !.ver = Src[n].ver]
  <2>2. DOMAIN v = {"type", "ino", "ver"} /\ v.type = t[n].type /\ v.ino = t[n].ino /\ v.ver = Src[n].ver
    BY <2>1
  <2> HIDE DEF v
  <2>3. v # Absent
    BY <2>1, <2>2 DEF Absent
  <2>4. Meta(t, n)[n] = v
    BY <1>1 DEF v
  <2> QED BY <1>2, <1>4, <2>1, <2>2, <2>3, <2>4 DEF EntryOK
<1> QED BY <1>3, <1>4

(* The invariant of the copy *)
MirrorInv == Judged /\ Typed /\ Waited /\ Made /\ Stored

(* What is below what is below n is below n; n is below the directory it is in. *)
LEMMA UnderClosed ==
  ASSUME NEW n \in Name
  PROVE  /\ n \in Under[n] /\ Under[n] \subseteq Name
         /\ \A j \in Under[n] : Under[j] \subseteq Under[n]
         /\ \A k \in Name : Parent[n] \in Under[k] => n \in Under[k]
BY DEF Under

(* What is above an entry of the source is a directory of the source. *)
LEMMA UpperDirs ==
  ASSUME NEW n \in Name, Src[n] # Absent, NEW k \in Name, n \in Under[k], k # n
  PROVE  Src[k] # Absent /\ Src[k].type = "dir"
<1> DEFINE S == {k} \cup {j \in Name : Src[j] = Absent}
<1>1. Src[k].type = "dir"
  <2> SUFFICES ASSUME Src[k].type # "dir" PROVE FALSE
    OBVIOUS
  <2>1. \A j \in Name : Parent[j] \in S => j \in S
    <3> SUFFICES ASSUME NEW j \in Name, Parent[j] \in S, Src[j] # Absent PROVE FALSE
      OBVIOUS
    <3>1. Parent[j] # Root
      BY Assumptions
    <3>2. Src[Parent[j]].type = "dir"
      BY <3>1, Assumptions DEF TreeOK
    <3> QED BY <3>2 DEF Absent
  <2>2. S \in SUBSET Name /\ k \in S
    OBVIOUS
  <2>3. n \in S
    BY <2>1, <2>2 DEF Under
  <2> QED BY <2>3
<1> QED BY <1>1 DEF Absent

(* The directories that Make may make, above n or n itself *)
LEMMA Uppers ==
  ASSUME NEW n \in Name, NEW k \in Above(n) \cup {n}
  PROVE  k \in Name /\ n \in Under[k]
BY UnderClosed DEF Above

(* The directories that MkdirAbove may make are in the source. *)
LEMMA Lowers ==
  ASSUME NEW n \in Name, Src[n] # Absent, Parent[n] \in Name, NEW k \in Above(Parent[n]) \cup {Parent[n]}
  PROVE  k \in Name /\ n \in Under[k] /\ Src[k] # Absent /\ Src[k].type = "dir"
<1>1. k \in Name /\ Parent[n] \in Under[k]
  BY Uppers
<1>2. n \in Under[k]
  BY <1>1, UnderClosed
<1>3. Src[Parent[n]].type = "dir" /\ Src[Parent[n]] # Absent
  <2>1. Parent[n] # Root
    BY Assumptions
  <2> QED BY <2>1, Assumptions DEF TreeOK, Absent
<1> QED BY <1>1, <1>2, <1>3, UpperDirs

-----------------------------------------------------------------------------
(* What the tables say stays true. *)
LEMMA SameJudged ==
  ASSUME Judged, UNCHANGED <<table, before>>, pc' \in Running => pc \in Running
  PROVE  Judged'
BY DEF Judged

(* What is left aside stays so. *)
LEMMA SameAside ==
  ASSUME table' = table, gone \subseteq gone', NEW n \in Name, links'[n] = links[n]
  PROVE  n \in Aside => n \in Aside'
BY DEF Aside, Stale, ToLink

(* A step that changes no entry and finishes no unit; it may put a name      *)
(* aside that was not submitted.                                             *)
LEMMA QuietKeeps ==
  ASSUME IInv, MirrorInv,
         UNCHANGED <<pc, dst, table, finished, failed>>, gone \subseteq gone',
         \A k \in Name : step'[k] = step[k] \/ (step[k] # "meta" /\ step'[k] = "lost"),
         \A k \in Name : links'[k] = links[k] \/ (pc = "work" /\ k \in ToLink' /\ k \notin Submitted)
  PROVE  Made'
<1> SUFFICES ASSUME pc \in Running, NEW n \in Name
             PROVE  KindOf(n)' /\ LackOf(n)' /\ StateOf(n)'
  BY DEF Made
<1>1. KindOf(n) /\ LackOf(n) /\ StateOf(n)
  BY DEF MirrorInv, Made
<1>2. "lost" # "meta" /\ "lost" # "link" /\ pc # "error"
  BY DEF Running
<1>3. CASE links'[n] = links[n]
  <2>1. /\ (n \in ToLink)' <=> n \in ToLink
        /\ MadeDir(n)' <=> MadeDir(n)
        /\ Copied(n)' <=> Copied(n)
        /\ LinkMade(n)' <=> LinkMade(n)
    BY <1>3 DEF ToLink, MadeDir, Copied, LinkMade, Succeeded
  <2>2. step'[n] = step[n] \/ (step[n] # "meta" /\ step'[n] = "lost")
    OBVIOUS
  <2>3. n \in Aside => n \in Aside'
    BY <1>3, SameAside
  <2> QED BY <1>1, <1>3, <2>1, <2>2, <2>3 DEF KindOf, LackOf, StateOf, Unmade
<1>4. CASE pc = "work" /\ n \in ToLink' /\ n \notin Submitted
  <2>1. /\ ~Copied(n) /\ ~Copied(n)' /\ ~LinkMade(n)' /\ (n \in ToLink)'
        /\ MadeDir(n)' <=> MadeDir(n)
    BY <1>4 DEF MadeDir, Copied, LinkMade, Succeeded, Submitted, AfterWork
  <2>2. n \in pending \/ step[n] = "none"
    BY DEF MirrorInv, Typed
  <2> QED BY <1>1, <1>4, <2>1, <2>2 DEF KindOf, LackOf, StateOf, Unmade, Submitted
<1> QED BY <1>3, <1>4

(* What the hardlinker has stored stays true while more is submitted. *)
LEMMA SameStored ==
  ASSUME Stored, UNCHANGED <<m, links, holding, table>>,
         \/ pc' = pc /\ Submitted \subseteq Submitted'
         \/ pc = "work" /\ pc' \in {"links", "error"}
         \/ pc # "work" /\ pc \in AfterWork /\ pc' \in {"fixup", "ok", "error"}
         \/ ToLink = {} /\ (\A i \in DOMAIN m : m[i] = "none") /\ \A g \in {"Diff", "LeftFiles"} : holding[g] = "none"
  PROVE  Stored'
<1>1. ToLink' = ToLink
  BY DEF ToLink
<1>2. CASE ToLink = {} /\ (\A i \in DOMAIN m : m[i] = "none") /\ \A g \in {"Diff", "LeftFiles"} : holding[g] = "none"
  BY <1>1, <1>2 DEF Stored
<1>3. CASE \/ pc' = pc /\ Submitted \subseteq Submitted'
           \/ pc = "work" /\ pc' \in {"links", "error"}
           \/ pc # "work" /\ pc \in AfterWork /\ pc' \in {"fixup", "ok", "error"}
  <2>1. Firsts \subseteq Firsts'
    BY <1>1, <1>3 DEF Firsts, In, AfterWork
  <2>2. \A n, k : SameFile(n, k)' = SameFile(n, k) /\ Linked(n)' = Linked(n)
    BY DEF SameFile, Linked
  <2> QED BY <1>1, <2>1, <2>2 DEF Stored
<1> QED BY <1>2, <1>3

(* A unit is submitted. *)
LEMMA SubmitKeeps ==
  ASSUME IInv, MirrorInv, NEW n \in Name, Submit(n), links' = links,
         pc # "start", pc = "work" => n \notin ToLink,
         modified' \subseteq Name \cup {Root, Up}, Stored'
  PROVE  MirrorInv'
<1>1. /\ UNCHANGED <<pc, dst, before, table, gone, step, fixerr, outside, finished, failed, status, result>>
      /\ n \notin Submitted /\ status = "open" /\ pending' = pending \cup {n} /\ Submitted' = Submitted \cup {n}
  BY SubmitSame DEF Submit, WP!Submit, end
<1>2. Made'
  BY <1>1, QuietKeeps
<1>3. Typed'
  <2>1. WP!TypeOK'
    BY <1>1 DEF MirrorInv, Typed, WP!TypeOK
  <2>2. ToLink' = ToLink
    BY DEF ToLink
  <2> QED BY <1>1, <2>1, <2>2 DEF MirrorInv, Typed, Submitted
<1>4. Waited' /\ Judged'
  BY <1>1, SameJudged DEF MirrorInv, Waited
<1> QED BY <1>2, <1>3, <1>4 DEF MirrorInv

(* A directory, a deletion or a link is submitted. *)
LEMMA SubmitMirror ==
  ASSUME IInv, MirrorInv, NEW n \in Name, SubmitDir(n) \/ SubmitDel(n) \/ SubmitLink(n)
  PROVE  MirrorInv'
<1>1. /\ Submit(n) /\ UNCHANGED hard /\ pc # "start"
      /\ pc = "work" => n \notin ToLink
      /\ modified' \subseteq Name \cup {Root, Up}
  <2>1. modified \subseteq Name \cup {Root, Up}
    BY DEF MirrorInv, Typed
  <2>2. pc = "work" /\ n \in In(Right) => n \notin ToLink
    BY DEF IInv, Units, In, Right
  <2> QED BY <2>1, <2>2 DEF SubmitDir, SubmitDel, SubmitLink
<1>2. Stored'
  BY <1>1, SubmitSame, SameStored DEF MirrorInv, hard
<1> QED BY <1>1, <1>2, SubmitKeeps DEF hard

(* A goroutine that holds nothing takes a name, puts it aside or submits it. *)
LEMMA TrackMirror ==
  ASSUME IInv, MirrorInv, NEW g \in {"Diff", "LeftFiles"}, NEW n \in Name, Track(g, n)
  PROVE  MirrorInv'
<1>1. /\ pc = "work" /\ holding[g] = "none" /\ modified' = modified
      /\ n \in In({g}) \ Submitted /\ n \notin ToLink
  BY DEF Track, ToLink
<1>2. modified \subseteq Name \cup {Root, Up}
  BY DEF MirrorInv, Typed
<1>3. CASE Submit(n) /\ UNCHANGED hard
  <2>1. Stored'
    BY <1>3, SubmitSame, SameStored DEF MirrorInv, hard
  <2> QED BY <1>1, <1>2, <1>3, <2>1, SubmitKeeps DEF hard
<1>4. CASE /\ Linked(n) /\ m[Src[n].ino] # "none"
           /\ links' = [links EXCEPT ![n] = m[Src[n].ino]]
           /\ UNCHANGED <<m, holding, pc, dst, linkMode, before, table, gone, step, end, pool>>
  <2>1. Src[n].ino \in Inos /\ m \in [Inos -> Name \cup {"none"}] /\ links \in [Name -> Name \cup {"none"}]
    BY <1>4 DEF Linked, Inos, IInv, Shape
  <2>2. ToLink' = ToLink \cup {n} /\ links'[n] = m[Src[n].ino] /\ \A k \in Name \ {n} : links'[k] = links[k]
    BY <1>4, <2>1 DEF ToLink
  <2>3. UNCHANGED <<m, holding, pc, dst, before, table, gone, step, fixerr, outside, pending, finished, failed, status, result>>
    BY <1>4 DEF end, pool
  <2>4. Made'
    BY <1>1, <2>2, <2>3, QuietKeeps
  <2>5. Typed' /\ Waited' /\ Judged'
    <3>1. WP!TypeOK'
      BY <2>3 DEF MirrorInv, Typed, WP!TypeOK
    <3>2. Typed'
      BY <1>1, <2>2, <2>3, <3>1 DEF MirrorInv, Typed, Submitted
    <3> QED BY <1>1, <2>3, <3>2, SameJudged DEF MirrorInv, Waited
  <2>6. Stored'
    <3>1. Firsts' = Firsts
      BY <1>1, <2>2, <2>3 DEF Firsts, In, Submitted
    <3>3. m[Src[n].ino] \in Firsts /\ Src[m[Src[n].ino]].ino = Src[n].ino
      BY <1>4, <2>1 DEF MirrorInv, Stored
    <3>4. SameFile(n, m[Src[n].ino])
      BY <1>4, <3>3 DEF SameFile, Firsts, Linked
    <3>5. \A k \in ToLink : links'[k] = links[k]
      BY <1>1, <2>2 DEF ToLink
    <3>6. \A i \in DOMAIN m : m[i] # "none" => m[i] \in Firsts' /\ Src[m[i]].ino = i
      BY <3>1 DEF MirrorInv, Stored
    <3>7. \A k \in ToLink' : links'[k] \in Firsts' /\ SameFile(k, links'[k])
      BY <2>2, <3>1, <3>3, <3>4, <3>5 DEF MirrorInv, Stored
    <3>8. \A h \in {"Diff", "LeftFiles"} : holding'[h] # "none" => Linked(holding'[h])
      BY <2>3 DEF MirrorInv, Stored
    <3> QED BY <2>3, <3>6, <3>7, <3>8 DEF Stored, SameFile, Linked
  <2> QED BY <2>4, <2>5, <2>6 DEF MirrorInv
<1>5. CASE /\ Linked(n)
           /\ holding' = [holding EXCEPT ![g] = n]
           /\ UNCHANGED <<m, links, pc, dst, linkMode, before, table, gone, step, end, pool>>
  <2>1. UNCHANGED <<m, links, pc, dst, before, table, gone, step, fixerr, outside, pending, finished, failed, status, result>>
    BY <1>5 DEF end, pool
  <2>2. Made'
    BY <2>1, QuietKeeps
  <2>3. Typed' /\ Waited' /\ Judged'
    <3>1. WP!TypeOK'
      BY <2>1 DEF MirrorInv, Typed, WP!TypeOK
    <3>2. Typed'
      BY <1>1, <2>1, <3>1 DEF MirrorInv, Typed, Submitted, ToLink
    <3> QED BY <1>1, <2>1, <3>2, SameJudged DEF MirrorInv, Waited
  <2>4. Stored'
    <3>1. Firsts' = Firsts
      BY <2>1 DEF Firsts, In, Submitted, ToLink
    <3>2. \A h \in {"Diff", "LeftFiles"} : holding'[h] # "none" => Linked(holding'[h])
      BY <1>5 DEF IInv, Shape, MirrorInv, Stored
    <3> QED BY <2>1, <3>1, <3>2 DEF MirrorInv, Stored, SameFile, Linked, ToLink
  <2> QED BY <2>2, <2>3, <2>4 DEF MirrorInv
<1> QED BY <1>3, <1>4, <1>5 DEF Track

(* The name it holds is stored, and submitted with that. *)
LEMMA RememberMirror ==
  ASSUME IInv, MirrorInv, NEW g \in {"Diff", "LeftFiles"}, Remember(g)
  PROVE  MirrorInv'
<1>1. PICK n : n = holding[g]
  OBVIOUS
<1>2. /\ n # "none" /\ m' = [m EXCEPT ![Src[n].ino] = n] /\ Submit(n)
      /\ holding' = [holding EXCEPT ![g] = "none"]
      /\ UNCHANGED <<modified, links>>
  BY <1>1 DEF Remember
<1>3. pc = "work" /\ n \in In({g}) /\ n \notin Submitted /\ n \notin ToLink /\ n \in Name /\ Linked(n)
  BY <1>1, <1>2 DEF IInv, Held, MirrorInv, Stored, In
<1>4. /\ Submitted' = Submitted \cup {n} /\ UNCHANGED <<pc, table>> /\ ToLink' = ToLink
  BY <1>2, SubmitSame DEF ToLink
<1>5. Stored'
  <2>1. Src[n].ino \in Inos /\ m \in [Inos -> Name \cup {"none"}] /\ Src[n].type = "file"
    BY <1>3 DEF Linked, Inos, IInv, Shape
  <2>2. Firsts \subseteq Firsts'
    BY <1>4 DEF Firsts, In
  <2>3. n \in Firsts'
    BY <1>3, <1>4, <2>1 DEF Firsts, In
  <2>4. \A i \in DOMAIN m' : m'[i] # "none" => m'[i] \in Firsts' /\ Src[m'[i]].ino = i
    BY <1>2, <2>1, <2>2, <2>3 DEF MirrorInv, Stored
  <2>5. \A h \in {"Diff", "LeftFiles"} : holding'[h] # "none" => Linked(holding'[h])
    BY <1>2 DEF IInv, Shape, MirrorInv, Stored
  <2> QED BY <1>2, <1>4, <2>2, <2>4, <2>5 DEF MirrorInv, Stored, SameFile, Linked
<1> QED BY <1>2, <1>3, <1>5, SubmitKeeps DEF MirrorInv, Typed

(* Close and Wait *)
LEMMA PoolMirror ==
  ASSUME IInv, MirrorInv, Close \/ Wait
  PROVE  MirrorInv'
<1>1. /\ UNCHANGED <<pc, dst, before, table, gone, step, modified, m, links, holding, fixerr, outside>>
      /\ UNCHANGED <<pending, finished, failed>>
      /\ \/ AllSubmitted /\ status' = "closed" /\ result' = result
         \/ status = "closed" /\ pending = {} /\ status' = "returned" /\ result' = failed
  BY DEF Close, Wait, WP!Close, WP!Return, hard, end
<1> pc # "start"
  BY <1>1 DEF AllSubmitted, MirrorInv, Typed
<1>2. Made' /\ Judged'
  BY <1>1, QuietKeeps, SameJudged DEF MirrorInv
<1>3. Typed'
  <2>1. WP!TypeOK'
    BY <1>1 DEF MirrorInv, Typed, WP!TypeOK
  <2> QED BY <1>1, <2>1 DEF MirrorInv, Typed, ToLink, Submitted
<1>4. Waited'
  <2>1. AllSubmitted => (pc = "dirs" => In({"LeftDirs"}) \subseteq Submitted) /\ (pc = "links" => ToLink \subseteq Submitted)
    BY DEF AllSubmitted
  <2> QED BY <1>1, <2>1 DEF MirrorInv, Waited, In, ToLink, Submitted
<1>5. Stored'
  BY <1>1, SameStored DEF MirrorInv, Submitted
<1> QED BY <1>2, <1>3, <1>4, <1>5 DEF MirrorInv

(* A worker past the shards is lost, its unit is pending for ever. *)
LEMMA PastShardsMirror ==
  ASSUME IInv, MirrorInv, NEW n \in Name, PastShards(n)
  PROVE  MirrorInv'
<1>1. /\ UNCHANGED <<pc, dst, before, table, gone, modified, m, links, holding, fixerr, outside>>
      /\ UNCHANGED <<pending, finished, failed, status, result>>
      /\ n \in pending /\ step[n] = "none" /\ step' = [step EXCEPT ![n] = "lost"]
  BY DEF PastShards, hard, end, pool
<1>2. step \in [Name -> {"none", "meta", "link", "lost"}]
  BY DEF MirrorInv, Typed
<1>3. Made' /\ Judged'
  BY <1>1, <1>2, QuietKeeps, SameJudged DEF MirrorInv
<1>4. Typed'
  <2>1. WP!TypeOK'
    BY <1>1 DEF MirrorInv, Typed, WP!TypeOK
  <2>2. step' \in [Name -> {"none", "meta", "link", "lost"}] /\ \A k \in Name : step'[k] # "none" => k \in pending
    BY <1>1, <1>2 DEF MirrorInv, Typed
  <2> QED BY <1>1, <2>1, <2>2 DEF MirrorInv, Typed, ToLink, Submitted
<1>5. Waited' /\ Stored'
  BY <1>1, SameStored DEF MirrorInv, Waited, In, ToLink, Submitted
<1> QED BY <1>3, <1>4, <1>5 DEF MirrorInv

(* Somebody deletes from the source: less is promised. *)
LEMMA VanishMirror ==
  ASSUME IInv, MirrorInv, NEW n \in Name, Vanish(n)
  PROVE  MirrorInv'
<1>1. /\ UNCHANGED <<pc, dst, before, table, step, modified, m, links, holding, fixerr, outside>>
      /\ UNCHANGED <<pending, finished, failed, status, result>>
      /\ gone' = gone \cup Under[n] /\ pc # "start"
  BY DEF Vanish, hard, end, pool
<1>2. Made' /\ Judged'
  BY <1>1, QuietKeeps, SameJudged DEF MirrorInv
<1>3. Typed'
  <2>1. WP!TypeOK'
    BY <1>1 DEF MirrorInv, Typed, WP!TypeOK
  <2>2. gone' \subseteq Name /\ \A k \in gone' : Under[k] \subseteq gone'
    BY <1>1, UnderClosed DEF MirrorInv, Typed
  <2> QED BY <1>1, <2>1, <2>2 DEF MirrorInv, Typed, ToLink, Submitted
<1>4. Waited' /\ Stored'
  BY <1>1, SameStored DEF MirrorInv, Waited, In, ToLink, Submitted
<1> QED BY <1>2, <1>3, <1>4 DEF MirrorInv

-----------------------------------------------------------------------------
(* Nothing is stored or put aside before the second pool. *)
LEMMA NothingStored ==
  ASSUME IInv, MirrorInv, pc \in {"start", "dirs"}
  PROVE  ToLink = {} /\ (\A i \in DOMAIN m : m[i] = "none") /\ \A g \in {"Diff", "LeftFiles"} : holding[g] = "none"
<1>1. Firsts = {}
  BY DEF Firsts, AfterWork
<1> QED BY <1>1 DEF MirrorInv, Stored, IInv, Held

(* The initial states satisfy it. *)
LEMMA InitMirror == Init => MirrorInv
<1> SUFFICES ASSUME Init PROVE MirrorInv
  OBVIOUS
<1>1. /\ pc = "start" /\ gone = {} /\ pending = {} /\ finished = {} /\ failed = {} /\ result = {} /\ status = "open"
      /\ step = [n \in Name |-> "none"] /\ modified = {} /\ fixerr = FALSE /\ outside = FALSE
      /\ dst \in Before
  BY DEF Init, WP!Init
<1>2. ToLink = {}
  BY DEF Init, ToLink
<1>3. Typed
  <2>1. WP!TypeOK
    BY <1>1 DEF WP!TypeOK
  <2>2. \A n \in Name : EntryOK(dst[n])
    BY <1>1, Assumptions
  <2> QED BY <1>1, <2>1, <2>2 DEF Typed, Submitted
<1>4. Judged /\ Waited /\ Made
  BY <1>1 DEF Judged, Waited, Made, Running
<1>5. Stored
  BY <1>2 DEF Init, Stored
<1> QED BY <1>3, <1>4, <1>5 DEF MirrorInv

(* The comparison judges every name. *)
LEMMA CompareMirror ==
  ASSUME IInv, MirrorInv, Compare
  PROVE  MirrorInv'
<1>1. /\ pc = "start" /\ pc' \in {"dirs", "error", "panic"} /\ dst = before
      /\ UNCHANGED <<dst, before, gone, step, modified, m, links, holding, fixerr, outside>>
      /\ UNCHANGED <<pending, finished, failed, status, result>>
      /\ pc' = "dirs" => table' = [n \in Name |-> Meaning(n)] /\ \A n \in Name : Meaning(n) # "Funny"
  BY DEF Compare, hard, end, pool, IInv, Shape
<1>2. Submitted = {} /\ finished = {} /\ failed = {} /\ status = "open"
  BY <1>1 DEF MirrorInv, Typed, Submitted
<1>3. /\ ToLink = {} /\ ToLink' = {} /\ \A i \in DOMAIN m : m[i] = "none"
      /\ \A g \in {"Diff", "LeftFiles"} : holding[g] = "none"
  BY <1>1, NothingStored DEF ToLink
<1>4. Typed'
  <2>1. WP!TypeOK'
    BY <1>1 DEF MirrorInv, Typed, WP!TypeOK
  <2> QED BY <1>1, <2>1 DEF MirrorInv, Typed, Running, Submitted
<1>5. Waited'
  BY <1>1, <1>2 DEF Waited
<1>6. Stored'
  BY <1>1, <1>3 DEF Stored
<1>7. Judged' /\ Made'
  <2>1. CASE pc' # "dirs"
    BY <1>1, <2>1 DEF Judged, Made, Running
  <2>2. CASE pc' = "dirs"
    <3>1. \A n \in Name : EntryOK(Src[n]) /\ EntryOK(dst[n]) /\ table'[n] = Meaning(n) /\ Meaning(n) # "Funny"
      BY <1>1, <2>2, Assumptions DEF MirrorInv, Typed
    <3>2. ASSUME NEW n \in Name
          PROVE  /\ Src[n] = Absent => Meaning(n) \in Right \cup {"none"}
                 /\ Src[n].type = "dir" => Meaning(n) \in {"LeftDirs", "CommonDirs", "Diff"}
                 /\ Src[n].type \in {"file", "symlink"} => Meaning(n) \in {"LeftFiles", "CommonFiles", "Diff"}
                 /\ Meaning(n) = "CommonFiles" => dst[n].type = Src[n].type /\ dst[n].ver = Src[n].ver
                 /\ dst[n] # Absent => \/ Src[n] # Absent /\ dst[n].type = Src[n].type
                                       \/ Meaning(n) \in Right
                 /\ Meaning(n) = "LeftFiles" => dst[n] = Absent
                 /\ Src[n] # Absent /\ dst[n] = Absent => Meaning(n) \in {"LeftDirs", "LeftFiles"}
      BY <3>1 DEF Meaning, Right, Absent
    <3>3. Judged'
      BY <1>1, <3>1, <3>2 DEF Judged
    <3>4. \A n \in Name : step[n] = "none"
      BY <1>2 DEF MirrorInv, Typed, Submitted
    <3>5. \A n \in Name : ~MadeDir(n)' /\ ~Copied(n)' /\ ~LinkMade(n)'
      BY <1>1, <1>2, <2>2 DEF MadeDir, Copied, LinkMade, Succeeded, AfterWork
    <3>6. \A n \in Name : KindOf(n)' /\ LackOf(n)' /\ StateOf(n)'
      BY <1>1, <1>3, <3>1, <3>2, <3>4, <3>5 DEF KindOf, LackOf, StateOf, Unmade
    <3> QED BY <3>3, <3>6 DEF Made
  <2> QED BY <2>1, <2>2
<1> QED BY <1>4, <1>5, <1>6, <1>7 DEF MirrorInv

(* A pool without errors has done all it was to do. *)
LEMMA NextPoolMirror ==
  ASSUME IInv, MirrorInv, NextPool
  PROVE  MirrorInv'
<1>1. /\ status = "returned" /\ status' = "open" /\ pending' = {} /\ finished' = {} /\ failed' = {} /\ result' = {}
      /\ pc \in {"dirs", "work", "links"}
      /\ \/ result = {} /\ pc = "dirs" /\ pc' = "work"
         \/ result = {} /\ pc = "work" /\ pc' = "links"
         \/ result = {} /\ pc = "links" /\ pc' = "fixup"
         \/ pc' = "error"
      /\ UNCHANGED <<dst, before, table, gone, step, modified, m, links, holding, fixerr, outside>>
  BY DEF NextPool, PoolDone, Following, hard, end
<1>2. pending = {} /\ result = failed /\ Submitted = finished /\ \A n \in Name : step[n] = "none"
  BY <1>1 DEF MirrorInv, Typed, Waited, Submitted
<1>3. ToLink' = ToLink
  BY <1>1 DEF ToLink
<1>4. Typed'
  <2>1. WP!TypeOK'
    BY <1>1 DEF WP!TypeOK
  <2> QED BY <1>1, <1>2, <2>1 DEF MirrorInv, Typed, Running, Submitted
<1>5. Waited' /\ Judged'
  BY <1>1, SameJudged DEF Waited, MirrorInv, Running
<1>6. Stored'
  BY <1>1, NothingStored, SameStored DEF MirrorInv, AfterWork
<1>7. Made'
  <2> SUFFICES ASSUME pc' # "error", NEW n \in Name
               PROVE  KindOf(n)' /\ LackOf(n)' /\ StateOf(n)'
    BY DEF Made, Running
  <2>1. Succeeded = Submitted /\ Succeeded' = {}
    BY <1>1, <1>2 DEF Succeeded
  <2>2. KindOf(n) /\ LackOf(n) /\ StateOf(n)
    BY <1>1 DEF MirrorInv, Made, Running
  <2>3. MadeDir(n)' <=> MadeDir(n)
    BY <1>1, <2>1 DEF MadeDir, MirrorInv, Waited, In, AfterWork
  <2>4. Copied(n)' <=> Copied(n)
    BY <1>1, <1>3, <2>1 DEF Copied, IInv, Joined, In, SecondPool, AfterWork
  <2>5. LinkMade(n)' <=> LinkMade(n)
    BY <1>1, <1>3, <2>1 DEF LinkMade, MirrorInv, Waited
  <2>6. (n \in Aside => n \in Aside') /\ (Unmade(n)' => Unmade(n))
    BY <1>1, <1>3, <2>1, SameAside DEF Unmade
  <2> QED BY <1>1, <1>2, <1>3, <2>2, <2>3, <2>4, <2>5, <2>6 DEF KindOf, LackOf, StateOf, Unmade
<1> QED BY <1>4, <1>5, <1>6, <1>7 DEF MirrorInv

(* After fixup nothing is left to do. *)
LEMMA ReturnMirror ==
  ASSUME IInv, MirrorInv, Return
  PROVE  MirrorInv'
<1>1. /\ pc = "fixup" /\ pc' \in {"ok", "error"}
      /\ UNCHANGED <<dst, before, table, gone, step, m, links, holding, fixerr, outside>>
      /\ modified' = modified /\ UNCHANGED <<pending, finished, failed, status, result>>
  BY DEF Return, hard, end, pool
<1>2. pending = {} /\ \A n \in Name : step[n] = "none"
  BY <1>1 DEF IInv, Units, MirrorInv, Typed
<1>3. ToLink' = ToLink
  BY <1>1 DEF ToLink
<1>4. Typed'
  <2>1. WP!TypeOK'
    BY <1>1 DEF MirrorInv, Typed, WP!TypeOK
  <2> QED BY <1>1, <2>1 DEF MirrorInv, Typed, Running, Submitted
<1>5. Waited' /\ Judged' /\ Stored'
  BY <1>1, SameJudged, SameStored DEF Waited, MirrorInv, Running, AfterWork
<1>6. Made'
  <2> SUFFICES ASSUME pc' # "error", NEW n \in Name
               PROVE  KindOf(n)' /\ LackOf(n)' /\ StateOf(n)'
    BY DEF Made, Running
  <2>1. KindOf(n) /\ LackOf(n) /\ StateOf(n)
    BY <1>1 DEF MirrorInv, Made, Running
  <2>2. (MadeDir(n)' <=> MadeDir(n)) /\ (Copied(n)' <=> Copied(n)) /\ (LinkMade(n)' <=> LinkMade(n))
    BY <1>1, <1>3 DEF MadeDir, Copied, LinkMade, AfterWork
  <2>3. n \in Aside => n \in Aside'
    BY <1>1, SameAside
  <2> QED BY <1>1, <1>2, <1>3, <2>1, <2>2, <2>3 DEF KindOf, LackOf, StateOf, Unmade
<1> QED BY <1>4, <1>5, <1>6 DEF MirrorInv

-----------------------------------------------------------------------------
(* What a step does to an entry it is not about: at most it gives a directory *)
(* another mtime, makes a directory the source has, or removes what the      *)
(* source has not.                                                           *)
Moved(k) ==
  \/ Alike(dst, dst', k)
  \/ dst[k] = Absent /\ dst'[k] # Absent /\ dst'[k].type = "dir" /\ EntryOK(dst'[k]) /\ Src[k].type = "dir"
  \/ dst'[k] = Absent /\ Src[k] = Absent

LEMMA OthersKeep ==
  ASSUME IInv, MirrorInv, pc \in Running, UNCHANGED <<pc, table, links, gone>>,
         NEW k \in Name, Moved(k), step'[k] = step[k], (k \in Succeeded)' <=> k \in Succeeded, k \in finished' <=> k \in finished
  PROVE  KindOf(k)' /\ LackOf(k)' /\ StateOf(k)' /\ EntryOK(dst'[k])
<1>1. KindOf(k) /\ LackOf(k) /\ StateOf(k) /\ EntryOK(dst[k])
  BY DEF MirrorInv, Made, Typed
<1>2. /\ (k \in ToLink)' <=> k \in ToLink
      /\ (MadeDir(k)' <=> MadeDir(k)) /\ (Copied(k)' <=> Copied(k)) /\ (LinkMade(k)' <=> LinkMade(k))
  BY DEF ToLink, MadeDir, Copied, LinkMade
<1>3. step[k] = "meta" => Src[k] # Absent /\ table[k] \notin Right
  <2>1. step[k] = "meta" => k \in pending
    BY DEF MirrorInv, Typed
  <2> QED BY <1>1, <2>1, UnitTables DEF IInv, Compared, StateOf, Unmade, Right
<1>4. Src[k].type = "file" => Src[k] # Absent /\ table[k] \notin Right
  BY DEF MirrorInv, Judged, Right, Absent
<1> k \in Aside => k \in Aside'
  BY SameAside
<1>5. CASE Alike(dst, dst', k)
  <2>1. Src[k].type = "file" /\ (step[k] = "meta" \/ Copied(k) \/ LinkMade(k)) => dst'[k] = dst[k]
    BY <1>1, <1>4, <1>5 DEF Alike, KindOf, Absent
  <2> QED BY <1>1, <1>2, <1>5, <2>1 DEF Alike, KindOf, LackOf, StateOf, Unmade
<1>6. CASE dst[k] = Absent /\ dst'[k] # Absent /\ dst'[k].type = "dir" /\ EntryOK(dst'[k]) /\ Src[k].type = "dir"
  BY <1>1, <1>2, <1>6 DEF KindOf, LackOf, StateOf, Unmade, Absent
<1>7. CASE dst'[k] = Absent /\ Src[k] = Absent
  <2>1. EntryOK(dst'[k])
    BY <1>7 DEF EntryOK
  <2> QED BY <1>1, <1>2, <1>3, <1>7, <2>1 DEF KindOf, LackOf, StateOf, Unmade, Absent
<1> QED BY <1>5, <1>6, <1>7 DEF Moved

(* A step of a worker: what is left to show is what becomes of its unit. *)
LEMMA WorkerKeeps ==
  ASSUME IInv, MirrorInv, NEW n \in pending,
         UNCHANGED <<pc, before, table, gone, m, links, holding, fixerr, outside, status, result>>,
         modified' \subseteq Name \cup {Root, Up},
         \/ /\ UNCHANGED <<pending, finished, failed>>
            /\ step' = [step EXCEPT ![n] = "meta"] \/ step' = [step EXCEPT ![n] = "link"]
         \/ /\ pending' = pending \ {n} /\ finished' = finished \cup {n}
            /\ failed' \in {failed, failed \cup {n}}
            /\ step' = [step EXCEPT ![n] = "none"],
         \A k \in Name \ {n} : Moved(k),
         EntryOK(dst'[n]), KindOf(n)', LackOf(n)', StateOf(n)'
  PROVE  MirrorInv'
<1>1. n \in Name /\ pc \in {"dirs", "work", "links"} /\ pc \in Running
  BY UnitTables DEF Running
<1>2. step \in [Name -> {"none", "meta", "link", "lost"}] /\ Submitted' = Submitted
  BY DEF MirrorInv, Typed, Submitted
<1>3. ASSUME NEW k \in Name \ {n}
      PROVE  step'[k] = step[k] /\ ((k \in Succeeded)' <=> k \in Succeeded) /\ (k \in finished' <=> k \in finished)
  BY <1>1, <1>2 DEF Succeeded
<1>4. \A k \in Name : KindOf(k)' /\ LackOf(k)' /\ StateOf(k)' /\ EntryOK(dst'[k])
  BY <1>1, <1>3, OthersKeep
<1>5. Typed'
  <2>1. WP!TypeOK'
    BY DEF MirrorInv, Typed, WP!TypeOK
  <2>2. /\ step' \in [Name -> {"none", "meta", "link", "lost"}]
        /\ \A k \in Name : step'[k] # "none" => k \in pending'
        /\ pending' \cap finished' = {}
    BY <1>1, <1>2 DEF MirrorInv, Typed
  <2>3. ToLink' = ToLink
    BY DEF ToLink
  <2> QED BY <1>1, <1>2, <1>4, <2>1, <2>2, <2>3 DEF MirrorInv, Typed
<1>6. Waited' /\ Judged' /\ Stored'
  BY <1>2, SameJudged, SameStored DEF MirrorInv, Waited, In, ToLink
<1> QED BY <1>4, <1>5, <1>6 DEF MirrorInv, Made

(* A unit ends, with an error or without one. *)
LEMMA EndsMirror ==
  ASSUME IInv, MirrorInv, NEW n \in pending, Fine(n) \/ Broken(n) \/ Missing(n)
  PROVE  /\ UNCHANGED <<status, result>> /\ modified' \subseteq Name \cup {Root, Up}
         /\ pending' = pending \ {n} /\ finished' = finished \cup {n}
         /\ failed' \in {failed, failed \cup {n}}
         /\ Broken(n) => failed' = failed \cup {n}
         /\ step' = [step EXCEPT ![n] = "none"]
<1>1. \A ok \in BOOLEAN : Finish(n, ok) =>
        /\ UNCHANGED <<status, result>>
        /\ pending' = pending \ {n} /\ finished' = finished \cup {n}
        /\ failed' = (IF ok THEN failed ELSE failed \cup {n})
        /\ step' = [step EXCEPT ![n] = "none"]
  BY DEF Finish, WP!Finish
<1>2. modified \subseteq Name \cup {Root, Up} /\ n \in Name
  BY UnitTables DEF MirrorInv, Typed
<1>3. Tracked(n) \subseteq Name \cup {Root, Up}
  BY <1>2, Assumptions DEF Tracked, DirOf
<1>4. CASE Fine(n)
  BY <1>1, <1>2, <1>3, <1>4 DEF Fine, Broken
<1>5. CASE Broken(n)
  BY <1>1, <1>2, <1>5 DEF Broken
<1> QED BY <1>4, <1>5 DEF Missing

(* What a unit of a worker is *)
LEMMA UnitMirror ==
  ASSUME IInv, MirrorInv, NEW n \in pending
  PROVE  /\ n \in Name /\ pc \in {"dirs", "work", "links"} /\ n \notin finished /\ failed \subseteq finished
         /\ pc = "work" => n \notin ToLink
         /\ dst = [j \in Name |-> dst[j]] /\ EntryOK(dst[n]) /\ EntryOK(Src[n])
         /\ KindOf(n) /\ LackOf(n) /\ StateOf(n)
         /\ ~Copied(n) /\ ~LinkMade(n) /\ step \in [Name -> {"none", "meta", "link", "lost"}]
<1>1. n \in Name /\ pc \in {"dirs", "work", "links"} /\ pc \in Running
  BY UnitTables DEF Running
<1>2. /\ n \notin finished /\ failed \subseteq finished /\ (pc = "work" => n \notin ToLink)
      /\ EntryOK(dst[n]) /\ EntryOK(Src[n]) /\ KindOf(n) /\ LackOf(n) /\ StateOf(n)
      /\ step \in [Name -> {"none", "meta", "link", "lost"}]
  BY <1>1, Assumptions DEF MirrorInv, Typed, WP!TypeOK, Made, Submitted
<1>3. ~Copied(n) /\ ~LinkMade(n)
  BY <1>1, <1>2, UnitTables DEF Copied, LinkMade, Succeeded, IInv, Units, AfterWork
<1> QED BY <1>1, <1>2, <1>3 DEF IInv, Shape

(* Nothing that is not touched has moved. *)
LEMMA Unmoved ==
  ASSUME IInv, MirrorInv, NEW k \in Name, dst'[k] = dst[k]
  PROVE  Moved(k)
BY DEF Moved, Alike, MirrorInv, Typed

(* A unit that failed is not done. *)
LEMMA Undone ==
  ASSUME IInv, MirrorInv, NEW n \in pending, UNCHANGED <<pc, table, links>>, (n \notin Succeeded)'
  PROVE  ~MadeDir(n)' /\ ~Copied(n)' /\ ~LinkMade(n)'
<1>1. pc \in {"dirs", "work", "links"} /\ ToLink' = ToLink
  BY UnitTables DEF ToLink
<1>2. /\ pc = "work" => table[n] # "LeftDirs" /\ n \notin ToLink
      /\ pc = "links" => table[n] # "LeftDirs" /\ n \in ToLink
  BY UnitMirror DEF IInv, Units, In, Right
<1> QED BY <1>1, <1>2 DEF MadeDir, Copied, LinkMade, AfterWork

(* A unit that is begun or finished is no new file that is not begun. *)
LEMMA NotUnmade ==
  ASSUME IInv, MirrorInv, NEW n \in pending, UNCHANGED <<pc, table>>, n \in finished' \/ step'[n] = "meta"
  PROVE  ~Unmade(n)'
<1>1. pc = "dirs" => table[n] = "LeftDirs"
  BY DEF IInv, Units, In
<1> QED BY <1>1 DEF Unmade

(* A unit that fails, or whose source is gone, leaves what is still to do. *)
LEMMA LeaveKeeps ==
  ASSUME IInv, MirrorInv, NEW n \in pending,
         Fine(n) \/ Broken(n) \/ Missing(n), (n \in gone /\ table[n] \notin Right /\ step[n] = "none") \/ Broken(n),
         UNCHANGED <<pc, before, table, gone, m, links, holding, fixerr, outside>>,
         dst' = dst \/ dst' = Changed(dst, {n})
  PROVE  MirrorInv'
<1>1. /\ UNCHANGED <<status, result>> /\ modified' \subseteq Name \cup {Root, Up}
      /\ pending' = pending \ {n} /\ finished' = finished \cup {n}
      /\ failed' \in {failed, failed \cup {n}}
      /\ Broken(n) => failed' = failed \cup {n}
      /\ step' = [step EXCEPT ![n] = "none"]
  BY EndsMirror
<1>2. n \in Name /\ KindOf(n) /\ LackOf(n) /\ step \in [Name -> {"none", "meta", "link", "lost"}]
  BY UnitMirror
<1>3. \A k \in Name : Alike(dst, dst', k) /\ Moved(k)
  <2>1. \A k \in Name : EntryOK(dst[k])
    BY DEF MirrorInv, Typed
  <2> QED BY <2>1, ChangedAlike DEF Alike, Moved
<1>4. step'[n] = "none" /\ ((n \in ToLink)' <=> n \in ToLink)
  BY <1>1, <1>2 DEF ToLink
<1>5. Broken(n) => ~MadeDir(n)' /\ ~Copied(n)' /\ ~LinkMade(n)'
  <2>1. Broken(n) => (n \notin Succeeded)'
    BY <1>1 DEF Succeeded
  <2> QED BY <2>1, Undone
<1>6. KindOf(n)'
  BY <1>2, <1>3, <1>5 DEF KindOf, Alike
<1>7. LackOf(n)'
  BY <1>2, <1>3, <1>4, <1>5 DEF LackOf, Alike
<1>8. StateOf(n)'
  <2>1. ~Unmade(n)'
    BY <1>1, NotUnmade
  <2>2. step[n] = "none" /\ table[n] = "LeftFiles" /\ Src[n].type = "file" => dst'[n] = Absent \/ ~Copied(n)'
    <3>1. pc = "links" => n \in ToLink'
      BY <1>4 DEF IInv, Units
    <3>2. n \notin finished /\ StateOf(n) /\ (pc = "work" => n \notin ToLink) /\ pc \in {"dirs", "work", "links"}
      BY UnitMirror
    <3>3. step[n] = "none" /\ table[n] = "LeftFiles" /\ Src[n].type = "file" /\ pc = "work" => dst[n] = Absent
      BY <3>2 DEF StateOf, Unmade
    <3> QED BY <1>2, <1>3, <3>1, <3>2, <3>3 DEF Alike, Copied, AfterWork
  <2>3. ~LinkMade(n)' \/ n \in gone
    BY <1>5
  <2> QED BY <1>4, <1>5, <2>1, <2>2, <2>3 DEF StateOf, Aside
<1>9. EntryOK(dst'[n])
  BY <1>2, <1>3 DEF Alike
<1> QED BY <1>1, <1>3, <1>6, <1>7, <1>8, <1>9, WorkerKeeps

(* An entry is made: the directories above it are, if they are missing. *)
LEMMA MakeMoves ==
  ASSUME IInv, MirrorInv, NEW n \in Name, Src[n] # Absent,
         \/ Src[n].type = "dir" /\ dst' = MkdirAll(dst, n)
         \/ /\ Src[n].type # "dir"
            /\ dst' = Put(MkdirAbove(dst, n), n, [type |-> Src[n].type, ino |-> n, ver |-> "now"]),
         KindOf(n), table[n] \notin Right
  PROVE  /\ \A k \in Name \ {n} : Moved(k)
         /\ EntryOK(dst'[n]) /\ dst'[n] # Absent /\ dst'[n].type = Src[n].type
         /\ Src[n].type # "dir" => dst'[n].ino = n
<1>1. dst = [j \in Name |-> dst[j]] /\ \A k \in Name : EntryOK(dst[k])
  BY DEF IInv, Shape, MirrorInv, Typed
<1>2. EntryOK(Src[n]) /\ Src[n].type \in {"dir", "file", "symlink"}
  BY Assumptions DEF EntryOK
<1>3. CASE Src[n].type = "dir" /\ dst' = MkdirAll(dst, n)
  <2>1. ASSUME NEW k \in Name
        PROVE  /\ Alike(dst, dst', k) \/ (dst[k] = Absent /\ dst'[k] # Absent /\ dst'[k].type = "dir" /\ EntryOK(dst'[k]))
               /\ ~Alike(dst, dst', k) => k \in Above(n) \cup {n}
               /\ dst[n] = Absent => dst'[n] # Absent /\ dst'[n].type = "dir"
    BY <1>1, <1>3, MkdirAlike
  <2>2. \A k \in Above(n) \cup {n} : Src[k].type = "dir"
    BY <1>3, Uppers, UpperDirs
  <2>3. EntryOK(dst'[n]) /\ dst'[n] # Absent /\ dst'[n].type = "dir"
    BY <1>3, <2>1 DEF Alike, KindOf
  <2> QED BY <1>3, <2>1, <2>2, <2>3 DEF Moved
<1>4. CASE /\ Src[n].type # "dir"
           /\ dst' = Put(MkdirAbove(dst, n), n, [type |-> Src[n].type, ino |-> n, ver |-> "now"])
  <2> DEFINE e == [type |-> Src[n].type, ino |-> n, ver |-> "now"]
  <2>1. e.type = Src[n].type /\ e.ino = n /\ EntryOK(e) /\ e # Absent
    <3>1. DOMAIN e = {"type", "ino", "ver"} /\ e.type = Src[n].type /\ e.ino = n
      OBVIOUS
    <3> HIDE DEF e
    <3> QED BY <1>2, <3>1 DEF EntryOK, Absent
  <2>2. PICK u : u = MkdirAbove(dst, n)
    OBVIOUS
  <2>3. u = [j \in Name |-> u[j]]
    <3>1. MkdirAll(dst, Parent[n]) = [j \in Name |-> MkdirAll(dst, Parent[n])[j]]
      BY Trees
    <3> QED BY <1>1, <2>2, <3>1 DEF MkdirAbove
  <2>4. ASSUME NEW k \in Name
        PROVE  \/ Alike(dst, u, k)
               \/ dst[k] = Absent /\ u[k] # Absent /\ u[k].type = "dir" /\ EntryOK(u[k]) /\ Src[k].type = "dir"
    <3>1. CASE Parent[n] \in Name
      <4>1. /\ Alike(dst, u, k) \/ (dst[k] = Absent /\ u[k] # Absent /\ u[k].type = "dir" /\ EntryOK(u[k]))
            /\ ~Alike(dst, u, k) => k \in Above(Parent[n]) \cup {Parent[n]}
        BY <1>1, <2>2, <3>1, MkdirAlike DEF MkdirAbove
      <4> QED BY <3>1, <4>1, Lowers
    <3>2. CASE Parent[n] \notin Name
      BY <1>1, <2>2, <3>2 DEF MkdirAbove, Alike
    <3> QED BY <3>1, <3>2
  <2> HIDE DEF e
  <2>5. ASSUME NEW k \in Name
        PROVE  dst'[n] = e /\ (k # n => Alike(u, dst', k))
    <3>1. EntryOK(u[k])
      BY <2>4 DEF Alike
    <3>2. dst' = Put(u, n, e)
      BY <1>4, <2>2 DEF e
    <3> QED BY <1>4, <2>1, <2>3, <3>1, <3>2, PutAlike
  <2>6. \A k \in Name \ {n} : Moved(k)
    BY <2>4, <2>5 DEF Alike, Moved
  <2> QED BY <2>1, <2>5, <2>6
<1> QED BY <1>3, <1>4

(* An entry is made anew, or Make ends the unit. *)
LEMMA MakeMirror ==
  ASSUME IInv, MirrorInv, NEW n \in Name, Make(n)
  PROVE  MirrorInv'
<1>1. /\ n \in pending /\ step[n] = "none"
      /\ UNCHANGED <<pc, before, table, gone, m, links, holding, fixerr, outside>>
      /\ pc = "dirs" \/ (pc = "work" /\ n \notin In(Right))
  BY DEF Make, Copying, hard, end
<1>2. table[n] \notin Right /\ Src[n] # Absent
  BY <1>1, UnitTables DEF IInv, Units, Compared, In, Right
<1>3. CASE n \in gone /\ Missing(n) /\ UNCHANGED dst
  BY <1>1, <1>2, <1>3, LeaveKeeps
<1>4. CASE Broken(n) /\ dst' \in {dst, Changed(dst, {n})}
  BY <1>1, <1>4, LeaveKeeps
<1>5. CASE /\ \/ Src[n].type = "dir" /\ dst' = MkdirAll(dst, n)
              \/ /\ Src[n].type # "dir"
                 /\ dst' = Put(MkdirAbove(dst, n), n, [type |-> Src[n].type, ino |-> n, ver |-> "now"])
           /\ step' = [step EXCEPT ![n] = "meta"] /\ UNCHANGED <<pool, modified>>
  <2>1. UNCHANGED <<pending, finished, failed, status, result, modified>>
    BY <1>5 DEF pool
  <2>2. /\ \A k \in Name \ {n} : Moved(k)
        /\ EntryOK(dst'[n]) /\ dst'[n] # Absent /\ dst'[n].type = Src[n].type
        /\ Src[n].type # "dir" => dst'[n].ino = n
    BY <1>1, <1>2, <1>5, UnitMirror, MakeMoves
  <2>3. step'[n] = "meta"
    BY <1>1, <1>5, UnitMirror
  <2>4. ~MadeDir(n)' /\ ~Copied(n)' /\ ~LinkMade(n)'
    <3>1. (n \notin Succeeded)'
      BY <1>1, <2>1, UnitMirror DEF Succeeded
    <3> QED BY <1>1, <3>1, Undone
  <2>5. KindOf(n)' /\ LackOf(n)' /\ StateOf(n)'
    <3>1. ~Unmade(n)'
      BY <1>1, <2>3, NotUnmade
    <3> QED BY <1>1, <1>2, <2>2, <2>3, <2>4, <3>1 DEF KindOf, LackOf, StateOf
  <2>6. modified' \subseteq Name \cup {Root, Up}
    BY <2>1 DEF MirrorInv, Typed
  <2> QED BY <1>1, <1>5, <2>1, <2>2, <2>5, <2>6, WorkerKeeps
<1> QED BY <1>3, <1>4, <1>5 DEF Make

(* What was made gets its metadata. *)
LEMMA UpdateMirror ==
  ASSUME IInv, MirrorInv, NEW n \in Name, Update(n)
  PROVE  MirrorInv'
<1>1. /\ n \in pending /\ step[n] = "meta"
      /\ UNCHANGED <<pc, before, table, gone, m, links, holding, fixerr, outside>>
      /\ \/ Broken(n) /\ dst' = dst
         \/ (Fine(n) \/ Missing(n)) /\ dst' = Meta(dst, n)
  BY DEF Update, Copying, hard, end
<1>2. CASE Broken(n) /\ dst' = dst
  BY <1>1, <1>2, LeaveKeeps
<1>3. CASE (Fine(n) \/ Missing(n)) /\ dst' = Meta(dst, n)
  <2>1. /\ UNCHANGED <<status, result>> /\ modified' \subseteq Name \cup {Root, Up}
        /\ pending' = pending \ {n} /\ finished' = finished \cup {n}
        /\ failed' \in {failed, failed \cup {n}}
        /\ step' = [step EXCEPT ![n] = "none"]
    BY <1>1, <1>3, EndsMirror
  <2>2. /\ dst = [j \in Name |-> dst[j]] /\ EntryOK(dst[n]) /\ KindOf(n) /\ StateOf(n)
        /\ step \in [Name -> {"none", "meta", "link", "lost"}]
    BY <1>1, UnitMirror
  <2>3. /\ \A k \in Name \ {n} : dst'[k] = dst[k]
        /\ EntryOK(dst'[n]) /\ dst'[n].type = dst[n].type
        /\ dst'[n] = Absent <=> dst[n] = Absent
        /\ dst[n] # Absent => dst'[n].ver = Src[n].ver /\ dst'[n].ino = dst[n].ino
    BY <1>3, <2>2, MetaAlike
  <2>4. /\ pc \in {"dirs", "work"} /\ table[n] \notin Right /\ dst[n] # Absent
        /\ Src[n].type = "file" => dst[n].ino = n
    BY <1>1, <2>2 DEF StateOf, Unmade
  <2>5. step'[n] = "none" /\ ~LinkMade(n)'
    BY <1>1, <2>1, <2>2, <2>4 DEF LinkMade
  <2>6. KindOf(n)' /\ LackOf(n)' /\ StateOf(n)'
    <3>1. ~Unmade(n)'
      BY <1>1, <2>1, NotUnmade
    <3> QED BY <1>1, <2>2, <2>3, <2>4, <2>5, <3>1 DEF KindOf, LackOf, StateOf
  <2>7. \A k \in Name \ {n} : Moved(k)
    BY <2>3, Unmoved
  <2> QED BY <1>1, <2>1, <2>3, <2>6, <2>7, WorkerKeeps
<1> QED BY <1>1, <1>2, <1>3

(* What is deleted is not in the source, nor is what is below it. *)
LEMMA DeleteMirror ==
  ASSUME IInv, MirrorInv, NEW n \in Name, Delete(n)
  PROVE  MirrorInv'
<1>1. /\ n \in pending /\ n \in In(Right)
      /\ UNCHANGED <<pc, before, table, gone, m, links, holding, fixerr, outside>>
      /\ \/ Broken(n) /\ dst' = dst
         \/ Fine(n) /\ dst' = Removed(dst, Under[n])
  BY DEF Delete, hard, end
<1>2. CASE Broken(n) /\ dst' = dst
  BY <1>1, <1>2, LeaveKeeps
<1>3. CASE Fine(n) /\ dst' = Removed(dst, Under[n])
  <2>1. /\ UNCHANGED <<status, result>> /\ modified' \subseteq Name \cup {Root, Up}
        /\ pending' = pending \ {n} /\ finished' = finished \cup {n}
        /\ failed' \in {failed, failed \cup {n}}
        /\ step' = [step EXCEPT ![n] = "none"]
    BY <1>1, <1>3, EndsMirror
  <2>2. Src[n] = Absent /\ step \in [Name -> {"none", "meta", "link", "lost"}]
    BY <1>1, UnitMirror DEF IInv, Compared, In
  <2>3. dst'[n] = Absent /\ EntryOK(dst'[n]) /\ \A k \in Name \ {n} : Moved(k)
    <3>1. \A k \in Name : EntryOK(dst[k])
      BY DEF MirrorInv, Typed
    <3>2. \A k \in Name : /\ k \in Under[n] => dst'[k] = Absent
                          /\ k \notin Under[n] => Alike(dst, dst', k)
      BY <1>3, <3>1, RemovedAlike
    <3>3. \A k \in Under[n] : Src[k] = Absent
      BY <2>2, UnderAbsent
    <3> QED BY <3>2, <3>3, UnderClosed DEF Moved, EntryOK
  <2>4. KindOf(n)' /\ LackOf(n)' /\ StateOf(n)'
    BY <2>1, <2>2, <2>3 DEF KindOf, LackOf, StateOf, Unmade, Absent
  <2> QED BY <1>1, <2>1, <2>3, <2>4, WorkerKeeps
<1> QED BY <1>1, <1>2, <1>3

(* What is there is removed before the link. *)
LEMMA UnlinkMirror ==
  ASSUME IInv, MirrorInv, NEW n \in Name, Unlink(n)
  PROVE  MirrorInv'
<1>1. /\ n \in pending /\ pc = "links" /\ dst' = Removed(dst, {n}) /\ step' = [step EXCEPT ![n] = "link"]
      /\ UNCHANGED <<pc, before, table, gone, m, links, holding, fixerr, outside>>
      /\ UNCHANGED <<modified, pending, finished, failed, status, result>>
  BY DEF Unlink, hard, end, pool
<1>2. step'[n] = "link" /\ n \in ToLink'
  BY <1>1, UnitMirror DEF IInv, Units, ToLink
<1>3. ~MadeDir(n)' /\ ~Copied(n)' /\ ~LinkMade(n)'
  <2>1. (n \notin Succeeded)'
    BY <1>1, UnitMirror DEF Succeeded
  <2> QED BY <1>1, <2>1, Undone
<1>4. dst'[n] = Absent /\ EntryOK(dst'[n]) /\ \A k \in Name \ {n} : Moved(k)
  <2>1. \A k \in Name : EntryOK(dst[k])
    BY DEF MirrorInv, Typed
  <2>2. \A k \in Name : /\ k \in {n} => dst'[k] = Absent
                        /\ k \notin {n} => Alike(dst, dst', k)
    BY <1>1, <2>1, RemovedAlike
  <2> QED BY <2>2 DEF Moved, EntryOK
<1>5. KindOf(n)' /\ LackOf(n)' /\ StateOf(n)'
  BY <1>1, <1>2, <1>3, <1>4 DEF KindOf, LackOf, StateOf, Unmade
<1>6. modified' \subseteq Name \cup {Root, Up}
  BY <1>1 DEF MirrorInv, Typed
<1> QED BY <1>1, <1>4, <1>5, <1>6, WorkerKeeps

(* What another name is linked to has been copied before, if it could be. *)
LEMMA LinkOld ==
  ASSUME IInv, MirrorInv, NEW n \in pending, pc = "links", dst[links[n]] # Absent
  PROVE  /\ n \in ToLink /\ links[n] \in Name /\ Src[n].type = "file"
         /\ dst[links[n]].type = "file" /\ EntryOK(dst[links[n]])
         /\ ~Stale(n) => dst[links[n]].ver = Src[n].ver /\ dst[links[n]].ino = links[n]
<1>1. PICK l, old : l = links[n] /\ old = dst[l]
  OBVIOUS
<1>2. n \in ToLink /\ l \in Firsts /\ SameFile(n, l)
  BY <1>1 DEF IInv, Units, MirrorInv, Stored
<1>3. /\ l \in Name /\ table[l] \in {"LeftFiles", "Diff"} /\ l \notin ToLink
      /\ Src[l].type = "file" /\ Src[n].type = "file" /\ Src[n].ver = Src[l].ver
  BY <1>2, Assumptions DEF Firsts, In, SameFile, ToLink
<1>4. KindOf(l) /\ StateOf(l) /\ EntryOK(old)
  BY <1>1, <1>3 DEF MirrorInv, Made, Running, Typed
<1>5. old.type = "file"
  BY <1>1, <1>3, <1>4 DEF KindOf, Right
<1>6. ~Stale(n) => old.ver = Src[n].ver /\ old.ino = l
  BY <1>1, <1>2, <1>3, <1>4 DEF StateOf, Stale, Copied, SecondPool, AfterWork
<1> QED BY <1>1, <1>2, <1>3, <1>4, <1>5, <1>6

(* The first name of a file has been copied when another is linked to it. *)
LEMMA LinkMirror ==
  ASSUME IInv, MirrorInv, NEW n \in Name, Link(n)
  PROVE  MirrorInv'
<1>1. PICK l, old : l = links[n] /\ old = dst[l]
  OBVIOUS
<1>2. /\ n \in pending /\ pc = "links"
      /\ UNCHANGED <<pc, before, table, gone, m, links, holding, fixerr, outside>>
      /\ \/ Broken(n) /\ dst' = dst
         \/ Fine(n) /\ old # Absent /\ dst' = Put(dst, n, old)
  BY <1>1 DEF Link, hard, end
<1>3. CASE Broken(n) /\ dst' = dst
  BY <1>2, <1>3, LeaveKeeps
<1>4. CASE Fine(n) /\ old # Absent /\ dst' = Put(dst, n, old)
  <2>1. /\ UNCHANGED <<status, result>> /\ modified' \subseteq Name \cup {Root, Up}
        /\ pending' = pending \ {n} /\ finished' = finished \cup {n}
        /\ failed' \in {failed, failed \cup {n}}
        /\ step' = [step EXCEPT ![n] = "none"]
    BY <1>2, <1>4, EndsMirror
  <2>2. /\ dst = [j \in Name |-> dst[j]] /\ step \in [Name -> {"none", "meta", "link", "lost"}]
        /\ \A k \in Name : EntryOK(dst[k])
    BY <1>2, UnitMirror DEF MirrorInv, Typed
  <2>3. /\ n \in ToLink /\ (n \in ToLink)' /\ Src[n].type = "file"
        /\ old.type = "file" /\ EntryOK(old)
        /\ ~Stale(n) => old.ver = Src[n].ver /\ old.ino = l
    BY <1>1, <1>2, <1>4, LinkOld DEF ToLink
  <2>4. dst'[n] = old /\ \A k \in Name \ {n} : Moved(k)
    <3>1. \A k \in Name : /\ dst'[n] = old
                          /\ k # n => Alike(dst, dst', k)
      BY <1>4, <2>2, <2>3, PutAlike
    <3> QED BY <3>1 DEF Moved
  <2>5. step'[n] = "none" /\ ~Copied(n)'
    BY <2>1, <2>2, <2>3 DEF Copied
  <2>6. KindOf(n)' /\ LackOf(n)' /\ StateOf(n)'
    <3>1. Src[n] # Absent
      BY <2>3 DEF Absent
    <3>2. n \notin Aside' => ~Stale(n)
      BY <1>2, <2>3 DEF Aside, Stale
    <3> QED BY <1>1, <1>2, <1>4, <2>3, <2>4, <2>5, <3>1, <3>2 DEF KindOf, LackOf, StateOf, Unmade
  <2>7. EntryOK(dst'[n])
    BY <2>3, <2>4
  <2> QED BY <1>2, <2>1, <2>4, <2>6, <2>7, WorkerKeeps
<1> QED BY <1>2, <1>3, <1>4

(* A directory gets the mtime it has in the source. *)
LEMMA FixupMirror ==
  ASSUME IInv, MirrorInv, NEW d \in Name \cup {Root, Up}, Fixup(d)
  PROVE  MirrorInv'
<1> fixerr' \in BOOLEAN /\ outside' \in BOOLEAN
  <2>1. fixerr \in BOOLEAN /\ outside \in BOOLEAN
    BY DEF MirrorInv, Typed
  <2>2. fixerr' \in {fixerr, fixerr \/ "fixup" \in MayFail} => fixerr' \in BOOLEAN
    <3>1. (fixerr \/ "fixup" \in MayFail) \in BOOLEAN
      OBVIOUS
    <3>2. PICK b \in BOOLEAN : b = (fixerr \/ "fixup" \in MayFail)
      BY <3>1
    <3>3. fixerr' \in {fixerr, b} => fixerr' \in BOOLEAN
      BY <2>1
    <3> QED BY <3>2, <3>3, Zenon
  <2> QED BY <2>1, <2>2, Zenon DEF Fixup, end
<1>1. /\ pc = "fixup" /\ modified' = modified \ {d}
      /\ UNCHANGED <<pc, before, table, gone, step, m, links, holding>>
      /\ UNCHANGED <<pending, finished, failed, status, result>>
      /\ \/ dst' = dst
         \/ d \in Name /\ dst[d] # Absent /\ Src[d] # Absent /\ dst' = Meta(dst, d)
  BY DEF Fixup, Fixed, hard, end, pool
<1>2. ToLink' = ToLink /\ Succeeded' = Succeeded /\ Submitted' = Submitted
  BY <1>1 DEF ToLink, Succeeded, Submitted
<1>3. \A n \in Name : KindOf(n) /\ LackOf(n) /\ StateOf(n) /\ EntryOK(dst[n])
  BY <1>1 DEF MirrorInv, Made, Typed, Running
<1>4. ASSUME NEW n \in Name, dst'[n] = dst[n]
      PROVE  KindOf(n)' /\ LackOf(n)' /\ StateOf(n)' /\ EntryOK(dst'[n])
  <2>1. step'[n] = step[n] /\ ((n \in Succeeded)' <=> n \in Succeeded) /\ (n \in finished' <=> n \in finished)
    BY <1>1, <1>2
  <2> QED BY <1>1, <1>4, <2>1, Unmoved, OthersKeep DEF Running
<1>5. ASSUME NEW n \in Name
      PROVE  KindOf(n)' /\ LackOf(n)' /\ StateOf(n)' /\ EntryOK(dst'[n])
  <2>1. CASE dst'[n] = dst[n]
    BY <1>4, <2>1
  <2>2. CASE dst' = Meta(dst, n) /\ n = d /\ dst[n] # Absent /\ Src[n] # Absent
    <3>1. dst = [j \in Name |-> dst[j]]
      BY DEF IInv, Shape
    <3>2. /\ EntryOK(dst'[n]) /\ dst'[n].type = dst[n].type /\ dst'[n] # Absent
          /\ dst'[n].ver = Src[n].ver /\ dst'[n].ino = dst[n].ino
      BY <1>3, <2>2, <3>1, MetaAlike
    <3>3. table[n] \notin Right
      BY <1>1, <2>2 DEF IInv, Compared
    <3>4. (Copied(n)' <=> Copied(n)) /\ (LinkMade(n)' <=> LinkMade(n))
      BY <1>1, <1>2 DEF Copied, LinkMade
    <3>5. n \in Aside => n \in Aside'
      BY <1>1, SameAside
    <3> QED BY <1>1, <1>3, <2>2, <3>2, <3>3, <3>4, <3>5 DEF KindOf, LackOf, StateOf, Unmade
  <2>3. dst' # dst => dst' = Meta(dst, d) /\ (n # d => dst'[n] = dst[n])
    BY <1>1, MetaAlike DEF Meta, IInv, Shape
  <2> QED BY <1>1, <2>1, <2>2, <2>3
<1>6. Typed'
  <2>1. WP!TypeOK'
    BY <1>1 DEF MirrorInv, Typed, WP!TypeOK
  <2> QED BY <1>1, <1>2, <1>5, <2>1 DEF MirrorInv, Typed
<1>7. Waited' /\ Judged' /\ Stored'
  BY <1>1, <1>2, SameJudged, SameStored DEF MirrorInv, Waited, In
<1> QED BY <1>5, <1>6, <1>7 DEF MirrorInv, Made

-----------------------------------------------------------------------------
(* Every step preserves it. *)
LEMMA NextMirror == IInv /\ MirrorInv /\ [Next]_vars => MirrorInv'
<1> SUFFICES ASSUME IInv, MirrorInv, [Next]_vars PROVE MirrorInv'
  OBVIOUS
<1>1. CASE UNCHANGED vars
  <2>1. /\ UNCHANGED <<pc, dst, before, table, gone, step, modified, m, links, holding, fixerr, outside>>
        /\ UNCHANGED <<pending, finished, failed, status, result>>
    BY <1>1 DEF vars, hard, end, pool
  <2>2. Typed'
    <3>1. WP!TypeOK'
      BY <2>1 DEF MirrorInv, Typed, WP!TypeOK
    <3> QED BY <2>1, <3>1 DEF MirrorInv, Typed, ToLink, Submitted
  <2>3. Made' /\ Judged' /\ Waited' /\ Stored'
    BY <2>1, QuietKeeps, SameJudged, SameStored DEF MirrorInv, Waited, In, ToLink, Submitted
  <2> QED BY <2>2, <2>3 DEF MirrorInv
<1>2. CASE Main
  BY <1>2, CompareMirror, PoolMirror, NextPoolMirror, ReturnMirror, FixupMirror DEF Main
<1>3. CASE Submitting
  BY <1>3, SubmitMirror, RememberMirror, TrackMirror DEF Submitting
<1>4. CASE Working
  BY <1>4, MakeMirror, UpdateMirror, PastShardsMirror, DeleteMirror, UnlinkMirror, LinkMirror DEF Working
<1>5. ASSUME NEW n \in Name, Vanish(n) PROVE MirrorInv'
  BY <1>5, VanishMirror
<1> QED BY <1>1, <1>2, <1>3, <1>4, <1>5 DEF Next, Stopped

(* What the tables say and what the workers have done agree with src and dst *)
(* in every reachable state. *)
THEOREM MirrorInductive == Spec => [](IInv /\ MirrorInv)
<1>1. Init => IInv /\ MirrorInv
  BY InitIInv, InitMirror
<1>2. (IInv /\ MirrorInv) /\ [Next]_vars => (IInv /\ MirrorInv)'
  BY NextIInv, NextMirror
<1> QED BY <1>1, <1>2, PTL DEF Spec

-----------------------------------------------------------------------------
(* The modes: which inodes got that of a symbolic link, and why.  A link     *)
(* that is updated is new in dst; what it refers to was made, or is what dst *)
(* had there, for no name is made a hard link before every copy is done.     *)
Linking == {"links", "fixup", "ok", "error", "panic"}

Origins ==
  pc \notin Linking =>
    \A k \in Name : dst[k] # Absent =>
      dst[k].ino \in Name \/ (before[k] # Absent /\ dst[k].ino = before[k].ino)

NewLinks == \A n \in DOMAIN Target : step[n] = "meta" => table[n] = "LeftFiles"

ModeInv ==
  /\ linkMode \subseteq Name \cup Referred
  /\ Origins /\ NewLinks
  /\ pc = "start" => linkMode = {}

(* Every entry of u is one that was made, or has the inode it has in t. *)
SameInos(t, u) ==
  \A k \in Name : u[k] # Absent => u[k].ino \in Name \/ (t[k] # Absent /\ u[k].ino = t[k].ino)

LEMMA ChangedInos ==
  ASSUME NEW t, NEW S, \A k \in Name : EntryOK(t[k])
  PROVE  SameInos(t, Changed(t, S))
<1> SUFFICES ASSUME NEW k \in Name, Changed(t, S)[k] # Absent
             PROVE  t[k] # Absent /\ Changed(t, S)[k].ino = t[k].ino
  BY DEF SameInos
<1>1. CASE IsDir(t[k]) /\ \E j \in S : Parent[j] = k
  <2>1. Changed(t, S)[k] = [t[k] EXCEPT !.ver = "now"]
    BY <1>1 DEF Changed
  <2>2. DOMAIN t[k] = {"type", "ino", "ver"} /\ t[k] # Absent
    BY <1>1 DEF EntryOK, IsDir, Absent
  <2> QED BY <2>1, <2>2
<1>2. CASE ~(IsDir(t[k]) /\ \E j \in S : Parent[j] = k)
  <2>1. Changed(t, S)[k] = t[k]
    BY <1>2 DEF Changed
  <2> QED BY <2>1
<1> QED BY <1>1, <1>2

LEMMA RemovedInos ==
  ASSUME NEW t, NEW S, \A k \in Name : EntryOK(t[k])
  PROVE  SameInos(t, Removed(t, S))
<1> DEFINE u == [j \in Name |-> IF j \in S THEN Absent ELSE t[j]]
           R == {j \in S : t[j] # Absent}
<1>1. \A k \in Name : EntryOK(u[k]) /\ (u[k] # Absent => u[k] = t[k])
  BY DEF EntryOK
<1>2. Removed(t, S) = Changed(u, R)
  BY DEF Removed
<1> HIDE DEF u, R
<1>3. SameInos(u, Changed(u, R))
  BY <1>1, ChangedInos
<1> QED BY <1>1, <1>2, <1>3 DEF SameInos

LEMMA MkdirInos ==
  ASSUME NEW t, NEW n \in Name, \A k \in Name : EntryOK(t[k])
  PROVE  SameInos(t, MkdirAll(t, n)) /\ \A k \in Name : EntryOK(MkdirAll(t, n)[k])
<1> DEFINE new == {j \in Above(n) \cup {n} : t[j] = Absent}
           d(j) == [type |-> "dir", ino |-> j, ver |-> "now"]
           u == [j \in Name |-> IF j \in new THEN d(j) ELSE t[j]]
<1>1. ASSUME NEW k \in Name
      PROVE  EntryOK(u[k]) /\ (u[k] # Absent => u[k] = t[k] \/ u[k].ino \in Name)
  <2>1. DOMAIN d(k) = {"type", "ino", "ver"} /\ d(k).type = "dir" /\ d(k).ino = k
    OBVIOUS
  <2>2. u[k] = IF k \in new THEN d(k) ELSE t[k]
    OBVIOUS
  <2> HIDE DEF d, u, new
  <2> QED BY <2>1, <2>2 DEF EntryOK
<1>2. MkdirAll(t, n) = Changed(u, new)
  BY DEF MkdirAll
<1> HIDE DEF u, new
<1>3. SameInos(u, Changed(u, new)) /\ \A k \in Name : EntryOK(Changed(u, new)[k])
  BY <1>1, ChangedInos, ChangedAlike DEF Alike
<1> QED BY <1>1, <1>2, <1>3 DEF SameInos

LEMMA PutInos ==
  ASSUME NEW t, t = [j \in Name |-> t[j]], NEW n \in Name, NEW e, EntryOK(e), e.ino \in Name,
         \A k \in Name : EntryOK(t[k])
  PROVE  SameInos(t, Put(t, n, e))
<1> DEFINE u == [t EXCEPT ![n] = e]
<1>1. \A k \in Name : u[k] = IF k = n THEN e ELSE t[k]
  OBVIOUS
<1>2. Put(t, n, e) = Changed(u, {n})
  BY DEF Put
<1> HIDE DEF u
<1>3. SameInos(u, Changed(u, {n}))
  BY <1>1, ChangedInos
<1> QED BY <1>1, <1>2, <1>3 DEF SameInos

LEMMA MetaInos ==
  ASSUME NEW t, t = [j \in Name |-> t[j]], NEW n \in Name, EntryOK(t[n])
  PROVE  SameInos(t, Meta(t, n))
BY MetaAlike DEF SameInos

(* A step that gives the mode of a link to nothing *)
LEMMA ModesKept ==
  ASSUME ModeInv, pc # "start", UNCHANGED <<before, table>>,
         linkMode' \subseteq linkMode, pc' \notin Linking => pc \notin Linking /\ SameInos(dst, dst'),
         pc' # "start", \A n \in DOMAIN Target : step'[n] = "meta" => step[n] = "meta"
  PROVE  ModeInv'
<1>1. Referred' = Referred
  BY DEF Referred, In
<1>2. Origins' /\ NewLinks'
  BY DEF ModeInv, Origins, NewLinks, SameInos
<1> QED BY <1>1, <1>2 DEF ModeInv

LEMMA SameTree == SameInos(dst, dst)
BY DEF SameInos

(* A unit that ends has no next step. *)
LEMMA EndsModes ==
  ASSUME IInv, MirrorInv, NEW n \in pending, Fine(n) \/ Broken(n) \/ Missing(n)
  PROVE  \A k \in DOMAIN Target : step'[k] = "meta" => step[k] = "meta"
<1>1. step' = [step EXCEPT ![n] = "none"] /\ step \in [Name -> {"none", "meta", "link", "lost"}]
  BY EndsMirror DEF MirrorInv, Typed
<1> QED BY <1>1, Assumptions

(* Links are made only of names that are not there. *)
LEMMA MakeModes ==
  ASSUME IInv, MirrorInv, ModeInv, NEW n \in Name, Make(n)
  PROVE  ModeInv'
<1>1. /\ n \in pending /\ step[n] = "none" /\ pc \notin Linking \cup {"start"} /\ pc \in Running
      /\ UNCHANGED <<pc, linkMode, before, table>>
      /\ pc = "dirs" \/ (pc = "work" /\ n \notin In(Right))
  BY DEF Make, Copying, Linking, Running
<1>2. dst = [j \in Name |-> dst[j]] /\ \A k \in Name : EntryOK(dst[k])
  BY DEF IInv, Shape, MirrorInv, Typed
<1>3. CASE (Missing(n) \/ Broken(n)) /\ dst' \in {dst, Changed(dst, {n})}
  <2>1. SameInos(dst, dst')
    BY <1>2, <1>3, SameTree, ChangedInos
  <2> QED BY <1>1, <1>3, <2>1, EndsModes, ModesKept
<1>4. CASE /\ n \notin gone /\ step' = [step EXCEPT ![n] = "meta"]
           /\ ~(Src[n].type = "symlink" /\ dst[n] # Absent)
           /\ dst' = IF Src[n].type = "dir" THEN MkdirAll(dst, n)
                     ELSE Put(MkdirAbove(dst, n), n, [type |-> Src[n].type, ino |-> n, ver |-> "now"])
  <2>1. Src[n] # Absent /\ EntryOK(Src[n])
    BY <1>1, UnitTables, Assumptions DEF IInv, Compared, In, Units
  <2>2. SameInos(dst, dst')
    <3>1. CASE Src[n].type = "dir"
      BY <1>2, <1>4, <3>1, MkdirInos
    <3>2. CASE Src[n].type # "dir"
      <4> DEFINE e == [type |-> Src[n].type, ino |-> n, ver |-> "now"]
      <4>1. EntryOK(e) /\ e.ino \in Name
        <5>1. DOMAIN e = {"type", "ino", "ver"} /\ e.type = Src[n].type /\ e.ino = n
          OBVIOUS
        <5> HIDE DEF e
        <5> QED BY <2>1, <5>1 DEF EntryOK
      <4>2. PICK u : u = MkdirAbove(dst, n)
        OBVIOUS
      <4>3. u = [j \in Name |-> u[j]] /\ SameInos(dst, u) /\ \A k \in Name : EntryOK(u[k])
        BY <1>2, <4>2, Trees, MkdirInos, SameTree DEF MkdirAbove
      <4>4. dst' = Put(u, n, e)
        BY <1>4, <3>2, <4>2
      <4> HIDE DEF e
      <4>5. SameInos(u, dst')
        BY <4>1, <4>3, <4>4, PutInos
      <4> QED BY <4>3, <4>5 DEF SameInos
    <3> QED BY <3>1, <3>2
  <2>3. Src[n].type = "symlink" => table[n] = "LeftFiles"
    <3>1. LackOf(n) /\ (pc = "work" => n \notin ToLink)
      BY <1>1, UnitMirror
    <3>2. Src[n].type = "symlink" => table[n] \in {"LeftFiles", "CommonFiles", "Diff"}
      BY <1>1 DEF MirrorInv, Judged
    <3>3. pc = "dirs" => table[n] = "LeftDirs"
      BY <1>1 DEF IInv, Units, In
    <3> QED BY <1>1, <1>4, <2>1, <3>1, <3>2, <3>3 DEF LackOf
  <2>4. NewLinks'
    <3>1. step \in [Name -> {"none", "meta", "link", "lost"}] /\ DOMAIN Target \subseteq Name
          /\ \A k \in DOMAIN Target : Src[k].type = "symlink"
      BY Assumptions DEF MirrorInv, Typed
    <3> QED BY <1>1, <1>4, <2>3, <3>1 DEF ModeInv, NewLinks
  <2>5. Origins'
    BY <1>1, <2>2 DEF ModeInv, Origins, SameInos
  <2>6. Referred' = Referred
    BY <1>1 DEF Referred, In
  <2> QED BY <1>1, <2>4, <2>5, <2>6 DEF ModeInv
<1> QED BY <1>3, <1>4 DEF Make

(* The chmod of a link reaches what was made, or what dst had there. *)
LEMMA UpdateModes ==
  ASSUME IInv, MirrorInv, ModeInv, NEW n \in Name, Update(n)
  PROVE  ModeInv'
<1>1. /\ n \in pending /\ step[n] = "meta" /\ pc \notin Linking \cup {"start"}
      /\ UNCHANGED <<pc, before, table>> /\ dst' \in {dst, Meta(dst, n)}
      /\ Fine(n) \/ Broken(n) \/ Missing(n)
      /\ linkMode' \in {linkMode, OwnMode(n), Chmoded(n)}
  BY DEF Update, Copying, Linking
<1>2. SameInos(dst, dst')
  BY <1>1, UnitMirror, SameTree, MetaInos
<1>3. \A k \in DOMAIN Target : step'[k] = "meta" => step[k] = "meta"
  BY <1>1, EndsModes
<1>4. CASE linkMode' \subseteq linkMode
  BY <1>1, <1>2, <1>3, <1>4, ModesKept
<1>5. CASE Src[n].type = "symlink" /\ dst[Target[n]] # Absent /\ linkMode' = linkMode \cup {dst[Target[n]].ino}
  <2>1. n \in DOMAIN Target /\ Target[n] \in Name
    BY <1>5, Assumptions
  <2>2. table[n] = "LeftFiles"
    BY <1>1, <2>1 DEF ModeInv, NewLinks
  <2>3. dst[Target[n]].ino \in Name \cup Referred
    BY <1>1, <1>5, <2>1, <2>2 DEF ModeInv, Origins, Referred, In
  <2>4. Referred' = Referred
    BY <1>1 DEF Referred, In
  <2>5. Origins' /\ NewLinks'
    BY <1>1, <1>2, <1>3 DEF ModeInv, Origins, NewLinks, SameInos
  <2> QED BY <1>1, <1>5, <2>3, <2>4, <2>5 DEF ModeInv
<1>6. OwnMode(n) \subseteq linkMode
  BY DEF OwnMode
<1>7. Chmoded(n) \subseteq linkMode \/ (Src[n].type = "symlink" /\ dst[Target[n]] # Absent /\ Chmoded(n) = linkMode \cup {dst[Target[n]].ino})
  BY <1>6 DEF Chmoded, Dangling
<1> QED BY <1>1, <1>4, <1>5, <1>6, <1>7

(* The other steps of the workers, and fixup, reach nothing through a link. *)
LEMMA OtherModes ==
  ASSUME IInv, MirrorInv, ModeInv,
         \/ \E n \in Name : Delete(n) \/ Unlink(n) \/ Link(n)
         \/ \E d \in Name \cup {Root, Up} : Fixup(d)
  PROVE  ModeInv'
<1>1. ASSUME NEW n \in Name, Delete(n) PROVE ModeInv'
  <2>1. /\ n \in pending /\ pc = "work" /\ (Fine(n) \/ Broken(n))
        /\ UNCHANGED <<pc, linkMode, before, table>>
        /\ dst' \in {dst, Removed(dst, Under[n])}
    BY <1>1 DEF Delete
  <2>2. SameInos(dst, dst')
    BY <2>1, SameTree, RemovedInos DEF MirrorInv, Typed
  <2> QED BY <1>1, <2>1, <2>2, EndsModes, ModesKept DEF Linking, Delete
<1>2. ASSUME NEW n \in Name, Unlink(n) \/ Link(n) PROVE ModeInv'
  <2>1. n \in pending /\ pc = "links" /\ UNCHANGED <<pc, linkMode, before, table>>
    BY <1>2 DEF Unlink, Link
  <2>2. \A k \in DOMAIN Target : step'[k] = "meta" => step[k] = "meta"
    <3>1. CASE Unlink(n)
      <4>1. step' = [step EXCEPT ![n] = "link"] /\ step \in [Name -> {"none", "meta", "link", "lost"}]
        BY <3>1 DEF Unlink, MirrorInv, Typed
      <4> QED BY <4>1, Assumptions
    <3>2. CASE Link(n)
      BY <2>1, <3>2, EndsModes DEF Link
    <3> QED BY <1>2, <3>1, <3>2
  <2> QED BY <2>1, <2>2, ModesKept DEF Linking
<1>3. ASSUME NEW d \in Name \cup {Root, Up}, Fixup(d) PROVE ModeInv'
  <2>1. pc = "fixup" /\ UNCHANGED <<pc, before, table, step>> /\ linkMode' \in {linkMode, OwnMode(d)}
    BY <1>3 DEF Fixup
  <2> QED BY <2>1, ModesKept DEF Linking, OwnMode
<1> QED BY <1>1, <1>2, <1>3

(* The comparison comes first, and finds what dst had. *)
LEMMA CompareModes ==
  ASSUME IInv, MirrorInv, ModeInv, Compare
  PROVE  ModeInv'
<1>1. pc = "start" /\ linkMode' = {} /\ pc' # "start" /\ UNCHANGED <<dst, before, step>> /\ dst = before
  BY DEF Compare, ModeInv, IInv, Shape
<1>2. \A n \in DOMAIN Target : step[n] = "none"
  BY <1>1, Assumptions DEF IInv, Units, MirrorInv, Typed
<1> QED BY <1>1, <1>2 DEF ModeInv, Origins, NewLinks

(* Nothing else changes the tree. *)
LEMMA NextModes == IInv /\ MirrorInv /\ ModeInv /\ [Next]_vars => ModeInv'
<1> SUFFICES ASSUME IInv, MirrorInv, ModeInv, [Next]_vars PROVE ModeInv'
  OBVIOUS
<1>1. ASSUME UNCHANGED <<dst, linkMode, before, table, step>>, pc' = pc PROVE ModeInv'
  BY <1>1 DEF ModeInv, Origins, NewLinks, Referred, In
<1>2. ASSUME \/ \E n \in Name : SubmitDir(n) \/ SubmitDel(n) \/ SubmitLink(n)
             \/ \E g \in {"Diff", "LeftFiles"} : Remember(g) \/ \E n \in Name : Track(g, n)
      PROVE  UNCHANGED <<dst, linkMode, before, table, step>> /\ pc' = pc
  BY <1>2 DEF SubmitDir, SubmitDel, SubmitLink, Remember, Track, Submit
<1>3. CASE UNCHANGED vars \/ Close \/ Wait \/ \E n \in Name : Vanish(n)
  BY <1>1, <1>3 DEF vars, Close, Wait, Vanish
<1>4. CASE NextPool \/ Return
  <2>1. /\ pc \in {"dirs", "work", "links", "fixup"} /\ pc' \in {"work", "links", "fixup", "ok", "error"}
        /\ pc \notin {"dirs", "work"} => pc' \in Linking
        /\ UNCHANGED <<dst, linkMode, before, table, step>>
    BY <1>4 DEF NextPool, Return, Following, Linking
  <2> QED BY <2>1, SameTree, ModesKept DEF Linking
<1>5. CASE Main
  BY <1>3, <1>4, <1>5, CompareModes, OtherModes DEF Main
<1>6. CASE Submitting
  BY <1>1, <1>2, <1>6 DEF Submitting
<1>7. ASSUME NEW n \in Name, PastShards(n) PROVE ModeInv'
  <2>1. /\ pc \in {"work", "links"} /\ UNCHANGED <<pc, dst, linkMode, before, table>>
        /\ step' = [step EXCEPT ![n] = "lost"] /\ step \in [Name -> {"none", "meta", "link", "lost"}]
    BY <1>7 DEF PastShards, MirrorInv, Typed
  <2>2. \A k \in DOMAIN Target : step'[k] = "meta" => step[k] = "meta"
    BY <2>1, Assumptions
  <2> QED BY <2>1, <2>2, SameTree, ModesKept
<1>8. CASE Working
  BY <1>7, <1>8, MakeModes, UpdateModes, OtherModes DEF Working
<1> QED BY <1>3, <1>5, <1>6, <1>8 DEF Next, Stopped

(* Why an inode has the mode of a link, in every reachable state *)
THEOREM ModesInductive == Spec => [](IInv /\ ModeInv)
<1>1. Init => IInv /\ MirrorInv /\ ModeInv
  <2> SUFFICES ASSUME Init PROVE ModeInv
    BY InitIInv, InitMirror
  <2>1. linkMode = {} /\ dst = before /\ \A n \in Name : step[n] = "none"
    BY DEF Init
  <2> QED BY <2>1, Assumptions DEF ModeInv, Origins, NewLinks
<1>2. (IInv /\ MirrorInv /\ ModeInv) /\ [Next]_vars => (IInv /\ MirrorInv /\ ModeInv)'
  BY NextIInv, NextMirror, NextModes
<1> QED BY <1>1, <1>2, PTL DEF Spec

(* A file that is the same on both sides stays the file it was, with its     *)
(* content, size and mtime: no copy, link, deletion or fixup changes it.     *)
(* The mode of a link it has only if a symbolic link that is new in dst      *)
(* refers to it, or to another name dst has for it.                          *)
THEOREM UntouchedHolds == Spec => []Untouched
<1>1. IInv /\ ModeInv => Untouched
  <2> SUFFICES ASSUME IInv, ModeInv, NEW n \in In({"CommonFiles"})
               PROVE  dst[n] = before[n] /\ (dst[n].ino \in linkMode => dst[n].ino \in Referred)
    BY DEF Untouched
  <2>1. n \in Name /\ dst[n] = before[n] /\ before[n] # Absent /\ before \in Before
    BY DEF IInv, Kept, Compared, Shape, In
  <2>2. dst[n].ino \notin Name
    BY <2>1, Assumptions
  <2> QED BY <2>1, <2>2 DEF ModeInv
<1> QED BY <1>1, ModesInductive, PTL

(* The variables have their types, only units of a pool are worked on, and   *)
(* nothing put aside for a hard link is copied. *)
THEOREM TypeCorrect == Spec => []TypeOK
<1>1. IInv /\ MirrorInv /\ ModeInv => TypeOK
  <2> SUFFICES ASSUME IInv, MirrorInv, ModeInv PROVE TypeOK
    OBVIOUS
  <2>1. linkMode \subseteq Name \cup {before[n].ino : n \in {k \in Name : before[k] # Absent}}
    BY Assumptions DEF ModeInv, Referred
  <2> QED BY <2>1 DEF IInv, Shape, MirrorInv, Typed, TypeOK, Running
<1> QED BY <1>1, MirrorInductive, ModesInductive, PTL

(* When Tree returns nil, dst has the entries of src, of the same kinds and  *)
(* contents, and no other; left aside is what was deleted meanwhile, and what *)
(* is then made a link of an old file of dst. *)
THEOREM MirrorHolds == Spec => []Mirror
<1>1. IInv /\ MirrorInv => Mirror
  <2> SUFFICES ASSUME IInv, MirrorInv, pc = "ok", NEW n \in Name \ Aside
               PROVE  Mirrored(n)
    BY DEF Mirror
  <2>1. n \in Name /\ n \notin gone /\ n \notin Aside
    BY DEF Aside
  <2>2. KindOf(n) /\ LackOf(n) /\ StateOf(n) /\ EntryOK(Src[n])
    BY Assumptions DEF MirrorInv, Made, Running
  <2>3. /\ table[n] = "LeftDirs" => MadeDir(n)
        /\ table[n] \in SecondPool /\ n \notin ToLink => Copied(n)
        /\ n \in ToLink => LinkMade(n)
    BY DEF MadeDir, Copied, LinkMade, AfterWork
  <2>4. n \in ToLink => table[n] \in {"LeftFiles", "Diff"}
    BY DEF IInv, Units, In
  <2>5. Src[n] = Absent => dst[n] = Absent
    BY <2>2, <2>3, <2>4 DEF KindOf, SecondPool, Right
  <2>6. Src[n] # Absent => dst[n] # Absent
    BY <2>1, <2>2, <2>3, <2>4 DEF LackOf, SecondPool
  <2>7. dst[n] # Absent => dst[n].type = Src[n].type
    BY <2>2, <2>3, <2>4, <2>5 DEF KindOf, SecondPool, Right
  <2>8. dst[n] # Absent /\ Src[n].type = "file" => dst[n].ver = Src[n].ver
    <3>1. CASE table[n] = "CommonFiles"
      BY <3>1, Common DEF IInv, Kept, In, MirrorInv, Judged, Running
    <3>2. CASE table[n] \in {"LeftFiles", "Diff"}
      BY <2>1, <2>2, <2>3, <3>2 DEF StateOf, Unmade, SecondPool
    <3> QED BY <3>1, <3>2 DEF MirrorInv, Judged, Running
  <2> QED BY <2>5, <2>6, <2>7, <2>8 DEF Mirrored
<1> QED BY <1>1, MirrorInductive, PTL

-----------------------------------------------------------------------------
(* The names of a file that are all in one table go through one goroutine:   *)
(* the first of them is stored before the next is looked up.                 *)
Sole ==
  \A g \in {"Diff", "LeftFiles"}, n \in Name :
    Linked(n) /\ Group(n) \subseteq In({g}) =>
      /\ n \in ToLink => links[n] = m[Src[n].ino]
      /\ n \notin ToLink /\ ((pc = "work" /\ n \in Submitted) \/ pc \in AfterWork) => m[Src[n].ino] = n
      /\ holding[g] = n => m[Src[n].ino] = "none"

(* The names of a file, one of them n itself *)
LEMMA GroupOf ==
  ASSUME NEW n \in Name, Linked(n)
  PROVE  n \in Group(n) /\ Group(n) \subseteq Name /\ Src[n].ino \in Inos
BY DEF Linked, Group, SameFile, Inos

(* A step that stores nothing, and submits no name that has links *)
LEMMA SoleSame ==
  ASSUME Sole, UNCHANGED <<table, m, links, holding>>,
         \A n \in Name : Linked(n) /\ table[n] \in {"Diff", "LeftFiles"} /\ n \notin ToLink =>
           (((pc = "work" /\ n \in Submitted) \/ pc \in AfterWork)'
              => (pc = "work" /\ n \in Submitted) \/ pc \in AfterWork)
  PROVE  Sole'
<1> SUFFICES ASSUME NEW g \in {"Diff", "LeftFiles"}, NEW n \in Name, Linked(n), Group(n) \subseteq In({g})
             PROVE  /\ n \in ToLink => links[n] = m[Src[n].ino]
                    /\ n \notin ToLink /\ ((pc = "work" /\ n \in Submitted) \/ pc \in AfterWork)' => m[Src[n].ino] = n
                    /\ holding[g] = n => m[Src[n].ino] = "none"
  BY DEF Sole, ToLink, In, Linked, Group, SameFile
<1>1. table[n] \in {"Diff", "LeftFiles"}
  BY GroupOf DEF In
<1> QED BY <1>1 DEF Sole

(* Before the second pool there is nothing to say. *)
LEMMA SoleEmpty ==
  ASSUME IInv, MirrorInv, pc \in {"start", "dirs"}, UNCHANGED <<m, links, holding>>,
         pc' \notin AfterWork, pc' = "work" => Submitted' = {}
  PROVE  Sole'
<1>1. ToLink' = {} /\ \A g \in {"Diff", "LeftFiles"} : holding'[g] = "none"
  BY NothingStored DEF ToLink
<1> QED BY <1>1, Assumptions DEF Sole

(* What is stored for a file is its first name, which is submitted with it. *)
LEMMA SoleRemember ==
  ASSUME IInv, MirrorInv, Sole, NEW h \in {"Diff", "LeftFiles"}, Remember(h)
  PROVE  Sole'
<1>1. PICK k : k = holding[h]
  OBVIOUS
<1>2. /\ k # "none" /\ m' = [m EXCEPT ![Src[k].ino] = k] /\ Submit(k)
      /\ holding' = [holding EXCEPT ![h] = "none"]
      /\ UNCHANGED links
  BY <1>1 DEF Remember
<1>3. /\ pc = "work" /\ k \in In({h}) /\ k \in Name /\ Linked(k)
      /\ Submitted' = Submitted \cup {k} /\ UNCHANGED <<pc, table>> /\ ToLink' = ToLink
  BY <1>1, <1>2, SubmitSame DEF IInv, Held, MirrorInv, Stored, In, ToLink
<1>4. m \in [Inos -> Name \cup {"none"}] /\ holding \in [{"Diff", "LeftFiles"} -> Name \cup {"none"}]
  BY DEF IInv, Shape
<1>5. ASSUME NEW g \in {"Diff", "LeftFiles"}, NEW n \in Name, Linked(n), Group(n) \subseteq In({g})
      PROVE  /\ n \in ToLink => links[n] = m'[Src[n].ino]
             /\ n \notin ToLink /\ n \in Submitted' => m'[Src[n].ino] = n
             /\ holding'[g] = n => m'[Src[n].ino] = "none"
  <2>1. /\ n \in ToLink => links[n] = m[Src[n].ino]
        /\ n \notin ToLink /\ n \in Submitted => m[Src[n].ino] = n
        /\ holding[g] = n => m[Src[n].ino] = "none"
        /\ Src[n].ino \in Inos
    BY <1>3, <1>5, GroupOf DEF Sole
  <2>2. holding'[g] = n => holding[g] = n /\ g # h
    BY <1>2, <1>4, Assumptions
  <2>3. CASE Src[n].ino # Src[k].ino
    BY <1>2, <1>3, <1>4, <2>1, <2>2, <2>3
  <2>4. CASE Src[n].ino = Src[k].ino
    <3>1. k \in Group(n) /\ Group(k) = Group(n)
      BY <1>3, <1>5, <2>4 DEF Linked, Group, SameFile
    <3>2. g = h
      BY <1>3, <1>5, <3>1 DEF In
    <3>3. m[Src[n].ino] = "none"
      BY <1>1, <1>3, <1>5, <2>4, <3>1, <3>2 DEF Sole
    <3>4. n \notin ToLink /\ n \notin Submitted
      BY <2>1, <3>3, Assumptions DEF ToLink
    <3>5. m'[Src[n].ino] = k
      BY <1>2, <1>4, <2>1, <2>4
    <3> QED BY <1>3, <2>2, <3>2, <3>4, <3>5
  <2> QED BY <2>3, <2>4
<1> QED BY <1>2, <1>3, <1>5 DEF Sole, In, Linked, Group, SameFile, AfterWork

(* A name is put aside for the one that is stored, or held if none is. *)
LEMMA SoleTrack ==
  ASSUME IInv, MirrorInv, Sole, NEW h \in {"Diff", "LeftFiles"}, NEW k \in Name, Track(h, k)
  PROVE  Sole'
<1>1. /\ pc = "work" /\ holding[h] = "none" /\ k \in In({h}) \ Submitted /\ k \notin ToLink
  BY DEF Track, ToLink
<1>2. CASE ~Linked(k) /\ Submit(k) /\ UNCHANGED hard
  <2>1. Submitted' = Submitted \cup {k} /\ UNCHANGED <<pc, table, m, links, holding>>
    BY <1>2, SubmitSame DEF hard
  <2> QED BY <1>1, <1>2, <2>1, SoleSame
<1>3. CASE /\ Linked(k) /\ m[Src[k].ino] # "none"
           /\ links' = [links EXCEPT ![k] = m[Src[k].ino]]
           /\ UNCHANGED <<m, holding, pc, dst, linkMode, before, table, gone, step, end, pool>>
  <2>1. UNCHANGED <<m, holding, pc, table, pending, finished>> /\ Submitted' = Submitted
    BY <1>3 DEF pool, Submitted
  <2>2. ToLink' = ToLink \cup {k} /\ links'[k] = m[Src[k].ino] /\ \A n \in Name \ {k} : links'[n] = links[n]
    BY <1>3 DEF ToLink, IInv, Shape
  <2> QED BY <1>1, <2>1, <2>2 DEF Sole, In, Linked, Group, SameFile
<1>4. CASE /\ Linked(k) /\ m[Src[k].ino] = "none"
           /\ holding' = [holding EXCEPT ![h] = k]
           /\ UNCHANGED <<m, links, pc, dst, linkMode, before, table, gone, step, end, pool>>
  <2>1. UNCHANGED <<m, links, pc, table, pending, finished>> /\ Submitted' = Submitted /\ ToLink' = ToLink
    BY <1>4 DEF pool, Submitted, ToLink
  <2>2. \A g \in {"Diff", "LeftFiles"} : holding'[g] = IF g = h THEN k ELSE holding[g]
    BY <1>4 DEF IInv, Shape
  <2> QED BY <1>1, <1>4, <2>1, <2>2 DEF Sole, In, Linked, Group, SameFile
<1> QED BY <1>2, <1>3, <1>4 DEF Track

(* A step of a worker submits nothing. *)
LEMMA WorkingSame ==
  ASSUME IInv, Working
  PROVE  Submitted' = Submitted /\ UNCHANGED <<pc, table, m, links, holding>>
<1> SUFFICES ASSUME NEW n \in Name,
                    Make(n) \/ Update(n) \/ PastShards(n) \/ Delete(n) \/ Unlink(n) \/ Link(n)
             PROVE  Submitted' = Submitted /\ UNCHANGED <<pc, table, m, links, holding>>
  BY DEF Working
<1>1. n \in pending /\ UNCHANGED <<pc, table, m, links, holding>>
  BY DEF Make, Update, PastShards, Delete, Unlink, Link, Copying, hard
<1>2. Fine(n) \/ Broken(n) \/ Missing(n) \/ UNCHANGED pool
  BY DEF Make, Update, PastShards, Delete, Unlink, Link
<1>3. CASE Fine(n) \/ Broken(n) \/ Missing(n)
  BY <1>1, <1>3, Ends
<1>4. CASE UNCHANGED pool
  BY <1>1, <1>4 DEF pool, Submitted
<1> QED BY <1>1, <1>2, <1>3, <1>4

(* Every step preserves it. *)
LEMMA NextSole == IInv /\ MirrorInv /\ Sole /\ [Next]_vars => Sole'
<1> SUFFICES ASSUME IInv, MirrorInv, Sole, [Next]_vars PROVE Sole'
  OBVIOUS
<1>1. CASE UNCHANGED <<pc, table, m, links, holding, pending, finished>>
  BY <1>1, SoleSame DEF Submitted
<1>2. ASSUME UNCHANGED vars \/ Close \/ Wait \/ (\E n \in Name : Vanish(n))
             \/ (\E d \in Name \cup {Root, Up} : Fixup(d))
      PROVE  UNCHANGED <<pc, table, m, links, holding, pending, finished>>
  BY <1>2 DEF vars, hard, pool, Close, Wait, WP!Close, WP!Return, Vanish, Fixup
<1>3. CASE Compare
  <2>1. pc = "start" /\ pc' \notin AfterWork /\ pc' # "work" /\ UNCHANGED <<m, links, holding>>
    BY <1>3 DEF Compare, hard, AfterWork
  <2> QED BY <2>1, SoleEmpty
<1>4. CASE NextPool
  <2>1. /\ status = "returned" /\ pc \in {"dirs", "work", "links"}
        /\ UNCHANGED <<table, m, links, holding>> /\ Submitted' = {}
        /\ \/ pc = "dirs" /\ pc' = "work"
           \/ pc = "work" /\ pc' = "links"
           \/ pc = "links" /\ pc' = "fixup"
           \/ pc' = "error"
    BY <1>4 DEF NextPool, PoolDone, Following, hard, Submitted
  <2>2. CASE pc = "dirs"
    BY <2>1, <2>2, SoleEmpty DEF AfterWork
  <2>3. CASE pc # "dirs"
    <3>1. \A n \in Name : pc = "work" /\ table[n] \in {"Diff", "LeftFiles"} => n \in Submitted \cup ToLink
      BY <2>1 DEF IInv, Joined, In
    <3> QED BY <2>1, <2>3, <3>1, SoleSame DEF AfterWork
  <2> QED BY <2>2, <2>3
<1>5. CASE Return
  <2>1. pc = "fixup" /\ UNCHANGED <<table, m, links, holding>>
    BY <1>5 DEF Return, hard
  <2> QED BY <2>1, SoleSame DEF AfterWork
<1>6. ASSUME NEW n \in Name, SubmitDir(n) \/ SubmitDel(n) \/ SubmitLink(n) PROVE Sole'
  <2>1. Submitted' = Submitted \cup {n} /\ UNCHANGED <<pc, table, m, links, holding>>
    BY <1>6, SubmitSame DEF SubmitDir, SubmitDel, SubmitLink, hard
  <2>2. pc = "work" => table[n] \in Right
    BY <1>6 DEF SubmitDir, SubmitDel, SubmitLink, In
  <2> QED BY <2>1, <2>2, SoleSame DEF Right
<1>7. CASE Working
  BY <1>7, WorkingSame, SoleSame
<1>8. CASE Submitting
  BY <1>6, <1>8, SoleRemember, SoleTrack DEF Submitting
<1> QED BY <1>1, <1>2, <1>3, <1>4, <1>5, <1>7, <1>8 DEF Next, Main, Stopped

(* Two names in dst are hard links of one file only if they are in src; and  *)
(* they are if all names of that file are in one table, and none was deleted *)
(* meanwhile. *)
THEOREM HardLinksHolds == Spec => []HardLinks
<1>1. Init => Sole
  <2> SUFFICES ASSUME Init PROVE Sole
    OBVIOUS
  <2>1. pc = "start" /\ ToLink = {} /\ \A g \in {"Diff", "LeftFiles"} : holding[g] = "none"
    BY DEF Init, ToLink
  <2> QED BY <2>1, Assumptions DEF Sole, AfterWork
<1>2. IInv /\ MirrorInv /\ Sole => HardLinks
  <2> SUFFICES ASSUME IInv, MirrorInv, Sole, pc = "ok",
                      NEW n \in In({"LeftFiles", "Diff"}) \ Aside, NEW k \in In({"LeftFiles", "Diff"}) \ Aside,
                      Src[n].type = "file", Src[k].type = "file"
               PROVE  /\ dst[n].ino = dst[k].ino => SameFile(n, k)
                      /\ SameFile(n, k) /\ (\E g \in {"LeftFiles", "Diff"} : Group(n) \subseteq In({g}) \ gone) =>
                           dst[n].ino = dst[k].ino
    BY DEF HardLinks
  <2> DEFINE First(j) == IF j \in ToLink THEN links[j] ELSE j
  <2>1. ASSUME NEW j \in In({"LeftFiles", "Diff"}) \ Aside, Src[j].type = "file"
        PROVE  j \in Name /\ dst[j].ino = First(j) /\ SameFile(j, First(j))
    <3>1. j \in Name /\ j \notin gone /\ j \notin Aside
      BY DEF Aside, In
    <3>2. StateOf(j) /\ (j \in ToLink => LinkMade(j)) /\ (j \notin ToLink => Copied(j))
      BY <3>1 DEF MirrorInv, Made, Running, In, LinkMade, Copied, SecondPool, AfterWork
    <3>3. j \in ToLink => SameFile(j, links[j])
      BY DEF MirrorInv, Stored
    <3> QED BY <2>1, <3>1, <3>2, <3>3 DEF StateOf, Unmade, SameFile
  <2>2. /\ n \in Name /\ dst[n].ino = First(n) /\ SameFile(n, First(n))
        /\ k \in Name /\ dst[k].ino = First(k) /\ SameFile(k, First(k))
    BY <2>1
  <2>3. ASSUME SameFile(n, k), n # k, NEW g \in {"LeftFiles", "Diff"}, Group(n) \subseteq In({g}) \ gone
        PROVE  First(n) = First(k)
    <3>1. Linked(n) /\ Linked(k) /\ Group(k) = Group(n) /\ Src[n].ino = Src[k].ino
      BY <2>2, <2>3 DEF Linked, Group, SameFile
    <3>2. \A j \in {n, k} : First(j) = m[Src[j].ino]
      BY <2>2, <2>3, <3>1 DEF Sole, AfterWork
    <3> QED BY <3>1, <3>2
  <2> HIDE DEF First
  <2>4. First(n) = First(k) => SameFile(n, k)
    BY <2>2 DEF SameFile
  <2> QED BY <2>2, <2>3, <2>4
<1> QED BY <1>1, <1>2, NextSole, MirrorInductive, PTL DEF Spec

-----------------------------------------------------------------------------
(* A directory that has not its mtime is still to be given it: it is to be   *)
(* fixed up, or will be when the unit that changed it ends, or it is itself a *)
(* unit that is not done. *)
HasTime(d) == dst[d] # Absent /\ dst[d].ver = Src[d].ver
Owed(d) ==
  \/ d \in modified \/ fixerr
  \/ table[d] = "LeftDirs" /\ pc = "dirs" /\ d \notin Submitted
  \/ table[d] = "Diff" /\ ~Copied(d)
  \/ pc \in {"work", "links"} /\ \E n \in Name : Parent[n] = d /\ step[n] \in {"meta", "link"}
Settled(d) == Losing(d) \/ HasTime(d) \/ Owed(d)
Stamped ==
  /\ pc = "dirs" => In({"LeftDirs"}) \cap Submitted \subseteq modified
  /\ pc = "ok" => modified = {}
  /\ pc \in {"fixup", "ok"} => failed = {}
  /\ fixerr => pc \in {"fixup", "error"}
  /\ pc \in Running /\ failed = {} => \A d \in Dirs \ gone : Settled(d)

(* What a directory of the source is in the tables *)
LEMMA DirTables ==
  ASSUME MirrorInv, pc \in Running, NEW d \in Dirs
  PROVE  /\ d \in Name /\ Src[d].type = "dir" /\ Src[d] # Absent /\ d \notin ToLink
         /\ table[d] \in {"LeftDirs", "CommonDirs", "Diff"}
BY DEF MirrorInv, Judged, Stored, SameFile, Dirs, Absent

(* A directory that a step neither changes nor has to do with stays settled. *)
LEMMA StaysSettled ==
  ASSUME UNCHANGED <<pc, table, fixerr>>, modified \subseteq modified',
         NEW d \in Dirs, dst'[d] = dst[d], Copied(d)' <=> Copied(d),
         pc = "dirs" /\ table[d] = "LeftDirs" /\ d \in Submitted' => d \in Submitted \/ d \in modified',
         \A n \in Name : Parent[n] = d /\ step[n] \in {"meta", "link"} /\ pc \in {"work", "links"} =>
           step'[n] = step[n] \/ d \in modified',
         Settled(d)
  PROVE  Settled(d)'
<1>1. Losing(d)' <=> Losing(d)
  BY DEF Losing, In
<1>2. HasTime(d)' <=> HasTime(d)
  BY DEF HasTime
<1>3. Owed(d) => Owed(d)'
  BY DEF Owed
<1> QED BY <1>1, <1>2, <1>3 DEF Settled

(* A step inside a pool *)
LEMMA StampedStep ==
  ASSUME Stamped, pc \in Running, UNCHANGED <<pc, table, fixerr>>, gone \subseteq gone',
         pc = "ok" => modified' = modified, pc \in {"fixup", "ok"} => failed' = failed,
         failed \subseteq failed',
         pc = "dirs" => In({"LeftDirs"}) \cap Submitted' \subseteq modified',
         failed' = {} => \A d \in Dirs \ gone' : Settled(d) => Settled(d)'
  PROVE  Stamped'
<1>1. failed' = {} => failed = {}
  OBVIOUS
<1> QED BY <1>1 DEF Stamped, Dirs, In

(* While the new directories are made, only those that had their mtime and   *)
(* lack no directory have something to lose. *)
LEMMA DirsSettled ==
  ASSUME MirrorInv', pc' = "dirs", (In({"LeftDirs"}) \cap Submitted \subseteq modified)',
         NEW d \in Dirs, table'[d] = "CommonDirs" => (Losing(d) \/ HasTime(d) \/ d \in modified)'
  PROVE  Settled(d)'
<1>1. d \in Name /\ table'[d] \in {"LeftDirs", "CommonDirs", "Diff"}
  BY DEF MirrorInv, Judged, Running, Dirs
<1>2. ~Copied(d)'
  BY DEF Copied, AfterWork
<1> QED BY <1>1, <1>2 DEF Settled, Owed, In

(* What dst lacks above what is worked on after the directories were made *)
LEMMA AboveThere ==
  ASSUME MirrorInv, pc = "work", NEW n \in Name \ gone, Src[n] # Absent,
         NEW k \in Name, n \in Under[k], Src[k].type = "dir"
  PROVE  dst[k] # Absent
<1>1. k \notin gone
  BY DEF MirrorInv, Typed
<1>2. k \in Dirs
  BY DEF Dirs
<1>3. Src[k] # Absent /\ k \notin ToLink /\ table[k] \in {"LeftDirs", "CommonDirs", "Diff"}
  BY <1>2, DirTables DEF Running
<1>4. LackOf(k)
  BY DEF MirrorInv, Made, Running
<1> QED BY <1>1, <1>3, <1>4 DEF LackOf, MadeDir

(* MkdirAll makes nothing when nothing is missing. *)
LEMMA MkdirSame ==
  ASSUME IInv, MirrorInv, NEW n \in Name, \A k \in Above(n) \cup {n} : dst[k] # Absent, NEW k \in Name
  PROVE  MkdirAll(dst, n)[k] = dst[k]
<1> DEFINE u == MkdirAll(dst, n)
<1>1. dst = [j \in Name |-> dst[j]] /\ EntryOK(dst[k])
  BY DEF IInv, Shape, MirrorInv, Typed
<1>2. /\ dst[k] # Absent \/ k \notin Above(n) \cup {n} => Alike(dst, u, k)
      /\ (\A j \in Above(n) \cup {n} : dst[j] = Absent => Parent[j] # k) /\ dst[k] # Absent => u[k] = dst[k]
  BY <1>1, MkdirAlike
<1> HIDE DEF u
<1>3. CASE dst[k] # Absent
  BY <1>2, <1>3 DEF u
<1>4. CASE dst[k] = Absent
  <2>1. u[k] = Absent
    BY <1>2, <1>4 DEF Alike
  <2> QED BY <1>4, <2>1 DEF u
<1> QED BY <1>3, <1>4

(* A unit that ends well takes nothing from a directory it is not in. *)
LEMMA FineSettles ==
  ASSUME IInv, MirrorInv, Stamped, NEW n \in pending, Fine(n) \/ Broken(n) \/ Missing(n),
         UNCHANGED <<pc, table, gone, links, fixerr>>,
         NEW d \in Dirs \ {n}, failed' = {}, dst'[d] = dst[d], Settled(d)
  PROVE  Settled(d)'
<1>1. /\ pending' = pending \ {n} /\ finished' = finished \cup {n}
      /\ step' = [step EXCEPT ![n] = "none"] /\ failed' \in {failed, failed \cup {n}}
      /\ Broken(n) => failed' = failed \cup {n}
  BY EndsMirror
<1>2. Fine(n) /\ modified' = modified \cup Tracked(n)
  BY <1>1 DEF Missing, Fine
<1>3. n \in Name /\ step \in [Name -> {"none", "meta", "link", "lost"}] /\ StateOf(n) /\ Submitted' = Submitted
  BY <1>1, UnitMirror DEF Submitted
<1>4. pc \in {"work", "links"} /\ step[n] \in {"meta", "link"} => Parent[n] \in Tracked(n)
  <2>1. table[n] \in Right => pc = "work" /\ step[n] # "link"
    BY <1>3, UnitTables DEF StateOf, Unmade, Right
  <2> QED BY <1>3, <2>1 DEF Tracked, In, StateOf, Unmade
<1>5. Copied(d)' <=> Copied(d)
  BY <1>1 DEF Copied, Succeeded, ToLink
<1>6. \A k \in Name : Parent[k] = d /\ step[k] \in {"meta", "link"} /\ pc \in {"work", "links"} =>
        step'[k] = step[k] \/ d \in modified'
  BY <1>1, <1>2, <1>3, <1>4
<1> QED BY <1>2, <1>3, <1>5, <1>6, StaysSettled

(* A worker's unit ends: whatever it changed is a directory it tracks, or    *)
(* one that loses its mtime. *)
LEMMA EndStamped ==
  ASSUME IInv, MirrorInv, MirrorInv', Stamped, NEW n \in pending, Fine(n) \/ Broken(n) \/ Missing(n),
         UNCHANGED <<pc, table, gone, links, fixerr>>,
         failed' = {} => \A d \in Dirs \ gone :
            Losing(d) \/ HasTime(d)' \/ (d # n /\ dst'[d] = dst[d]) \/ d \in Tracked(n)
  PROVE  Stamped'
<1>1. /\ pending' = pending \ {n} /\ finished' = finished \cup {n}
      /\ failed' \in {failed, failed \cup {n}}
      /\ Broken(n) => failed' = failed \cup {n}
  BY EndsMirror
<1>2. modified \subseteq modified' /\ (failed' = {} => Tracked(n) \subseteq modified')
  BY <1>1 DEF Fine, Broken, Missing
<1>3. pc \in {"dirs", "work", "links"} /\ pc \in Running /\ n \in Name /\ Submitted' = Submitted
  BY <1>1, UnitTables DEF Running, Submitted
<1>4. ASSUME failed' = {}, NEW d \in Dirs \ gone, Settled(d) PROVE Settled(d)'
  <2>1. CASE Losing(d)
    BY <2>1 DEF Losing, In, Settled
  <2>2. CASE HasTime(d)'
    BY <2>2 DEF Settled
  <2>3. CASE d # n /\ dst'[d] = dst[d]
    BY <1>4, <2>3, FineSettles
  <2>4. CASE d \in Tracked(n)
    BY <1>2, <1>4, <2>4 DEF Settled, Owed
  <2> QED BY <1>4, <2>1, <2>2, <2>3, <2>4
<1>5. pc = "dirs" => In({"LeftDirs"}) \cap Submitted' \subseteq modified'
  BY <1>2, <1>3 DEF Stamped
<1> QED BY <1>1, <1>3, <1>4, <1>5, StampedStep

(* A step that changes no entry and finishes no unit *)
LEMMA QuietStamped ==
  ASSUME IInv, MirrorInv, MirrorInv', Stamped, pc \in Running,
         UNCHANGED <<pc, dst, table, finished, failed, fixerr>>, gone \subseteq gone',
         modified \subseteq modified', pc = "ok" => modified' = modified,
         \A k \in Name : step[k] \in {"meta", "link"} => step'[k] = step[k],
         pc = "dirs" => In({"LeftDirs"}) \cap Submitted' \subseteq modified'
  PROVE  Stamped'
<1>1. ASSUME NEW d \in Dirs, Settled(d) PROVE Settled(d)'
  <2>1. d \in Name /\ d \notin ToLink
    BY DirTables
  <2>2. d \notin ToLink'
    <3>1. d \in ToLink' => Src[d].type = "file"
      BY DEF MirrorInv, Stored, SameFile
    <3> QED BY <3>1 DEF Dirs
  <2>3. Copied(d)' <=> Copied(d)
    BY <2>1, <2>2 DEF Copied, Succeeded
  <2>4. dst'[d] = dst[d]
    OBVIOUS
  <2>5. pc = "dirs" /\ table[d] = "LeftDirs" /\ d \in Submitted' => d \in modified'
    BY <2>1 DEF In
  <2> QED BY <1>1, <2>3, <2>4, <2>5, StaysSettled
<1> QED BY <1>1, StampedStep

(* Units are submitted, the pool is closed, and somebody deletes from src. *)
LEMMA SubmittingStamped ==
  ASSUME IInv, MirrorInv, MirrorInv', Stamped, Submitting
  PROVE  Stamped'
<1>1. /\ UNCHANGED <<pc, dst, table, gone, step, finished, failed, fixerr>>
      /\ pc \in {"dirs", "work", "links"}
      /\ \/ UNCHANGED <<pending, modified>>
         \/ pc # "dirs" /\ modified' = modified
         \/ \E n \in Name : pending' = pending \cup {n} /\ modified' = modified \cup {n}
  <2>1. ASSUME NEW n \in Name, SubmitDir(n) \/ SubmitDel(n) \/ SubmitLink(n)
        PROVE  /\ UNCHANGED <<pc, dst, table, gone, step, finished, failed, fixerr>>
               /\ \/ pc \in {"work", "links"} /\ modified' = modified
                  \/ pc = "dirs" /\ pending' = pending \cup {n} /\ modified' = modified \cup {n}
    BY <2>1 DEF SubmitDir, SubmitDel, SubmitLink, Submit, WP!Submit, end
  <2>2. ASSUME NEW g \in {"Diff", "LeftFiles"}, NEW n \in Name, Track(g, n)
        PROVE  /\ UNCHANGED <<pc, dst, table, gone, step, finished, failed, fixerr>>
               /\ pc = "work" /\ modified' = modified
    BY <2>2 DEF Track, Submit, WP!Submit, end, pool
  <2>3. ASSUME NEW g \in {"Diff", "LeftFiles"}, Remember(g)
        PROVE  /\ UNCHANGED <<pc, dst, table, gone, step, finished, failed, fixerr>>
               /\ pc = "work" /\ modified' = modified
    <3>1. Submit(holding[g]) /\ modified' = modified /\ holding[g] # "none"
      BY <2>3 DEF Remember
    <3> QED BY <3>1 DEF Submit, WP!Submit, end, IInv, Held
  <2> QED BY <2>1, <2>2, <2>3 DEF Submitting
<1>2. pc = "dirs" => In({"LeftDirs"}) \cap Submitted' \subseteq modified'
  BY <1>1 DEF Stamped, Submitted
<1> QED BY <1>1, <1>2, QuietStamped DEF Running

(* A pool is closed, or Wait returns; a worker is lost; src loses a name. *)
LEMMA PoolStamped ==
  ASSUME IInv, MirrorInv, MirrorInv', Stamped,
         Close \/ Wait \/ \E n \in Name : Vanish(n) \/ PastShards(n)
  PROVE  Stamped'
<1> DEFINE Quiet ==
      /\ UNCHANGED <<pc, dst, table, modified, pending, finished, failed, fixerr>>
      /\ gone \subseteq gone'
      /\ \A k \in Name : step[k] \in {"meta", "link"} => step'[k] = step[k]
<1>1. Quiet
  <2>1. CASE Close \/ Wait
    BY <2>1 DEF Close, Wait, WP!Close, WP!Return, end
  <2>2. CASE \E n \in Name : Vanish(n)
    BY <2>2 DEF Vanish, end, pool
  <2>3. CASE \E n \in Name : PastShards(n)
    BY <2>3 DEF PastShards, end, pool, MirrorInv, Typed
  <2> QED BY <2>1, <2>2, <2>3
<1>2. pc = "dirs" => In({"LeftDirs"}) \cap Submitted' \subseteq modified'
  BY <1>1 DEF Stamped, Submitted
<1>3. CASE pc \in Running
  BY <1>1, <1>2, <1>3, QuietStamped
<1>4. CASE pc \notin Running
  BY <1>1, <1>2, <1>4 DEF Stamped, Running
<1> QED BY <1>3, <1>4

(* A directory that is common to both trees has its mtime. *)
LEMMA CompareStamped ==
  ASSUME IInv, MirrorInv, MirrorInv', Stamped, Compare
  PROVE  Stamped'
<1>1. /\ pc = "start" /\ pc' \in {"dirs", "error", "panic"}
      /\ UNCHANGED <<dst, gone, modified, fixerr, failed, pending, finished>>
      /\ pc' = "dirs" => table' = [n \in Name |-> Meaning(n)]
  BY DEF Compare, end, pool
<1>2. Submitted' = {} /\ ~fixerr
  BY <1>1 DEF MirrorInv, Typed, Stamped, Submitted
<1>3. ASSUME pc' = "dirs", NEW d \in Dirs PROVE Settled(d)'
  <2>1. d \in Name /\ table'[d] = Meaning(d) /\ Src[d] # Absent
    BY <1>1, <1>3 DEF Dirs, Absent
  <2>2. Meaning(d) = "CommonDirs" => HasTime(d)
    BY <2>1 DEF Meaning, HasTime
  <2>3. HasTime(d)' <=> HasTime(d)
    BY <1>1 DEF HasTime
  <2> QED BY <1>2, <1>3, <2>1, <2>2, <2>3, DirsSettled
<1>4. ~fixerr'
  BY <1>1, <1>2
<1> QED BY <1>1, <1>2, <1>3, <1>4 DEF Stamped, Running, Dirs

(* After a pool without errors its units are done. *)
LEMMA NextPoolStamped ==
  ASSUME IInv, MirrorInv, Stamped, NextPool
  PROVE  Stamped'
<1>1. /\ status = "returned" /\ finished' = {} /\ failed' = {}
      /\ pc \in {"dirs", "work", "links"}
      /\ \/ result = {} /\ pc = "dirs" /\ pc' = "work"
         \/ result = {} /\ pc = "work" /\ pc' = "links"
         \/ result = {} /\ pc = "links" /\ pc' = "fixup"
         \/ pc' = "error"
      /\ UNCHANGED <<dst, table, gone, step, modified, links, fixerr>>
  BY DEF NextPool, PoolDone, Following, hard, end
<1>2. ~fixerr' /\ pending = {} /\ result = failed /\ Submitted = finished /\ \A n \in Name : step[n] = "none"
  BY <1>1 DEF Stamped, MirrorInv, Typed, Waited, Submitted
<1>3. ASSUME pc' # "error", NEW d \in Dirs \ gone PROVE Settled(d)'
  <2>1. failed = {} /\ Settled(d) /\ d \in Name /\ d \notin ToLink /\ (d \notin ToLink)'
    BY <1>1, <1>2, <1>3, DirTables DEF Stamped, Running, ToLink
  <2>2. Losing(d)' <=> Losing(d)
    BY <1>1 DEF Losing, In
  <2>3. HasTime(d)' <=> HasTime(d)
    BY <1>1 DEF HasTime
  <2>4. Owed(d) => Owed(d)'
    <3>1. ~(table[d] = "LeftDirs" /\ pc = "dirs" /\ d \notin Submitted)
      BY <1>1, <2>1 DEF MirrorInv, Waited, In
    <3>2. table[d] = "Diff" /\ ~Copied(d) => table'[d] = "Diff" /\ ~Copied(d)'
      BY <1>1, <1>2, <1>3, <2>1 DEF Copied, Succeeded, IInv, Joined, In, SecondPool, AfterWork
    <3> QED BY <1>1, <1>2, <3>1, <3>2 DEF Owed, Stamped
  <2> QED BY <2>1, <2>2, <2>3, <2>4 DEF Settled
<1> QED BY <1>1, <1>2, <1>3 DEF Stamped, Running, Dirs

(* When fixup has met no error, every directory it had to fix has its mtime. *)
LEMMA ReturnStamped ==
  ASSUME IInv, MirrorInv, Stamped, Return
  PROVE  Stamped'
<1>1. /\ pc = "fixup" /\ modified = {} /\ pc' \in {"ok", "error"}
      /\ pc' = "ok" => ~fixerr
      /\ UNCHANGED <<dst, table, gone, step, modified, links, fixerr, failed>>
  BY DEF Return, hard, end, pool
<1>2. ASSUME pc' = "ok", NEW d \in Dirs \ gone PROVE Settled(d)'
  <2>1. failed = {} /\ Settled(d) /\ d \in Name /\ d \notin ToLink
    BY <1>1, DirTables DEF Stamped, Running
  <2>2. (Losing(d)' <=> Losing(d)) /\ (HasTime(d)' <=> HasTime(d))
    BY <1>1 DEF Losing, In, HasTime
  <2>3. ~Owed(d)
    BY <1>1, <1>2, <2>1 DEF Owed, Copied, SecondPool, AfterWork
  <2> QED BY <2>1, <2>2, <2>3 DEF Settled
<1>3. fixerr' => pc' = "error"
  BY <1>1
<1> QED BY <1>1, <1>2, <1>3 DEF Stamped, Running, Dirs

-----------------------------------------------------------------------------
(* What is made in the first pool: a directory that lacked one loses its     *)
(* mtime, or is new itself. *)
LEMMA MakeDirStamped ==
  ASSUME IInv, MirrorInv, MirrorInv', Stamped, NEW n \in pending \ gone, pc = "dirs",
         dst' = MkdirAll(dst, n), UNCHANGED <<pc, table, gone, pending, finished, failed, modified, fixerr>>
  PROVE  Stamped'
<1>1. /\ n \in Name /\ Src[n].type = "dir" /\ Submitted' = Submitted
      /\ In({"LeftDirs"}) \cap Submitted \subseteq modified
  <2>1. n \in Name /\ table[n] = "LeftDirs" /\ Src[n] # Absent
    BY DEF IInv, Units, In, Compared
  <2>2. Src[n].type = "dir"
    BY <2>1, Assumptions DEF MirrorInv, Judged, Running, EntryOK
  <2> QED BY <2>1, <2>2 DEF Stamped, Submitted
<1>2. ASSUME NEW k \in Above(n) \cup {n}, dst[k] = Absent
      PROVE  k \in Name /\ table[k] = "LeftDirs"
  <2>1. k \in Name /\ n \in Under[k]
    BY <1>1, Uppers
  <2>2. k \in Dirs
    BY <1>1, <2>1, UpperDirs DEF Dirs, Absent
  <2>3. k \notin gone
    BY <2>1 DEF MirrorInv, Typed
  <2>4. LackOf(k)
    BY <2>1 DEF MirrorInv, Made, Running
  <2> QED BY <1>2, <2>1, <2>2, <2>3, <2>4, DirTables DEF LackOf, Running
<1>3. ASSUME NEW d \in Dirs \ gone, failed = {} PROVE Settled(d)'
  <2>1. Settled(d) /\ d \in Name /\ EntryOK(dst[d]) /\ dst = [j \in Name |-> dst[j]] /\ ~fixerr
    BY <1>3 DEF Stamped, Dirs, MirrorInv, Typed, IInv, Shape, Running
  <2>2. table[d] = "CommonDirs" => Losing(d) \/ HasTime(d) \/ d \in modified
    BY <2>1 DEF Settled, Owed
  <2>3. (\A k \in Above(n) \cup {n} : dst[k] = Absent => Parent[k] # d) /\ dst[d] # Absent => dst'[d] = dst[d]
    BY <1>1, <2>1, MkdirAlike
  <2>4. (\E k \in Above(n) \cup {n} : dst[k] = Absent /\ Parent[k] = d) /\ table[d] = "CommonDirs" => Losing(d)
    BY <1>2 DEF Losing
  <2>5. table[d] = "CommonDirs" => (Losing(d) \/ HasTime(d) \/ d \in modified)'
    BY <2>2, <2>3, <2>4 DEF HasTime, Losing, In
  <2> QED BY <1>1, <2>5, DirsSettled DEF In
<1> QED BY <1>1, <1>3, StampedStep DEF Running, In

(* What is made in the second one: the directory it is in is tracked when    *)
(* the unit ends; no directory is made. *)
LEMMA MakeFileStamped ==
  ASSUME IInv, MirrorInv, MirrorInv', Stamped, NEW n \in pending \ gone, pc = "work", table[n] \notin Right,
         \/ Src[n].type = "dir" /\ dst' = MkdirAll(dst, n)
         \/ /\ Src[n].type # "dir"
            /\ dst' = Put(MkdirAbove(dst, n), n, [type |-> Src[n].type, ino |-> n, ver |-> "now"]),
         step[n] = "none", step' = [step EXCEPT ![n] = "meta"],
         UNCHANGED <<pc, table, gone, links, pending, finished, failed, modified, fixerr>>
  PROVE  Stamped'
<1>1. n \in Name /\ step \in [Name -> {"none", "meta", "link", "lost"}] /\ Submitted' = Submitted
  BY UnitTables, UnitMirror DEF Submitted
<1>2. Src[n] # Absent /\ Src[n].type \in {"dir", "file", "symlink"}
  BY <1>1, UnitTables, Assumptions DEF IInv, Compared, EntryOK, Right
<1>3. dst = [j \in Name |-> dst[j]] /\ \A k \in Name : EntryOK(dst[k])
  BY DEF IInv, Shape, MirrorInv, Typed
<1>4. ASSUME NEW d \in Dirs \ {n}, Parent[n] # d PROVE dst'[d] = dst[d]
  <2>1. d \in Name
    BY DEF Dirs
  <2>2. CASE Src[n].type = "dir" /\ dst' = MkdirAll(dst, n)
    <3>1. \A k \in Above(n) \cup {n} : dst[k] # Absent
      BY <1>1, <1>2, <2>2, Uppers, UpperDirs, AboveThere
    <3> QED BY <1>1, <2>1, <2>2, <3>1, MkdirSame
  <2>3. CASE /\ Src[n].type # "dir"
             /\ dst' = Put(MkdirAbove(dst, n), n, [type |-> Src[n].type, ino |-> n, ver |-> "now"])
    <3> DEFINE e == [type |-> Src[n].type, ino |-> n, ver |-> "now"]
    <3>1. e.type # "dir" /\ EntryOK(e)
      <4>1. DOMAIN e = {"type", "ino", "ver"} /\ e.type = Src[n].type
        OBVIOUS
      <4> HIDE DEF e
      <4> QED BY <1>2, <2>3, <4>1 DEF EntryOK
    <3>2. PICK u : u = MkdirAbove(dst, n)
      OBVIOUS
    <3>3. u = [j \in Name |-> u[j]]
      <4>1. MkdirAll(dst, Parent[n]) = [j \in Name |-> MkdirAll(dst, Parent[n])[j]]
        BY Trees
      <4> QED BY <1>3, <3>2, <4>1 DEF MkdirAbove
    <3>4. u[d] = dst[d]
      <4>1. CASE Parent[n] \in Name
        <5>1. \A k \in Above(Parent[n]) \cup {Parent[n]} : dst[k] # Absent
          BY <1>1, <1>2, <4>1, Lowers, AboveThere
        <5> QED BY <2>1, <3>2, <4>1, <5>1, MkdirSame DEF MkdirAbove
      <4>2. CASE Parent[n] \notin Name
        BY <3>2, <4>2 DEF MkdirAbove
      <4> QED BY <4>1, <4>2
    <3>5. dst' = Put(u, n, e)
      BY <2>3, <3>2
    <3> HIDE DEF e
    <3>6. Put(u, n, e)[d] = u[d]
      BY <1>1, <1>3, <1>4, <2>1, <3>1, <3>3, <3>4, PutAlike
    <3> QED BY <3>4, <3>5, <3>6
  <2> QED BY <2>2, <2>3
<1>5. ASSUME NEW d \in Dirs \ gone, Settled(d) PROVE Settled(d)'
  <2>1. CASE d = Parent[n]
    <3>1. step'[n] = "meta"
      BY <1>1
    <3> QED BY <1>1, <2>1, <3>1 DEF Settled, Owed
  <2>2. CASE d # Parent[n]
    <3>1. Copied(d)' <=> Copied(d)
      BY DEF Copied, Succeeded, ToLink
    <3>2. dst'[d] = dst[d]
      <4>1. CASE d # n
        BY <1>4, <2>2, <4>1
      <4>2. CASE d = n
        <5>1. Src[n].type = "dir" /\ dst' = MkdirAll(dst, n)
          BY <4>2 DEF Dirs
        <5>2. \A k \in Above(n) \cup {n} : dst[k] # Absent
          BY <1>1, <1>2, <5>1, Uppers, UpperDirs, AboveThere
        <5> QED BY <1>1, <4>2, <5>1, <5>2, MkdirSame
      <4> QED BY <4>1, <4>2
    <3>3. \A k \in Name : Parent[k] = d /\ step[k] \in {"meta", "link"} /\ pc \in {"work", "links"} => step'[k] = step[k]
      BY <1>1, <2>2
    <3> QED BY <1>1, <1>5, <3>1, <3>2, <3>3, StaysSettled
  <2> QED BY <2>1, <2>2
<1> QED BY <1>1, <1>5, StampedStep DEF Running

(* A unit is begun. *)
LEMMA MakeStamped ==
  ASSUME IInv, MirrorInv, MirrorInv', Stamped, NEW n \in Name, Make(n)
  PROVE  Stamped'
<1>1. /\ n \in pending /\ step[n] = "none" /\ UNCHANGED <<pc, table, gone, links, fixerr>>
      /\ pc = "dirs" \/ (pc = "work" /\ n \notin In(Right))
  BY DEF Make, Copying, hard, end
<1>2. CASE n \in gone /\ Missing(n) /\ UNCHANGED dst
  BY <1>1, <1>2, EndStamped
<1>3. CASE Broken(n)
  BY <1>1, <1>3, EndsMirror, EndStamped
<1>4. CASE /\ n \notin gone
           /\ \/ Src[n].type = "dir" /\ dst' = MkdirAll(dst, n)
              \/ /\ Src[n].type # "dir"
                 /\ dst' = Put(MkdirAbove(dst, n), n, [type |-> Src[n].type, ino |-> n, ver |-> "now"])
           /\ step' = [step EXCEPT ![n] = "meta"] /\ UNCHANGED <<pool, modified>>
  <2>1. UNCHANGED <<pending, finished, failed, modified>>
    BY <1>4 DEF pool
  <2>2. CASE pc = "dirs"
    <3>1. Src[n] # Absent /\ table[n] = "LeftDirs"
      BY <1>1, <2>2 DEF IInv, Units, Compared, In
    <3>2. Src[n].type = "dir"
      BY <1>1, <2>2, <3>1, Assumptions DEF MirrorInv, Judged, Running, EntryOK
    <3> QED BY <1>1, <1>4, <2>1, <2>2, <3>2, MakeDirStamped
  <2>3. CASE pc = "work" /\ table[n] \notin Right
    BY <1>1, <1>4, <2>1, <2>3, MakeFileStamped
  <2> QED BY <1>1, <2>2, <2>3 DEF In
<1> QED BY <1>2, <1>3, <1>4 DEF Make

(* It ends with the metadata, of a directory its mtime too. *)
LEMMA UpdateStamped ==
  ASSUME IInv, MirrorInv, MirrorInv', Stamped, NEW n \in Name, Update(n)
  PROVE  Stamped'
<1>1. /\ n \in pending /\ step[n] = "meta" /\ UNCHANGED <<pc, table, gone, links, fixerr>>
      /\ \/ Broken(n) /\ dst' = dst
         \/ (Fine(n) \/ Missing(n)) /\ dst' = Meta(dst, n)
  BY DEF Update, Copying, hard, end
<1>2. CASE Broken(n)
  BY <1>1, <1>2, EndsMirror, EndStamped
<1>3. CASE (Fine(n) \/ Missing(n)) /\ dst' = Meta(dst, n)
  <2>1. dst = [j \in Name |-> dst[j]] /\ EntryOK(dst[n]) /\ dst[n] # Absent
    BY <1>1, UnitMirror DEF StateOf, Unmade
  <2>2. HasTime(n)' /\ \A d \in Name \ {n} : dst'[d] = dst[d]
    BY <1>3, <2>1, MetaAlike DEF HasTime
  <2> QED BY <1>1, <1>3, <2>2, EndStamped DEF Dirs
<1> QED BY <1>1, <1>2, <1>3

(* What is below n, but n itself, is in a directory that is. *)
LEMMA UnderParent ==
  ASSUME NEW n \in Name, NEW k \in Under[n], k # n
  PROVE  Parent[k] \in Under[n]
<1> SUFFICES ASSUME Parent[k] \notin Under[n] PROVE FALSE
  OBVIOUS
<1> DEFINE S == Under[n] \ {k}
<1>1. \A j \in Name : Parent[j] \in S => j \in S
  BY UnderClosed DEF Under
<1>2. S \in SUBSET Name /\ n \in S /\ k \in Name
  BY UnderClosed
<1>3. k \in S
  BY <1>1, <1>2 DEF Under
<1> QED BY <1>3

(* What is deleted is missed by the directory it was in. *)
LEMMA DeleteStamped ==
  ASSUME IInv, MirrorInv, MirrorInv', Stamped, NEW n \in Name, Delete(n)
  PROVE  Stamped'
<1>1. /\ n \in pending /\ n \in In(Right) /\ UNCHANGED <<pc, table, gone, links, fixerr>>
      /\ Broken(n) \/ (Fine(n) /\ dst' = Removed(dst, Under[n]))
  BY DEF Delete, hard, end
<1>2. CASE Broken(n)
  BY <1>1, <1>2, EndsMirror, EndStamped
<1>3. CASE Fine(n) /\ dst' = Removed(dst, Under[n])
  <2>1. Src[n] = Absent
    BY <1>1 DEF IInv, Compared, In
  <2>2. ASSUME NEW d \in Dirs PROVE Losing(d) \/ (d # n /\ dst'[d] = dst[d])
    <3>1. d \in Name /\ Src[d] # Absent /\ EntryOK(dst[d])
      BY DEF Dirs, Absent, MirrorInv, Typed
    <3>2. d \notin Under[n] /\ d # n
      BY <2>1, <3>1, UnderAbsent
    <3>3. ASSUME NEW k \in Under[n], Parent[k] = d PROVE Losing(d)
      BY <1>1, <3>2, <3>3, UnderParent DEF Losing
    <3>4. (\A k \in Under[n] : Parent[k] # d) => dst'[d] = dst[d]
      BY <1>3, <3>1, <3>2, RemovedAlike
    <3> QED BY <3>2, <3>3, <3>4
  <2> QED BY <1>1, <1>3, <2>2, EndStamped
<1> QED BY <1>1, <1>2, <1>3

(* A name put aside is removed, then linked; both change its directory. *)
LEMMA UnlinkStamped ==
  ASSUME IInv, MirrorInv, MirrorInv', Stamped, NEW n \in Name, Unlink(n)
  PROVE  Stamped'
<1>1. /\ n \in pending /\ pc = "links" /\ step[n] = "none" /\ step' = [step EXCEPT ![n] = "link"]
      /\ dst' = Removed(dst, {n})
      /\ UNCHANGED <<pc, table, gone, links, fixerr, pending, finished, failed, modified>>
  BY DEF Unlink, hard, end, pool
<1>2. /\ n \in ToLink /\ step \in [Name -> {"none", "meta", "link", "lost"}] /\ Submitted' = Submitted
  BY <1>1, UnitMirror DEF IInv, Units, Submitted
<1>3. ASSUME NEW d \in Dirs \ gone, Settled(d) PROVE Settled(d)'
  <2>1. d \in Name /\ d # n /\ EntryOK(dst[d])
    BY <1>1, <1>2, DirTables DEF Running, MirrorInv, Typed
  <2>2. CASE d = Parent[n]
    <3>1. step'[n] = "link"
      BY <1>1, <1>2
    <3> QED BY <1>1, <2>2, <3>1 DEF Settled, Owed
  <2>3. CASE d # Parent[n]
    <3>1. dst'[d] = dst[d]
      BY <1>1, <2>1, <2>3, RemovedAlike
    <3>2. Copied(d)' <=> Copied(d)
      BY <1>1 DEF Copied, Succeeded, ToLink
    <3>3. \A k \in Name : Parent[k] = d /\ step[k] \in {"meta", "link"} /\ pc \in {"work", "links"} => step'[k] = step[k]
      BY <1>1, <1>2, <2>3
    <3> QED BY <1>1, <1>2, <1>3, <3>1, <3>2, <3>3, StaysSettled
  <2> QED BY <2>2, <2>3
<1> QED BY <1>1, <1>2, <1>3, StampedStep DEF Running

(* The directory of a link is tracked when the unit ends. *)
LEMMA LinkStamped ==
  ASSUME IInv, MirrorInv, MirrorInv', Stamped, NEW n \in Name, Link(n)
  PROVE  Stamped'
<1>1. PICK l, old : l = links[n] /\ old = dst[l]
  OBVIOUS
<1>2. /\ n \in pending /\ pc = "links" /\ UNCHANGED <<pc, table, gone, links, fixerr>>
      /\ Broken(n) \/ (Fine(n) /\ old # Absent /\ dst' = Put(dst, n, old))
  BY <1>1 DEF Link, hard, end
<1>3. CASE Broken(n)
  BY <1>2, <1>3, EndsMirror, EndStamped
<1>4. CASE Fine(n) /\ old # Absent /\ dst' = Put(dst, n, old)
  <2>1. /\ n \in ToLink /\ old.type = "file" /\ EntryOK(old)
    BY <1>1, <1>2, <1>4, LinkOld
  <2>2. Tracked(n) = {Parent[n]}
    BY <1>2, UnitTables DEF Tracked, In, Right
  <2>3. dst = [j \in Name |-> dst[j]] /\ \A k \in Name : EntryOK(dst[k])
    BY DEF IInv, Shape, MirrorInv, Typed
  <2>4. ASSUME NEW d \in Dirs PROVE (d # n /\ dst'[d] = dst[d]) \/ d \in Tracked(n)
    <3>1. d \in Name /\ d # n
      BY <1>2, <2>1, DirTables DEF Running
    <3> QED BY <1>4, <2>1, <2>2, <2>3, <3>1, PutAlike
  <2> QED BY <1>2, <1>4, <2>4, EndStamped
<1> QED BY <1>2, <1>3, <1>4

(* A directory that is fixed up has its mtime, or fixup has met an error. *)
LEMMA FixupStamped ==
  ASSUME IInv, MirrorInv, MirrorInv', Stamped, NEW c \in Name \cup {Root, Up}, Fixup(c)
  PROVE  Stamped'
<1> USE DEF Running
<1>1. /\ pc = "fixup" /\ modified' = modified \ {c}
      /\ UNCHANGED <<pc, table, gone, links, finished, failed>>
  BY DEF Fixup, Fixed, hard, end, pool
<1>2. fixerr => fixerr'
  BY Zenon DEF Fixup, end
<1>3. \/ dst' = dst /\ (c \in Dirs \ gone => fixerr')
      \/ c \in Name /\ dst[c] # Absent /\ dst' = Meta(dst, c)
  BY Assumptions DEF Fixup, Dirs, Absent
<1>4. ASSUME NEW d \in Dirs \ gone, Settled(d) PROVE Settled(d)'
  <2>1. /\ d \in Name /\ d \notin ToLink /\ EntryOK(dst[d]) /\ dst = [j \in Name |-> dst[j]]
        /\ \A k \in Name : EntryOK(dst[k])
    BY <1>1, DirTables DEF MirrorInv, Typed, IInv, Shape
  <2>2. Losing(d) => Losing(d)'
    BY <1>1 DEF Losing, In
  <2>3. HasTime(d) => HasTime(d)'
    BY <1>3, <2>1, MetaAlike DEF HasTime
  <2>4. Owed(d) => d \in modified \/ fixerr
    BY <1>1, <2>1 DEF Owed, Copied, SecondPool, AfterWork
  <2>5. CASE fixerr'
    BY <2>5, Zenon DEF Settled, Owed
  <2>6. CASE d \in modified /\ ~fixerr'
    <3>1. d # c => d \in modified'
      BY <1>1, <2>6
    <3>2. d = c => HasTime(d)'
      BY <1>3, <1>4, <2>1, <2>6, MetaAlike DEF HasTime
    <3> QED BY <3>1, <3>2 DEF Settled, Owed
  <2> QED BY <1>2, <1>4, <2>2, <2>3, <2>4, <2>5, <2>6 DEF Settled
<1> QED BY <1>1, <1>4 DEF Stamped, Dirs

(* Every step preserves it. *)
LEMMA NextStamped == IInv /\ MirrorInv /\ MirrorInv' /\ Stamped /\ [Next]_vars => Stamped'
<1> SUFFICES ASSUME IInv, MirrorInv, MirrorInv', Stamped, [Next]_vars PROVE Stamped'
  OBVIOUS
<1>1. CASE UNCHANGED vars
  <2>1. UNCHANGED <<pc, dst, table, gone, step, modified, links, pending, finished, failed, fixerr>>
    BY <1>1 DEF vars, hard, end, pool
  <2> QED BY <2>1 DEF Stamped, Settled, Losing, HasTime, Owed, Copied, Succeeded, Submitted, In, ToLink
<1>2. CASE Main
  BY <1>2, CompareStamped, PoolStamped, NextPoolStamped, ReturnStamped, FixupStamped DEF Main
<1>3. CASE Submitting
  BY <1>3, SubmittingStamped
<1>4. CASE Working
  BY <1>4, MakeStamped, UpdateStamped, PoolStamped, DeleteStamped, UnlinkStamped, LinkStamped DEF Working
<1>5. ASSUME NEW n \in Name, Vanish(n) PROVE Stamped'
  BY <1>5, PoolStamped
<1> QED BY <1>1, <1>2, <1>3, <1>4, <1>5 DEF Next, Stopped

(* When Tree returns nil, every directory of src has its mtime in dst, in    *)
(* whatever order the workers changed it, unless something was deleted from  *)
(* it or it is one of both trees that lacked a directory. *)
THEOREM DirsFixedHolds == Spec => []DirsFixed
<1>1. Init => Stamped
  BY DEF Init, WP!Init, Stamped, Running
<1>2. IInv /\ MirrorInv /\ Stamped => DirsFixed
  <2> SUFFICES ASSUME IInv, MirrorInv, Stamped, pc = "ok", NEW d \in Dirs \ gone
               PROVE  Losing(d) \/ dst[d].ver = Src[d].ver
    BY DEF DirsFixed
  <2>1. Settled(d) /\ modified = {} /\ ~fixerr
    BY DEF Stamped, Running
  <2>2. d \in Name /\ d \notin ToLink
    BY DirTables DEF Running
  <2>3. ~Owed(d)
    BY <2>1, <2>2 DEF Owed, Copied, SecondPool, AfterWork
  <2> QED BY <2>1, <2>3 DEF Settled, HasTime
<1> QED BY <1>1, <1>2, NextStamped, MirrorInductive, PTL DEF Spec
=============================================================================
