-------------------------- MODULE CloneFileProofs --------------------------
(***************************************************************************)
(* Proofs about CloneFile, for all files, contents, chunk sizes, failures  *)
(* and changes somebody else makes.  The inductive invariant says, for each *)
(* place the call can be at, what the temporary file holds of the source,  *)
(* and which updates of the metadata are done.                             *)
(***************************************************************************)
EXTENDS CloneFile, SequenceTheorems, TLAPS

Making == {"lstat", "mkdir", "symlink", "mknod"}
Opening == {"open", "stat", "create"}
Copying == {"clone", "size", "range", "map", "blocks", "close"}
Updating == {"clear", "set", "chown", "chmod", "times"}
Label == Making \cup Opening \cup Copying \cup Updating \cup {"done"}

Types ==
  /\ op \in Ops /\ src \in Inode /\ s \in Inode /\ fs \in [Inode -> Files]
  /\ fi \in Files /\ dst \in Files /\ tmp \in Files /\ before \in Files
  /\ aim \in Files /\ sz \in Nat /\ off \in Nat /\ changes \in Nat /\ unlisted \in BOOLEAN
  /\ pc \in Label
  /\ res \in {"none", "nil", "error"} /\ (res = "none" <=> pc # "done")

(* Of a source file only the data and the times change, of a regular one. *)
Known == UNION {Initially[i].xattr : i \in Inode}

Origin ==
  /\ \A i \in Inode :
       /\ fs[i].kind = Initially[i].kind /\ fs[i].to = Initially[i].to
       /\ fs[i].xattr = Initially[i].xattr
       /\ fs[i].kind \notin HasData => fs[i].data = <<>>
  /\ before \in Dests
  /\ aim.kind # "link" /\ (aim.kind \notin HasData => aim.data = <<>>)
  /\ fi.xattr \subseteq Known /\ dst.xattr \subseteq before.xattr \cup Known

(* Which call takes which way *)
Ways ==
  /\ pc \in Making \cup Updating => op # "CopyFile"
  /\ pc \in {"mkdir", "symlink", "mknod", "open", "create"} \cup Copying => op # "Metadata"
  /\ pc = "stat" => op = "CopyFile"
  /\ pc = "mkdir" => fi.kind = "dir"
  /\ pc = "symlink" => fi.kind = "link"
  /\ pc = "mknod" => fi.kind = "block"
  /\ pc \in {"open", "create"} \cup Copying /\ op = "File" => fi.kind = "reg"
  /\ pc \in {"map", "blocks"} => op = "CopyFile"

(* Until Close, dst is untouched; only while copying is there a temporary   *)
(* file, which nobody but the caller can use.                               *)
Given == IF op = "File" THEN "private" ELSE "given"

Staged ==
  /\ pc \in Making \cup Opening \cup Copying => dst = before /\ ~unlisted
  /\ pc \in Copying => tmp = Fresh("reg", tmp.data, Given)
  /\ pc \notin Copying => tmp = NoFile
  /\ tmp.kind \in {"none", "reg"}

(* What the temporary file holds, as long as nobody changed the source.     *)
(* After a short transfer the offset is past the data by what was copied,   *)
(* so that the rest can never be transferred to the end.                    *)
Data == fs[src].data
N == Len(Data)

InTmp ==
  /\ pc \in {"stat", "create"} \cup Copying => s = src
  /\ pc \in {"clone", "size", "map"} => tmp.data = <<>>
  /\ pc = "range" => /\ sz <= N /\ off = 2 * (N - sz)
                     /\ off = 0 => tmp.data = <<>>
                     /\ sz = 0 => tmp.data = Data
  /\ pc = "blocks" => sz = N /\ off <= N /\ tmp.data = SubSeq(Data, 1, off)
  /\ pc = "close" => tmp.data = Data

Cloned ==
  LET made == IF fs[src].kind = "dir" THEN Reached ELSE dst IN
  /\ fs[src].kind # "block" => made.kind = fs[src].kind /\ made.data = Data
  /\ dst.data = Data \/ (dst.kind = before.kind /\ dst.data = before.data)

Copied ==
  Steady =>
    /\ op # "CopyFile" /\ pc # "lstat" /\ res # "error" => fi = fs[src]
    /\ InTmp
    /\ (pc \in Updating \/ res = "nil") /\ op # "Metadata" => Cloned
    /\ res = "error" => (dst.kind = before.kind /\ dst.data = before.data) \/ (op # "Metadata" /\ dst.data = Data)
    /\ op = "Metadata" => dst.kind = before.kind /\ dst.data = before.data

(* Which updates are done *)
Updated ==
  LET nil == res = "nil" /\ op # "CopyFile" IN
  /\ pc = "clear" => ~unlisted
  /\ pc = "set" => dst.xattr = {}
  /\ (pc \in {"chown", "chmod", "times"} \/ nil) /\ ~unlisted =>
       fi.xattr \ dst.xattr \subseteq Caps /\ dst.xattr \subseteq fi.xattr
  /\ pc \in {"chmod", "times"} \/ nil => dst.owner = fi.owner
  /\ pc = "times" \/ nil => Reached.perm = fi.perm /\ Reached.suid = fi.suid
  /\ nil /\ fi.kind # "link" => Reached.times = fi.times

Guarded ==
  /\ NeverExposed
  /\ pc \in {"clear", "set", "chown"} /\ op = "File" /\ fi.kind = "reg" => dst.perm = "private"

IInv == Types /\ Origin /\ Ways /\ Staged /\ Copied /\ Updated /\ Guarded

-----------------------------------------------------------------------------
(* A record with one field replaced is one still; an inode has a file. *)
LEMMA FileTypes ==
  /\ NoFile \in Files /\ NoFile.kind = "none" /\ ~NoFile.suid /\ NoFile.xattr = {}
  /\ \A k \in Kinds, d \in Seq(Nat), p \in Values :
       /\ Fresh(k, d, p) \in Files /\ Fresh(k, d, p).kind = k /\ Fresh(k, d, p).data = d
       /\ Fresh(k, d, p).perm = p /\ ~Fresh(k, d, p).suid /\ Fresh(k, d, p).xattr = {}
<1>1. <<>> \in Seq(Nat)
  BY EmptySeq
<1>2. NoFile \in Files
  BY <1>1, Assumptions DEF NoFile, Files, Kinds
<1>3. ASSUME NEW k \in Kinds, NEW d \in Seq(Nat), NEW p \in Values
      PROVE  Fresh(k, d, p) \in Files
  BY <1>2, <1>3 DEF Fresh, Files
<1> QED BY <1>2, <1>3 DEF NoFile, Fresh

(* The same of a file without data *)
LEMMA FreshEmpty ==
  ASSUME NEW k \in Kinds, NEW p \in Values
  PROVE  LET f == Fresh(k, <<>>, p) IN
         f \in Files /\ f.kind = k /\ f.data = <<>> /\ ~f.suid /\ f.xattr = {}
<1>1. PICK e \in Seq(Nat) : e = <<>>
  BY EmptySeq
<1>2. LET f == Fresh(k, e, p) IN
      f \in Files /\ f.kind = k /\ f.data = e /\ ~f.suid /\ f.xattr = {}
  BY FileTypes
<1> QED BY <1>1, <1>2

(* The updates of the metadata come in this order. *)
LEMMA Order ==
  /\ Following("clear") = "chown"
  /\ Following("chown") = "chmod"
  /\ Following("chmod") = "times"
<1>1. (CHOOSE i \in 1..3 : MdUpdaters[i] = "clear") = 1
  BY DEF MdUpdaters
<1>2. (CHOOSE i \in 1..3 : MdUpdaters[i] = "chown") = 2
  BY DEF MdUpdaters
<1>3. (CHOOSE i \in 1..3 : MdUpdaters[i] = "chmod") = 3
  BY DEF MdUpdaters
<1> QED BY <1>1, <1>2, <1>3 DEF Following, MdUpdaters

(* While the source is opened and copied, and nobody changed it, it is a     *)
(* regular file.                                                             *)
LEMMA Regular ==
  ASSUME IInv, Steady, pc \in Opening \cup Copying
  PROVE  fs[src].kind = "reg"
BY Assumptions DEF IInv, Types, Ways, Copied, Steady, Opening, Copying

(* What the source is does not depend on the state of the call. *)
LEMMA SameSource ==
  ASSUME UNCHANGED <<fs, src, changes, op>>
  PROVE  Data' = Data /\ N' = N /\ Steady' = Steady
BY DEF Data, N, Steady

(* The initial states satisfy the invariant. *)
LEMMA InitIInv == Init => IInv
<1> SUFFICES ASSUME Init PROVE IInv
  OBVIOUS
<1> USE Assumptions, FileTypes DEF Init
<1>1. pc \in {"open", "lstat"} /\ (pc = "open" <=> op = "CopyFile")
  OBVIOUS
<1>2. Types
  <2>1. pc \in Label /\ (res = "none" <=> pc # "done")
    BY <1>1 DEF Label, Opening, Making
  <2>2. op \in Ops /\ src \in Inode /\ s \in Inode /\ fs \in [Inode -> Files] /\ fi \in Files
    OBVIOUS
  <2>3. dst \in Files /\ tmp \in Files /\ before \in Files /\ aim \in Files
    OBVIOUS
  <2> QED BY <2>1, <2>2, <2>3 DEF Types
<1>3. Origin
  BY DEF Origin
<1>4. Ways /\ Staged
  BY <1>1 DEF Ways, Staged, Making, Updating, Opening, Copying
<1>5. Copied
  BY <1>1 DEF Copied, InTmp, Opening, Copying, Updating
<1>6. Updated /\ Guarded
  BY <1>1 DEF Updated, Guarded, NeverExposed
<1> QED BY <1>2, <1>3, <1>4, <1>5, <1>6 DEF IInv

(* An error, wherever it comes from, leaves dst as it is. *)
LEMMA FailStep ==
  ASSUME IInv, Fail, pc # "done"
  PROVE  IInv'
<1> USE FileTypes DEF Fail, source, loop
<1>1. Types'
  BY DEF IInv, Types, Label
<1>2. Origin'
  BY DEF IInv, Origin
<1>3. Ways' /\ Staged'
  BY DEF Ways, Staged, Making, Updating, Opening, Copying
<1>4. Copied'
  <2>1. Steady => (dst.kind = before.kind /\ dst.data = before.data) \/ (op # "Metadata" /\ dst.data = Data)
    BY DEF IInv, Types, Staged, Copied, Cloned, Label
  <2>2. Steady /\ op = "Metadata" => dst.kind = before.kind /\ dst.data = before.data
    BY DEF IInv, Copied
  <2> QED BY <2>1, <2>2, SameSource DEF Copied, InTmp, Opening, Copying, Updating
<1>5. Updated' /\ Guarded'
  BY DEF IInv, Updated, Guarded, NeverExposed
<1> QED BY <1>1, <1>2, <1>3, <1>4, <1>5 DEF IInv

(* Lstat learns what the source is. *)
LEMMA LstatStep ==
  ASSUME IInv, Lstat
  PROVE  IInv'
<1>1. pc = "lstat"
  BY DEF Lstat
<1>2. CASE Fail
  BY <1>1, <1>2, FailStep
<1>3. CASE ~Fail
  <2> USE DEF source, dest, loop
  <2>1. /\ fi' = fs[src] /\ UNCHANGED <<op, res, s, source, dest, loop>>
        /\ fs[src].kind # "none"
        /\ \/ op = "Metadata" /\ pc' = "clear"
           \/ /\ op # "Metadata" /\ fs[src].kind \in {"reg", "dir", "link", "block"}
              /\ pc' = WayOf(fs[src].kind)
    BY <1>3 DEF Lstat, Kinds
  <2>2. /\ op = "Metadata" => pc' = "clear"
        /\ pc' \in {"clear", "open", "mkdir", "symlink", "mknod"} /\ (pc' = "clear" <=> op = "Metadata")
        /\ pc' = "open" => fs[src].kind = "reg"
        /\ pc' = "mkdir" => fs[src].kind = "dir"
        /\ pc' = "symlink" => fs[src].kind = "link"
        /\ pc' = "mknod" => fs[src].kind = "block"
    BY <2>1 DEF WayOf
  <2>3. op # "CopyFile" /\ dst = before /\ ~unlisted /\ res = "none" /\ tmp = NoFile
    BY <1>1 DEF IInv, Types, Ways, Staged, Making, Copying
  <2>4. fs[src] \in Files /\ fs[src].xattr \subseteq Known
    BY DEF IInv, Types, Origin, Known
  <2>5. Types'
    BY <2>1, <2>2, <2>3, <2>4 DEF IInv, Types, Label, Making, Opening, Updating
  <2>6. Origin'
    BY <2>1, <2>4 DEF IInv, Origin
  <2>7. Ways'
    BY <2>1, <2>2, <2>3 DEF Ways, Making, Opening, Updating, Copying
  <2>8. Staged'
    BY <2>1, <2>2, <2>3, FileTypes DEF Staged, Making, Opening, Updating, Copying
  <2>9. Copied'
    BY <2>1, <2>2, <2>3, SameSource DEF Copied, InTmp, Opening, Copying, Updating
  <2>10. Updated'
    BY <2>1, <2>2, <2>3 DEF Updated
  <2>11. Guarded'
    BY <2>1, <2>2, <2>3 DEF Guarded, NeverExposed
  <2> QED BY <2>5, <2>6, <2>7, <2>8, <2>9, <2>10, <2>11 DEF IInv
<1> QED BY <1>2, <1>3

(* A directory, a link or a device is made in one step, and the metadata     *)
(* comes next.                                                               *)
LEMMA MadeStep ==
  ASSUME IInv, pc \in {"mkdir", "symlink", "mknod"}, pc' = "clear",
         UNCHANGED <<op, res, fi, s, source, tmp, aim, unlisted, before, loop>>,
         dst' \in Files,
         \/ dst' = dst /\ Reached.kind = "dir" /\ pc = "mkdir"
         \/ /\ dst'.data = <<>> \/ dst'.data = fs[src].data
            /\ pc = "mkdir" => dst'.kind # "link"
            /\ ~dst'.suid /\ dst'.xattr = {}
            /\ dst'.kind = fi.kind \/ pc = "mknod"
            /\ pc = "symlink" => dst'.data = fs[src].data
  PROVE  IInv'
<1> USE DEF source, loop
<1>1. op = "File" /\ dst = before /\ ~unlisted /\ res = "none" /\ tmp = NoFile
  BY Assumptions DEF IInv, Types, Ways, Staged, Making, Copying
<1>2. fi.kind \in {"dir", "link", "block"} /\ (pc = "mkdir" <=> fi.kind = "dir") /\ (pc = "symlink" <=> fi.kind = "link")
  BY DEF IInv, Ways
<1>3. Types'
  BY DEF IInv, Types, Label, Updating
<1>4. Origin'
  BY DEF IInv, Origin
<1>5. Ways' /\ Staged'
  BY <1>1, FileTypes DEF Ways, Staged, Making, Opening, Updating, Copying
<1>6. Copied'
  <2> SUFFICES ASSUME Steady PROVE Copied'
    BY SameSource DEF Copied
  <2>1. fi = fs[src]
    BY <1>1 DEF IInv, Copied
  <2>2. fs[src].kind # "link" => fs[src].data = <<>>
    BY <1>2, <2>1 DEF IInv, Types, Origin, HasData
  <2>3. ASSUME dst' = dst /\ Reached.kind = "dir" /\ pc = "mkdir" PROVE Cloned'
    <3>1. Reached.data = <<>> /\ Reached' = Reached
      BY <1>1, <2>3, Assumptions DEF IInv, Origin, Reached, HasData
    <3>2. fs[src].kind = "dir" /\ fs[src].data = <<>> /\ fs' = fs /\ src' = src
      BY <1>2, <2>1, <2>2, <2>3
    <3>3. dst' = before'
      BY <1>1, <2>3
    <3> QED BY <2>3, <3>1, <3>2, <3>3 DEF Cloned, Data
  <2>4. ASSUME ~(dst' = dst /\ Reached.kind = "dir" /\ pc = "mkdir") PROVE Cloned'
    <3>1. dst'.data = Data
      BY <1>2, <2>1, <2>2, <2>4 DEF Data
    <3>2. fs[src].kind # "block" => dst'.kind = fs[src].kind
      BY <1>2, <2>1, <2>4 DEF IInv, Ways
    <3>3. fs[src].kind = "dir" => Reached' = dst'
      BY <1>2, <2>1, <3>2 DEF Reached
    <3>4. fs' = fs /\ src' = src
      OBVIOUS
    <3> HIDE DEF source, loop
    <3> QED BY <3>1, <3>2, <3>3, <3>4 DEF Cloned, Data
  <2>5. Cloned'
    BY <2>3, <2>4
  <2> QED BY <1>1, <2>1, <2>5, SameSource DEF Copied, InTmp, Opening, Copying, Updating
<1>7. Updated' /\ Guarded'
  BY <1>1, <1>2 DEF Updated, IInv, Guarded, NeverExposed
<1> QED BY <1>3, <1>4, <1>5, <1>6, <1>7 DEF IInv

(* Mkdir, Symlink and Mknod *)
LEMMA MakeStep ==
  ASSUME IInv, Mkdir \/ Symlink \/ Mknod
  PROVE  IInv'
<1>1. pc \in {"mkdir", "symlink", "mknod"} /\ dst = before /\ before \in Dests
  BY DEF Mkdir, Symlink, Mknod, IInv, Origin, Staged, Making
<1>3. fi.perm \in Values /\ fs[src].data \in Seq(Nat) /\ dst \in Files /\ "all" \in Values /\ <<>> \in Seq(Nat)
  BY Assumptions, EmptySeq DEF IInv, Types, Files
<1>4. CASE Fail
  BY <1>1, <1>4, FailStep
<1>5. CASE Mkdir /\ ~Fail
  <2>1. /\ pc = "mkdir" /\ fi.kind = "dir" /\ pc' = "clear"
        /\ UNCHANGED <<op, res, fi, s, source, tmp, aim, unlisted, before, loop>>
        /\ (dst' = dst /\ Reached.kind = "dir") \/ dst' = Fresh("dir", <<>>, fi.perm)
    BY <1>5 DEF Mkdir, IInv, Ways
  <2>2. "dir" \in Kinds
    BY DEF Kinds
  <2>3. LET f == Fresh("dir", <<>>, fi.perm) IN
        f \in Files /\ f.kind = "dir" /\ f.data = <<>> /\ ~f.suid /\ f.xattr = {}
    BY <1>3, <2>2, FreshEmpty
  <2>4. CASE dst' = dst /\ Reached.kind = "dir"
    BY <1>1, <1>3, <2>1, <2>4, MadeStep
  <2>5. CASE dst' = Fresh("dir", <<>>, fi.perm)
    BY <1>1, <2>1, <2>3, <2>5, MadeStep
  <2> QED BY <2>1, <2>4, <2>5
<1>6. CASE Symlink /\ ~Fail
  <2>1. /\ pc = "symlink" /\ fi.kind = "link" /\ pc' = "clear"
        /\ UNCHANGED <<op, res, fi, s, source, tmp, aim, unlisted, before, loop>>
        /\ dst' = Fresh("link", fs[src].data, "all")
    BY <1>6 DEF Symlink, IInv, Ways
  <2> QED BY <1>1, <1>3, <2>1, FileTypes, MadeStep DEF Kinds
<1>7. CASE Mknod /\ ~Fail
  <2>1. /\ pc = "mknod" /\ pc' = "clear"
        /\ UNCHANGED <<op, res, fi, s, source, tmp, aim, unlisted, before, loop>>
        /\ dst' = Fresh("reg", <<>>, fi.perm)
    BY <1>7 DEF Mknod
  <2>2. "reg" \in Kinds
    BY DEF Kinds
  <2>3. LET f == Fresh("reg", <<>>, fi.perm) IN
        f \in Files /\ f.data = <<>> /\ ~f.suid /\ f.xattr = {}
    BY <1>3, <2>2, FreshEmpty
  <2> QED BY <1>1, <2>1, <2>3, MadeStep
<1> QED BY <1>4, <1>5, <1>6, <1>7

(* Opening keeps everything but where the call is, which source file it has  *)
(* and what it knows of it.                                                  *)
LEMMA OpeningStep ==
  ASSUME IInv, pc \in Opening, UNCHANGED <<op, res, source, dest, loop>>,
         s' \in Inode, Steady => s' = src,
         \/ pc' = "stat" /\ op = "CopyFile" /\ fi' = fi
         \/ pc' = "create" /\ pc = "open" /\ op = "File" /\ fi' = fi
         \/ pc' = "create" /\ pc = "stat" /\ fi' = fs[src]
  PROVE  IInv'
<1> USE DEF source, dest, loop
<1>1. op # "Metadata" /\ dst = before /\ ~unlisted /\ res = "none" /\ tmp = NoFile
      /\ (pc = "stat" => op = "CopyFile") /\ (op = "File" => fi.kind = "reg")
  BY Assumptions DEF IInv, Types, Ways, Staged, Opening, Copying
<1>2. fs[src] \in Files /\ fs[src].xattr \subseteq Known
  BY DEF IInv, Types, Origin, Known
<1>3. Types'
  BY <1>1, <1>2 DEF IInv, Types, Label, Opening
<1>4. Origin'
  BY <1>2 DEF IInv, Origin
<1>5. Ways' /\ Staged'
  BY <1>1, FileTypes DEF Ways, Staged, Making, Opening, Updating, Copying
<1>6. Copied'
  BY <1>1, SameSource DEF IInv, Copied, InTmp, Opening, Copying, Updating
<1>7. Updated' /\ Guarded'
  BY <1>1 DEF Updated, IInv, Guarded, NeverExposed
<1> QED BY <1>3, <1>4, <1>5, <1>6, <1>7 DEF IInv

(* Open, Fstat *)
LEMMA OpenStep ==
  ASSUME IInv, Open \/ StatSrc
  PROVE  IInv'
<1>1. pc \in {"open", "stat"} /\ op \in {"File", "CopyFile"}
  BY Assumptions DEF Open, StatSrc, IInv, Types, Ways
<1>2. CASE Fail
  BY <1>1, <1>2, FailStep
<1>3. CASE Open /\ ~Fail
  <2>1. /\ s' = Opened(src) /\ UNCHANGED <<op, res, fi, source, dest, loop>>
        /\ pc' = IF op = "CopyFile" THEN "stat" ELSE "create"
        /\ pc = "open"
    BY <1>3 DEF Open
  <2>2. Opened(src) \in Inode
    BY Assumptions DEF Opened, IInv, Types, Origin
  <2>3. Steady => Opened(src) = src
    BY <1>1, Regular DEF Opened, Opening
  <2> QED BY <1>1, <2>1, <2>2, <2>3, OpeningStep DEF Opening
<1>4. CASE StatSrc /\ ~Fail
  <2>1. fi' = fs[src] /\ pc = "stat" /\ pc' = "create" /\ UNCHANGED <<op, res, s, source, dest, loop>>
    BY <1>4 DEF StatSrc
  <2>2. s \in Inode /\ (Steady => s = src)
    BY <2>1 DEF IInv, Types, Copied, InTmp
  <2> QED BY <1>1, <2>1, <2>2, OpeningStep DEF Opening
<1> QED BY <1>2, <1>3, <1>4

(* A step of the copy changes the temporary file's data and the loop, and   *)
(* nothing else.                                                             *)
LEMMA CopyingStep ==
  ASSUME IInv, pc \in {"create"} \cup Copying, pc' \in Copying,
         UNCHANGED <<op, res, fi, s, source, dst, aim, unlisted, before>>,
         pc' \in {"map", "blocks"} => op = "CopyFile",
         tmp' \in Files, tmp' = Fresh("reg", tmp'.data, Given),
         sz' \in Nat, off' \in Nat, Steady => InTmp'
  PROVE  IInv'
<1> USE DEF source
<1>1. op # "Metadata" /\ dst = before /\ ~unlisted /\ res = "none" /\ (op = "File" => fi.kind = "reg")
  BY DEF IInv, Types, Ways, Staged, Opening, Copying
<1>2. Given' = Given /\ Given \in Values /\ tmp'.kind = "reg"
  BY Assumptions DEF Given, Fresh, NoFile
<1>3. Types'
  BY <1>1 DEF IInv, Types, Label, Copying
<1>4. Origin'
  BY DEF IInv, Origin
<1>5. Ways' /\ Staged'
  BY <1>1, <1>2 DEF Ways, Staged, Making, Opening, Updating, Copying
<1>6. Copied'
  BY <1>1, SameSource DEF IInv, Copied, Opening, Copying, Updating
<1>7. Updated' /\ Guarded'
  BY <1>1 DEF Updated, IInv, Guarded, NeverExposed, Copying
<1> QED BY <1>3, <1>4, <1>5, <1>6, <1>7 DEF IInv

-----------------------------------------------------------------------------
(* The temporary file with other data is still one. *)
LEMMA TmpWith ==
  ASSUME IInv, pc \in Copying, NEW d \in Seq(Nat)
  PROVE  /\ [tmp EXCEPT !.data = d] \in Files
         /\ [tmp EXCEPT !.data = d] = Fresh("reg", d, Given)
         /\ [tmp EXCEPT !.data = d].data = d
<1>1. tmp \in Files /\ tmp = Fresh("reg", tmp.data, Given)
  BY DEF IInv, Types, Staged
<1>2. [tmp EXCEPT !.data = d] \in Files
  BY <1>1 DEF Files
<1>3. [Fresh("reg", tmp.data, Given) EXCEPT !.data = d] = Fresh("reg", d, Given)
  BY DEF Fresh, NoFile
<1>4. [tmp EXCEPT !.data = d].data = d
  BY <1>1 DEF Files
<1> QED BY <1>1, <1>2, <1>3, <1>4

(* A source file has a sequence of blocks. *)
LEMMA SourceData ==
  ASSUME IInv
  PROVE  Data \in Seq(Nat) /\ N \in Nat /\ fs[s].data \in Seq(Nat) /\ Len(fs[s].data) \in Nat
BY LenProperties DEF IInv, Types, Files, Data, N

(* A part of a sequence *)
LEMMA PartOf ==
  ASSUME NEW S, NEW q \in Seq(S), NEW a \in Nat, NEW m \in Nat, a + m <= Len(q)
  PROVE  /\ SubSeq(q, a + 1, a + m) \in Seq(S)
         /\ Len(SubSeq(q, a + 1, a + m)) = m
<1>1. \A i \in a + 1 .. a + m : q[i] \in S
  BY LenProperties, ElementOfSeq
<1> QED BY <1>1, SubSeqProperties

(* A function on 1..n is a sequence of length n. *)
LEMMA FunctionSeq ==
  ASSUME NEW S, NEW n \in Nat, NEW f \in [1 .. n -> S]
  PROVE  f \in Seq(S) /\ Len(f) = n /\ \A i \in 1 .. n : f[i] \in S
BY SeqDef

(* What is written past the end leaves a hole; what is written to an empty  *)
(* file from its start is what the file holds.                              *)
LEMMA WrittenIs ==
  ASSUME NEW data \in Seq(Nat), NEW at \in Nat, NEW part \in Seq(Nat)
  PROVE  /\ Written(data, at, part) \in Seq(Nat)
         /\ data = <<>> /\ at = 0 => Written(data, at, part) = part
<1> DEFINE end == at + Len(part)
           n == IF end > Len(data) THEN end ELSE Len(data)
           w == [i \in 1 .. n |-> IF i > at /\ i <= end THEN part[i - at]
                                  ELSE IF i <= Len(data) THEN data[i] ELSE Hole]
<1>1. w = Written(data, at, part)
  BY DEF Written
<1>2. /\ Len(part) \in Nat /\ Len(data) \in Nat
      /\ \A i \in 1 .. Len(part) : part[i] \in Nat
      /\ \A i \in 1 .. Len(data) : data[i] \in Nat
  BY LenProperties, ElementOfSeq
<1>3. n \in Nat /\ end \in Nat
  BY <1>2
<1>4. \A i \in 1 .. n : w[i] \in Nat
  <2> SUFFICES ASSUME NEW i \in 1 .. n PROVE w[i] \in Nat
    OBVIOUS
  <2>1. CASE i > at /\ i <= end
    <3>1. i - at \in 1 .. Len(part)
      BY <1>2, <1>3, <2>1
    <3> QED BY <1>2, <2>1, <3>1
  <2>2. CASE ~(i > at /\ i <= end)
    BY <1>2, <1>3, <2>2 DEF Hole
  <2> QED BY <2>1, <2>2
<1>5. w \in [1 .. n -> Nat]
  BY <1>4
<1>6. w \in Seq(Nat) /\ Len(w) = n
  <2> HIDE DEF w, n
  <2> QED BY <1>3, <1>5, FunctionSeq
<1>7. ASSUME data = <<>>, at = 0 PROVE w = part
  <2>1. Len(data) = 0
    BY <1>7, EmptySeq
  <2>2. end = Len(part) /\ n = Len(part)
    BY <1>2, <1>7, <2>1
  <2>3. Len(w) = Len(part)
    BY <1>6, <2>2
  <2>4. \A i \in 1 .. Len(part) : w[i] = part[i]
    BY <1>2, <1>7, <2>2
  <2> HIDE DEF w
  <2> QED BY <1>6, <2>3, <2>4, SeqEqual
<1> HIDE DEF w
<1> QED BY <1>1, <1>6, <1>7

(* MkdirAll, NewSafeFile: the temporary file is made empty. *)
LEMMA CreateStep ==
  ASSUME IInv, Create
  PROVE  IInv'
<1>1. pc = "create" /\ op \in {"File", "CopyFile"}
  BY Assumptions DEF Create, IInv, Types, Ways
<1>2. CASE Fail
  BY <1>1, <1>2, FailStep
<1>3. CASE ~Fail
  <2>1. /\ tmp' = Fresh("reg", <<>>, Given) /\ pc' \in {"clone", "map"} /\ (pc' = "map" => op = "CopyFile")
        /\ UNCHANGED <<op, res, fi, s, source, dst, aim, unlisted, before, loop>>
    BY <1>1, <1>3 DEF Create, Given
  <2>2. Given \in Values /\ "reg" \in Kinds
    BY Assumptions DEF Given, Kinds
  <2>3. tmp' \in Files /\ tmp'.data = <<>>
    BY <2>1, <2>2, FreshEmpty
  <2>4. sz' \in Nat /\ off' \in Nat
    BY <2>1 DEF loop, IInv, Types
  <2>5. Steady => s = src
    BY <1>1 DEF IInv, Types, Copied, InTmp
  <2>6. Steady => InTmp'
    BY <2>1, <2>3, <2>5 DEF InTmp, source
  <2> QED BY <1>1, <2>1, <2>3, <2>4, <2>6, CopyingStep DEF Copying
<1> QED BY <1>2, <1>3

(* FICLONE copies all, or the loop begins. *)
LEMMA CloneStep ==
  ASSUME IInv, CloneRange \/ Size \/ Map
  PROVE  IInv'
<1>1. pc \in {"clone", "size", "map"} /\ op \in {"File", "CopyFile"}
  BY Assumptions DEF CloneRange, Size, Map, IInv, Types, Ways, Copying
<1>2. CASE Fail
  BY <1>1, <1>2, FailStep
<1>3. CASE ~Fail
  <2>1. UNCHANGED <<op, res, fi, s, source, dst, aim, unlisted, before>>
    BY <1>3 DEF CloneRange, Size, Map, dest
  <2>2. Steady => s = src /\ tmp.data = <<>>
    BY <1>1 DEF IInv, Types, Copied, InTmp, Copying
  <2>3. tmp \in Files /\ tmp = Fresh("reg", tmp.data, Given) /\ sz \in Nat /\ off \in Nat
    BY <1>1 DEF IInv, Types, Staged, Copying
  <2>4. fs[s].data \in Seq(Nat) /\ Len(fs[s].data) \in Nat /\ N \in Nat
    BY SourceData
  <2>5. CASE tmp' = [tmp EXCEPT !.data = fs[s].data] /\ pc' = "close" /\ UNCHANGED loop
    <3>1. tmp' \in Files /\ tmp' = Fresh("reg", tmp'.data, Given) /\ tmp'.data = fs[s].data
      BY <1>1, <2>4, <2>5, TmpWith DEF Copying
    <3>2. Steady => InTmp'
      BY <2>1, <2>2, <2>5, <3>1 DEF InTmp, Data, source
    <3> QED BY <1>1, <2>1, <2>3, <2>5, <3>1, <3>2, CopyingStep DEF Copying, loop
  <2>6. CASE tmp' = tmp /\ pc' = "size" /\ UNCHANGED loop
    <3>1. Steady => InTmp'
      BY <2>1, <2>2, <2>6 DEF InTmp, source
    <3> QED BY <1>1, <2>1, <2>3, <2>6, <3>1, CopyingStep DEF Copying, loop
  <2>7. CASE tmp' = tmp /\ pc' = "range" /\ sz' = N /\ off' = 0
    <3>1. N = 0 /\ tmp.data = <<>> => tmp.data = Data
      BY SourceData, EmptySeq DEF N
    <3>2. Steady => InTmp'
      BY <2>1, <2>2, <2>4, <2>7, <3>1 DEF InTmp, source, N, Data
    <3> QED BY <1>1, <2>1, <2>3, <2>4, <2>7, <3>2, CopyingStep DEF Copying
  <2>8. CASE tmp' = tmp /\ pc' = "blocks" /\ pc = "map" /\ sz' = Len(fs[s].data) /\ off' = 0
    <3>1. op = "CopyFile"
      BY <2>8 DEF IInv, Ways
    <3>2. SubSeq(Data, 1, off') = <<>>
      BY <2>8, SourceData, SubSeqEmpty
    <3>3. Data' = Data /\ N' = N
      BY <2>1 DEF Data, N, source
    <3>4. Steady => sz' = N /\ off' <= N /\ s' = src'
      BY <2>1, <2>2, <2>4, <2>8 DEF N, Data, source
    <3>5. Steady => tmp'.data = SubSeq(Data', 1, off')
      BY <2>2, <2>8, <3>2, <3>3
    <3>6. Steady => InTmp'
      BY <2>8, <3>3, <3>4, <3>5 DEF InTmp
    <3> QED BY <1>1, <2>1, <2>3, <2>4, <2>8, <3>1, <3>6, CopyingStep DEF Copying
  <2>9. CASE CloneRange
    BY <1>3, <2>5, <2>6, <2>9 DEF CloneRange
  <2>10. CASE Size
    BY <1>3, <2>7, <2>10 DEF Size, dest, N, Data
  <2>11. CASE Map
    BY <1>3, <2>8, <2>11 DEF Map, dest
  <2> QED BY <2>9, <2>10, <2>11
<1> QED BY <1>2, <1>3

(* One transfer of copy_file_range: after one that is not the whole, the    *)
(* offset is twice what was copied, and the rest is never reached.          *)
LEMMA CopyRangeStep ==
  ASSUME IInv, CopyRange
  PROVE  IInv'
<1>1. pc = "range" /\ sz > 0 /\ sz \in Nat /\ off \in Nat /\ Chunk \in Nat \ {0}
  BY Assumptions DEF CopyRange, IInv, Types
<1>2. CASE Fail
  BY <1>1, <1>2, FailStep
<1>3. CASE ~Fail
  <2>1. PICK m \in 1 .. Asked :
          /\ off + m <= Len(fs[s].data)
          /\ tmp' = [tmp EXCEPT !.data = Written(@, off, SubSeq(fs[s].data, off + 1, off + m))]
          /\ sz' = sz - m /\ off' = off + m + m
          /\ UNCHANGED <<call, source, dst, aim, unlisted, before>>
    BY <1>3 DEF CopyRange, NothingCame
  <2> DEFINE part == SubSeq(fs[s].data, off + 1, off + m)
             new == Written(tmp.data, off, part)
  <2>2. m \in Nat \ {0} /\ m <= sz
    BY <1>1 DEF Asked, Least
  <2>3. fs[s].data \in Seq(Nat) /\ N \in Nat /\ Data \in Seq(Nat)
    BY SourceData
  <2>4. part \in Seq(Nat)
    BY <1>1, <2>1, <2>2, <2>3, PartOf
  <2>5. tmp.data \in Seq(Nat)
    BY DEF IInv, Types, Files
  <2>6. new \in Seq(Nat) /\ (tmp.data = <<>> /\ off = 0 => new = part)
    BY <1>1, <2>4, <2>5, WrittenIs
  <2>7. tmp' \in Files /\ tmp' = Fresh("reg", tmp'.data, Given) /\ tmp'.data = new
    BY <1>1, <2>1, <2>6, TmpWith DEF Copying
  <2>8. ASSUME Steady PROVE InTmp'
    <3>1. s = src /\ sz <= N /\ off = 2 * (N - sz) /\ (off = 0 => tmp.data = <<>>)
      BY <1>1, <2>8 DEF IInv, Types, Copied, InTmp, Copying
    <3>2. off + m <= N
      BY <2>1, <3>1 DEF N, Data
    <3>3. sz' <= N /\ off' = 2 * (N - sz') /\ off' # 0
      <4>1. sz' = sz - m /\ off' = off + m + m
        BY <2>1
      <4>2. sz' <= N /\ off' = 2 * (N - sz')
        BY <1>1, <2>2, <2>3, <3>1, <4>1
      <4> QED BY <1>1, <2>2, <4>1, <4>2
    <3>4. ASSUME sz' = 0 PROVE new = Data
      <4>1. m = sz /\ N = sz /\ off = 0
        BY <1>1, <2>1, <2>2, <2>3, <3>1, <3>2, <3>4
      <4>2. part = SubSeq(Data, 1, N)
        BY <3>1, <4>1 DEF Data
      <4>3. SubSeq(Data, 1, Len(Data)) = Data
        BY <2>3, SubSeqFull
      <4> QED BY <2>6, <3>1, <4>1, <4>2, <4>3 DEF N
    <3> HIDE DEF new
    <3>5. Data' = Data /\ N' = N
      BY <2>1 DEF Data, N, source
    <3> QED BY <1>1, <2>1, <2>7, <3>1, <3>3, <3>4, <3>5 DEF InTmp, call, source
  <2>9. sz' \in Nat /\ off' \in Nat
    BY <1>1, <2>1, <2>2
  <2>10. pc' = "range" /\ UNCHANGED <<op, res, fi, s, source, dst, aim, unlisted, before>>
    BY <1>1, <2>1 DEF call
  <2> HIDE DEF new
  <2> QED BY <1>1, <2>7, <2>8, <2>9, <2>10, CopyingStep DEF Copying
<1> QED BY <1>2, <1>3

(* The end of either loop *)
LEMMA EndStep ==
  ASSUME IInv, RangeEnd \/ BlocksEnd
  PROVE  IInv'
<1>1. (pc = "range" /\ sz = 0) \/ (pc = "blocks" /\ off = sz)
  BY DEF RangeEnd, BlocksEnd
<1>2. CASE Fail
  BY <1>1, <1>2, FailStep
<1>3. CASE ~Fail
  <2>1. pc' = "close" /\ UNCHANGED <<op, res, fi, s, source, dest, loop>>
    BY <1>3 DEF RangeEnd, BlocksEnd
  <2>2. tmp \in Files /\ tmp = Fresh("reg", tmp.data, Given) /\ sz \in Nat /\ off \in Nat
    BY <1>1 DEF IInv, Types, Staged, Copying
  <2>3. SubSeq(Data, 1, N) = Data
    BY SourceData, SubSeqFull DEF N
  <2>4. Steady => s = src /\ tmp.data = Data
    BY <1>1, <2>3 DEF IInv, Types, Copied, InTmp, Copying
  <2>5. Steady => InTmp'
    BY <2>1, <2>4 DEF InTmp, Data, source, dest
  <2> QED BY <1>1, <2>1, <2>2, <2>5, CopyingStep DEF Copying, dest, loop
<1> QED BY <1>2, <1>3

(* A mapped block is appended; if the file has become shorter, it fails. *)
LEMMA BlockStep ==
  ASSUME IInv, Block
  PROVE  IInv'
<1>1. pc = "blocks" /\ off < sz /\ sz \in Nat /\ off \in Nat /\ Chunk \in Nat \ {0} /\ op = "CopyFile"
  BY Assumptions DEF Block, IInv, Types, Ways
<1>2. CASE Fail
  BY <1>1, <1>2, FailStep
<1>3. CASE ~Fail
  <2> DEFINE m == Least(Chunk, sz - off)
             part == SubSeq(fs[s].data, off + 1, off + m)
  <2>1. m \in Nat \ {0} /\ off + m <= sz
    BY <1>1 DEF Least
  <2>2. fs[s].data \in Seq(Nat) /\ N \in Nat /\ Data \in Seq(Nat) /\ tmp.data \in Seq(Nat)
    BY SourceData DEF IInv, Types, Files
  <2>3. tmp \in Files /\ tmp = Fresh("reg", tmp.data, Given)
    BY <1>1 DEF IInv, Types, Staged, Copying
  <2>4. UNCHANGED <<op, res, fi, s, source, dst, aim, unlisted, before, sz>>
    BY <1>3 DEF Block, call, dest, loop
  <2>5. Steady => s = src /\ sz = N /\ tmp.data = SubSeq(Data, 1, off)
    BY <1>1 DEF IInv, Types, Copied, InTmp, Copying
  <2> HIDE DEF m
  <2>6. off + m <= Len(fs[s].data)
    BY <1>3 DEF Block, m
  <2>7. IInv'
    <3>1. /\ tmp' = [tmp EXCEPT !.data = tmp.data \o part]
          /\ off' = off + m /\ pc' = "blocks"
      BY <1>1, <1>3, <2>6 DEF Block, call, m
    <3>2. part \in Seq(Nat)
      BY <1>1, <2>1, <2>2, <2>6, PartOf
    <3>3. tmp.data \o part \in Seq(Nat)
      BY <2>2, <3>2, ConcatProperties
    <3>4. tmp' \in Files /\ tmp' = Fresh("reg", tmp'.data, Given) /\ tmp'.data = tmp.data \o part
      BY <1>1, <3>1, <3>3, TmpWith DEF Copying
    <3>5. ASSUME Steady PROVE InTmp'
      <4>1. SubSeq(Data, 1, off) \o SubSeq(Data, off + 1, off + m) = SubSeq(Data, 1, off + m)
        <5>1. 1 \in 1 .. N + 1 /\ off \in 1 - 1 .. N /\ off + m \in off .. N
          BY <1>1, <2>1, <2>2, <2>5, <3>5
        <5> QED BY <2>2, <5>1, ConcatAdjacentSubSeq DEF N
      <4>2. tmp'.data = SubSeq(Data, 1, off')
        BY <2>5, <3>1, <3>4, <3>5, <4>1 DEF Data
      <4>3. Data' = Data /\ N' = N
        BY <2>4 DEF Data, N, source
      <4>4. off' <= N /\ sz' = N
        BY <2>1, <2>4, <2>5, <3>1, <3>5
      <4> QED BY <2>4, <2>5, <3>1, <3>5, <4>2, <4>3, <4>4 DEF InTmp, source
    <3>6. off' \in Nat /\ sz' \in Nat
      BY <1>1, <2>1, <2>4, <3>1
    <3> QED BY <1>1, <2>4, <3>1, <3>4, <3>5, <3>6, CopyingStep DEF Copying
  <2> QED BY <2>7
<1> QED BY <1>2, <1>3

(* SafeFile.Close commits, and CopyFile is finished. *)
LEMMA CloseStep ==
  ASSUME IInv, Close
  PROVE  IInv'
<1>1. pc = "close" /\ op \in {"File", "CopyFile"} /\ res = "none" /\ ~unlisted
      /\ (op = "File" => fi.kind = "reg")
  BY Assumptions DEF Close, IInv, Types, Ways, Staged, Copying
<1>2. CASE Fail
  BY <1>1, <1>2, FailStep
<1>3. CASE ~Fail
  <2> USE DEF source, loop
  <2>1. /\ dst' = tmp /\ tmp' = NoFile
        /\ \/ op = "CopyFile" /\ pc' = "done" /\ res' = "nil"
           \/ op = "File" /\ pc' = "clear" /\ res' = "none"
        /\ UNCHANGED <<op, fi, s, source, aim, unlisted, before, loop>>
    BY <1>1, <1>3 DEF Close
  <2>2. tmp \in Files /\ tmp = Fresh("reg", tmp.data, Given)
    BY <1>1 DEF IInv, Types, Staged, Copying
  <2>3. Fresh("reg", tmp.data, Given).kind = "reg" /\ Fresh("reg", tmp.data, Given).perm = Given
        /\ ~Fresh("reg", tmp.data, Given).suid /\ Fresh("reg", tmp.data, Given).xattr = {}
    BY DEF Fresh, NoFile
  <2>4. dst'.kind = "reg" /\ dst'.perm = Given /\ ~dst'.suid /\ dst'.xattr = {} /\ dst'.data = tmp.data
    BY <2>1, <2>2, <2>3
  <2>5. Types'
    BY <1>1, <2>1, <2>2, FileTypes DEF IInv, Types, Label, Updating
  <2>6. Origin'
    BY <2>1, <2>4 DEF IInv, Origin
  <2>7. Ways' /\ Staged'
    BY <1>1, <2>1, FileTypes DEF Ways, Staged, Making, Opening, Updating, Copying
  <2>8. Copied'
    <3> SUFFICES ASSUME Steady PROVE Copied'
      BY <2>1, SameSource DEF Copied
    <3>1. fs[src].kind = "reg" /\ tmp.data = Data /\ (op = "File" => fi = fs[src])
      BY <1>1, Regular DEF IInv, Copied, InTmp, Copying
    <3>2. Cloned'
      BY <2>1, <2>4, <3>1 DEF Cloned, Data
    <3> QED BY <1>1, <2>1, <3>1, <3>2, SameSource DEF Copied, InTmp, Opening, Copying, Updating
  <2>9. Updated'
    BY <1>1, <2>1 DEF Updated
  <2>10. Guarded'
    BY <1>1, <2>1, <2>4 DEF Guarded, NeverExposed, Given
  <2> QED BY <2>5, <2>6, <2>7, <2>8, <2>9, <2>10 DEF IInv
<1> QED BY <1>2, <1>3

-----------------------------------------------------------------------------
(* One update of the metadata: what is left to show is that it does its part. *)
LEMMA UpdateStep ==
  ASSUME IInv, pc \in Updating,
         UNCHANGED <<op, fi, s, source, tmp, before, loop>>,
         \/ pc' \in {"set", "chown", "chmod", "times"} /\ res' = res
         \/ pc' = "done" /\ res' \in {"nil", "error"},
         dst' \in Files, dst'.kind = dst.kind, dst'.data = dst.data,
         dst'.xattr \subseteq before.xattr \cup Known,
         aim' \in Files, aim'.kind = aim.kind, aim'.data = aim.data, unlisted' \in BOOLEAN,
         Updated', Guarded'
  PROVE  IInv'
<1> USE DEF source, loop
<1>1. op \in {"File", "Metadata"} /\ res = "none" /\ tmp = NoFile
  BY Assumptions DEF IInv, Types, Ways, Staged, Updating, Copying
<1>2. Types'
  BY <1>1 DEF IInv, Types, Label, Updating
<1>3. Origin'
  BY DEF IInv, Origin
<1>4. Ways' /\ Staged'
  BY <1>1, FileTypes DEF Ways, Staged, Making, Opening, Updating, Copying
<1>5. Copied'
  <2> SUFFICES ASSUME Steady PROVE Copied'
    BY SameSource DEF Copied
  <2>1. /\ fi = fs[src]
        /\ op # "Metadata" => Cloned
        /\ op = "Metadata" => dst.kind = before.kind /\ dst.data = before.data
    BY <1>1 DEF IInv, Copied, Updating
  <2>2. Data' = Data /\ (op # "Metadata" => Cloned')
    BY <2>1, SameSource DEF Cloned, Reached
  <2>3. InTmp'
    BY <1>1 DEF InTmp, Opening, Copying
  <2> QED BY <1>1, <2>1, <2>2, <2>3 DEF Copied, Cloned
<1> QED BY <1>2, <1>3, <1>4, <1>5 DEF IInv

(* The attributes of a file are replaced by others. *)
LEMMA AttributesOf ==
  ASSUME NEW f \in Files, NEW x \in SUBSET Values
  PROVE  LET g == [f EXCEPT !.xattr = x] IN
         /\ g \in Files /\ g.kind = f.kind /\ g.data = f.data /\ g.owner = f.owner
         /\ g.perm = f.perm /\ g.suid = f.suid /\ g.times = f.times /\ g.xattr = x
BY DEF Files

(* Clearing the attributes, or failing to, and setting those of the source *)
LEMMA AttributeStep ==
  ASSUME IInv, Clear \/ SetXattr
  PROVE  IInv'
<1> USE DEF source, loop
<1>1. pc \in {"clear", "set"} /\ pc \in Updating /\ dst \in Files /\ fi \in Files /\ res = "none" /\ op # "CopyFile"
  BY DEF Clear, SetXattr, IInv, Types, Ways, Updating
<1>2. dst.xattr \subseteq Values /\ fi.xattr \subseteq Values /\ aim \in Files /\ unlisted \in BOOLEAN
  BY <1>1 DEF Files, IInv, Types
<1>3. /\ dst.xattr \subseteq before.xattr \cup Known /\ fi.xattr \subseteq Known
      /\ pc = "clear" => ~unlisted
      /\ pc = "set" => dst.xattr = {}
      /\ op = "File" /\ fi.kind = "reg" => dst.perm = "private"
      /\ dst.suid => dst.owner = fi.owner \/ (dst.owner = before.owner /\ before.suid)
  BY <1>1 DEF IInv, Origin, Updated, Guarded, NeverExposed
<1>4. PICK x \in SUBSET Values :
        /\ x \subseteq dst.xattr \cup fi.xattr
        /\ dst' = [dst EXCEPT !.xattr = x]
        /\ UNCHANGED <<op, fi, s, source, tmp, aim, before, loop>>
        /\ \/ pc' = "set" /\ res' = res /\ x = {} /\ unlisted' = unlisted
           \/ pc = "clear" /\ pc' = "chown" /\ res' = res /\ unlisted' = TRUE
           \/ pc = "set" /\ pc' = "chown" /\ res' = res /\ x = dst.xattr \cup fi.xattr /\ unlisted' = unlisted
           \/ pc' = "done" /\ res' = "error" /\ unlisted' = unlisted
  <2>1. CASE Clear
    <3>1. CASE dst.kind # "none" /\ Meta("set", [dst EXCEPT !.xattr = {}]) /\ UNCHANGED unlisted
      BY <3>1 DEF Meta
    <3>2. CASE \E kept \in SUBSET dst.xattr : Meta("chown", [dst EXCEPT !.xattr = kept]) /\ unlisted' = TRUE
      <4>1. PICK kept \in SUBSET dst.xattr : Meta("chown", [dst EXCEPT !.xattr = kept]) /\ unlisted' = TRUE
        BY <3>2
      <4>2. kept \in SUBSET Values /\ pc = "clear"
        BY <1>2, <2>1 DEF Clear
      <4> QED BY <4>1, <4>2 DEF Meta
    <3> QED BY <2>1, <3>1, <3>2, Order DEF Clear
  <2>2. CASE SetXattr
    <3>1. pc = "set" /\ dst.xattr \cup fi.xattr \in SUBSET Values
      BY <1>2, <2>2 DEF SetXattr
    <3>2. CASE Meta("chown", [dst EXCEPT !.xattr = @ \cup fi.xattr]) /\ UNCHANGED unlisted
      BY <3>1, <3>2 DEF Meta
    <3>3. CASE /\ \E some \in SUBSET fi.xattr : dst' = [dst EXCEPT !.xattr = @ \cup some]
               /\ pc' = "done" /\ res' = "error"
               /\ UNCHANGED <<op, fi, s, source, tmp, aim, unlisted, before, loop>>
      <4>1. PICK some \in SUBSET fi.xattr : dst' = [dst EXCEPT !.xattr = @ \cup some]
        BY <3>3
      <4>2. dst.xattr \cup some \in SUBSET Values /\ dst.xattr \cup some \subseteq dst.xattr \cup fi.xattr
        BY <1>2
      <4> QED BY <3>3, <4>1, <4>2
    <3> QED BY <2>2, <3>2, <3>3, Order DEF SetXattr
  <2> QED BY <2>1, <2>2
<1>5. /\ dst' \in Files /\ dst'.kind = dst.kind /\ dst'.data = dst.data /\ dst'.owner = dst.owner
      /\ dst'.perm = dst.perm /\ dst'.suid = dst.suid /\ dst'.xattr = x
  BY <1>1, <1>4, AttributesOf
<1>6. Updated'
  BY <1>1, <1>3, <1>4, <1>5 DEF Updated
<1>7. Guarded'
  BY <1>1, <1>3, <1>4, <1>5 DEF Guarded, NeverExposed
<1> QED BY <1>1, <1>2, <1>3, <1>4, <1>5, <1>6, <1>7, UpdateStep

(* The owner: the setuid bit and the capabilities of another file are lost. *)
LEMMA OwnerStep ==
  ASSUME IInv, Lchown
  PROVE  IInv'
<1> USE DEF source, loop
<1>1. pc = "chown" /\ pc \in Updating /\ dst \in Files /\ fi \in Files /\ res = "none" /\ op # "CopyFile"
      /\ aim \in Files /\ unlisted \in BOOLEAN
  BY DEF Lchown, IInv, Types, Ways, Updating
<1>2. CASE Fail
  BY <1>1, <1>2, FailStep DEF Updating
<1>3. CASE ~Fail
  <2>1. /\ dst' = Owned(dst) /\ pc' = "chmod"
        /\ UNCHANGED <<op, res, fi, s, source, tmp, aim, before, loop, unlisted>>
    BY <1>3, Order DEF Lchown, Meta
  <2>2. /\ dst' \in Files /\ dst'.kind = dst.kind /\ dst'.data = dst.data /\ dst'.owner = fi.owner
        /\ dst'.xattr \subseteq dst.xattr /\ dst.xattr \ dst'.xattr \subseteq Caps
    BY <1>1, <2>1 DEF Owned, Files
  <2>3. ~unlisted => fi.xattr \ dst.xattr \subseteq Caps /\ dst.xattr \subseteq fi.xattr
    BY <1>1 DEF IInv, Updated
  <2>4. dst'.xattr \subseteq before.xattr \cup Known
    BY <2>2 DEF IInv, Origin
  <2>5. Updated' /\ Guarded'
    BY <1>1, <2>1, <2>2, <2>3 DEF Updated, Guarded, NeverExposed
  <2> QED BY <1>1, <2>1, <2>2, <2>4, <2>5, UpdateStep
<1> QED BY <1>2, <1>3

(* The mode, of the file or of what a link points to *)
LEMMA ModeStep ==
  ASSUME IInv, Chmod
  PROVE  IInv'
<1> USE DEF source, loop
<1>1. pc = "chmod" /\ pc \in Updating /\ dst \in Files /\ fi \in Files /\ res = "none" /\ op # "CopyFile"
      /\ aim \in Files /\ unlisted \in BOOLEAN
  BY DEF Chmod, IInv, Types, Ways, Updating
<1>2. CASE Fail
  BY <1>1, <1>2, FailStep DEF Updating
<1>3. CASE ~Fail
  <2>1. /\ pc' = "times" /\ UNCHANGED <<op, res, fi, s, source, tmp, before, loop, unlisted>>
        /\ \/ dst.kind # "link" /\ dst' = [dst EXCEPT !.perm = fi.perm, !.suid = fi.suid] /\ aim' = aim
           \/ dst.kind = "link" /\ dst' = dst /\ aim' = [aim EXCEPT !.perm = fi.perm, !.suid = fi.suid]
    BY <1>3, Order DEF Chmod, Reached, Reach
  <2>2. /\ dst' \in Files /\ dst'.kind = dst.kind /\ dst'.data = dst.data /\ dst'.owner = dst.owner
        /\ dst'.xattr = dst.xattr
        /\ aim' \in Files /\ aim'.kind = aim.kind /\ aim'.data = aim.data
        /\ Reached'.perm = fi.perm /\ Reached'.suid = fi.suid
        /\ dst.kind = "link" => dst' = dst
        /\ dst.kind # "link" => dst'.suid = fi.suid
    <3> DEFINE Moded(f) == [f EXCEPT !.perm = fi.perm, !.suid = fi.suid]
    <3>1. ASSUME NEW f \in Files
          PROVE  LET g == Moded(f) IN
                 /\ g \in Files /\ g.kind = f.kind /\ g.data = f.data /\ g.owner = f.owner
                 /\ g.xattr = f.xattr /\ g.perm = fi.perm /\ g.suid = fi.suid
      BY <1>1 DEF Files
    <3>2. CASE dst.kind # "link" /\ dst' = Moded(dst) /\ aim' = aim
      <4> HIDE DEF Moded
      <4> QED BY <1>1, <3>1, <3>2 DEF Reached
    <3>3. CASE dst.kind = "link" /\ dst' = dst /\ aim' = Moded(aim)
      <4> HIDE DEF Moded
      <4> QED BY <1>1, <3>1, <3>3 DEF Reached
    <3> QED BY <2>1, <3>2, <3>3
  <2>3. /\ ~unlisted => fi.xattr \ dst.xattr \subseteq Caps /\ dst.xattr \subseteq fi.xattr
        /\ dst.owner = fi.owner
    BY <1>1 DEF IInv, Updated
  <2>4. dst'.xattr \subseteq before.xattr \cup Known
    BY <2>2 DEF IInv, Origin
  <2>5. Updated' /\ Guarded'
    BY <1>1, <2>1, <2>2, <2>3 DEF Updated, Guarded, NeverExposed
  <2> QED BY <1>1, <2>1, <2>2, <2>4, <2>5, UpdateStep
<1> QED BY <1>2, <1>3

(* The times, but of a link, and the call is finished. *)
LEMMA TimesStep ==
  ASSUME IInv, Chtimes
  PROVE  IInv'
<1> USE DEF source, loop
<1>1. pc = "times" /\ pc \in Updating /\ dst \in Files /\ fi \in Files /\ res = "none" /\ op # "CopyFile"
      /\ aim \in Files /\ unlisted \in BOOLEAN
  BY DEF Chtimes, IInv, Types, Ways, Updating
<1>2. CASE Fail
  BY <1>1, <1>2, FailStep DEF Updating
<1>3. CASE ~Fail
  <2>1. /\ pc' = "done" /\ res' = "nil" /\ UNCHANGED <<op, fi, s, source, tmp, before, loop, unlisted>>
        /\ \/ fi.kind = "link" /\ dst' = dst /\ aim' = aim
           \/ fi.kind # "link" /\ dst.kind = "link" /\ dst' = dst /\ aim' = [aim EXCEPT !.times = fi.times]
           \/ fi.kind # "link" /\ dst.kind # "link" /\ dst' = [dst EXCEPT !.times = fi.times] /\ aim' = aim
    BY <1>3 DEF Chtimes, Reached, Reach
  <2>2. /\ dst' \in Files /\ dst'.kind = dst.kind /\ dst'.data = dst.data /\ dst'.owner = dst.owner
        /\ dst'.xattr = dst.xattr /\ dst'.perm = dst.perm /\ dst'.suid = dst.suid
        /\ aim' \in Files /\ aim'.kind = aim.kind /\ aim'.data = aim.data
        /\ Reached'.perm = Reached.perm /\ Reached'.suid = Reached.suid
        /\ fi.kind # "link" => Reached'.times = fi.times
    BY <1>1, <2>1 DEF Files, Reached
  <2>3. /\ ~unlisted => fi.xattr \ dst.xattr \subseteq Caps /\ dst.xattr \subseteq fi.xattr
        /\ dst.owner = fi.owner
        /\ Reached.perm = fi.perm /\ Reached.suid = fi.suid
    BY <1>1 DEF IInv, Updated
  <2>4. dst'.xattr \subseteq before.xattr \cup Known
    BY <2>2 DEF IInv, Origin
  <2>5. Updated' /\ Guarded'
    BY <1>1, <2>1, <2>2, <2>3 DEF Updated, Guarded, NeverExposed
  <2> QED BY <1>1, <2>1, <2>2, <2>4, <2>5, UpdateStep
<1> QED BY <1>2, <1>3

(* Somebody else writes to a regular file, or gives src another: from then  *)
(* on nothing is promised of the data.                                      *)
LEMMA ChangeStep ==
  ASSUME IInv, Change
  PROVE  IInv'
<1> USE DEF call, dest, loop
<1>1. changes' = changes + 1 /\ changes \in Nat /\ UNCHANGED <<call, dest, loop>>
  BY DEF Change, IInv, Types
<1>2. /\ src' \in Inode /\ fs' \in [Inode -> Files]
      /\ \A i \in Inode :
           /\ fs'[i].kind = fs[i].kind /\ fs'[i].to = fs[i].to /\ fs'[i].xattr = fs[i].xattr
           /\ fs'[i].kind \notin HasData => fs'[i].data = fs[i].data
  <2>1. PICK i \in Inode : Rename(i) \/ \E c \in Contents : Write(i, c)
    BY DEF Change
  <2>2. CASE Rename(i)
    BY <2>2 DEF Rename, IInv, Types
  <2>3. CASE \E c \in Contents : Write(i, c)
    <3>1. PICK c \in Contents : Write(i, c)
      BY <2>3
    <3>2. c \in Seq(Nat) /\ "now" \in Values
      BY Assumptions
    <3>3. fs \in [Inode -> Files] /\ src \in Inode
      BY DEF IInv, Types
    <3>4. /\ fs' = [fs EXCEPT ![i].data = c, ![i].times = "now"]
          /\ src' = src /\ fs[i].kind = "reg"
      BY <3>1 DEF Write
    <3>5. \A j \in Inode : j # i => fs'[j] = fs[j]
      BY <3>3, <3>4
    <3>6. fs'[i] = [fs[i] EXCEPT !.data = c, !.times = "now"]
      BY <3>3, <3>4
    <3>7. /\ fs'[i] \in Files /\ fs'[i].kind = fs[i].kind /\ fs'[i].to = fs[i].to /\ fs'[i].xattr = fs[i].xattr
      BY <3>2, <3>3, <3>6 DEF Files
    <3>8. fs' \in [Inode -> Files]
      <4>1. fs' = [j \in Inode |-> fs'[j]]
        BY <3>3, <3>4
      <4> QED BY <3>3, <3>5, <3>7, <4>1
    <3> QED BY <3>3, <3>4, <3>5, <3>7, <3>8 DEF HasData
  <2> QED BY <2>1, <2>2, <2>3
<1>3. ~Steady'
  BY <1>1 DEF Steady
<1>4. Types'
  BY <1>1, <1>2 DEF IInv, Types
<1>5. Origin'
  BY <1>1, <1>2 DEF IInv, Origin
<1>6. Ways' /\ Staged' /\ Copied'
  BY <1>1, <1>3 DEF IInv, Ways, Staged, Copied, Given
<1>7. Updated' /\ Guarded'
  BY <1>1 DEF IInv, Updated, Guarded, NeverExposed, Reached
<1> QED BY <1>4, <1>5, <1>6, <1>7 DEF IInv

(* Nothing of the invariant changes without a step. *)
LEMMA Stutter ==
  ASSUME IInv, UNCHANGED vars
  PROVE  IInv'
<1> USE DEF vars, call, source, dest, loop
<1>1. Types' /\ Origin' /\ Ways' /\ Staged'
  BY DEF IInv, Types, Origin, Ways, Staged, Given
<1>2. Copied'
  BY SameSource DEF IInv, Copied, InTmp, Cloned, Reached
<1>3. Updated' /\ Guarded'
  BY DEF IInv, Updated, Guarded, NeverExposed, Reached
<1> QED BY <1>1, <1>2, <1>3 DEF IInv

(* Every step of the call, and of somebody else, keeps the invariant. *)
LEMMA NextIInv == IInv /\ [Next]_vars => IInv'
<1> SUFFICES ASSUME IInv, [Next]_vars PROVE IInv'
  OBVIOUS
<1>1. CASE Make
  BY <1>1, LstatStep, MakeStep DEF Make
<1>2. CASE Begin
  BY <1>2, OpenStep, CreateStep DEF Begin
<1>3. CASE Copy
  BY <1>3, CloneStep, CopyRangeStep, EndStep, BlockStep, CloseStep DEF Copy
<1>4. CASE Metadata
  BY <1>4, AttributeStep, OwnerStep, ModeStep, TimesStep DEF Metadata
<1>5. CASE Change
  BY <1>5, ChangeStep
<1>6. CASE UNCHANGED vars
  BY <1>6, Stutter
<1> QED BY <1>1, <1>2, <1>3, <1>4, <1>5, <1>6 DEF Next, Returned

(* The invariant holds of every behaviour of the specification. *)
THEOREM Inductive == Spec => []IInv
BY InitIInv, NextIInv, PTL DEF Spec

(* The state is well typed: the data of dst is a sequence of blocks, its     *)
(* attributes come from the source or from what dst was, and what is left to *)
(* copy is never negative.                                                   *)
THEOREM TypeCorrect == Spec => []TypeOK
<1>1. IInv => TypeOK
  <2> SUFFICES ASSUME IInv PROVE TypeOK
    OBVIOUS
  <2>1. /\ op \in Ops /\ src \in Inode /\ s \in Inode /\ sz \in Nat /\ off \in Nat
        /\ dst.kind \in Kinds /\ tmp.kind \in {"none", "reg"}
        /\ dst.data \in Seq(Nat) /\ tmp.data \in Seq(Nat)
        /\ res \in {"none", "nil", "error"} /\ (res = "none" <=> pc # "done")
    BY DEF IInv, Types, Staged, Files
  <2>2. Known \subseteq UNION {fs[i].xattr : i \in Inode}
    BY DEF IInv, Origin, Known
  <2>3. dst.xattr \subseteq UNION ({before.xattr} \cup {fs[i].xattr : i \in Inode})
    BY <2>2 DEF IInv, Origin
  <2> QED BY <2>1, <2>3 DEF TypeOK
<1> QED BY <1>1, Inductive, PTL

(* A copy that returns nil is the source, byte for byte, if nobody changed   *)
(* the source meanwhile: although after a short transfer the loop goes on at *)
(* twice the offset, it never commits what it has then.  A directory may be  *)
(* what dst, a link, refers to.                                              *)
THEOREM FaithfulHolds == Spec => []Faithful
<1>1. IInv => Faithful
  BY DEF IInv, Copied, Cloned, Data, Faithful
<1> QED BY <1>1, Inductive, PTL

(* Whatever fails, dst has its old data or all of the source's, and the      *)
(* temporary file is gone.                                                   *)
THEOREM OldOrNewHolds == Spec => []OldOrNew
<1>1. IInv => OldOrNew
  BY DEF IInv, Types, Ways, Staged, Copied, Cloned, Data, OldOrNew, Label, Copying
<1> QED BY <1>1, Inductive, PTL

(* Only a finished update returns nil: owner, mode, times and attributes are *)
(* those of the source, but for capabilities, and for attributes that could  *)
(* not be cleared; mode and times are those of what dst refers to, if it is  *)
(* a link.                                                                   *)
THEOREM MetaClonedHolds == Spec => []MetaCloned
<1>1. IInv => MetaCloned
  BY DEF IInv, Updated, MetaCloned
<1> QED BY <1>1, Inductive, PTL

(* A new file is open to others, or runs as its owner, only once the owner   *)
(* is the one it is meant for.                                               *)
THEOREM NeverExposedHolds == Spec => []NeverExposed
<1>1. IInv => NeverExposed
  BY DEF IInv, Guarded
<1> QED BY <1>1, Inductive, PTL
=============================================================================
