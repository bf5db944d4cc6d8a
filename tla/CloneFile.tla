----------------------------- MODULE CloneFile -----------------------------
(***************************************************************************)
(* One call of fio.CopyFile (copyfile.go, copy_linux.go, copy_mmap.go), of *)
(* clone.File or of clone.Metadata (clone/file.go), and somebody else who  *)
(* may change the source meanwhile.  A step is a system call or a group of *)
(* calls that nobody else can come between.  The temporary file is what    *)
(* AtomicFile promises: Close commits all of it, or nothing.               *)
(***************************************************************************)
EXTENDS Naturals, Sequences

CONSTANTS
  Ops,       \* the calls: among "CopyFile", "File", "Metadata"
  Inode,     \* the files of the source's file system
  Initially, \* Initially[i]: file i at first
  Sources,   \* the inodes the name src may refer to at first
  Dests,     \* the files dst may be at first
  Aims,      \* what dst may refer to whenever it is a link
  Values,    \* what an owner, a mode, a time and an attribute may be
  Contents,  \* what somebody else may write into a source file
  Chunk,     \* _ioChunkSize, in blocks
  Reflink,   \* what FICLONE may say: among "ok", "unsupported"
  Caps,      \* the attributes the kernel drops when the owner is set
  Fails,     \* the operations that may fail
  MaxChanges \* bound on the changes somebody else makes

Kinds == {"none", "reg", "dir", "link", "block", "other"}
NoFile == [kind |-> "none", data |-> <<>>, dev |-> 0, to |-> 0, owner |-> "me",
           perm |-> "private", suid |-> FALSE, times |-> "now", xattr |-> {}]
Hole == 0   \* a block nobody wrote

(* the data of a link is where it points *)
Files ==
  [kind : Kinds, data : Seq(Nat), dev : Nat, to : Inode \cup {0}, owner : Values,
   perm : Values, suid : BOOLEAN, times : Values, xattr : SUBSET Values]
HasData == {"reg", "link"}

ASSUME Assumptions ==
  /\ Ops \subseteq {"CopyFile", "File", "Metadata"}
  /\ {"me", "private", "given", "all", "now"} \subseteq Values
  /\ Sources \subseteq Inode
  /\ Initially \in [Inode -> Files] /\ Dests \subseteq Files /\ Aims \subseteq Files
  /\ \A i \in Inode : /\ Initially[i].data \in Seq(Nat \ {Hole})
                      /\ Initially[i].kind \notin HasData => Initially[i].data = <<>>
                      /\ Initially[i].kind = "link" => Initially[i].to \in Inode
  /\ \A d \in Dests \cup Aims : d.kind \notin HasData => d.data = <<>>
  /\ \A a \in Aims : a.kind # "link"
  /\ \A c \in Contents : c \in Seq(Nat \ {Hole})
  /\ Chunk \in Nat \ {0} /\ MaxChanges \in Nat

VARIABLES
  op,         \* the call
  fs,         \* the source's file system
  src,        \* the inode the name src refers to
  s,          \* the inode that is open as s
  fi,         \* the Info of the source, a copy
  dst, tmp,   \* what the real and the temporary name of the destination refer to
  aim,        \* the file that dst points to, if dst is a link
  sz, off,    \* of the copying loop: what is left, and roff, which woff equals
  pc, res,    \* where the call is, and what it returned
  unlisted,   \* history: clearing the attributes failed
  changes,    \* history: changes somebody else made
  before      \* history: dst at first

call == <<op, pc, res, fi, s>>
source == <<fs, src, changes>>
dest == <<dst, tmp, aim, unlisted, before>>
loop == <<sz, off>>
vars == <<call, source, dest, loop>>

May(o) == o \in Fails
Fresh(kind, data, perm) ==
  [NoFile EXCEPT !.kind = kind, !.data = data, !.perm = perm]

Init ==
  /\ op \in Ops
  /\ fs = Initially /\ src \in Sources /\ s = src
  /\ fi = NoFile
  /\ dst \in Dests /\ before = dst /\ tmp = NoFile /\ aim \in Aims
  /\ sz = 0 /\ off = 0
  /\ pc = (IF op = "CopyFile" THEN "open" ELSE "lstat") /\ res = "none"
  /\ unlisted = FALSE /\ changes = 0

(* mutant: Abort is not deferred *)
FailLeaving ==
  /\ pc' = "done" /\ res' = "error"
  /\ UNCHANGED <<op, fi, s, source, dst, tmp, aim, unlisted, before, loop>>

(* An error is returned; the deferred Abort removes the temporary file. *)
Fail ==
  /\ pc' = "done" /\ res' = "error" /\ tmp' = NoFile
  /\ UNCHANGED <<op, fi, s, source, dst, aim, unlisted, before, loop>>

(* What open(2) finds under a name: links are followed. *)
Opened(i) == IF fs[i].kind = "link" THEN fs[i].to ELSE i

(* What stat(2), chmod(2) and utimensat(2) find under the name dst *)
Reached == IF dst.kind = "link" THEN aim ELSE dst
Reach(new) ==
  IF dst.kind = "link" THEN aim' = new /\ UNCHANGED dst ELSE dst' = new /\ UNCHANGED aim

-----------------------------------------------------------------------------
(* clone.File: Lstat, then one way for each kind *)

WayOf(kind) == CASE kind = "reg" -> "open" [] kind = "dir" -> "mkdir"
                 [] kind = "link" -> "symlink" [] kind = "block" -> "mknod"

Lstat ==
  /\ pc = "lstat"
  /\ \/ /\ fs[src].kind \in IF op = "Metadata" THEN Kinds \ {"none"}
                                               ELSE {"reg", "dir", "link", "block"}
        /\ fi' = fs[src]
        /\ pc' = IF op = "Metadata" THEN "clear" ELSE WayOf(fs[src].kind)
        /\ UNCHANGED <<op, res, s, source, dest, loop>>
     \/ (fs[src].kind = "none" \/ May("lstat")) /\ Fail
     \/ (fs[src].kind = "other" /\ op = "File") /\ Fail

(* MkdirAll is content with a link to a directory. *)
Mkdir ==
  /\ pc = "mkdir"
  /\ \/ /\ dst.kind = "none" \/ Reached.kind = "dir"
        /\ dst' = IF dst.kind = "none" THEN Fresh("dir", <<>>, fi.perm) ELSE dst
        /\ pc' = "clear"
        /\ UNCHANGED <<op, res, fi, s, source, tmp, aim, unlisted, before, loop>>
     \/ ((dst.kind # "none" /\ Reached.kind # "dir") \/ May("create")) /\ Fail

(* Readlink, then Symlink, which replaces nothing *)
Symlink ==
  /\ pc = "symlink"
  /\ \/ /\ fs[src].kind = "link" /\ dst.kind = "none"
        /\ dst' = Fresh("link", fs[src].data, "all")
        /\ pc' = "clear"
        /\ UNCHANGED <<op, res, fi, s, source, tmp, aim, unlisted, before, loop>>
     \/ (fs[src].kind # "link" \/ dst.kind # "none" \/ May("create")) /\ Fail

(* The mode given to mknod(2) is Go's: its type bits are not those of the  *)
(* kernel, which takes their absence for a regular file.                   *)
Mknod ==
  /\ pc = "mknod"
  /\ \/ /\ dst.kind = "none"
        /\ dst' = Fresh("reg", <<>>, fi.perm)
        /\ pc' = "clear"
        /\ UNCHANGED <<op, res, fi, s, source, tmp, aim, unlisted, before, loop>>
     \/ (dst.kind # "none" \/ May("create")) /\ Fail

-----------------------------------------------------------------------------
(* sysCopyFile and copyRegular: open src, make the temporary file *)

Open ==
  /\ pc = "open"
  /\ \/ /\ fs[Opened(src)].kind \in {"reg", "dir", "block"}
        /\ s' = Opened(src)
        /\ pc' = IF op = "CopyFile" THEN "stat" ELSE "create"
        /\ UNCHANGED <<op, res, fi, source, dest, loop>>
     \/ (fs[Opened(src)].kind \notin {"reg", "dir", "block"} \/ May("open")) /\ Fail

(* Fstat(s) is Lstat of the name that was opened. *)
StatSrc ==
  /\ pc = "stat"
  /\ \/ /\ fs[src].kind # "none"
        /\ fi' = fs[src]
        /\ pc' = "create"
        /\ UNCHANGED <<op, res, s, source, dest, loop>>
     \/ (fs[src].kind = "none" \/ May("lstat")) /\ Fail

(* IsSameFS; dst is on device 0, and special files have another Rdev. *)
SameFS(info) == info.dev = 0

(* MkdirAll of what is above, NewSafeFile, which asks Stat what dst is, and  *)
(* Fstat of the temporary file                                             *)
Create ==
  /\ pc = "create"
  /\ \/ /\ Reached.kind \in {"none", "reg"}
        /\ tmp' = Fresh("reg", <<>>, IF op = "File" THEN "private" ELSE "given")
        /\ pc' = IF op = "File" \/ SameFS(fi) THEN "clone" ELSE "map"
        /\ UNCHANGED <<op, res, fi, s, source, dst, aim, unlisted, before, loop>>
     \/ (Reached.kind \notin {"none", "reg"} \/ May("create")) /\ Fail

-----------------------------------------------------------------------------
(* sysCopyFd: FICLONE, or a loop of copy_file_range *)

Written(data, at, part) ==
  LET end == at + Len(part) IN
  [i \in 1..(IF end > Len(data) THEN end ELSE Len(data)) |->
     IF i > at /\ i <= end THEN part[i - at]
     ELSE IF i <= Len(data) THEN data[i] ELSE Hole]

Least(a, b) == IF a < b THEN a ELSE b

CloneRange ==
  /\ pc = "clone"
  /\ \/ /\ fs[s].kind = "reg"
        /\ \/ /\ "ok" \in Reflink /\ fs[s].dev = 0
              /\ tmp' = [tmp EXCEPT !.data = fs[s].data]
              /\ pc' = "close"
           \/ /\ "unsupported" \in Reflink \/ fs[s].dev # 0
              /\ pc' = "size" /\ UNCHANGED tmp
        /\ UNCHANGED <<op, res, fi, s, source, dst, aim, unlisted, before, loop>>
     \/ (fs[s].kind # "reg" \/ May("clone")) /\ Fail

(* The size is that of the name once more. *)
Size ==
  /\ pc = "size"
  /\ \/ /\ fs[src].kind # "none"
        /\ sz' = Len(fs[src].data) /\ off' = 0
        /\ pc' = "range"
        /\ UNCHANGED <<op, res, fi, s, source, dest>>
     \/ (fs[src].kind = "none" \/ May("lstat")) /\ Fail

(* mutant: a whole chunk is asked for, whatever is left *)
AskedChunk == Chunk

Asked == Least(Chunk, sz)

(* mutant: a transfer of nothing is taken for the end of the file *)
NothingCameEnd == sz' = 0 /\ UNCHANGED <<call, source, dest, off>>

NothingCame == Fail

(* One pass of the loop.  The kernel transfers some of what is asked for    *)
(* and advances the two offsets it is given the addresses of; then the     *)
(* loop advances them by the same amount.                                  *)
CopyRange ==
  /\ pc = "range" /\ sz > 0
  /\ \/ \E m \in 1..Asked :
          LET part == SubSeq(fs[s].data, off + 1, off + m) IN
          /\ off + m <= Len(fs[s].data)
          /\ tmp' = [tmp EXCEPT !.data = Written(@, off, part)]
          /\ sz' = sz - m
          /\ off' = off + m + m
          /\ UNCHANGED <<call, source, dst, aim, unlisted, before>>
     \/ off >= Len(fs[s].data) /\ NothingCame
     \/ May("range") /\ Fail

(* nothing left: Seek *)
RangeEnd ==
  /\ pc = "range" /\ sz = 0
  /\ \/ /\ pc' = "close"
        /\ UNCHANGED <<op, res, fi, s, source, dest, loop>>
     \/ May("range") /\ Fail

-----------------------------------------------------------------------------
(* copyViaMmap: mmap.Reader maps what the file has and calls back with each *)
(* block.  Only write(2) reads the mapping: a page that is no longer in the *)
(* file makes it fail with EFAULT.                                         *)

Map ==
  /\ pc = "map"
  /\ \/ /\ fs[s].kind = "reg"
        /\ sz' = Len(fs[s].data) /\ off' = 0
        /\ pc' = "blocks"
        /\ UNCHANGED <<op, res, fi, s, source, dest>>
     \/ (fs[s].kind # "reg" \/ May("map")) /\ Fail

Block ==
  LET m == Least(Chunk, sz - off) IN
  /\ pc = "blocks" /\ off < sz
  /\ \/ /\ off + m <= Len(fs[s].data)
        /\ tmp' = [tmp EXCEPT !.data = @ \o SubSeq(fs[s].data, off + 1, off + m)]
        /\ off' = off + m
        /\ UNCHANGED <<call, source, dst, aim, unlisted, before, sz>>
     \/ (off + m > Len(fs[s].data) \/ May("map")) /\ Fail

(* Seek and Sync *)
BlocksEnd ==
  /\ pc = "blocks" /\ off = sz
  /\ \/ /\ pc' = "close"
        /\ UNCHANGED <<op, res, fi, s, source, dest, loop>>
     \/ May("map") /\ Fail

(* SafeFile.Close: AtomicFile!Commit, or nothing *)
Close ==
  /\ pc = "close"
  /\ \/ /\ dst' = tmp /\ tmp' = NoFile
        /\ IF op = "CopyFile" THEN pc' = "done" /\ res' = "nil"
                              ELSE pc' = "clear" /\ UNCHANGED res
        /\ UNCHANGED <<op, fi, s, source, aim, unlisted, before, loop>>
     \/ May("close") /\ Fail

-----------------------------------------------------------------------------
(* updateMeta: attributes, owner, mode, times, in this order *)

(* mutant: the mode before the owner *)
MdUpdatersModeFirst == <<"clear", "chmod", "chown", "times">>

MdUpdaters == <<"clear", "chown", "chmod", "times">>

Following(part) ==
  MdUpdaters[1 + (CHOOSE i \in 1..3 : MdUpdaters[i] = part)]

Meta(to, new) ==
  /\ pc' = to /\ dst' = new
  /\ UNCHANGED <<op, res, fi, s, source, tmp, aim, before, loop>>

(* mutant: attributes are set, and none is cleared *)
ClearNothing ==
  /\ pc = "clear"
  /\ Meta("set", dst) /\ UNCHANGED unlisted

(* repl: an error of clear skips the attributes and is forgotten. *)
Clear ==
  /\ pc = "clear"
  /\ \/ dst.kind # "none" /\ Meta("set", [dst EXCEPT !.xattr = {}]) /\ UNCHANGED unlisted
     \/ /\ dst.kind = "none" \/ May("xattr")
        /\ \E kept \in SUBSET dst.xattr : Meta(Following("clear"), [dst EXCEPT !.xattr = kept])
        /\ unlisted' = TRUE

SetXattr ==
  /\ pc = "set"
  /\ \/ Meta(Following("clear"), [dst EXCEPT !.xattr = @ \cup fi.xattr]) /\ UNCHANGED unlisted
     \/ /\ May("xattr")
        /\ \E some \in SUBSET fi.xattr : dst' = [dst EXCEPT !.xattr = @ \cup some]
        /\ pc' = "done" /\ res' = "error"
        /\ UNCHANGED <<op, fi, s, source, tmp, aim, unlisted, before, loop>>

(* Setting the owner of a file takes its setuid bit and capabilities away. *)
Owned(f) ==
  IF f.kind = "dir" THEN [f EXCEPT !.owner = fi.owner]
  ELSE [f EXCEPT !.owner = fi.owner, !.suid = FALSE, !.xattr = @ \ Caps]

Lchown ==
  /\ pc = "chown"
  /\ \/ dst.kind # "none" /\ Meta(Following("chown"), Owned(dst)) /\ UNCHANGED unlisted
     \/ (dst.kind = "none" \/ May("chown")) /\ Fail

(* Chmod follows a link. *)
Chmod ==
  /\ pc = "chmod"
  /\ \/ /\ Reached.kind # "none"
        /\ Reach([Reached EXCEPT !.perm = fi.perm, !.suid = fi.suid])
        /\ pc' = Following("chmod")
        /\ UNCHANGED <<op, res, fi, s, source, tmp, unlisted, before, loop>>
     \/ (Reached.kind = "none" \/ May("chmod")) /\ Fail

(* Chtimes follows one too, but nothing is done if the source is a link. *)
Chtimes ==
  /\ pc = "times"
  /\ \/ /\ IF fi.kind = "link" THEN UNCHANGED <<dst, aim>>
           ELSE Reached.kind # "none" /\ Reach([Reached EXCEPT !.times = fi.times])
        /\ pc' = "done" /\ res' = "nil"
        /\ UNCHANGED <<op, fi, s, source, tmp, unlisted, before, loop>>
     \/ fi.kind # "link" /\ (Reached.kind = "none" \/ May("times")) /\ Fail

-----------------------------------------------------------------------------
(* Somebody else writes to a source file, or gives its name to another one. *)

Write(i, c) ==
  /\ fs[i].kind = "reg" /\ fs[i].data # c
  /\ fs' = [fs EXCEPT ![i].data = c, ![i].times = "now"]
  /\ UNCHANGED src

Rename(i) ==
  /\ i # src
  /\ src' = i /\ UNCHANGED fs

Change ==
  /\ pc # "done" /\ changes < MaxChanges
  /\ changes' = changes + 1
  /\ \E i \in Inode : Rename(i) \/ \E c \in Contents : Write(i, c)
  /\ UNCHANGED <<call, dest, loop>>

Make == Lstat \/ Mkdir \/ Symlink \/ Mknod
Begin == Open \/ StatSrc \/ Create
Copy == CloneRange \/ Size \/ CopyRange \/ RangeEnd \/ Map \/ Block \/ BlocksEnd \/ Close
Metadata == Clear \/ SetXattr \/ Lchown \/ Chmod \/ Chtimes
Returned == pc = "done" /\ UNCHANGED vars

Next == Make \/ Begin \/ Copy \/ Metadata \/ Change \/ Returned
Spec == Init /\ [][Next]_vars

-----------------------------------------------------------------------------
(* The state is well typed; what is left to copy is never negative. *)
TypeOK ==
  /\ op \in Ops /\ src \in Inode /\ s \in Inode
  /\ sz \in Nat /\ off \in Nat
  /\ dst.kind \in Kinds /\ tmp.kind \in {"none", "reg"}
  /\ dst.data \in Seq(Nat) /\ tmp.data \in Seq(Nat)
  /\ dst.xattr \subseteq UNION ({before.xattr} \cup {fs[i].xattr : i \in Inode})
  /\ res \in {"none", "nil", "error"} /\ (res = "none" <=> pc # "done")

(* What the call was asked to copy did not change under it.  CopyFile is   *)
(* meant for regular files: of a link it opens one file and asks for the   *)
(* size of another.                                                        *)
Steady == changes = 0 /\ (op = "CopyFile" => fs[src].kind = "reg")

(* A call that returns nil has made dst what src is, byte for byte, though *)
(* the loop skips blocks: it ends with an error before it could commit a   *)
(* file with a hole.  Where src is a directory, a link to one will do for    *)
(* dst.                                                                    *)
Faithful ==
  LET made == IF fs[src].kind = "dir" THEN Reached ELSE dst IN
  Steady /\ res = "nil" /\ op # "Metadata" /\ fs[src].kind # "block" =>
    made.kind = fs[src].kind /\ made.data = fs[src].data

(* Whatever fails, dst is what it was or all that src is, and no temporary *)
(* file stays behind.                                                      *)
OldOrNew ==
  /\ Steady => \/ dst.kind = before.kind /\ dst.data = before.data
               \/ (op # "Metadata" /\ dst.data = fs[src].data)
  /\ pc = "done" => tmp = NoFile

(* Only a finished update of the metadata returns nil: the attributes, the *)
(* owner, the mode with its setuid bit, and the times are those Lstat saw.  *)
(* Excepted are attributes that could not be cleared, and capabilities.  If *)
(* dst is a link, owner and attributes are its own, mode and times those of *)
(* what it refers to; the times of a link are not cloned.                   *)
MetaCloned ==
  res = "nil" /\ op # "CopyFile" =>
    /\ dst.owner = fi.owner
    /\ Reached.perm = fi.perm /\ Reached.suid = fi.suid
    /\ fi.kind # "link" => Reached.times = fi.times
    /\ ~unlisted => fi.xattr \ dst.xattr \subseteq Caps /\ dst.xattr \subseteq fi.xattr

(* A new file is open to others, or runs as its owner, only once it has    *)
(* the owner it is meant for.  This is about dst itself: what a link dst    *)
(* refers to gets the mode and not the owner.                              *)
NeverExposed ==
  /\ dst.suid => dst.owner = fi.owner \/ (dst.owner = before.owner /\ before.suid)
  /\ op = "File" /\ fi.kind = "reg" /\ dst # before =>
       dst.perm = "private" \/ dst.owner = fi.owner

(* What copyfile.go says: the file is copied, whatever it takes. *)
CopyWorks ==
  Steady /\ Fails = {} /\ op = "CopyFile" /\ before.kind \in {"none", "reg"} /\ pc = "done" =>
    res = "nil"
=============================================================================
