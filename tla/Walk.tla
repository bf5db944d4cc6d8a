-------------------------------- MODULE Walk --------------------------------
(***************************************************************************)
(* The concurrent file system walk of walk/walk.go: Walk, which returns    *)
(* channels of entries and of errors, and WalkFunc, which calls a function *)
(* and returns the errors.  Workers receive directory names from d.ch,     *)
(* output the directory, process what it lists, and hand the directories   *)
(* found there to a new goroutine that queues them (enq).  Main runs       *)
(* doWalk over the names given, then waits for dirWg to reach zero and     *)
(* closes the channels.                                                     *)
(*                                                                         *)
(* Main and the workers process a name by the same steps.  A step ends     *)
(* where another goroutine can interfere: at a channel operation, at a     *)
(* LoadOrStore of the inode map, at a system call, at a WaitGroup          *)
(* operation.  The file system does not change during the walk; a system   *)
(* call on a name in Flaky may fail.                                        *)
(***************************************************************************)
EXTENDS Integers, SequencesExt

CONSTANTS
  \* the file system: Node are the path names
  Node, Kind, Children, Target, Inode, Dev, Flaky,
  \* the arguments of Walk and WalkFunc
  Names, Concurrency, NumCPU, FollowSymlinks, OneFS, IgnoreDuplicateInode,
  Type,         \* the kinds to output
  Exclude,      \* names whose basename matches a pattern of Excludes
  BadGlob,      \* Excludes has a malformed pattern
  Filter,       \* what the caller's filter says of each name
  ViaChan,      \* Walk, or else WalkFunc
  ApplyFails    \* names for which the caller's apply returns an error

Kinds == {"file", "dir", "link"}
Dirs == {n \in Node : Kind[n] = "dir"}

ASSUME Assumptions ==
  /\ Kind \in [Node -> Kinds]
  /\ Children \in [Dirs -> SUBSET Node] /\ \A d \in Dirs : IsFiniteSet(Children[d])
  /\ Target \in [{n \in Node : Kind[n] = "link"} -> {n \in Node : Kind[n] # "link"}]
  /\ DOMAIN Inode = Node /\ DOMAIN Dev = Node
  /\ Flaky \subseteq Node /\ Exclude \subseteq Node /\ ApplyFails \subseteq Node
  /\ Names \in Seq(Node)
  /\ Concurrency \in Int /\ NumCPU \in Nat \ {0}
  /\ {FollowSymlinks, OneFS, IgnoreDuplicateInode, BadGlob, ViaChan} \subseteq BOOLEAN
  /\ Type \subseteq Kinds
  /\ Filter \in [Node -> {"pass", "skip", "err"}]

\* What every file system guarantees: a path name is listed by one directory,
\* names get longer downwards, and the names of an inode are names of one file
ASSUME FileSystem ==
  /\ \A d, e \in Dirs : d # e => Children[d] \cap Children[e] = {}
  /\ \A S \in SUBSET Node : S # {} => \E n \in S : \A d \in S \cap Dirs : n \notin Children[d]
  /\ \A m, n \in Node : Inode[m] = Inode[n] => Kind[m] = Kind[n]

VARIABLES
  pc,         \* where each goroutine is
  at,         \* the directory a worker took from ch
  cur,        \* the name being processed, the resolved one after a symlink
  todo,       \* names still to process
  dirs,       \* directories found, to be queued
  ch,         \* contents of d.ch
  chClosed,
  enqd,       \* names the enq goroutines have still to send on d.ch
  dirWg,      \* counter of d.dirWg
  ino,        \* d.ino: what is stored under each inode, see SeenBefore
  fs,         \* keys of d.fs
  outq,       \* number of entries in the channel out
  outClosed,
  errq,       \* number of errors in d.errch
  errClosed,
  fatal,      \* the panic that ended the process, or "none"
  emitted,    \* history: how often each name was output (2 stands for more)
  reported    \* history: names for which an error was sent

pos == <<pc, at, cur, todo, dirs>>
queue == <<ch, chClosed, enqd, dirWg>>
maps == <<ino, fs>>
chans == <<outq, outClosed, errq, errClosed, fatal>>
hist == <<emitted, reported>>
vars == <<pos, queue, maps, chans, hist>>

(* The capacity of every channel, and the number of workers *)
Cap == IF Concurrency <= 0 THEN NumCPU ELSE Concurrency
Worker == 1 .. Cap
Main == 0
Agent == Worker \cup {Main}

Goto(a, p) == pc' = [pc EXCEPT ![a] = p]

Init ==
  /\ pc = [a \in Agent |-> IF a = Main THEN "next" ELSE "take"]
  /\ at = [a \in Agent |-> "none"] /\ cur = [a \in Agent |-> "none"]
  /\ todo = [a \in Agent |-> IF a = Main THEN Names ELSE <<>>]
  /\ dirs = [a \in Agent |-> <<>>]
  /\ ch = <<>> /\ chClosed = FALSE
  /\ enqd = <<>>
  /\ dirWg = 0
  /\ ino = [i \in {Inode[n] : n \in Node} |-> "absent"]
  /\ fs = {}
  /\ outq = 0 /\ outClosed = FALSE
  /\ errq = 0 /\ errClosed = FALSE
  /\ fatal = "none"
  /\ emitted = [n \in Node |-> 0]
  /\ reported = {}

-----------------------------------------------------------------------------
(* isEntrySeen: the map holds a pointer to the Info first stored under an   *)
(* inode ("same"); doSymlink overwrites the Info of a symlink it follows    *)
(* with that of the target, so that it no longer matches its key            *)
(* ("changed"), and a name with such an inode counts as not seen.           *)
SeenDirs(n) ==          \* mutant: only loops are cut
  IgnoreDuplicateInode /\ ino[Inode[n]] = "same" /\ Kind[n] = "dir"
SeenBefore(n) == IgnoreDuplicateInode /\ ino[Inode[n]] = "same"

Remember(n) ==
  ino' = IF IgnoreDuplicateInode /\ ino[Inode[n]] = "absent"
         THEN [ino EXCEPT ![Inode[n]] = "same"] ELSE ino

(* trackFS is called for the directories among the names given *)
TrackFS(a, n) == fs' = IF a = Main /\ OneFS THEN fs \cup {Dev[n]} ELSE fs

(* singlefs; doWalk does not ask it about the directories it is given *)
SameFS(n) == OneFS => Dev[n] \in fs
DescendAll(a, n) == TRUE   \* mutant: singlefs is not asked
Descend(a, n) == a = Main \/ SameFS(n)

(* filterName and the caller's filter *)
Excluded(n) == n \in Exclude
Passes(n) == Filter[n] = "pass"

Push(a, n) == dirs' = [dirs EXCEPT ![a] = Append(@, n)]

(* A send on a channel of capacity Cap *)
Send(q, closed) ==
  IF closed THEN fatal' = "send_on_closed" /\ UNCHANGED q
            ELSE q < Cap /\ q' = q + 1 /\ UNCHANGED fatal

Count(n) == emitted' = [emitted EXCEPT ![n] = IF @ < 2 THEN @ + 1 ELSE 2]

(* output(n), after which agent a is at p, or at e if apply fails *)
Output(a, n, p, e) ==
  \/ /\ Kind[n] \notin Type
     /\ Goto(a, p)
     /\ UNCHANGED <<chans, emitted>>
  \/ /\ Kind[n] \in Type /\ ViaChan
     /\ Send(outq, outClosed)
     /\ Count(n)
     /\ Goto(a, p)
     /\ UNCHANGED <<outClosed, errq, errClosed>>
  \/ /\ Kind[n] \in Type /\ ~ViaChan
     /\ Count(n)
     /\ Goto(a, IF n \in ApplyFails THEN e ELSE p)
     /\ UNCHANGED chans

-----------------------------------------------------------------------------
(* The worker's loop *)

Take(w) ==
  /\ pc[w] = "take"
  /\ ch # <<>>
  /\ ch' = Tail(ch)
  /\ at' = [at EXCEPT ![w] = Head(ch)]
  /\ cur' = [cur EXCEPT ![w] = Head(ch)]
  /\ Goto(w, "stat")
  /\ UNCHANGED <<todo, dirs, chClosed, enqd, dirWg, maps, chans, hist>>

Exit(w) ==
  /\ pc[w] = "take"
  /\ ch = <<>> /\ chClosed
  /\ Goto(w, "exit")
  /\ UNCHANGED <<at, cur, todo, dirs, queue, maps, chans, hist>>

\* mutant: continue without dirWg.Done
StatDirForget(w) ==
  /\ pc[w] = "stat"
  /\ \/ Goto(w, "out")
     \/ cur[w] \in Flaky /\ Goto(w, "take")
  /\ UNCHANGED <<at, cur, todo, dirs, queue, maps, chans, hist>>

\* mutant: the directory is read before it is output
StatDirRead(w) ==
  /\ pc[w] = "stat"
  /\ Goto(w, "read")
  /\ UNCHANGED <<at, cur, todo, dirs, queue, maps, chans, hist>>

(* The directory is gone or cannot be read: nothing of it is processed *)
StatDir(w) ==
  /\ pc[w] = "stat"
  /\ \/ Goto(w, "out")
     \/ cur[w] \in Flaky /\ Goto(w, "err")
  /\ UNCHANGED <<at, cur, todo, dirs, queue, maps, chans, hist>>

OutputDir(w) ==
  /\ pc[w] = "out"
  /\ Output(w, at[w], "read", "errout")
  /\ UNCHANGED <<at, cur, todo, dirs, queue, maps, reported>>

\* mutant: a directory that cannot be read is taken for an empty one
ReadDirQuiet(w) ==
  /\ pc[w] = "read"
  /\ \/ \E list \in SetToSeqs(Children[at[w]]) : todo' = [todo EXCEPT ![w] = list]
     \/ at[w] \in Flaky /\ UNCHANGED todo
  /\ Goto(w, "next")
  /\ UNCHANGED <<at, cur, dirs, queue, maps, chans, hist>>

(* readDir lists the names in any order *)
ReadDir(w) ==
  /\ pc[w] = "read"
  /\ \/ /\ \E list \in SetToSeqs(Children[at[w]]) : todo' = [todo EXCEPT ![w] = list]
        /\ Goto(w, "next")
     \/ /\ at[w] \in Flaky
        /\ Goto(w, "err")
        /\ UNCHANGED todo
  /\ UNCHANGED <<at, cur, dirs, queue, maps, chans, hist>>

(* The last thing in the loop, after walkPath has returned *)
Done(w) ==
  /\ pc[w] = "done"
  /\ dirWg' = dirWg - 1
  /\ Goto(w, "take")
  /\ UNCHANGED <<at, cur, todo, dirs, ch, chClosed, enqd, maps, chans, hist>>

-----------------------------------------------------------------------------
(* One name of walkPath or doWalk *)

(* filterName; path.Match reports a malformed pattern each time *)
Name(a) ==
  /\ pc[a] = "next"
  /\ todo[a] # <<>>
  /\ cur' = [cur EXCEPT ![a] = Head(todo[a])]
  /\ todo' = [todo EXCEPT ![a] = Tail(@)]
  /\ Goto(a, IF BadGlob THEN "glob" ELSE "look")
  /\ UNCHANGED <<at, dirs, queue, maps, chans, hist>>

(* filterName, Lstatm, isEntrySeen, Filter and the switch on the mode *)
Look(a) ==
  LET n == cur[a] IN
  /\ pc[a] = "look"
  /\ \/ /\ Excluded(n) \/ SeenBefore(n)
        /\ Goto(a, "next")
        /\ UNCHANGED <<dirs, maps>>
     \/ /\ n \in Flaky /\ ~Excluded(n)
        /\ Goto(a, "err")
        /\ UNCHANGED <<dirs, maps>>
     \/ /\ ~Excluded(n) /\ ~SeenBefore(n)
        /\ Remember(n)
        /\ \/ /\ ~Passes(n)
              /\ Goto(a, IF Filter[n] = "err" THEN "err" ELSE "next")
              /\ UNCHANGED <<dirs, fs>>
           \/ /\ Passes(n) /\ Kind[n] = "dir"
              /\ IF Descend(a, n) THEN Push(a, n) ELSE UNCHANGED dirs
              /\ TrackFS(a, n)
              /\ Goto(a, "next")
           \/ /\ Passes(n) /\ Kind[n] # "dir"
              /\ Goto(a, IF Kind[n] = "link" /\ FollowSymlinks THEN "link" ELSE "emit")
              /\ UNCHANGED <<dirs, fs>>
  /\ UNCHANGED <<at, cur, todo, queue, chans, hist>>

(* doSymlink: EvalSymlinks, and Statm into the Info the inode map refers to *)
Resolve(a) ==
  LET n == cur[a] IN
  /\ pc[a] = "link"
  /\ \/ /\ ino' = IF IgnoreDuplicateInode THEN [ino EXCEPT ![Inode[n]] = "changed"] ELSE ino
        /\ cur' = [cur EXCEPT ![a] = Target[n]]
        /\ Goto(a, "seen")
     \/ /\ n \in Flaky
        /\ Goto(a, "err")
        /\ UNCHANGED <<ino, cur>>
  /\ UNCHANGED <<at, todo, dirs, queue, fs, chans, hist>>

(* doSymlink, with what the link resolved to *)
LookTarget(a) ==
  LET n == cur[a] IN
  /\ pc[a] = "seen"
  /\ Remember(n)
  /\ IF ~SeenBefore(n) /\ Kind[n] = "dir" /\ SameFS(n) THEN Push(a, n) ELSE UNCHANGED dirs
  /\ Goto(a, IF ~SeenBefore(n) /\ Kind[n] # "dir" THEN "emit" ELSE "next")
  /\ UNCHANGED <<at, cur, todo, queue, fs, chans, hist>>

OutputEntry(a) ==
  /\ pc[a] = "emit"
  /\ Output(a, cur[a], "next", "err")
  /\ UNCHANGED <<at, cur, todo, dirs, queue, maps, reported>>

(* d.error, and where the goroutine goes on *)
\* mutant: a malformed pattern excludes the name
AfterErrExclude == [err |-> "next", errout |-> "read", glob |-> "next"]
\* mutant: continue without dirWg.Done
AfterErrTake == [err |-> "next", errout |-> "take", glob |-> "look"]
AfterErr == [err |-> "next", errout |-> "read", glob |-> "look"]

SendErr(a) ==
  /\ pc[a] \in DOMAIN AfterErr
  /\ Send(errq, errClosed)
  /\ Goto(a, AfterErr[pc[a]])
  /\ reported' = IF pc[a] = "glob" THEN reported ELSE reported \cup {cur[a]}
  /\ UNCHANGED <<at, cur, todo, dirs, queue, maps, outq, outClosed, errClosed, emitted>>

AddedNone(q) == 0   \* mutant: nothing is counted
Added(q) == Len(q)

(* enq: the count goes up before the goroutine that sends the names starts *)
Enq(a) ==
  /\ pc[a] = "next"
  /\ todo[a] = <<>>
  /\ dirWg' = dirWg + Added(dirs[a])
  /\ enqd' = enqd \o dirs[a]
  /\ dirs' = [dirs EXCEPT ![a] = <<>>]
  /\ Goto(a, IF a = Main THEN "wait" ELSE "done")
  /\ UNCHANGED <<at, cur, todo, ch, chClosed, maps, chans, hist>>

(* An enq goroutine sends a name.  The names of all of them are in enqd: a  *)
(* directory lists its names in any order, so any may come next.            *)
EnqSend ==
  /\ enqd # <<>>
  /\ IF chClosed
     THEN fatal' = "send_on_closed" /\ UNCHANGED <<ch, enqd>>
     ELSE /\ Len(ch) < Cap
          /\ \E i \in 1 .. Len(enqd) :
               ch' = Append(ch, enqd[i]) /\ enqd' = RemoveAt(enqd, i)
          /\ UNCHANGED fatal
  /\ UNCHANGED <<pos, chClosed, dirWg, maps, outq, outClosed, errq, errClosed, hist>>

-----------------------------------------------------------------------------
(* The end: a goroutine of its own in Walk, the caller's in WalkFunc *)

AllDoneLoose == dirWg <= 1   \* mutant: off by one
AllDone == dirWg = 0

CloseCh ==
  /\ pc[Main] = "wait"
  /\ AllDone
  /\ chClosed' = TRUE
  /\ Goto(Main, IF ViaChan THEN "closeout" ELSE "closeerr")
  /\ UNCHANGED <<at, cur, todo, dirs, ch, enqd, dirWg, maps, chans, hist>>

CloseOut ==
  /\ pc[Main] = "closeout"
  /\ outClosed' = TRUE
  /\ Goto(Main, "closeerr")
  /\ UNCHANGED <<at, cur, todo, dirs, queue, maps, outq, errq, errClosed, fatal, hist>>

CloseErr ==
  /\ pc[Main] = "closeerr"
  /\ errClosed' = TRUE
  /\ Goto(Main, "join")
  /\ UNCHANGED <<at, cur, todo, dirs, queue, maps, outq, outClosed, errq, fatal, hist>>

(* d.wg.Wait(), and in WalkFunc errWg.Wait() before it *)
Join ==
  /\ pc[Main] = "join"
  /\ \A w \in Worker : pc[w] = "exit"
  /\ ~ViaChan => errq = 0
  /\ Goto(Main, "exit")
  /\ UNCHANGED <<at, cur, todo, dirs, queue, maps, chans, hist>>

(* The receivers: the caller of Walk, once it has the channels, or the     *)
(* harvester that WalkFunc starts after doWalk.                             *)
Served == pc[Main] \in {"wait", "closeout", "closeerr", "join", "exit"}

TakeOut ==
  /\ Served
  /\ outq > 0
  /\ outq' = outq - 1
  /\ UNCHANGED <<pos, queue, maps, outClosed, errq, errClosed, fatal, hist>>

TakeErr ==
  /\ Served
  /\ errq > 0
  /\ errq' = errq - 1
  /\ UNCHANGED <<pos, queue, maps, outq, outClosed, errClosed, fatal, hist>>

-----------------------------------------------------------------------------
Alive == fatal = "none"

NameStep(a) ==
  Name(a) \/ Look(a) \/ Resolve(a) \/ LookTarget(a) \/ OutputEntry(a) \/ SendErr(a) \/ Enq(a)

WorkerStep(w) ==
  Alive /\ (Take(w) \/ Exit(w) \/ StatDir(w) \/ OutputDir(w) \/ ReadDir(w) \/ Done(w) \/ NameStep(w))

MainStep == Alive /\ (NameStep(Main) \/ CloseCh \/ CloseOut \/ CloseErr \/ Join)
EnqStep == Alive /\ EnqSend
OutStep == Alive /\ TakeOut
ErrStep == Alive /\ TakeErr

(* The walk is over: the caller of Walk has seen both channels closed and   *)
(* every goroutine has returned, or WalkFunc has returned.                  *)
Over == pc[Main] = "exit" /\ outq = 0 /\ errq = 0

Quiet == (~Alive \/ Over) /\ UNCHANGED vars

Next ==
  \/ \E w \in Worker : WorkerStep(w)
  \/ MainStep
  \/ EnqStep
  \/ OutStep
  \/ ErrStep
  \/ Quiet

(* The scheduler runs every runnable goroutine; the caller services the     *)
(* channels of Walk, as its comment asks.                                   *)
Fairness ==
  /\ \A w \in Worker : WF_vars(WorkerStep(w))
  /\ WF_vars(MainStep)
  /\ WF_vars(EnqStep)
  /\ WF_vars(OutStep)
  /\ WF_vars(ErrStep)

Spec == Init /\ [][Next]_vars
FairSpec == Spec /\ Fairness

-----------------------------------------------------------------------------
(* Every variable has the type of the field or goroutine state it models:  *)
(* only directories are queued ("we are _sure_ this is a dir"), and dirWg   *)
(* never goes below zero, where Done panics.                                *)
TypeOK ==
  /\ pc \in [Agent -> {"take", "stat", "out", "errout", "read", "next", "glob", "look", "link", "seen",
                       "emit", "err", "done", "wait", "closeout", "closeerr", "join", "exit"}]
  /\ at \in [Agent -> Dirs \cup {"none"}] /\ cur \in [Agent -> Node \cup {"none"}]
  /\ todo \in [Agent -> Seq(Node)] /\ dirs \in [Agent -> Seq(Dirs)]
  /\ ch \in Seq(Dirs) /\ enqd \in Seq(Dirs)
  /\ dirWg \in Nat /\ outq \in Nat /\ errq \in Nat
  /\ ino \in [{Inode[n] : n \in Node} -> {"absent", "same", "changed"}]
  /\ fs \subseteq {Dev[n] : n \in Node}
  /\ chClosed \in BOOLEAN /\ outClosed \in BOOLEAN /\ errClosed \in BOOLEAN 
  /\ fatal \in {"none", "send_on_closed"}
  /\ emitted \in [Node -> 0 .. 2] /\ reported \subseteq Node

(* dirWg counts the directories found and not finished: the ones an enq    *)
(* goroutine still has, the ones in d.ch, and the one each worker is in.    *)
Busy == {w \in Worker : pc[w] \notin {"take", "exit"}}
Balance == dirWg = Len(enqd) + Len(ch) + Cardinality(Busy)

(* Nothing is sent on a channel after it is closed: "there is *no* race    *)
(* condition between the workers reading d.ch and the wait-group going to   *)
(* zero" (walkPath).                                                        *)
NoSendOnClosed == Alive

(* "A worker *always* outputs the directory entry before descending to its *)
(* children", whatever the other workers do.  (Without symlinks a name has  *)
(* one parent.)                                                             *)
ParentFirst ==
  ~FollowSymlinks /\ "dir" \in Type =>
    \A d \in Dirs : \A n \in Children[d] \ ToSet(Names) : emitted[n] > 0 => emitted[d] > 0

(* With IgnoreDuplicateInode each inode is output once, under one of its   *)
(* names, however many hard links and symlinks lead to it and whichever     *)
(* workers meet them at the same time.                                      *)
OncePerInode ==
  IgnoreDuplicateInode =>
    \A i \in DOMAIN ino :
      LET named == {n \in Node : Inode[n] = i /\ emitted[n] > 0}
      IN  Cardinality(named) <= 1 /\ \A n \in named : emitted[n] = 1

(* What the options ask for.  Lost are the names whose failure was reported: *)
(* nothing below them is expected.                                           *)
Resolved(n) == IF Kind[n] = "link" /\ FollowSymlinks THEN Target[n] ELSE n
Accepted(S) == {Resolved(n) : n \in {m \in S : m \notin Exclude /\ Filter[m] = "pass"}}
RootDevs(roots) == {Dev[d] : d \in Accepted(roots) \cap Dirs}
OnFS(S, roots) == {n \in S : OneFS /\ n \in Dirs => Dev[n] \in RootDevs(roots)}

Expected(lost) ==
  LET roots == ToSet(Names) \ lost
      Entries(d) == IF d \in lost THEN {} ELSE OnFS(Accepted(Children[d] \ lost), roots)
      Closed(S) == Accepted(roots) \subseteq S /\ \A d \in S \cap Dirs : Entries(d) \subseteq S
  IN  {n \in Node : \A S \in SUBSET Node : Closed(S) => n \in S}

(* When the walk is over, every entry the options ask for was output, or    *)
(* its failure or that of a directory above it was reported: no name is     *)
(* dropped in a channel or by a worker that left too early.                 *)
Complete ==
  Over => \A n \in Expected(reported \cap Flaky) :
    Kind[n] \in Type /\ n \notin reported =>
      \/ emitted[n] > 0
      \/ /\ IgnoreDuplicateInode
         /\ \E m \in Node : Inode[m] = Inode[n] /\ (emitted[m] > 0 \/ m \in reported)

(* Nothing else is output: no entry of a directory that is excluded, not    *)
(* reached, or on another file system; and, in a walk of names that do not  *)
(* contain one another, without following symlinks, no entry twice.        *)
MayAppear == Expected({})
OnlyExpected == \A n \in Node : emitted[n] <= IF n \in MayAppear THEN 1 ELSE 0

(* The walk ends, and the caller sees the channels closed: the workers, the *)
(* enq goroutines and the receivers never all wait on one another.          *)
Termination == <>Over
=============================================================================
