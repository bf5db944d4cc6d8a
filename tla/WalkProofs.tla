----------------------------- MODULE WalkProofs -----------------------------
(***************************************************************************)
(* Proofs about Walk for every file system, every option and every number  *)
(* of workers.                                                              *)
(*                                                                         *)
(* IInv: the types, that dirWg counts exactly the directories that are      *)
(* queued or being walked, and that no goroutine sends on a channel that    *)
(* was closed.  FoundInv: what goroutines and queues hold was found in the  *)
(* way the options ask for, hence so was what is output, parents first.     *)
(* InodesInv and NodesInv: a ticket for each inode, and for each name,      *)
(* which one goroutine or queue has at most, so that it is output once.     *)
(* CoverageInv: the converse of FoundInv, every name that was given or      *)
(* listed is held, queued, output or reported, so that at the end nothing   *)
(* the options ask for is missing.                                          *)
(***************************************************************************)
EXTENDS Walk, FiniteSetTheorems, SequenceTheorems, TLAPS

Closing == {"closeout", "closeerr", "join", "exit"}
Idle == {"take", "exit"}

(* What the position of a goroutine says about what it works on *)
PosInv ==
  /\ \A w \in Worker : pc[w] \notin {"wait", "closeout", "closeerr", "join"}
  /\ pc[Main] \notin {"take", "stat", "out", "errout", "read", "done"}
  /\ \A w \in Worker : pc[w] \notin Idle => at[w] \in Dirs
  /\ \A a \in Agent : pc[a] \in {"stat", "out", "read", "errout", "glob", "look", "link", "seen", "emit", "err"}
                        => cur[a] \in Node
  /\ \A a \in Agent : pc[a] = "link" => Kind[cur[a]] = "link"

(* Channels are closed only after dirWg has reached zero. *)
CloseInv ==
  /\ chClosed \/ outClosed \/ errClosed => pc[Main] \in Closing
  /\ pc[Main] \in Closing => dirWg = 0
  /\ Alive

IInv == TypeOK /\ PosInv /\ Balance /\ CloseInv

-----------------------------------------------------------------------------
(* There are finitely many workers, and Main is none of them. *)
LEMMA Workers ==
  /\ Cap \in Nat \ {0}
  /\ IsFiniteSet(Worker)
  /\ Main \notin Worker
  /\ Agent = Worker \cup {Main}
<1>1. Cap \in Nat \ {0}
  BY Assumptions DEF Cap
<1>2. IsFiniteSet(1 .. Cap)
  BY <1>1, FS_Interval
<1> QED
  BY <1>1, <1>2 DEF Worker, Main, Agent

(* RemoveAt takes one element away. *)
LEMMA RemoveOne ==
  ASSUME NEW S, NEW q \in Seq(S), NEW i \in 1 .. Len(q)
  PROVE  /\ RemoveAt(q, i) \in Seq(S)
         /\ Len(RemoveAt(q, i)) = Len(q) - 1
<1> DEFINE l == SubSeq(q, 1, i - 1)
           r == SubSeq(q, i + 1, Len(q))
<1>1. Len(q) \in Nat /\ i \in Int
  OBVIOUS
<1>2. l \in Seq(S) /\ Len(l) = i - 1
  BY <1>1, SubSeqProperties
<1>3. r \in Seq(S) /\ Len(r) = Len(q) - i
  BY <1>1, SubSeqProperties
<1>4. l \o r \in Seq(S) /\ Len(l \o r) = Len(l) + Len(r)
  BY <1>2, <1>3, ConcatProperties
<1>5. RemoveAt(q, i) = l \o r
  BY DEF RemoveAt
<1> HIDE DEF l, r
<1> QED
  BY <1>1, <1>2, <1>3, <1>4, <1>5

-----------------------------------------------------------------------------
(* The initial state *)
LEMMA InitIInv == Init => IInv
<1> SUFFICES ASSUME Init PROVE IInv
  OBVIOUS
<1>1. TypeOK
  <2>1. todo \in [Agent -> Seq(Node)] /\ dirs \in [Agent -> Seq(Dirs)]
    BY Assumptions DEF Init
  <2>2. ino \in [{Inode[n] : n \in Node} -> {"absent", "same", "changed"}]
    BY DEF Init
  <2>3. ch \in Seq(Dirs) /\ enqd \in Seq(Dirs)
    BY DEF Init
  <2>4. /\ at \in [Agent -> Dirs \cup {"none"}]
        /\ cur \in [Agent -> Node \cup {"none"}]
    BY DEF Init
  <2>5. pc \in [Agent -> {"next", "take"}]
    BY DEF Init
  <2>6. emitted \in [Node -> 0 .. 2]
    BY DEF Init
  <2> QED
    BY <2>1, <2>2, <2>3, <2>4, <2>5, <2>6 DEF Init, TypeOK
<1>2. PosInv
  BY Workers DEF Init, PosInv, Idle
<1>3. Balance
  <2>1. Busy = {}
    BY Workers DEF Init, Busy
  <2> QED
    BY <2>1, FS_EmptySet DEF Init, Balance
<1>4. CloseInv
  BY Workers DEF Init, CloseInv, Closing, Alive
<1> QED
  BY <1>1, <1>2, <1>3, <1>4 DEF IInv

-----------------------------------------------------------------------------
(* Busy workers *)

(* They are finitely many, and none when there is nobody to count. *)
LEMMA BusyFinite ==
  /\ IsFiniteSet(Busy)
  /\ Cardinality(Busy) \in Nat
  /\ Cardinality(Busy) = 0 => \A w \in Worker : pc[w] \in Idle
<1>1. Busy \subseteq Worker
  BY DEF Busy
<1>2. IsFiniteSet(Busy)
  BY <1>1, Workers, FS_Subset
<1>3. Cardinality(Busy) \in Nat /\ (Cardinality(Busy) = 0 <=> Busy = {})
  BY <1>2, FS_EmptySet, FS_CardinalityType
<1> QED
  BY <1>2, <1>3 DEF Busy, Idle

(* A move of Main, or of a worker inside its loop, leaves them alone. *)
LEMMA BusySame ==
  ASSUME TypeOK, NEW a \in Agent, NEW p, Goto(a, p),
         a = Main \/ (pc[a] \notin Idle /\ p \notin Idle)
  PROVE  Busy' = Busy
BY Workers DEF Goto, Busy, Idle, TypeOK

(* A worker that takes a directory becomes busy. *)
LEMMA BusyMore ==
  ASSUME TypeOK, NEW w \in Worker, NEW p, Goto(w, p), pc[w] \in Idle, p \notin Idle
  PROVE  Cardinality(Busy') = Cardinality(Busy) + 1
<1>1. Busy' = Busy \cup {w} /\ w \notin Busy
  BY Workers DEF Goto, Busy, Idle, TypeOK
<1> QED
  BY <1>1, BusyFinite, FS_AddElement

(* A worker that is done with a directory is not busy any more. *)
LEMMA BusyLess ==
  ASSUME TypeOK, NEW w \in Worker, NEW p, Goto(w, p), pc[w] \notin Idle, p \in Idle
  PROVE  Cardinality(Busy') = Cardinality(Busy) - 1 /\ Cardinality(Busy) > 0
<1>1. Busy' = Busy \ {w} /\ w \in Busy
  BY Workers DEF Goto, Busy, Idle, TypeOK
<1>2. Cardinality(Busy') = Cardinality(Busy) - 1
  BY <1>1, BusyFinite, FS_RemoveElement
<1>3. Cardinality(Busy) # 0
  BY <1>1, BusyFinite, FS_EmptySet
<1> QED
  BY <1>2, <1>3, BusyFinite

-----------------------------------------------------------------------------
(* The types *)

(* What output does to the variables it changes. *)
LEMMA OutputTypes ==
  ASSUME TypeOK, NEW a \in Agent, NEW n \in Node, NEW p, NEW e, Output(a, n, p, e)
  PROVE  /\ Goto(a, p) \/ Goto(a, e)
         /\ outq' \in Nat /\ UNCHANGED <<outClosed, errq, errClosed>>
         /\ fatal' \in {"none", "send_on_closed"} /\ (outClosed \/ fatal' = fatal)
         /\ emitted' \in [Node -> 0 .. 2]
<1>1. Goto(a, p) \/ Goto(a, e)
  BY DEF Output
<1>2. /\ outq' \in Nat /\ UNCHANGED <<outClosed, errq, errClosed>>
      /\ fatal' \in {"none", "send_on_closed"} /\ (outClosed \/ fatal' = fatal)
  BY DEF Output, Send, TypeOK, chans
<1>3. UNCHANGED emitted \/ Count(n)
  BY DEF Output
<1>4. emitted' \in [Node -> 0 .. 2]
  <2> DEFINE more == IF emitted[n] < 2 THEN emitted[n] + 1 ELSE 2
  <2>1. emitted[n] \in 0 .. 2
    BY DEF TypeOK
  <2>2. more \in 0 .. 2
    BY <2>1
  <2>3. UNCHANGED emitted \/ emitted' = [emitted EXCEPT ![n] = more]
    BY <1>3 DEF Count
  <2> HIDE DEF more
  <2> QED
    BY <2>2, <2>3 DEF TypeOK
<1> QED
  BY <1>1, <1>2, <1>4

(* The names for which an error can be sent, and where it leads *)
LEMMA ErrStates ==
  /\ DOMAIN AfterErr = {"err", "errout", "glob"}
  /\ AfterErr["err"] = "next" /\ AfterErr["errout"] = "read" /\ AfterErr["glob"] = "look"
BY DEF AfterErr

(* The inode map keeps its type. *)
LEMMA RememberType ==
  ASSUME TypeOK, NEW n \in Node, Remember(n)
  PROVE  ino' \in [{Inode[m] : m \in Node} -> {"absent", "same", "changed"}]
BY DEF Remember, TypeOK

(* A directory that is pushed is added to the list of goroutine a. *)
LEMMA PushType ==
  ASSUME TypeOK, NEW a \in Agent, NEW n \in Dirs, Push(a, n)
  PROVE  dirs' \in [Agent -> Seq(Dirs)]
<1>1. Append(dirs[a], n) \in Seq(Dirs)
  BY AppendProperties DEF TypeOK
<1> QED
  BY <1>1 DEF Push, TypeOK

(* The steps of the worker's loop keep the types. *)
LEMMA WorkerTypes ==
  ASSUME TypeOK, PosInv, Balance, NEW w \in Worker,
         Take(w) \/ Exit(w) \/ StatDir(w) \/ OutputDir(w) \/ ReadDir(w) \/ Done(w)
  PROVE  TypeOK'
<1> USE Workers DEF pos, queue, maps, chans, hist
<1>1. w \in Agent
  OBVIOUS
<1>2. CASE Take(w)
  <2>1. Head(ch) \in Dirs /\ Tail(ch) \in Seq(Dirs)
    BY <1>2, HeadTailProperties DEF Take, TypeOK
  <2>2. Head(ch) \in Node
    BY <2>1 DEF Dirs
  <2> QED
    BY <1>1, <1>2, <2>1, <2>2 DEF Take, Goto, TypeOK
<1>3. CASE Exit(w)
  BY <1>1, <1>3 DEF Exit, Goto, TypeOK
<1>4. CASE StatDir(w)
  BY <1>1, <1>4 DEF StatDir, Goto, TypeOK
<1>5. CASE OutputDir(w)
  <2>1. at[w] \in Node
    BY <1>5 DEF OutputDir, PosInv, Idle, Dirs
  <2>2. Output(w, at[w], "read", "errout")
    BY <1>5 DEF OutputDir
  <2>3. Goto(w, "read") \/ Goto(w, "errout")
    BY <1>1, <2>1, <2>2, OutputTypes
  <2>4. /\ outq' \in Nat /\ UNCHANGED <<outClosed, errq, errClosed>>
        /\ fatal' \in {"none", "send_on_closed"} /\ emitted' \in [Node -> 0 .. 2]
    BY <1>1, <2>1, <2>2, OutputTypes
  <2> QED
    BY <1>1, <1>5, <2>3, <2>4 DEF OutputDir, Goto, TypeOK
<1>6. CASE ReadDir(w)
  <2>1. at[w] \in Dirs
    BY <1>6 DEF ReadDir, PosInv, Idle
  <2>2. Children[at[w]] \subseteq Node /\ IsFiniteSet(Children[at[w]])
    BY <2>1, Assumptions
  <2>3. ASSUME NEW list \in SetToSeqs(Children[at[w]]) PROVE list \in Seq(Node)
    <3>1. Cardinality(Children[at[w]]) \in Nat
      BY <2>2, FS_CardinalityType
    <3>2. list \in [1 .. Cardinality(Children[at[w]]) -> Children[at[w]]]
      BY <2>3 DEF SetToSeqs
    <3> QED
      BY <2>2, <3>1, <3>2
  <2>4. todo' \in [Agent -> Seq(Node)]
    BY <1>6, <2>3 DEF ReadDir, TypeOK
  <2> QED
    BY <1>1, <1>6, <2>4 DEF ReadDir, Goto, TypeOK
<1>7. CASE Done(w)
  <2>1. Cardinality(Busy) > 0
    BY <1>7, BusyLess DEF Done, Idle
  <2>2. dirWg' \in Nat
    <3>1. Len(enqd) \in Nat /\ Len(ch) \in Nat
      BY DEF TypeOK
    <3> QED
      BY <1>7, <2>1, <3>1, BusyFinite DEF Done, Balance
  <2> QED
    BY <1>1, <1>7, <2>2 DEF Done, Goto, TypeOK
<1> QED
  BY <1>2, <1>3, <1>4, <1>5, <1>6, <1>7

(* The steps Main and the workers share keep the types. *)
LEMMA NameTypes ==
  ASSUME TypeOK, PosInv, NEW a \in Agent, NameStep(a)
  PROVE  TypeOK'
<1> USE DEF pos, queue, maps, chans, hist
<1>1. CASE Name(a)
  <2>1. Head(todo[a]) \in Node /\ Tail(todo[a]) \in Seq(Node)
    BY <1>1, HeadTailProperties DEF Name, TypeOK
  <2> QED
    BY <1>1, <2>1 DEF Name, Goto, TypeOK
<1>2. CASE Look(a)
  <2>1. cur[a] \in Node
    BY <1>2 DEF Look, PosInv
  <2>3. Goto(a, "next") \/ Goto(a, "err") \/ Goto(a, "link") \/ Goto(a, "emit")
    BY <1>2 DEF Look
  <2>4. ino' \in [{Inode[m] : m \in Node} -> {"absent", "same", "changed"}]
    BY <1>2, <2>1, RememberType DEF Look, TypeOK
  <2>5. dirs' \in [Agent -> Seq(Dirs)]
    <3>1. UNCHANGED dirs \/ (cur[a] \in Dirs /\ Push(a, cur[a]))
      BY <1>2, <2>1 DEF Look, Dirs
    <3> QED
      BY <3>1, PushType DEF TypeOK
  <2>6. fs' \subseteq {Dev[n] : n \in Node}
    <3>1. UNCHANGED fs \/ fs' = fs \cup {Dev[cur[a]]}
      BY <1>2 DEF Look, TrackFS
    <3> QED
      BY <2>1, <3>1 DEF TypeOK
  <2> QED
    BY <1>2, <2>3, <2>4, <2>5, <2>6 DEF Look, Goto, TypeOK
<1>3. CASE Resolve(a)
  <2>1. cur[a] \in Node /\ Kind[cur[a]] = "link"
    BY <1>3 DEF Resolve, PosInv
  <2>2. Target[cur[a]] \in Node
    BY <2>1, Assumptions
  <2>3. ino' \in [{Inode[m] : m \in Node} -> {"absent", "same", "changed"}]
    BY <1>3, <2>1 DEF Resolve, TypeOK
  <2>4. cur' \in [Agent -> Node \cup {"none"}]
    BY <1>3, <2>2 DEF Resolve, TypeOK
  <2> QED
    BY <1>3, <2>3, <2>4 DEF Resolve, Goto, TypeOK
<1>4. CASE LookTarget(a)
  <2>1. cur[a] \in Node
    BY <1>4 DEF LookTarget, PosInv
  <2>2. Goto(a, "emit") \/ Goto(a, "next")
    BY <1>4 DEF LookTarget
  <2>3. ino' \in [{Inode[m] : m \in Node} -> {"absent", "same", "changed"}]
    BY <1>4, <2>1, RememberType DEF LookTarget
  <2>4. dirs' \in [Agent -> Seq(Dirs)]
    <3>1. UNCHANGED dirs \/ (cur[a] \in Dirs /\ Push(a, cur[a]))
      BY <1>4, <2>1 DEF LookTarget, Dirs
    <3> QED
      BY <3>1, PushType DEF TypeOK
  <2> QED
    BY <1>4, <2>2, <2>3, <2>4 DEF LookTarget, Goto, TypeOK
<1>5. CASE OutputEntry(a)
  <2>1. cur[a] \in Node /\ Output(a, cur[a], "next", "err")
    BY <1>5 DEF OutputEntry, PosInv
  <2>2. Goto(a, "next") \/ Goto(a, "err")
    BY <2>1, OutputTypes
  <2>3. /\ outq' \in Nat /\ UNCHANGED <<outClosed, errq, errClosed>>
        /\ fatal' \in {"none", "send_on_closed"} /\ emitted' \in [Node -> 0 .. 2]
    BY <2>1, OutputTypes
  <2> QED
    BY <1>5, <2>2, <2>3 DEF OutputEntry, Goto, TypeOK
<1>6. CASE SendErr(a)
  <2>1. cur[a] \in Node
    BY <1>6, ErrStates DEF SendErr, PosInv
  <2>2. Goto(a, "next") \/ Goto(a, "read") \/ Goto(a, "look")
    BY <1>6, ErrStates DEF SendErr
  <2>3. errq' \in Nat /\ fatal' \in {"none", "send_on_closed"}
    BY <1>6 DEF SendErr, Send, TypeOK
  <2>4. reported' \subseteq Node
    BY <1>6, <2>1 DEF SendErr, TypeOK
  <2> QED
    BY <1>6, <2>2, <2>3, <2>4 DEF SendErr, Goto, TypeOK
<1>7. CASE Enq(a)
  <2>1. Len(dirs[a]) \in Nat /\ enqd \o dirs[a] \in Seq(Dirs) /\ <<>> \in Seq(Dirs)
    BY ConcatProperties DEF TypeOK
  <2>2. dirWg' \in Nat /\ enqd' \in Seq(Dirs)
    BY <1>7, <2>1 DEF Enq, Added, TypeOK
  <2> QED
    BY <1>7, <2>1, <2>2 DEF Enq, Goto, TypeOK
<1> QED
  BY <1>1, <1>2, <1>3, <1>4, <1>5, <1>6, <1>7 DEF NameStep

(* The steps of the enq goroutines, of the closing goroutine and of the    *)
(* receivers keep the types.                                                *)
LEMMA OtherTypes ==
  ASSUME TypeOK, EnqSend \/ CloseCh \/ CloseOut \/ CloseErr \/ Join \/ TakeOut \/ TakeErr \/ Quiet
  PROVE  TypeOK'
<1> USE DEF pos, queue, maps, chans, hist
<1>1. Main \in Agent
  BY Workers
<1>2. CASE EnqSend
  <2>1. ch' \in Seq(Dirs) /\ enqd' \in Seq(Dirs)
    <3>1. CASE chClosed
      BY <1>2, <3>1 DEF EnqSend, TypeOK
    <3>2. CASE ~chClosed
      <4>1. PICK i \in 1 .. Len(enqd) : ch' = Append(ch, enqd[i]) /\ enqd' = RemoveAt(enqd, i)
        BY <1>2, <3>2 DEF EnqSend
      <4>2. enqd \in Seq(Dirs) /\ enqd[i] \in Dirs
        BY <4>1, ElementOfSeq DEF TypeOK
      <4> QED
        BY <4>1, <4>2, RemoveOne, AppendProperties DEF TypeOK
    <3> QED
      BY <3>1, <3>2
  <2> QED
    BY <1>2, <2>1 DEF EnqSend, TypeOK
<1>3. CASE CloseCh
  BY <1>1, <1>3 DEF CloseCh, Goto, TypeOK
<1>4. CASE CloseOut \/ CloseErr \/ Join
  BY <1>1, <1>4 DEF CloseOut, CloseErr, Join, Goto, TypeOK
<1>5. CASE TakeOut \/ TakeErr
  BY <1>5 DEF TakeOut, TakeErr, TypeOK
<1>6. CASE Quiet
  BY <1>6 DEF Quiet, vars, TypeOK
<1> QED
  BY <1>2, <1>3, <1>4, <1>5, <1>6

(* Every step keeps the types. *)
LEMMA TypeStep == TypeOK /\ PosInv /\ Balance /\ Next => TypeOK'
<1> SUFFICES ASSUME TypeOK, PosInv, Balance, Next PROVE TypeOK'
  OBVIOUS
<1>1. ASSUME NEW w \in Worker, WorkerStep(w) PROVE TypeOK'
  <2>1. w \in Agent
    BY Workers
  <2> QED
    BY <1>1, <2>1, WorkerTypes, NameTypes DEF WorkerStep
<1>2. CASE MainStep
  <2>1. Main \in Agent
    BY Workers
  <2> QED
    BY <1>2, <2>1, NameTypes, OtherTypes DEF MainStep
<1> QED
  BY <1>1, <1>2, OtherTypes DEF Next, EnqStep, OutStep, ErrStep

-----------------------------------------------------------------------------
(* The positions *)

(* A move of goroutine a to p that leaves everybody's directory alone keeps *)
(* PosInv if p is a place a may be, with a current name that fits.          *)
LEMMA PosMove ==
  ASSUME TypeOK, PosInv, NEW a \in Agent, NEW p, Goto(a, p), UNCHANGED at,
         a # Main => p \notin {"wait", "closeout", "closeerr", "join"},
         a = Main => p \notin {"take", "stat", "out", "errout", "read", "done"},
         pc[a] \notin Idle \/ p \in Idle \/ a = Main,
         \A b \in Agent : b # a => cur'[b] = cur[b],
         p \in {"stat", "out", "read", "errout", "glob", "look", "link", "seen", "emit", "err"}
           => cur'[a] \in Node,
         p = "link" => Kind[cur'[a]] = "link"
  PROVE  PosInv'
BY Workers DEF Goto, PosInv, Idle, TypeOK

(* The steps of the worker's loop keep PosInv. *)
LEMMA WorkerPos ==
  ASSUME TypeOK, PosInv, NEW w \in Worker,
         Take(w) \/ Exit(w) \/ StatDir(w) \/ OutputDir(w) \/ ReadDir(w) \/ Done(w)
  PROVE  PosInv'
<1> USE Workers DEF pos, queue, maps, chans, hist
<1>1. w \in Agent /\ w # Main
  OBVIOUS
<1>2. CASE Take(w)
  <2>1. Head(ch) \in Dirs
    BY <1>2, HeadTailProperties DEF Take, TypeOK
  <2>2. Head(ch) \in Node
    BY <2>1 DEF Dirs
  <2> QED
    BY <1>1, <1>2, <2>1, <2>2 DEF Take, Goto, PosInv, Idle, TypeOK
<1>3. CASE Exit(w)
  BY <1>1, <1>3, PosMove DEF Exit, Idle
<1>4. CASE StatDir(w)
  BY <1>1, <1>4, PosMove DEF StatDir, PosInv, Idle
<1>5. CASE OutputDir(w)
  <2>1. Goto(w, "read") \/ Goto(w, "errout")
    BY <1>5 DEF OutputDir, Output
  <2>2. cur[w] \in Node /\ pc[w] \notin Idle /\ UNCHANGED <<at, cur>>
    BY <1>1, <1>5 DEF OutputDir, PosInv, Idle
  <2> QED
    BY <1>1, <2>1, <2>2, PosMove
<1>6. CASE ReadDir(w)
  BY <1>1, <1>6, PosMove DEF ReadDir, PosInv, Idle
<1>7. CASE Done(w)
  BY <1>1, <1>7, PosMove DEF Done, Idle
<1> QED
  BY <1>2, <1>3, <1>4, <1>5, <1>6, <1>7

(* The steps Main and the workers share keep PosInv. *)
LEMMA NamePos ==
  ASSUME TypeOK, PosInv, NEW a \in Agent, NameStep(a)
  PROVE  PosInv'
<1> USE DEF pos, queue, maps, chans, hist, Idle
<1>1. CASE Name(a)
  <2>1. Head(todo[a]) \in Node
    BY <1>1, HeadTailProperties DEF Name, TypeOK
  <2>2. Goto(a, "glob") \/ Goto(a, "look")
    BY <1>1 DEF Name
  <2>3. /\ cur'[a] = Head(todo[a]) /\ \A b \in Agent : b # a => cur'[b] = cur[b]
        /\ UNCHANGED at /\ pc[a] \notin Idle
    BY <1>1 DEF Name, TypeOK
  <2> QED
    BY <2>1, <2>2, <2>3, PosMove
<1>2. CASE Look(a)
  <2>1. cur[a] \in Node /\ UNCHANGED <<at, cur>> /\ pc[a] \notin Idle
    BY <1>2 DEF Look, PosInv
  <2>2. \/ Goto(a, "next") \/ Goto(a, "err") \/ Goto(a, "emit")
        \/ (Kind[cur[a]] = "link" /\ Goto(a, "link"))
    BY <1>2 DEF Look
  <2> QED
    BY <2>1, <2>2, PosMove
<1>3. CASE Resolve(a)
  <2>1. cur[a] \in Node /\ Kind[cur[a]] = "link" /\ UNCHANGED at /\ pc[a] \notin Idle
    BY <1>3 DEF Resolve, PosInv
  <2>2. Target[cur[a]] \in Node
    BY <2>1, Assumptions
  <2>3. Goto(a, "seen") \/ Goto(a, "err")
    BY <1>3 DEF Resolve
  <2>4. cur'[a] \in Node /\ \A b \in Agent : b # a => cur'[b] = cur[b]
    BY <1>3, <2>1, <2>2 DEF Resolve, TypeOK
  <2> QED
    BY <2>1, <2>3, <2>4, PosMove
<1>4. CASE LookTarget(a)
  <2>1. cur[a] \in Node /\ UNCHANGED <<at, cur>> /\ pc[a] \notin Idle
    BY <1>4 DEF LookTarget, PosInv
  <2>2. Goto(a, "emit") \/ Goto(a, "next")
    BY <1>4 DEF LookTarget
  <2> QED
    BY <2>1, <2>2, PosMove
<1>5. CASE OutputEntry(a)
  <2>1. cur[a] \in Node /\ UNCHANGED <<at, cur>> /\ pc[a] \notin Idle
    BY <1>5 DEF OutputEntry, PosInv
  <2>2. Goto(a, "next") \/ Goto(a, "err")
    BY <1>5 DEF OutputEntry, Output
  <2> QED
    BY <2>1, <2>2, PosMove
<1>6. CASE SendErr(a)
  <2>1. cur[a] \in Node /\ UNCHANGED <<at, cur>> /\ pc[a] \notin Idle
    BY <1>6, ErrStates DEF SendErr, PosInv
  <2>2. \/ Goto(a, "next") \/ Goto(a, "look")
        \/ (a # Main /\ Goto(a, "read"))
    BY <1>6, ErrStates DEF SendErr, PosInv
  <2> QED
    BY <2>1, <2>2, PosMove
<1>7. CASE Enq(a)
  <2>1. UNCHANGED <<at, cur>> /\ pc[a] \notin Idle
    BY <1>7 DEF Enq
  <2>2. (a = Main /\ Goto(a, "wait")) \/ (a # Main /\ Goto(a, "done"))
    BY <1>7 DEF Enq
  <2> QED
    BY <2>1, <2>2, PosMove
<1> QED
  BY <1>1, <1>2, <1>3, <1>4, <1>5, <1>6, <1>7 DEF NameStep

(* Every step keeps PosInv. *)
LEMMA PosStep == TypeOK /\ PosInv /\ Next => PosInv'
<1> SUFFICES ASSUME TypeOK, PosInv, Next PROVE PosInv'
  OBVIOUS
<1>1. ASSUME NEW w \in Worker, WorkerStep(w) PROVE PosInv'
  <2>1. w \in Agent
    BY Workers
  <2> QED
    BY <1>1, <2>1, WorkerPos, NamePos DEF WorkerStep
<1>2. CASE MainStep
  <2>1. Main \in Agent
    BY Workers
  <2>2. CASE CloseCh \/ CloseOut \/ CloseErr \/ Join
    <3>1. UNCHANGED <<at, cur>>
      BY <2>2 DEF CloseCh, CloseOut, CloseErr, Join
    <3>2. Goto(Main, "closeout") \/ Goto(Main, "closeerr") \/ Goto(Main, "join") \/ Goto(Main, "exit")
      BY <2>2 DEF CloseCh, CloseOut, CloseErr, Join
    <3> QED
      BY <2>1, <3>1, <3>2, PosMove
  <2> QED
    BY <1>2, <2>1, <2>2, NamePos DEF MainStep
<1>3. CASE UNCHANGED pos
  BY <1>3 DEF pos, PosInv
<1>4. CASE EnqStep \/ OutStep \/ ErrStep \/ Quiet
  BY <1>3, <1>4 DEF EnqStep, EnqSend, OutStep, TakeOut, ErrStep, TakeErr, Quiet, vars
<1> QED
  BY <1>1, <1>2, <1>4 DEF Next

-----------------------------------------------------------------------------
(* The count and the closing of the channels *)

(* When Main closes the channels, no directory is queued or being walked. *)
LEMMA NothingLeft ==
  ASSUME TypeOK, Balance, dirWg = 0
  PROVE  /\ ch = <<>> /\ enqd = <<>>
         /\ \A w \in Worker : pc[w] \in Idle
<1>1. Len(ch) \in Nat /\ Len(enqd) \in Nat
  BY DEF TypeOK
<1>2. Len(ch) = 0 /\ Len(enqd) = 0 /\ Cardinality(Busy) = 0
  BY <1>1, BusyFinite DEF Balance
<1> QED
  BY <1>2, BusyFinite, EmptySeq DEF TypeOK

(* A step of a goroutine that is at work on a directory or on the names     *)
(* given, and that leaves the queue alone. *)
LEMMA WorkMove ==
  ASSUME TypeOK, PosInv, Balance, CloseInv, NEW a \in Agent, NEW p, Goto(a, p),
         UNCHANGED <<ch, chClosed, enqd, dirWg, outClosed, errClosed>>,
         pc[a] \notin Idle \cup Closing, p \notin Idle \cup Closing,
         outClosed \/ errClosed \/ fatal' = fatal
  PROVE  Balance' /\ CloseInv'
<1>1. pc[Main] \notin Closing
  <2> SUFFICES ASSUME pc[Main] \in Closing PROVE FALSE
    OBVIOUS
  <2>1. a \in Worker
    BY Workers
  <2>2. pc[a] \in Idle
    BY <2>1, NothingLeft DEF CloseInv
  <2> QED
    BY <2>2
<1>2. fatal' = fatal
  BY <1>1 DEF CloseInv
<1>3. Busy' = Busy
  BY BusySame
<1>4. pc'[Main] \notin Closing
  BY <1>1, Workers DEF Goto, TypeOK
<1> QED
  BY <1>1, <1>2, <1>3, <1>4 DEF Balance, CloseInv, Alive

(* The steps Main and the workers share keep the count. *)
LEMMA NameCount ==
  ASSUME TypeOK, PosInv, Balance, CloseInv, NEW a \in Agent, NameStep(a)
  PROVE  Balance' /\ CloseInv'
<1> USE DEF pos, queue, maps, chans, hist, Idle, Closing
<1>1. CASE Name(a)
  <2>1. Goto(a, "glob") \/ Goto(a, "look")
    BY <1>1 DEF Name
  <2> QED
    BY <1>1, <2>1, WorkMove DEF Name
<1>2. CASE Look(a)
  <2>1. Goto(a, "next") \/ Goto(a, "err") \/ Goto(a, "emit") \/ Goto(a, "link")
    BY <1>2 DEF Look
  <2> QED
    BY <1>2, <2>1, WorkMove DEF Look
<1>3. CASE Resolve(a)
  <2>1. Goto(a, "seen") \/ Goto(a, "err")
    BY <1>3 DEF Resolve
  <2> QED
    BY <1>3, <2>1, WorkMove DEF Resolve
<1>4. CASE LookTarget(a)
  <2>1. Goto(a, "emit") \/ Goto(a, "next")
    BY <1>4 DEF LookTarget
  <2> QED
    BY <1>4, <2>1, WorkMove DEF LookTarget
<1>5. CASE OutputEntry(a)
  <2>1. cur[a] \in Node /\ Output(a, cur[a], "next", "err")
    BY <1>5 DEF OutputEntry, PosInv
  <2>2. (Goto(a, "next") \/ Goto(a, "err")) /\ UNCHANGED <<outClosed, errClosed>>
    BY <2>1, OutputTypes
  <2>3. outClosed \/ fatal' = fatal
    BY <2>1, OutputTypes
  <2> QED
    BY <1>5, <2>2, <2>3, WorkMove DEF OutputEntry
<1>6. CASE SendErr(a)
  <2>1. Goto(a, "next") \/ Goto(a, "read") \/ Goto(a, "look")
    BY <1>6, ErrStates DEF SendErr
  <2>2. errClosed \/ fatal' = fatal
    BY <1>6 DEF SendErr, Send
  <2>3. pc[a] \in {"err", "errout", "glob"}
    BY <1>6, ErrStates DEF SendErr
  <2> QED
    BY <1>6, <2>1, <2>2, <2>3, WorkMove DEF SendErr
<1>7. CASE Enq(a)
  <2>1. pc[Main] \notin Closing
    <3> SUFFICES ASSUME pc[Main] \in Closing PROVE FALSE
      OBVIOUS
    <3>1. a \in Worker
      BY <1>7, Workers DEF Enq
    <3>2. pc[a] \in Idle
      BY <3>1, NothingLeft DEF CloseInv
    <3> QED
      BY <1>7, <3>2 DEF Enq
  <2>2. pc'[Main] \notin Closing
    BY <1>7, <2>1, Workers DEF Enq, Goto, TypeOK
  <2>3. (a = Main /\ Goto(a, "wait")) \/ (a # Main /\ Goto(a, "done"))
    BY <1>7 DEF Enq
  <2>4. Busy' = Busy
    BY <1>7, <2>3, BusySame DEF Enq
  <2>5. dirWg' = dirWg + Len(dirs[a]) /\ Len(enqd') = Len(enqd) + Len(dirs[a])
    <3>1. enqd \in Seq(Dirs) /\ dirs[a] \in Seq(Dirs)
      BY DEF TypeOK
    <3> QED
      BY <1>7, <3>1, ConcatProperties DEF Enq, Added
  <2>6. Balance'
    <3>1. Len(enqd) \in Nat /\ Len(dirs[a]) \in Nat /\ Len(ch) \in Nat /\ ch' = ch
      BY <1>7 DEF Enq, TypeOK
    <3> QED
      BY <2>4, <2>5, <3>1, BusyFinite DEF Balance
  <2> QED
    BY <1>7, <2>1, <2>2, <2>6 DEF Enq, CloseInv, Alive
<1> QED
  BY <1>1, <1>2, <1>3, <1>4, <1>5, <1>6, <1>7 DEF NameStep

(* The steps of the worker's loop keep the count. *)
LEMMA WorkerCount ==
  ASSUME TypeOK, PosInv, Balance, CloseInv, NEW w \in Worker,
         Take(w) \/ Exit(w) \/ StatDir(w) \/ OutputDir(w) \/ ReadDir(w) \/ Done(w)
  PROVE  Balance' /\ CloseInv'
<1> USE DEF pos, queue, maps, chans, hist, Idle, Closing
<1>1. w \in Agent /\ w # Main
  BY Workers
<1>2. CASE Take(w)
  <2>1. Cardinality(Busy') = Cardinality(Busy) + 1
    BY <1>2, BusyMore DEF Take
  <2>2. Len(ch') = Len(ch) - 1 /\ Len(ch) \in Nat /\ Len(enqd) \in Nat
    BY <1>2, HeadTailProperties DEF Take, TypeOK
  <2>3. Balance'
    BY <1>2, <2>1, <2>2, BusyFinite DEF Take, Balance
  <2>4. CloseInv'
    <3>1. pc'[Main] = pc[Main]
      BY <1>1, <1>2, Workers DEF Take, Goto, TypeOK
    <3> QED
      BY <1>2, <3>1 DEF Take, CloseInv, Alive
  <2> QED
    BY <2>3, <2>4
<1>3. CASE Exit(w)
  <2>1. Busy' = Busy
    BY <1>3 DEF Exit, Goto, Busy, TypeOK
  <2>2. pc'[Main] = pc[Main]
    BY <1>1, <1>3, Workers DEF Exit, Goto, TypeOK
  <2> QED
    BY <1>3, <2>1, <2>2 DEF Exit, Balance, CloseInv, Alive
<1>4. CASE StatDir(w)
  <2>1. Goto(w, "out") \/ Goto(w, "err")
    BY <1>4 DEF StatDir
  <2> QED
    BY <1>1, <1>4, <2>1, WorkMove DEF StatDir
<1>5. CASE OutputDir(w)
  <2>1. at[w] \in Node /\ Output(w, at[w], "read", "errout")
    BY <1>5 DEF OutputDir, PosInv, Dirs
  <2>2. (Goto(w, "read") \/ Goto(w, "errout")) /\ UNCHANGED <<outClosed, errClosed>>
    BY <1>1, <2>1, OutputTypes
  <2>3. outClosed \/ fatal' = fatal
    BY <1>1, <2>1, OutputTypes
  <2> QED
    BY <1>1, <1>5, <2>2, <2>3, WorkMove DEF OutputDir
<1>6. CASE ReadDir(w)
  <2>1. Goto(w, "next") \/ Goto(w, "err")
    BY <1>6 DEF ReadDir
  <2> QED
    BY <1>1, <1>6, <2>1, WorkMove DEF ReadDir
<1>7. CASE Done(w)
  <2>1. Cardinality(Busy') = Cardinality(Busy) - 1 /\ Cardinality(Busy) > 0
    BY <1>7, BusyLess DEF Done
  <2>2. dirWg' = dirWg - 1 /\ UNCHANGED <<ch, enqd>>
    BY <1>7 DEF Done
  <2>3. Len(ch) \in Nat /\ Len(enqd) \in Nat
    BY DEF TypeOK
  <2>4. Balance' /\ dirWg # 0
    BY <2>1, <2>2, <2>3, BusyFinite DEF Balance
  <2>5. pc'[Main] = pc[Main]
    BY <1>1, <1>7, Workers DEF Done, Goto, TypeOK
  <2> QED
    BY <1>7, <2>4, <2>5 DEF Done, CloseInv, Alive
<1> QED
  BY <1>2, <1>3, <1>4, <1>5, <1>6, <1>7

(* The other steps keep the count. *)
LEMMA OtherCount ==
  ASSUME TypeOK, PosInv, Balance, CloseInv,
         EnqSend \/ CloseCh \/ CloseOut \/ CloseErr \/ Join \/ TakeOut \/ TakeErr \/ Quiet
  PROVE  Balance' /\ CloseInv'
<1> USE DEF pos, queue, maps, chans, hist, Idle, Closing
<1>1. Main \in Agent
  BY Workers
<1>2. CASE EnqSend
  <2>1. pc[Main] \notin Closing
    BY <1>2, NothingLeft DEF EnqSend, CloseInv
  <2>2. ~chClosed
    BY <2>1 DEF CloseInv
  <2>3. PICK i \in 1 .. Len(enqd) : ch' = Append(ch, enqd[i]) /\ enqd' = RemoveAt(enqd, i)
    BY <1>2, <2>2 DEF EnqSend
  <2>4. enqd \in Seq(Dirs) /\ enqd[i] \in Dirs /\ ch \in Seq(Dirs)
    BY <2>3, ElementOfSeq DEF TypeOK
  <2>5. Len(ch') = Len(ch) + 1 /\ Len(enqd') = Len(enqd) - 1
    BY <2>3, <2>4, RemoveOne, AppendProperties
  <2>6. Busy' = Busy /\ dirWg' = dirWg
    BY <1>2 DEF EnqSend, Busy
  <2>7. Balance'
    BY <2>4, <2>5, <2>6, BusyFinite DEF Balance
  <2> QED
    BY <1>2, <2>2, <2>7 DEF EnqSend, CloseInv, Alive
<1>3. CASE CloseCh \/ CloseOut \/ CloseErr \/ Join
  <2>1. \/ Goto(Main, "closeout") \/ Goto(Main, "closeerr") \/ Goto(Main, "join")
        \/ Goto(Main, "exit")
    BY <1>3 DEF CloseCh, CloseOut, CloseErr, Join
  <2>2. Busy' = Busy
    BY <1>1, <2>1, BusySame
  <2>3. UNCHANGED <<ch, enqd, dirWg, fatal>>
    BY <1>3 DEF CloseCh, CloseOut, CloseErr, Join
  <2>4. dirWg = 0
    BY <1>3 DEF CloseCh, CloseOut, CloseErr, Join, AllDone, CloseInv
  <2>5. pc'[Main] \in Closing
    BY <1>1, <2>1 DEF Goto, TypeOK
  <2> QED
    BY <2>2, <2>3, <2>4, <2>5 DEF Balance, CloseInv, Alive
<1>4. CASE TakeOut \/ TakeErr \/ Quiet
  <2>1. UNCHANGED <<pc, ch, enqd, dirWg, chClosed, outClosed, errClosed, fatal>>
    BY <1>4 DEF TakeOut, TakeErr, Quiet, vars
  <2> QED
    BY <2>1 DEF Balance, Busy, CloseInv, Alive
<1> QED
  BY <1>2, <1>3, <1>4

-----------------------------------------------------------------------------
(* The inductive invariant holds in every reachable state. *)
THEOREM Inductive == Spec => []IInv
<1>1. IInv /\ [Next]_vars => IInv'
  <2> SUFFICES ASSUME IInv, [Next]_vars PROVE IInv'
    OBVIOUS
  <2>1. CASE Next
    <3>1. TypeOK' /\ PosInv'
      BY <2>1, TypeStep, PosStep DEF IInv
    <3>2. ASSUME NEW w \in Worker, WorkerStep(w) PROVE Balance' /\ CloseInv'
      <4>1. w \in Agent
        BY Workers
      <4> QED
        BY <3>2, <4>1, WorkerCount, NameCount DEF WorkerStep, IInv
    <3>3. CASE MainStep
      <4>1. Main \in Agent
        BY Workers
      <4>2. Balance' /\ CloseInv'
        BY <3>3, <4>1, NameCount, OtherCount DEF MainStep, IInv
      <4> QED
        BY <3>1, <4>2 DEF IInv
    <3>4. CASE EnqStep \/ OutStep \/ ErrStep \/ Quiet
      BY <3>1, <3>4, OtherCount DEF EnqStep, OutStep, ErrStep, IInv
    <3> QED
      BY <2>1, <3>1, <3>2, <3>3, <3>4 DEF Next, IInv
  <2>2. CASE UNCHANGED vars
    <3> USE DEF vars, pos, queue, maps, chans, hist
    <3>1. TypeOK'
      BY <2>2 DEF IInv, TypeOK
    <3>2. PosInv' /\ Balance' /\ CloseInv'
      BY <2>2 DEF IInv, PosInv, Balance, Busy, CloseInv, Alive
    <3> QED
      BY <3>1, <3>2 DEF IInv
  <2> QED
    BY <2>1, <2>2
<1> QED
  BY InitIInv, <1>1, PTL DEF Spec

(* The types hold: only directories are queued, and dirWg never drops below *)
(* zero, where Done panics.                                                  *)
THEOREM TypeCorrect == Spec => []TypeOK
BY Inductive, PTL DEF IInv

(* dirWg is at every moment the number of directories that are queued or    *)
(* being walked: the argument of the comment on walkPath.                    *)
THEOREM Balanced == Spec => []Balance
BY Inductive, PTL DEF IInv

(* No worker, enq goroutine or doWalk ever sends on a channel that the      *)
(* closing goroutine has closed.                                             *)
THEOREM ChannelsOpen == Spec => []NoSendOnClosed
<1>1. IInv => NoSendOnClosed
  BY DEF IInv, CloseInv, NoSendOnClosed
<1> QED
  BY Inductive, <1>1, PTL

-----------------------------------------------------------------------------
(* Elements of a sequence that grows or shrinks *)

(* An empty sequence has none. *)
LEMMA EmptyElems == ToSet(<<>>) = {}
<1>1. PICK e \in Seq(Node) : e = <<>>
  BY EmptySeq
<1>2. DOMAIN e = {}
  BY <1>1
<1> QED
  BY <1>1, <1>2 DEF ToSet

(* The head and the tail of a sequence are elements of it. *)
LEMMA TailElems ==
  ASSUME NEW S, NEW q \in Seq(S), q # <<>>
  PROVE  Head(q) \in ToSet(q) /\ ToSet(Tail(q)) \subseteq ToSet(q)
<1>1. Len(q) \in Nat \ {0} /\ DOMAIN q = 1 .. Len(q)
  BY EmptySeq
<1>2. Head(q) = q[1] /\ 1 \in DOMAIN q
  BY <1>1, HeadTailProperties
<1>3. DOMAIN Tail(q) = 1 .. Len(q) - 1 /\ \A k \in 1 .. Len(q) - 1 : Tail(q)[k] = q[k + 1]
  BY <1>1, HeadTailProperties
<1>4. \A k \in 1 .. Len(q) - 1 : k + 1 \in DOMAIN q
  BY <1>1
<1> QED
  BY <1>2, <1>3, <1>4 DEF ToSet

(* Append adds one element. *)
LEMMA AppendElems ==
  ASSUME NEW S, NEW q \in Seq(S), NEW x \in S
  PROVE  ToSet(Append(q, x)) = ToSet(q) \cup {x}
<1> DEFINE r == Append(q, x)
<1>1. Len(q) \in Nat /\ DOMAIN q = 1 .. Len(q)
  OBVIOUS
<1>2. /\ DOMAIN r = 1 .. Len(q) + 1 /\ r[Len(q) + 1] = x
      /\ \A k \in 1 .. Len(q) : r[k] = q[k]
  BY <1>1, AppendProperties
<1> HIDE DEF r
<1>3. \A k : k \in 1 .. Len(q) + 1 <=> (k \in 1 .. Len(q) \/ k = Len(q) + 1)
  BY <1>1
<1> QED
  BY <1>1, <1>2, <1>3 DEF ToSet, r

(* The elements of a concatenation are those of both parts. *)
LEMMA ConcatElems ==
  ASSUME NEW S, NEW q \in Seq(S), NEW r \in Seq(S)
  PROVE  ToSet(q \o r) = ToSet(q) \cup ToSet(r)
<1> DEFINE c == q \o r
<1>1. /\ Len(q) \in Nat /\ DOMAIN q = 1 .. Len(q)
      /\ Len(r) \in Nat /\ DOMAIN r = 1 .. Len(r)
  OBVIOUS
<1>2. /\ DOMAIN c = 1 .. Len(q) + Len(r)
      /\ \A k \in 1 .. Len(q) : c[k] = q[k]
      /\ \A k \in 1 .. Len(r) : c[Len(q) + k] = r[k]
  BY <1>1, ConcatProperties
<1>3. \A k \in 1 .. Len(q) + Len(r) : k \in 1 .. Len(q) \/ (k - Len(q) \in 1 .. Len(r) /\ k = Len(q) + (k - Len(q)))
  BY <1>1
<1>4. /\ \A k \in 1 .. Len(q) : k \in 1 .. Len(q) + Len(r)
      /\ \A k \in 1 .. Len(r) : Len(q) + k \in 1 .. Len(q) + Len(r)
  BY <1>1
<1> HIDE DEF c
<1>5. ASSUME NEW x \in ToSet(c) PROVE x \in ToSet(q) \cup ToSet(r)
  <2>1. PICK k \in 1 .. Len(q) + Len(r) : x = c[k]
    BY <1>2 DEF ToSet
  <2>2. CASE k \in 1 .. Len(q)
    BY <1>1, <1>2, <2>1, <2>2 DEF ToSet
  <2>3. CASE k \notin 1 .. Len(q)
    <3>1. PICK j \in 1 .. Len(r) : k = Len(q) + j
      BY <1>3, <2>3
    <3> QED
      BY <1>1, <1>2, <2>1, <3>1 DEF ToSet
  <2> QED
    BY <2>2, <2>3
<1>6. ASSUME NEW x \in ToSet(q) \cup ToSet(r) PROVE x \in ToSet(c)
  BY <1>1, <1>2, <1>4, <1>6 DEF ToSet
<1>7. ToSet(c) = ToSet(q) \cup ToSet(r)
  BY <1>5, <1>6
<1> QED
  BY <1>7 DEF c

(* What is left after a removal was there before, at a place of its own. *)
LEMMA RemovePlaces ==
  ASSUME NEW S, NEW q \in Seq(S), NEW i \in 1 .. Len(q)
  PROVE  \A k \in 1 .. Len(q) - 1 :
           LET j == IF k < i THEN k ELSE k + 1
           IN  RemoveAt(q, i)[k] = q[j] /\ j \in 1 .. Len(q) /\ j # i
<1> DEFINE l == SubSeq(q, 1, i - 1)
           r == SubSeq(q, i + 1, Len(q))
           c == l \o r
<1>1. Len(q) \in Nat /\ i \in Int /\ i >= 1 /\ i <= Len(q)
  OBVIOUS
<1>2. l \in Seq(S) /\ Len(l) = i - 1 /\ \A k \in 1 .. i - 1 : l[k] = q[k]
  BY <1>1, SubSeqProperties
<1>3. r \in Seq(S) /\ Len(r) = Len(q) - i /\ \A k \in 1 .. Len(q) - i : r[k] = q[i + k]
  BY <1>1, SubSeqProperties
<1> HIDE DEF l, r
<1>4. /\ \A k \in 1 .. Len(l) : c[k] = l[k]
      /\ \A k \in 1 .. Len(r) : c[Len(l) + k] = r[k]
  BY <1>2, <1>3, ConcatProperties
<1>5. RemoveAt(q, i) = c
  BY DEF RemoveAt, l, r
<1> HIDE DEF c
<1> SUFFICES ASSUME NEW k \in 1 .. Len(q) - 1
             PROVE  LET j == IF k < i THEN k ELSE k + 1
                    IN  c[k] = q[j] /\ j \in 1 .. Len(q) /\ j # i
  BY <1>5
<1>6. CASE k < i
  BY <1>1, <1>2, <1>4, <1>6
<1>7. CASE ~(k < i)
  <2>1. PICK j \in 1 .. Len(q) - i : k = (i - 1) + j
    <3>1. k - (i - 1) \in 1 .. Len(q) - i /\ k = (i - 1) + (k - (i - 1))
      BY <1>1, <1>7
    <3> QED
      BY <3>1
  <2>2. c[k] = q[i + j]
    BY <1>2, <1>3, <1>4, <2>1
  <2> QED
    BY <1>1, <1>7, <2>1, <2>2
<1> QED
  BY <1>6, <1>7

(* RemoveAt adds no element. *)
LEMMA RemoveElems ==
  ASSUME NEW S, NEW q \in Seq(S), NEW i \in 1 .. Len(q)
  PROVE  ToSet(RemoveAt(q, i)) \subseteq ToSet(q)
<1>1. DOMAIN RemoveAt(q, i) = 1 .. Len(q) - 1
  BY RemoveOne
<1> QED
  BY <1>1, RemovePlaces DEF ToSet
-----------------------------------------------------------------------------
(* What is found.  Listed are the names given, and the names in a directory  *)
(* that is to be walked and, if directories are output, was output; Admitted *)
(* is what those stand for that the options let pass; Found is what of this  *)
(* may appear, which leaves out other file systems.                          *)
Listed ==
  ToSet(Names) \cup
  {n \in Node : \E d \in Dirs \cap MayAppear : n \in Children[d] /\ ("dir" \in Type => emitted[d] > 0)}
Admitted == Accepted(Listed)
Found == Admitted \cap MayAppear

(* The file systems of the names given *)
Devs == RootDevs(ToSet(Names))

(* Every name a goroutine holds was found in this way. *)
AgentFound(a) ==
  /\ ToSet(todo[a]) \subseteq Listed
  /\ pc[a] \in {"glob", "look", "link"} => cur[a] \in Listed
  /\ pc[a] = "link" => cur[a] \notin Exclude /\ Filter[cur[a]] = "pass" /\ FollowSymlinks
  /\ pc[a] = "seen" => cur[a] \in Admitted
  /\ pc[a] = "emit" => cur[a] \in Found
  /\ ToSet(dirs[a]) \subseteq Found
  /\ a # Main /\ pc[a] \notin Idle => at[a] \in Found
  /\ a # Main /\ pc[a] \in {"errout", "read"} /\ "dir" \in Type => emitted[at[a]] > 0
  /\ a = Main => /\ ToSet(todo[a]) \subseteq ToSet(Names)
                 /\ pc[a] \in {"glob", "look"} => cur[a] \in ToSet(Names)

(* And so was every name in a queue, and every name that was output. *)
FoundInv ==
  /\ \A a \in Agent : AgentFound(a)
  /\ ToSet(enqd) \subseteq Found /\ ToSet(ch) \subseteq Found
  /\ fs \subseteq Devs
  /\ \A n \in Node : emitted[n] > 0 => n \in Found

(* MayAppear is closed: it has what the names given stand for, and what the *)
(* entries of its directories stand for.                                     *)
LEMMA MayAppearClosed ==
  /\ MayAppear \subseteq Node
  /\ Accepted(ToSet(Names)) \subseteq MayAppear
  /\ \A d \in MayAppear \cap Dirs : OnFS(Accepted(Children[d]), ToSet(Names)) \subseteq MayAppear
<1> DEFINE Entries(d) == IF d \in {} THEN {} ELSE OnFS(Accepted(Children[d] \ {}), ToSet(Names) \ {})
           Roots == Accepted(ToSet(Names) \ {})
           Closed(S) == Roots \subseteq S /\ \A d \in S \cap Dirs : Entries(d) \subseteq S
<1>1. MayAppear = {n \in Node : \A S \in SUBSET Node : Closed(S) => n \in S}
  BY DEF MayAppear, Expected
<1>2. Roots = Accepted(ToSet(Names))
  <2>1. ToSet(Names) \ {} = ToSet(Names)
    OBVIOUS
  <2> QED
    BY <2>1
<1>3. \A d \in Dirs : Entries(d) = OnFS(Accepted(Children[d]), ToSet(Names))
  <2> SUFFICES ASSUME NEW d \in Dirs PROVE Entries(d) = OnFS(Accepted(Children[d]), ToSet(Names))
    OBVIOUS
  <2>1. Children[d] \ {} = Children[d] /\ ToSet(Names) \ {} = ToSet(Names)
    BY Assumptions
  <2> QED
    BY <2>1
<1>4. \A m \in Node : Resolved(m) \in Node
  BY Assumptions DEF Resolved
<1>5. Roots \subseteq Node
  <2>1. ToSet(Names) \subseteq Node
    BY Assumptions DEF ToSet
  <2> QED
    BY <1>2, <1>4, <2>1 DEF Accepted
<1>6. \A d \in Dirs : Entries(d) \subseteq Node
  <2>1. \A d \in Dirs : Children[d] \subseteq Node
    BY Assumptions
  <2> QED
    BY <1>3, <1>4, <2>1 DEF Accepted, OnFS
<1> HIDE DEF Entries, Roots
<1>7. MayAppear \subseteq Node
  BY <1>1
<1>8. Roots \subseteq MayAppear
  BY <1>1, <1>5
<1>9. ASSUME NEW d \in MayAppear \cap Dirs PROVE Entries(d) \subseteq MayAppear
  <2>1. \A S \in SUBSET Node : Closed(S) => Entries(d) \subseteq S
    BY <1>1
  <2> QED
    BY <1>1, <1>6, <2>1
<1> QED
  BY <1>2, <1>3, <1>7, <1>8, <1>9

(* Names are nodes. *)
LEMMA ListedNodes == Listed \subseteq Node /\ Admitted \subseteq Node
<1>1. ToSet(Names) \subseteq Node
  BY Assumptions DEF ToSet
<1>2. Listed \subseteq Node
  BY <1>1 DEF Listed
<1>3. \A m \in Node : Resolved(m) \in Node
  BY Assumptions DEF Resolved
<1> QED
  BY <1>2, <1>3 DEF Admitted, Accepted

(* What is admitted may appear, but for a directory on another file system. *)
LEMMA Admission ==
  ASSUME NEW n \in Admitted, OneFS /\ n \in Dirs => Dev[n] \in Devs
  PROVE  n \in Found
<1>1. PICK m \in Listed : m \notin Exclude /\ Filter[m] = "pass" /\ n = Resolved(m)
  BY DEF Admitted, Accepted
<1>2. CASE m \in ToSet(Names)
  BY <1>1, <1>2, MayAppearClosed DEF Accepted, Found
<1>3. CASE m \notin ToSet(Names)
  <2>1. PICK d \in Dirs \cap MayAppear : m \in Children[d]
    BY <1>3 DEF Listed
  <2>2. n \in OnFS(Accepted(Children[d]), ToSet(Names))
    BY <1>1, <2>1 DEF Accepted, OnFS, Devs
  <2> QED
    BY <2>1, <2>2, MayAppearClosed DEF Found
<1> QED
  BY <1>2, <1>3

(* A name given, a directory, that passes: its file system may be entered. *)
LEMMA RootAdmission ==
  ASSUME NEW n \in ToSet(Names), n \notin Exclude, Filter[n] = "pass", Kind[n] = "dir"
  PROVE  n \in Found /\ Dev[n] \in Devs
<1>1. n \in Node /\ n \in Listed
  BY Assumptions DEF ToSet, Listed
<1>2. Resolved(n) = n
  BY DEF Resolved
<1>3. n \in Accepted(ToSet(Names)) /\ n \in Admitted
  BY <1>1, <1>2 DEF Accepted, Admitted
<1>4. n \in Dirs
  BY <1>1 DEF Dirs
<1> QED
  BY <1>3, <1>4, MayAppearClosed DEF Found, Devs, RootDevs

(* An entry that passes is admitted. *)
LEMMA Passing ==
  ASSUME NEW n \in Listed, n \notin Exclude, Filter[n] = "pass"
  PROVE  Resolved(n) \in Admitted
BY DEF Admitted, Accepted

(* More is found as more is output, and nothing changes otherwise. *)
LEMMA FoundGrows ==
  ASSUME \A n \in Node : emitted[n] > 0 => emitted'[n] > 0
  PROVE  Listed \subseteq Listed' /\ Admitted \subseteq Admitted' /\ Found \subseteq Found'
<1>1. Listed \subseteq Listed'
  <2>1. Dirs \subseteq Node
    BY DEF Dirs
  <2> QED
    BY <2>1 DEF Listed
<1>2. Admitted \subseteq Admitted'
  BY <1>1 DEF Admitted, Accepted
<1> QED
  BY <1>1, <1>2 DEF Found

(* If only goroutine a moves, and what it and the queues hold is found,     *)
(* everything still is.                                                      *)
LEMMA FoundMove ==
  ASSUME TypeOK, FoundInv, NEW a \in Agent,
         \A n \in Node : emitted[n] > 0 => emitted'[n] > 0,
         \A b \in Agent : b # a => /\ pc'[b] = pc[b] /\ at'[b] = at[b] /\ cur'[b] = cur[b]
                                   /\ todo'[b] = todo[b] /\ dirs'[b] = dirs[b],
         AgentFound(a)', ToSet(enqd') \subseteq Found', ToSet(ch') \subseteq Found',
         fs' \subseteq Devs, \A n \in Node : emitted'[n] > 0 => n \in Found'
  PROVE  FoundInv'
<1>1. Listed \subseteq Listed' /\ Admitted \subseteq Admitted' /\ Found \subseteq Found'
  BY FoundGrows
<1>2. ASSUME NEW b \in Agent, b # a PROVE AgentFound(b)'
  <2>1. /\ pc'[b] = pc[b] /\ at'[b] = at[b] /\ cur'[b] = cur[b]
        /\ todo'[b] = todo[b] /\ dirs'[b] = dirs[b]
    BY <1>2
  <2>2. AgentFound(b)
    BY DEF FoundInv
  <2>3. b # Main /\ pc[b] \notin Idle => at[b] \in Node
    BY <2>2, ListedNodes DEF AgentFound, Found
  <2> QED
    BY <1>1, <2>1, <2>2, <2>3 DEF AgentFound, Idle
<1> QED
  BY <1>2 DEF FoundInv

(* A step of goroutine a that outputs nothing and leaves the queues alone   *)
LEMMA FoundQuiet ==
  ASSUME TypeOK, FoundInv, NEW a \in Agent, UNCHANGED <<emitted, enqd, ch>>,
         \A b \in Agent : b # a => /\ pc'[b] = pc[b] /\ at'[b] = at[b] /\ cur'[b] = cur[b]
                                   /\ todo'[b] = todo[b] /\ dirs'[b] = dirs[b],
         AgentFound(a)', fs' \subseteq Devs
  PROVE  FoundInv'
<1>1. Found' = Found
  BY DEF Found, Admitted, Listed
<1>2. ToSet(enqd') \subseteq Found' /\ ToSet(ch') \subseteq Found'
  BY <1>1 DEF FoundInv
<1>3. \A n \in Node : emitted'[n] > 0 => n \in Found'
  BY <1>1 DEF FoundInv
<1> QED
  BY <1>2, <1>3, FoundMove

(* What output does to the count of each name *)
LEMMA OutputCount ==
  ASSUME TypeOK, NEW a \in Agent, NEW n \in Node, NEW p, NEW e, Output(a, n, p, e)
  PROVE  /\ \A m \in Node : m # n => emitted'[m] = emitted[m]
         /\ \A m \in Node : emitted[m] > 0 => emitted'[m] > 0
         /\ Kind[n] \in Type => emitted'[n] > 0
         /\ Kind[n] \notin Type => emitted' = emitted
         /\ emitted[n] = 0 => emitted'[n] <= 1
<1> DEFINE more == IF emitted[n] < 2 THEN emitted[n] + 1 ELSE 2
<1>1. emitted[n] \in 0 .. 2
  BY DEF TypeOK
<1>2. more > 0 /\ (emitted[n] = 0 => more = 1)
  BY <1>1
<1>3. \/ Kind[n] \notin Type /\ emitted' = emitted
      \/ Kind[n] \in Type /\ emitted' = [emitted EXCEPT ![n] = more]
  BY DEF Output, Count
<1> HIDE DEF more
<1>4. CASE Kind[n] \notin Type
  BY <1>1, <1>3, <1>4
<1>5. CASE Kind[n] \in Type
  <2>1. emitted \in [Node -> 0 .. 2] /\ emitted' = [emitted EXCEPT ![n] = more]
    BY <1>3, <1>5 DEF TypeOK
  <2>2. emitted'[n] = more /\ \A m \in Node : m # n => emitted'[m] = emitted[m]
    BY <2>1
  <2>3. more = 1 => more <= 1
    OBVIOUS
  <2> QED
    BY <1>2, <1>5, <2>2, <2>3
<1> QED
  BY <1>4, <1>5

(* The steps of the worker's loop: a worker reads only what it has output.  *)
LEMMA WorkerFound ==
  ASSUME TypeOK, PosInv, FoundInv, NEW w \in Worker,
         Take(w) \/ Exit(w) \/ StatDir(w) \/ OutputDir(w) \/ ReadDir(w) \/ Done(w)
  PROVE  FoundInv'
<1> USE DEF queue, maps, chans, hist
<1>1. w \in Agent /\ w # Main
  BY Workers
<1>2. AgentFound(w) /\ fs \subseteq Devs
  BY <1>1 DEF FoundInv
<1>3. /\ UNCHANGED emitted => Listed' = Listed /\ Admitted' = Admitted /\ Found' = Found
      /\ UNCHANGED fs => fs' \subseteq Devs
  BY <1>2 DEF Found, Admitted, Listed
<1>4. CASE Take(w)
  <2>1. ch \in Seq(Dirs) /\ ch # <<>>
    BY <1>4 DEF Take, TypeOK
  <2>2. Head(ch) \in ToSet(ch) /\ ToSet(Tail(ch)) \subseteq ToSet(ch)
    BY <2>1, TailElems
  <2>3. /\ at'[w] = Head(ch) /\ pc'[w] = "stat" /\ todo' = todo /\ dirs' = dirs
        /\ ch' = Tail(ch) /\ enqd' = enqd /\ fs' = fs /\ emitted' = emitted
    BY <1>1, <1>4 DEF Take, Goto, TypeOK
  <2>4. AgentFound(w)'
    BY <1>1, <1>2, <1>3, <2>2, <2>3 DEF AgentFound, FoundInv, Idle
  <2>5. \A b \in Agent : b # w => pc'[b] = pc[b] /\ at'[b] = at[b] /\ cur'[b] = cur[b]
    BY <1>4 DEF Take, Goto, TypeOK
  <2>6. /\ ToSet(enqd') \subseteq Found' /\ ToSet(ch') \subseteq Found'
        /\ \A n \in Node : emitted'[n] > 0 => n \in Found'
    BY <1>3, <2>2, <2>3 DEF FoundInv
  <2> QED
    BY <1>1, <1>3, <2>3, <2>4, <2>5, <2>6, FoundMove
<1>5. CASE Exit(w) \/ StatDir(w) \/ Done(w)
  <2>1. /\ pc'[w] \in {"exit", "out", "err", "take"} /\ \A b \in Agent : b # w => pc'[b] = pc[b]
        /\ pc'[w] \notin Idle => pc[w] \notin Idle
        /\ UNCHANGED <<at, cur, todo, dirs, ch, enqd, fs, emitted>>
    BY <1>1, <1>5 DEF Exit, StatDir, Done, Goto, TypeOK, Idle
  <2>2. AgentFound(w)'
    BY <1>1, <1>2, <1>3, <2>1 DEF AgentFound
  <2> QED
    BY <1>1, <1>3, <2>1, <2>2, FoundQuiet
<1>6. CASE OutputDir(w)
  <2>1. at[w] \in Dirs /\ at[w] \in Node /\ Kind[at[w]] = "dir" /\ at[w] \in Found
    BY <1>1, <1>2, <1>6 DEF OutputDir, PosInv, Idle, Dirs, AgentFound
  <2>2. Output(w, at[w], "read", "errout") /\ UNCHANGED <<at, cur, todo, dirs, ch, enqd, fs>>
    BY <1>6 DEF OutputDir
  <2>3. Goto(w, "read") \/ Goto(w, "errout")
    BY <1>1, <2>1, <2>2, OutputTypes
  <2>4. /\ \A n \in Node : n # at[w] => emitted'[n] = emitted[n]
        /\ \A n \in Node : emitted[n] > 0 => emitted'[n] > 0
        /\ "dir" \in Type => emitted'[at[w]] > 0
    BY <1>1, <2>1, <2>2, OutputCount
  <2>5. Listed \subseteq Listed' /\ Admitted \subseteq Admitted' /\ Found \subseteq Found'
    BY <2>4, FoundGrows
  <2>6. pc'[w] \in {"read", "errout"} /\ \A b \in Agent : b # w => pc'[b] = pc[b]
    BY <1>1, <2>3 DEF Goto, TypeOK
  <2>7. AgentFound(w)'
    BY <1>1, <1>2, <2>1, <2>2, <2>4, <2>5, <2>6 DEF AgentFound
  <2>8. /\ ToSet(enqd') \subseteq Found' /\ ToSet(ch') \subseteq Found'
        /\ \A n \in Node : emitted'[n] > 0 => n \in Found'
    <3>1. \A n \in Node : emitted'[n] > 0 => n \in Found
      BY <2>1, <2>4 DEF FoundInv
    <3> QED
      BY <2>2, <2>5, <3>1 DEF FoundInv
  <2> QED
    BY <1>1, <1>3, <2>2, <2>4, <2>6, <2>7, <2>8, FoundMove
<1>7. CASE ReadDir(w)
  <2>1. /\ pc[w] = "read" /\ pc'[w] \in {"next", "err"} /\ \A b \in Agent : b # w => pc'[b] = pc[b]
        /\ UNCHANGED <<at, cur, dirs, ch, enqd, fs, emitted>>
    BY <1>1, <1>7 DEF ReadDir, Goto, TypeOK
  <2>2. at[w] \in Dirs /\ at[w] \in MayAppear /\ ("dir" \in Type => emitted[at[w]] > 0)
    BY <1>1, <1>2, <2>1 DEF PosInv, Idle, AgentFound, Found
  <2>3. ToSet(todo'[w]) \subseteq Listed /\ \A b \in Agent : b # w => todo'[b] = todo[b]
    <3>1. CASE UNCHANGED todo
      BY <1>2, <3>1 DEF AgentFound
    <3>2. CASE ~UNCHANGED todo
      <4>1. PICK list \in SetToSeqs(Children[at[w]]) : todo' = [todo EXCEPT ![w] = list]
        BY <1>7, <3>2 DEF ReadDir
      <4>2. ToSet(list) \subseteq Children[at[w]] /\ Children[at[w]] \subseteq Node
        BY <2>2, Assumptions DEF SetToSeqs, ToSet
      <4>3. ToSet(list) \subseteq Listed
        BY <2>2, <4>2 DEF Listed
      <4> QED
        BY <1>1, <4>1, <4>3 DEF TypeOK
    <3> QED
      BY <3>1, <3>2
  <2>4. AgentFound(w)'
    BY <1>1, <1>2, <1>3, <2>1, <2>3 DEF AgentFound, Idle
  <2> QED
    BY <1>1, <1>3, <2>1, <2>3, <2>4, FoundQuiet
<1> QED
  BY <1>4, <1>5, <1>6, <1>7

(* A directory that goroutine a pushes was found. *)
LEMMA PushFound ==
  ASSUME TypeOK, NEW a \in Agent, ToSet(dirs[a]) \subseteq Found,
         NEW n \in Dirs, n \in Found, Push(a, n)
  PROVE  /\ ToSet(dirs'[a]) \subseteq Found
         /\ \A b \in Agent : b # a => dirs'[b] = dirs[b]
<1>1. dirs[a] \in Seq(Dirs) /\ dirs'[a] = Append(dirs[a], n)
  BY DEF Push, TypeOK
<1>2. ToSet(Append(dirs[a], n)) = ToSet(dirs[a]) \cup {n}
  BY <1>1, AppendElems
<1> QED
  BY <1>1, <1>2 DEF Push, TypeOK

(* The steps Main and the workers share: the options are asked about each   *)
(* name that goes further.                                                   *)
LEMMA NameFound ==
  ASSUME TypeOK, PosInv, FoundInv, NEW a \in Agent, NameStep(a)
  PROVE  FoundInv'
<1> USE DEF queue, maps, chans, hist
<1>1. AgentFound(a) /\ fs \subseteq Devs
  BY DEF FoundInv
<1>2. /\ UNCHANGED emitted => Listed' = Listed /\ Admitted' = Admitted /\ Found' = Found
      /\ UNCHANGED fs => fs' \subseteq Devs
  BY <1>1 DEF Found, Admitted, Listed
<1>3. CASE Name(a)
  <2>1. todo[a] \in Seq(Node) /\ todo[a] # <<>>
    BY <1>3 DEF Name, TypeOK
  <2>2. Head(todo[a]) \in ToSet(todo[a]) /\ ToSet(Tail(todo[a])) \subseteq ToSet(todo[a])
    BY <2>1, TailElems
  <2>3. /\ pc[a] = "next" /\ pc'[a] \in {"glob", "look"} /\ cur'[a] = Head(todo[a]) /\ todo'[a] = Tail(todo[a])
        /\ UNCHANGED <<at, dirs, ch, enqd, fs, emitted>>
        /\ \A b \in Agent : b # a => pc'[b] = pc[b] /\ cur'[b] = cur[b] /\ todo'[b] = todo[b]
    BY <1>3 DEF Name, Goto, TypeOK
  <2>4. AgentFound(a)'
    BY <1>1, <1>2, <2>2, <2>3 DEF AgentFound, Idle
  <2> QED
    BY <1>2, <2>3, <2>4, FoundQuiet
<1>4. CASE Look(a)
  <2>1. /\ pc[a] = "look" /\ cur[a] \in Node /\ cur[a] \in Listed
        /\ UNCHANGED <<at, cur, todo, ch, enqd, emitted>>
    BY <1>1, <1>4 DEF Look, PosInv, AgentFound
  <2>2. /\ pc'[a] \in {"next", "err", "link", "emit"}
        /\ \A b \in Agent : b # a => pc'[b] = pc[b]
    BY <1>4 DEF Look, Goto, TypeOK
  <2>3. pc'[a] \in {"link", "emit"} =>
          /\ cur[a] \notin Exclude /\ Filter[cur[a]] = "pass" /\ Kind[cur[a]] # "dir"
          /\ pc'[a] = "link" <=> Kind[cur[a]] = "link" /\ FollowSymlinks
    BY <1>4 DEF Look, Excluded, Passes, Goto, TypeOK
  <2>4. pc'[a] = "emit" => cur[a] \in Found
    <3> SUFFICES ASSUME pc'[a] = "emit" PROVE cur[a] \in Found
      OBVIOUS
    <3>1. Resolved(cur[a]) = cur[a]
      BY <2>3 DEF Resolved
    <3>2. cur[a] \in Admitted
      BY <2>1, <2>3, <3>1, Passing
    <3> QED
      BY <2>3, <3>2, Admission DEF Dirs
  <2>5. CASE UNCHANGED <<dirs, fs>>
    <3>1. AgentFound(a)'
      BY <1>1, <1>2, <2>1, <2>2, <2>3, <2>4, <2>5 DEF AgentFound, Idle
    <3> QED
      BY <1>2, <2>1, <2>2, <2>5, <3>1, FoundQuiet
  <2>6. CASE ~UNCHANGED <<dirs, fs>>
    <3>1. /\ cur[a] \notin Exclude /\ Filter[cur[a]] = "pass" /\ Kind[cur[a]] = "dir"
          /\ IF Descend(a, cur[a]) THEN Push(a, cur[a]) ELSE UNCHANGED dirs
          /\ TrackFS(a, cur[a]) /\ pc'[a] = "next"
      BY <1>4, <2>6 DEF Look, Excluded, Passes, Goto, TypeOK
    <3>2. cur[a] \in Dirs /\ Resolved(cur[a]) = cur[a]
      BY <2>1, <3>1 DEF Dirs, Resolved
    <3>3. fs' \subseteq Devs
      <4>1. CASE a = Main
        <5>1. cur[a] \in ToSet(Names)
          BY <1>1, <2>1, <4>1 DEF AgentFound
        <5>2. Dev[cur[a]] \in Devs
          BY <3>1, <5>1, RootAdmission
        <5> QED
          BY <1>1, <3>1, <5>2 DEF TrackFS
      <4>2. CASE a # Main
        BY <1>1, <3>1, <4>2 DEF TrackFS
      <4> QED
        BY <4>1, <4>2
    <3>4. ToSet(dirs'[a]) \subseteq Found /\ \A b \in Agent : b # a => dirs'[b] = dirs[b]
      <4>1. CASE Descend(a, cur[a])
        <5>1. cur[a] \in Found
          <6>1. CASE a = Main
            <7>1. cur[a] \in ToSet(Names)
              BY <1>1, <2>1, <6>1 DEF AgentFound
            <7> QED
              BY <3>1, <7>1, RootAdmission
          <6>2. CASE a # Main
            <7>1. OneFS => Dev[cur[a]] \in Devs
              BY <1>1, <4>1, <6>2 DEF Descend, SameFS
            <7>2. cur[a] \in Admitted
              BY <2>1, <3>1, <3>2, Passing
            <7> QED
              BY <7>1, <7>2, Admission
          <6> QED
            BY <6>1, <6>2
        <5>2. ToSet(dirs[a]) \subseteq Found /\ Push(a, cur[a])
          BY <1>1, <3>1, <4>1 DEF AgentFound
        <5> QED
          BY <3>2, <5>1, <5>2, PushFound
      <4>2. CASE ~Descend(a, cur[a])
        BY <1>1, <3>1, <4>2 DEF AgentFound
      <4> QED
        BY <4>1, <4>2
    <3>5. AgentFound(a)'
      BY <1>1, <1>2, <2>1, <3>1, <3>4 DEF AgentFound, Idle
    <3> QED
      BY <2>1, <2>2, <3>3, <3>4, <3>5, FoundQuiet
  <2> QED
    BY <2>5, <2>6
<1>5. CASE Resolve(a)
  <2>1. /\ pc[a] = "link" /\ cur[a] \in Node /\ Kind[cur[a]] = "link"
        /\ cur[a] \in Listed /\ cur[a] \notin Exclude /\ Filter[cur[a]] = "pass" /\ FollowSymlinks
    BY <1>1, <1>5 DEF Resolve, PosInv, AgentFound
  <2>2. Target[cur[a]] = Resolved(cur[a]) /\ Resolved(cur[a]) \in Admitted
    BY <2>1, Passing DEF Resolved
  <2>3. /\ UNCHANGED <<at, todo, dirs, ch, enqd, fs, emitted>>
        /\ \A b \in Agent : b # a => pc'[b] = pc[b] /\ cur'[b] = cur[b]
        /\ (pc'[a] = "seen" /\ cur'[a] = Target[cur[a]]) \/ pc'[a] = "err"
    BY <1>5 DEF Resolve, Goto, TypeOK
  <2>4. AgentFound(a)'
    BY <1>1, <1>2, <2>1, <2>2, <2>3 DEF AgentFound, Idle
  <2> QED
    BY <1>2, <2>3, <2>4, FoundQuiet
<1>6. CASE LookTarget(a)
  <2>1. /\ pc[a] = "seen" /\ cur[a] \in Node /\ cur[a] \in Admitted
        /\ UNCHANGED <<at, cur, todo, ch, enqd, fs, emitted>>
    BY <1>1, <1>6 DEF LookTarget, PosInv, AgentFound
  <2>2. /\ pc'[a] \in {"next", "emit"} /\ \A b \in Agent : b # a => pc'[b] = pc[b]
        /\ pc'[a] = "emit" => Kind[cur[a]] # "dir"
    BY <1>6 DEF LookTarget, Goto, TypeOK
  <2>3. pc'[a] = "emit" => cur[a] \in Found
    BY <2>1, <2>2, Admission DEF Dirs
  <2>4. ToSet(dirs'[a]) \subseteq Found /\ \A b \in Agent : b # a => dirs'[b] = dirs[b]
    <3>1. CASE UNCHANGED dirs
      BY <1>1, <3>1 DEF AgentFound
    <3>2. CASE ~UNCHANGED dirs
      <4>1. Kind[cur[a]] = "dir" /\ SameFS(cur[a]) /\ Push(a, cur[a])
        BY <1>6, <3>2 DEF LookTarget
      <4>2. cur[a] \in Dirs /\ (OneFS => Dev[cur[a]] \in Devs)
        BY <1>1, <2>1, <4>1 DEF Dirs, SameFS
      <4>3. cur[a] \in Found
        BY <2>1, <4>2, Admission
      <4> QED
        BY <1>1, <4>1, <4>2, <4>3, PushFound DEF AgentFound
    <3> QED
      BY <3>1, <3>2
  <2>5. AgentFound(a)'
    BY <1>1, <1>2, <2>1, <2>2, <2>3, <2>4 DEF AgentFound, Idle
  <2> QED
    BY <1>2, <2>1, <2>2, <2>4, <2>5, FoundQuiet
<1>7. CASE OutputEntry(a)
  <2>1. /\ pc[a] = "emit" /\ cur[a] \in Node /\ cur[a] \in Found /\ Output(a, cur[a], "next", "err")
        /\ UNCHANGED <<at, cur, todo, dirs, ch, enqd, fs>>
    BY <1>1, <1>7 DEF OutputEntry, PosInv, AgentFound
  <2>2. Goto(a, "next") \/ Goto(a, "err")
    BY <2>1, OutputTypes
  <2>3. /\ \A n \in Node : n # cur[a] => emitted'[n] = emitted[n]
        /\ \A n \in Node : emitted[n] > 0 => emitted'[n] > 0
    BY <2>1, OutputCount
  <2>4. Listed \subseteq Listed' /\ Admitted \subseteq Admitted' /\ Found \subseteq Found'
    BY <2>3, FoundGrows
  <2>5. pc'[a] \in {"next", "err"} /\ \A b \in Agent : b # a => pc'[b] = pc[b]
    BY <2>2 DEF Goto, TypeOK
  <2>6. AgentFound(a)'
    BY <1>1, <2>1, <2>4, <2>5 DEF AgentFound, Idle
  <2>7. /\ ToSet(enqd') \subseteq Found' /\ ToSet(ch') \subseteq Found'
        /\ \A n \in Node : emitted'[n] > 0 => n \in Found'
    <3>1. \A n \in Node : emitted'[n] > 0 => n \in Found
      BY <2>1, <2>3 DEF FoundInv
    <3> QED
      BY <2>1, <2>4, <3>1 DEF FoundInv
  <2> QED
    BY <1>2, <2>1, <2>3, <2>5, <2>6, <2>7, FoundMove
<1>8. CASE SendErr(a)
  <2>1. /\ UNCHANGED <<at, cur, todo, dirs, ch, enqd, fs, emitted>>
        /\ \A b \in Agent : b # a => pc'[b] = pc[b]
        /\ \/ pc[a] = "err" /\ pc'[a] = "next"
           \/ pc[a] = "errout" /\ pc'[a] = "read"
           \/ pc[a] = "glob" /\ pc'[a] = "look"
    BY <1>8, ErrStates DEF SendErr, Goto, TypeOK
  <2>2. AgentFound(a)'
    BY <1>1, <1>2, <2>1 DEF AgentFound, Idle
  <2> QED
    BY <1>2, <2>1, <2>2, FoundQuiet
<1>9. CASE Enq(a)
  <2>1. /\ enqd' = enqd \o dirs[a] /\ dirs'[a] = <<>> /\ pc[a] = "next" /\ pc'[a] \in {"wait", "done"}
        /\ UNCHANGED <<at, cur, todo, ch, fs, emitted>>
        /\ \A b \in Agent : b # a => pc'[b] = pc[b] /\ dirs'[b] = dirs[b]
    BY <1>9 DEF Enq, Goto, TypeOK
  <2>2. ToSet(enqd') = ToSet(enqd) \cup ToSet(dirs[a]) /\ ToSet(dirs'[a]) = {}
    <3>1. enqd \in Seq(Dirs) /\ dirs[a] \in Seq(Dirs)
      BY DEF TypeOK
    <3>2. ToSet(enqd \o dirs[a]) = ToSet(enqd) \cup ToSet(dirs[a])
      BY <3>1, ConcatElems
    <3> QED
      BY <2>1, <3>2, EmptyElems
  <2>3. AgentFound(a)'
    BY <1>1, <1>2, <2>1, <2>2 DEF AgentFound, Idle
  <2>4. /\ ToSet(enqd') \subseteq Found' /\ ToSet(ch') \subseteq Found'
        /\ \A n \in Node : emitted'[n] > 0 => n \in Found'
    BY <1>1, <1>2, <2>1, <2>2 DEF FoundInv, AgentFound
  <2> QED
    BY <1>2, <2>1, <2>3, <2>4, FoundMove
<1> QED
  BY <1>3, <1>4, <1>5, <1>6, <1>7, <1>8, <1>9 DEF NameStep

(* The steps of the other goroutines *)
LEMMA OtherFound ==
  ASSUME TypeOK, FoundInv,
         EnqSend \/ CloseCh \/ CloseOut \/ CloseErr \/ Join \/ TakeOut \/ TakeErr \/ Quiet
  PROVE  FoundInv'
<1> USE DEF pos, queue, maps, chans, hist
<1>1. Main \in Agent
  BY Workers
<1>2. AgentFound(Main) /\ fs \subseteq Devs
  BY <1>1 DEF FoundInv
<1>3. UNCHANGED <<emitted, fs>>
  BY DEF EnqSend, CloseCh, CloseOut, CloseErr, Join, TakeOut, TakeErr, Quiet, vars
<1>4. Listed' = Listed /\ Admitted' = Admitted /\ Found' = Found
  BY <1>3 DEF Found, Admitted, Listed
<1>5. CASE CloseCh \/ CloseOut \/ CloseErr \/ Join
  <2>1. /\ UNCHANGED <<at, cur, todo, dirs, ch, enqd>>
        /\ pc'[Main] \in {"closeout", "closeerr", "join", "exit"}
        /\ \A b \in Agent : b # Main => pc'[b] = pc[b]
    BY <1>1, <1>5 DEF CloseCh, CloseOut, CloseErr, Join, Goto, TypeOK
  <2>2. AgentFound(Main)'
    BY <1>2, <1>4, <2>1 DEF AgentFound
  <2> QED
    BY <1>1, <1>2, <1>3, <2>1, <2>2, FoundQuiet
<1>6. CASE EnqSend \/ TakeOut \/ TakeErr \/ Quiet
  <2>1. UNCHANGED <<pc, at, cur, todo, dirs>>
    BY <1>6 DEF EnqSend, TakeOut, TakeErr, Quiet, vars
  <2>2. AgentFound(Main)'
    BY <1>2, <1>3, <1>4, <2>1 DEF AgentFound
  <2>3. ToSet(enqd') \subseteq Found /\ ToSet(ch') \subseteq Found
    <3>1. CASE UNCHANGED <<ch, enqd>>
      BY <3>1 DEF FoundInv
    <3>2. CASE ~UNCHANGED <<ch, enqd>>
      <4>1. PICK i \in 1 .. Len(enqd) : ch' = Append(ch, enqd[i]) /\ enqd' = RemoveAt(enqd, i)
        BY <1>6, <3>2 DEF EnqSend, TakeOut, TakeErr, Quiet, vars
      <4>2. enqd \in Seq(Dirs) /\ ch \in Seq(Dirs)
        BY DEF TypeOK
      <4>3. enqd[i] \in Dirs /\ enqd[i] \in ToSet(enqd)
        BY <4>2, ElementOfSeq DEF ToSet
      <4>4. ToSet(ch') = ToSet(ch) \cup {enqd[i]}
        BY <4>1, <4>2, <4>3, AppendElems
      <4>5. ToSet(enqd') \subseteq ToSet(enqd)
        BY <4>1, <4>2, RemoveElems
      <4> QED
        BY <4>3, <4>4, <4>5 DEF FoundInv
    <3> QED
      BY <3>1, <3>2
  <2>4. \A n \in Node : emitted'[n] > 0 => n \in Found'
    BY <1>3, <1>4 DEF FoundInv
  <2> QED
    BY <1>1, <1>2, <1>3, <1>4, <2>1, <2>2, <2>3, <2>4, FoundMove
<1> QED
  BY <1>5, <1>6

(* At first only the names given are there. *)
LEMMA InitFound == Init => FoundInv
<1> SUFFICES ASSUME Init PROVE FoundInv
  OBVIOUS
<1>1. ToSet(enqd) = {} /\ ToSet(ch) = {} /\ fs = {} /\ \A n \in Node : emitted[n] = 0
  BY EmptyElems DEF Init
<1>2. \A a \in Agent : /\ pc[a] = (IF a = Main THEN "next" ELSE "take") /\ ToSet(dirs[a]) = {}
                       /\ ToSet(todo[a]) = IF a = Main THEN ToSet(Names) ELSE {}
  BY EmptyElems, Workers DEF Init
<1>3. ASSUME NEW a \in Agent PROVE AgentFound(a)
  BY <1>2 DEF AgentFound, Listed, Idle
<1> QED
  BY <1>1, <1>3 DEF FoundInv

(* Everything is found in the right way in every reachable state. *)
THEOREM FoundInductive == Spec => [](IInv /\ FoundInv)
<1>1. IInv /\ FoundInv /\ [Next]_vars => FoundInv'
  <2> SUFFICES ASSUME IInv, FoundInv, [Next]_vars PROVE FoundInv'
    OBVIOUS
  <2>1. TypeOK /\ PosInv
    BY DEF IInv
  <2>2. CASE UNCHANGED vars
    <3>1. UNCHANGED <<pc, at, cur, todo, dirs, ch, enqd, fs, emitted>>
      BY <2>2 DEF vars, pos, queue, maps, hist
    <3> QED
      BY <3>1 DEF FoundInv, AgentFound, Found, Admitted, Listed
  <2>3. ASSUME NEW w \in Worker, WorkerStep(w) PROVE FoundInv'
    <3>1. w \in Agent
      BY Workers
    <3> QED
      BY <2>1, <2>3, <3>1, WorkerFound, NameFound DEF WorkerStep
  <2>4. CASE MainStep
    <3>1. Main \in Agent
      BY Workers
    <3> QED
      BY <2>1, <2>4, <3>1, NameFound, OtherFound DEF MainStep
  <2>5. CASE EnqStep \/ OutStep \/ ErrStep \/ Quiet
    BY <2>1, <2>5, OtherFound DEF EnqStep, OutStep, ErrStep
  <2> QED
    BY <2>2, <2>3, <2>4, <2>5 DEF Next
<1> QED
  BY Inductive, InitFound, <1>1, PTL DEF Spec

(* In a walk that does not follow symlinks, whatever the workers' order, a  *)
(* directory is output before anything in it: no worker reads a directory   *)
(* it has not output.                                                        *)
THEOREM ParentFirstHolds == Spec => []ParentFirst
<1>1. FoundInv => ParentFirst
  <2> SUFFICES ASSUME FoundInv, ~FollowSymlinks, "dir" \in Type,
                      NEW d \in Dirs, NEW n \in Children[d] \ ToSet(Names), emitted[n] > 0
               PROVE  emitted[d] > 0
    BY DEF ParentFirst
  <2>1. n \in Node
    BY Assumptions
  <2>2. PICK m \in Listed : n = Resolved(m)
    BY <2>1 DEF FoundInv, Found, Admitted, Accepted
  <2>3. n = m
    BY <2>2 DEF Resolved
  <2>4. PICK c \in Dirs : n \in Children[c] /\ emitted[c] > 0
    BY <2>2, <2>3 DEF Listed
  <2>5. c = d
    BY <2>4, FileSystem
  <2> QED
    BY <2>4, <2>5
<1> QED
  BY FoundInductive, <1>1, PTL

(* Whatever is output is asked for: it was given or lies in directories that *)
(* were, past Excludes, the filter and other file systems.                   *)
THEOREM OnlyAsked == Spec => [](\A n \in Node : emitted[n] > 0 => n \in MayAppear)
<1>1. FoundInv => \A n \in Node : emitted[n] > 0 => n \in MayAppear
  BY DEF FoundInv, Found
<1> QED
  BY FoundInductive, <1>1, PTL
-----------------------------------------------------------------------------
(* Tickets.  A spot, a goroutine or a queue, has a ticket for a set of names *)
(* if it holds one of them that may still be output; so has the output, once *)
(* one was.  At most one spot has it, and passes it on.                       *)
Has(q, M) == ToSet(q) \cap M # {}
Once(q, M) == \A j, k \in 1 .. Len(q) : q[j] \in M /\ q[k] \in M => j = k
Exclusive(S) == \A x, y \in S : x = y

InCh == -1
InEnqd == -2
IsOut == -3

(* One spot keeps its ticket, loses it, or passes it to one other. *)
LEMMA Passed ==
  ASSUME NEW S, NEW T, NEW y, Exclusive(S), T \subseteq S \/ T \subseteq {y}
  PROVE  Exclusive(T)
BY DEF Exclusive

(* Has and Once, for a queue that grows or shrinks *)
LEMMA TailOnce ==
  ASSUME NEW S, NEW q \in Seq(S), q # <<>>, NEW M
  PROVE  /\ Has(Tail(q), M) => Has(q, M)
         /\ Head(q) \in M => Has(q, M)
         /\ Once(q, M) => Once(Tail(q), M)
         /\ Once(q, M) /\ Head(q) \in M => ~Has(Tail(q), M)
<1>1. Has(Tail(q), M) => Has(q, M)
  BY TailElems DEF Has
<1>2. Head(q) \in M => Has(q, M)
  BY TailElems DEF Has
<1>3. Len(q) \in Nat \ {0} /\ 1 \in 1 .. Len(q) /\ Head(q) = q[1]
  BY EmptySeq, HeadTailProperties
<1>4. /\ Len(Tail(q)) = Len(q) - 1 /\ DOMAIN Tail(q) = 1 .. Len(q) - 1
      /\ \A k \in 1 .. Len(q) - 1 : Tail(q)[k] = q[k + 1]
  BY <1>3, HeadTailProperties
<1>5. \A k \in 1 .. Len(q) - 1 : k + 1 \in 1 .. Len(q) /\ k + 1 # 1
  BY <1>3
<1>6. ASSUME Once(q, M) PROVE Once(Tail(q), M)
  <2> SUFFICES ASSUME NEW j \in 1 .. Len(q) - 1, NEW k \in 1 .. Len(q) - 1,
                      Tail(q)[j] \in M, Tail(q)[k] \in M
               PROVE  j = k
    BY <1>4 DEF Once
  <2>1. j + 1 = k + 1
    BY <1>4, <1>5, <1>6 DEF Once
  <2> QED
    BY <2>1
<1>7. ASSUME Once(q, M), Head(q) \in M PROVE ~Has(Tail(q), M)
  <2> SUFFICES ASSUME NEW k \in 1 .. Len(q) - 1, Tail(q)[k] \in M PROVE FALSE
    BY <1>4 DEF Has, ToSet
  <2> QED
    BY <1>3, <1>4, <1>5, <1>7 DEF Once
<1> QED
  BY <1>1, <1>2, <1>6, <1>7

(* Appending a name keeps Once if none of M is there, or the name is not of M. *)
LEMMA AppendOnce ==
  ASSUME NEW S, NEW q \in Seq(S), NEW x \in S, NEW M
  PROVE  /\ Has(Append(q, x), M) <=> Has(q, M) \/ x \in M
         /\ Once(q, M) /\ (x \in M => ~Has(q, M)) => Once(Append(q, x), M)
<1> DEFINE r == Append(q, x)
<1>1. Len(q) \in Nat /\ DOMAIN q = 1 .. Len(q)
  OBVIOUS
<1>2. /\ Len(r) = Len(q) + 1 /\ r[Len(q) + 1] = x
      /\ \A k \in 1 .. Len(q) : r[k] = q[k]
  BY <1>1, AppendProperties
<1>3. Has(r, M) <=> Has(q, M) \/ x \in M
  BY AppendElems DEF Has
<1> HIDE DEF r
<1>4. \A k \in 1 .. Len(q) + 1 : k \in 1 .. Len(q) \/ k = Len(q) + 1
  BY <1>1
<1>5. ASSUME Once(q, M), x \in M => ~Has(q, M) PROVE Once(r, M)
  <2> SUFFICES ASSUME NEW j \in 1 .. Len(q) + 1, NEW k \in 1 .. Len(q) + 1, r[j] \in M, r[k] \in M
               PROVE  j = k
    BY <1>2 DEF Once
  <2>1. x \in M => \A l \in 1 .. Len(q) : q[l] \notin M
    BY <1>1, <1>5 DEF Has, ToSet
  <2>2. CASE j \in 1 .. Len(q) /\ k \in 1 .. Len(q)
    BY <1>2, <1>5, <2>2 DEF Once
  <2>3. CASE j = Len(q) + 1 /\ k = Len(q) + 1
    BY <2>3
  <2>4. CASE j \in 1 .. Len(q) /\ k = Len(q) + 1
    BY <1>2, <2>1, <2>4
  <2>5. CASE j = Len(q) + 1 /\ k \in 1 .. Len(q)
    BY <1>2, <2>1, <2>5
  <2> QED
    BY <1>4, <2>2, <2>3, <2>4, <2>5
<1> QED
  BY <1>3, <1>5 DEF r

(* So does concatenation, if only one of the parts has a name of M. *)
LEMMA ConcatOnce ==
  ASSUME NEW S, NEW q \in Seq(S), NEW r \in Seq(S), NEW M
  PROVE  /\ Has(q \o r, M) <=> Has(q, M) \/ Has(r, M)
         /\ Once(q, M) /\ Once(r, M) /\ ~(Has(q, M) /\ Has(r, M)) => Once(q \o r, M)
<1> DEFINE c == q \o r
<1>1. /\ Len(q) \in Nat /\ DOMAIN q = 1 .. Len(q)
      /\ Len(r) \in Nat /\ DOMAIN r = 1 .. Len(r)
  OBVIOUS
<1>2. /\ Len(c) = Len(q) + Len(r)
      /\ \A k \in 1 .. Len(q) : c[k] = q[k]
      /\ \A k \in 1 .. Len(r) : c[Len(q) + k] = r[k]
  BY <1>1, ConcatProperties
<1>3. Has(c, M) <=> Has(q, M) \/ Has(r, M)
  BY ConcatElems DEF Has
<1> HIDE DEF c
<1>4. \A k \in 1 .. Len(q) + Len(r) : k \in 1 .. Len(q) \/ \E l \in 1 .. Len(r) : k = Len(q) + l
  <2> SUFFICES ASSUME NEW k \in 1 .. Len(q) + Len(r), k \notin 1 .. Len(q)
               PROVE  \E l \in 1 .. Len(r) : k = Len(q) + l
    OBVIOUS
  <2>1. k - Len(q) \in 1 .. Len(r) /\ k = Len(q) + (k - Len(q))
    BY <1>1
  <2> QED
    BY <2>1
<1>5. ASSUME Once(q, M), Once(r, M), ~(Has(q, M) /\ Has(r, M)) PROVE Once(c, M)
  <2> SUFFICES ASSUME NEW j \in 1 .. Len(q) + Len(r), NEW k \in 1 .. Len(q) + Len(r),
                      c[j] \in M, c[k] \in M
               PROVE  j = k
    BY <1>2 DEF Once
  <2>1. (\A l \in 1 .. Len(q) : q[l] \notin M) \/ (\A l \in 1 .. Len(r) : r[l] \notin M)
    BY <1>1, <1>5 DEF Has, ToSet
  <2>2. CASE j \in 1 .. Len(q) /\ k \in 1 .. Len(q)
    BY <1>2, <1>5, <2>2 DEF Once
  <2>3. ASSUME NEW l \in 1 .. Len(r), NEW m \in 1 .. Len(r), j = Len(q) + l, k = Len(q) + m PROVE j = k
    BY <1>2, <1>5, <2>3 DEF Once
  <2>4. ASSUME NEW l \in 1 .. Len(r), j \in 1 .. Len(q), k = Len(q) + l PROVE FALSE
    BY <1>2, <2>1, <2>4
  <2>5. ASSUME NEW l \in 1 .. Len(r), k \in 1 .. Len(q), j = Len(q) + l PROVE FALSE
    BY <1>2, <2>1, <2>5
  <2> QED
    BY <1>4, <2>2, <2>3, <2>4, <2>5
<1> QED
  BY <1>3, <1>5 DEF c

(* And taking one out, after which none of M is there if that was one. *)
LEMMA RemoveOnce ==
  ASSUME NEW S, NEW q \in Seq(S), NEW i \in 1 .. Len(q), NEW M
  PROVE  /\ Has(RemoveAt(q, i), M) => Has(q, M)
         /\ q[i] \in M => Has(q, M)
         /\ Once(q, M) => Once(RemoveAt(q, i), M)
         /\ Once(q, M) /\ q[i] \in M => ~Has(RemoveAt(q, i), M)
<1> DEFINE r == RemoveAt(q, i)
           Place(k) == IF k < i THEN k ELSE k + 1
<1>1. Len(q) \in Nat /\ i \in Int /\ DOMAIN q = 1 .. Len(q)
  OBVIOUS
<1>2. Len(r) = Len(q) - 1 /\ DOMAIN r = 1 .. Len(q) - 1
  BY RemoveOne
<1>3. \A k \in 1 .. Len(q) - 1 : r[k] = q[Place(k)] /\ Place(k) \in 1 .. Len(q) /\ Place(k) # i
  BY RemovePlaces
<1>4. \A j, k \in 1 .. Len(q) - 1 : Place(j) = Place(k) => j = k
  BY <1>1
<1>5. Has(r, M) => Has(q, M)
  BY RemoveElems DEF Has
<1> HIDE DEF r, Place
<1>6. q[i] \in M => Has(q, M)
  BY <1>1 DEF Has, ToSet
<1>7. ASSUME Once(q, M) PROVE Once(r, M)
  BY <1>2, <1>3, <1>4, <1>7 DEF Once
<1>8. ASSUME Once(q, M), q[i] \in M PROVE ~Has(r, M)
  <2> SUFFICES ASSUME NEW k \in 1 .. Len(q) - 1, r[k] \in M PROVE FALSE
    BY <1>2 DEF Has, ToSet
  <2> QED
    BY <1>3, <1>8 DEF Once
<1> QED
  BY <1>5, <1>6, <1>7, <1>8 DEF r

(* An empty queue has nothing. *)
LEMMA EmptyOnce == \A M : ~Has(<<>>, M) /\ Once(<<>>, M)
<1>1. PICK e \in Seq(Node) : e = <<>>
  BY EmptySeq
<1>2. 1 .. Len(e) = {}
  BY <1>1
<1> QED
  BY <1>1, <1>2, EmptyElems DEF Has, Once

(* Spots are told apart. *)
LEMMA Spots ==
  /\ Agent \subseteq Nat
  /\ InCh \notin Agent /\ InEnqd \notin Agent /\ IsOut \notin Agent
  /\ InCh # InEnqd /\ InCh # IsOut /\ InEnqd # IsOut
BY Workers DEF Worker, Main, Agent, InCh, InEnqd, IsOut

-----------------------------------------------------------------------------
(* Between two names a goroutine may have names still to process, and        *)
(* directories found; elsewhere it has none.  Symlinks are only resolved if  *)
(* the options say so, and then none is output.                              *)
Between == {"next", "glob", "look", "link", "seen", "emit", "err"}
Shape(a) ==
  /\ pc[a] \notin Between => todo[a] = <<>> /\ dirs[a] = <<>>
  /\ pc[a] \in {"link", "seen"} => FollowSymlinks
  /\ pc[a] = "seen" => Kind[cur[a]] # "link"
  /\ pc[a] = "emit" /\ FollowSymlinks => Kind[cur[a]] # "link"
ShapeInv == \A a \in Agent : Shape(a)

(* A step of one goroutine leaves the shape of the others alone. *)
LEMMA ShapeMove ==
  ASSUME TypeOK, ShapeInv, NEW a \in Agent, Shape(a)',
         \A b \in Agent : b # a => /\ pc'[b] = pc[b] /\ cur'[b] = cur[b]
                                   /\ todo'[b] = todo[b] /\ dirs'[b] = dirs[b]
  PROVE  ShapeInv'
<1>1. ASSUME NEW b \in Agent, b # a PROVE Shape(b)'
  <2>1. Shape(b)
    BY DEF ShapeInv
  <2> QED
    BY <1>1, <2>1 DEF Shape
<1> QED
  BY <1>1 DEF ShapeInv

(* The steps of the worker's loop keep the shape. *)
LEMMA WorkerShape ==
  ASSUME TypeOK, PosInv, ShapeInv, NEW w \in Worker,
         Take(w) \/ Exit(w) \/ StatDir(w) \/ OutputDir(w) \/ ReadDir(w) \/ Done(w)
  PROVE  ShapeInv'
<1>1. w \in Agent /\ Shape(w)
  BY Workers DEF ShapeInv
<1>2. CASE Take(w)
  <2>1. /\ pc[w] = "take" /\ pc'[w] = "stat" /\ UNCHANGED <<todo, dirs>>
        /\ \A b \in Agent : b # w => pc'[b] = pc[b] /\ cur'[b] = cur[b]
    BY <1>1, <1>2 DEF Take, Goto, TypeOK
  <2>2. Shape(w)'
    BY <1>1, <2>1 DEF Shape, Between
  <2> QED
    BY <1>1, <2>1, <2>2, ShapeMove
<1>3. CASE Exit(w) \/ StatDir(w) \/ Done(w)
  <2>1. /\ UNCHANGED <<cur, todo, dirs>> /\ \A b \in Agent : b # w => pc'[b] = pc[b]
        /\ \/ pc[w] = "take" /\ pc'[w] = "exit"
           \/ pc[w] = "stat" /\ pc'[w] \in {"out", "err"}
           \/ pc[w] = "done" /\ pc'[w] = "take"
    BY <1>1, <1>3 DEF Exit, StatDir, Done, Goto, TypeOK
  <2>2. Shape(w)'
    BY <1>1, <2>1 DEF Shape, Between
  <2> QED
    BY <1>1, <2>1, <2>2, ShapeMove
<1>4. CASE OutputDir(w)
  <2>1. at[w] \in Node /\ Output(w, at[w], "read", "errout")
    BY <1>4 DEF OutputDir, PosInv, Idle, Dirs
  <2>2. Goto(w, "read") \/ Goto(w, "errout")
    BY <1>1, <2>1, OutputTypes
  <2>3. /\ UNCHANGED <<cur, todo, dirs>> /\ \A b \in Agent : b # w => pc'[b] = pc[b]
        /\ pc[w] = "out" /\ pc'[w] \in {"read", "errout"}
    BY <1>1, <1>4, <2>2 DEF OutputDir, Goto, TypeOK
  <2>4. Shape(w)'
    BY <1>1, <2>3 DEF Shape, Between
  <2> QED
    BY <1>1, <2>3, <2>4, ShapeMove
<1>5. CASE ReadDir(w)
  <2>1. /\ UNCHANGED <<cur, dirs>> /\ pc'[w] \in {"next", "err"}
        /\ \A b \in Agent : b # w => pc'[b] = pc[b] /\ todo'[b] = todo[b]
    BY <1>1, <1>5 DEF ReadDir, Goto, TypeOK
  <2>2. Shape(w)'
    BY <1>1, <2>1 DEF Shape, Between
  <2> QED
    BY <1>1, <2>1, <2>2, ShapeMove
<1> QED
  BY <1>2, <1>3, <1>4, <1>5

(* The steps Main and the workers share keep the shape. *)
LEMMA NameShape ==
  ASSUME TypeOK, PosInv, ShapeInv, NEW a \in Agent, NameStep(a)
  PROVE  ShapeInv'
<1>1. Shape(a)
  BY DEF ShapeInv
<1>2. CASE Name(a)
  <2>1. /\ UNCHANGED dirs /\ pc'[a] \in {"glob", "look"}
        /\ \A b \in Agent : b # a => pc'[b] = pc[b] /\ cur'[b] = cur[b] /\ todo'[b] = todo[b]
    BY <1>2 DEF Name, Goto, TypeOK
  <2>2. Shape(a)'
    BY <2>1 DEF Shape, Between
  <2> QED
    BY <2>1, <2>2, ShapeMove
<1>3. CASE Look(a)
  <2>1. /\ UNCHANGED <<cur, todo>> /\ pc'[a] \in {"next", "err", "link", "emit"}
        /\ pc'[a] = "link" => FollowSymlinks
        /\ pc'[a] = "emit" => ~(Kind[cur[a]] = "link" /\ FollowSymlinks)
        /\ \A b \in Agent : b # a => pc'[b] = pc[b] /\ dirs'[b] = dirs[b]
    BY <1>3 DEF Look, Push, Goto, TypeOK
  <2>2. Shape(a)'
    BY <2>1 DEF Shape, Between
  <2> QED
    BY <2>1, <2>2, ShapeMove
<1>4. CASE Resolve(a)
  <2>1. cur[a] \in Node /\ Kind[cur[a]] = "link" /\ pc[a] = "link"
    BY <1>4 DEF Resolve, PosInv
  <2>2. Kind[Target[cur[a]]] # "link"
    BY <2>1, Assumptions
  <2>3. /\ UNCHANGED <<todo, dirs>>
        /\ (pc'[a] = "seen" /\ cur'[a] = Target[cur[a]]) \/ pc'[a] = "err"
        /\ \A b \in Agent : b # a => pc'[b] = pc[b] /\ cur'[b] = cur[b]
    BY <1>4 DEF Resolve, Goto, TypeOK
  <2>4. Shape(a)'
    BY <1>1, <2>1, <2>2, <2>3 DEF Shape, Between
  <2> QED
    BY <2>3, <2>4, ShapeMove
<1>5. CASE LookTarget(a)
  <2>1. /\ pc[a] = "seen" /\ pc'[a] \in {"next", "emit"} /\ UNCHANGED <<cur, todo>>
        /\ \A b \in Agent : b # a => pc'[b] = pc[b] /\ dirs'[b] = dirs[b]
    BY <1>5 DEF LookTarget, Push, Goto, TypeOK
  <2>2. Shape(a)'
    BY <1>1, <2>1 DEF Shape, Between
  <2> QED
    BY <2>1, <2>2, ShapeMove
<1>6. CASE OutputEntry(a)
  <2>1. cur[a] \in Node /\ Output(a, cur[a], "next", "err")
    BY <1>6 DEF OutputEntry, PosInv
  <2>2. Goto(a, "next") \/ Goto(a, "err")
    BY <2>1, OutputTypes
  <2>3. /\ UNCHANGED <<cur, todo, dirs>> /\ pc'[a] \in {"next", "err"}
        /\ \A b \in Agent : b # a => pc'[b] = pc[b]
    BY <1>6, <2>2 DEF OutputEntry, Goto, TypeOK
  <2>4. Shape(a)'
    BY <2>3 DEF Shape, Between
  <2> QED
    BY <2>3, <2>4, ShapeMove
<1>7. CASE SendErr(a)
  <2>1. /\ UNCHANGED <<cur, todo, dirs>> /\ \A b \in Agent : b # a => pc'[b] = pc[b]
        /\ \/ pc[a] = "err" /\ pc'[a] = "next"
           \/ pc[a] = "errout" /\ pc'[a] = "read"
           \/ pc[a] = "glob" /\ pc'[a] = "look"
    BY <1>7, ErrStates DEF SendErr, Goto, TypeOK
  <2>2. Shape(a)'
    BY <1>1, <2>1 DEF Shape, Between
  <2> QED
    BY <2>1, <2>2, ShapeMove
<1>8. CASE Enq(a)
  <2>1. /\ UNCHANGED <<cur, todo>> /\ todo[a] = <<>> /\ dirs'[a] = <<>> /\ pc'[a] \in {"wait", "done"}
        /\ \A b \in Agent : b # a => pc'[b] = pc[b] /\ dirs'[b] = dirs[b]
    BY <1>8 DEF Enq, Goto, TypeOK
  <2>2. Shape(a)'
    BY <2>1 DEF Shape, Between
  <2> QED
    BY <2>1, <2>2, ShapeMove
<1> QED
  BY <1>2, <1>3, <1>4, <1>5, <1>6, <1>7, <1>8 DEF NameStep

(* The steps of the other goroutines keep the shape. *)
LEMMA OtherShape ==
  ASSUME TypeOK, ShapeInv,
         EnqSend \/ CloseCh \/ CloseOut \/ CloseErr \/ Join \/ TakeOut \/ TakeErr \/ Quiet
  PROVE  ShapeInv'
<1>1. Main \in Agent /\ Shape(Main)
  BY Workers DEF ShapeInv
<1>2. CASE CloseCh \/ CloseOut \/ CloseErr \/ Join
  <2>1. /\ UNCHANGED <<cur, todo, dirs>> /\ \A b \in Agent : b # Main => pc'[b] = pc[b]
        /\ pc[Main] \notin Between /\ pc'[Main] \in {"closeout", "closeerr", "join", "exit"}
    BY <1>1, <1>2 DEF CloseCh, CloseOut, CloseErr, Join, Goto, TypeOK, Between
  <2>2. Shape(Main)'
    BY <1>1, <2>1 DEF Shape, Between
  <2> QED
    BY <1>1, <2>1, <2>2, ShapeMove
<1>3. CASE EnqSend \/ TakeOut \/ TakeErr \/ Quiet
  <2>1. UNCHANGED <<pc, cur, todo, dirs>>
    BY <1>3 DEF EnqSend, TakeOut, TakeErr, Quiet, vars, pos
  <2> QED
    BY <2>1 DEF ShapeInv, Shape
<1> QED
  BY <1>2, <1>3

(* Every step keeps the shape. *)
LEMMA ShapeStep == IInv /\ ShapeInv /\ [Next]_vars => ShapeInv'
<1> SUFFICES ASSUME IInv, ShapeInv, [Next]_vars PROVE ShapeInv'
  OBVIOUS
<1>1. TypeOK /\ PosInv /\ Main \in Agent /\ \A w \in Worker : w \in Agent
  BY Workers DEF IInv
<1>2. CASE UNCHANGED vars
  BY <1>2 DEF vars, pos, ShapeInv, Shape
<1>3. ASSUME NEW w \in Worker, WorkerStep(w) PROVE ShapeInv'
  BY <1>1, <1>3, WorkerShape, NameShape DEF WorkerStep
<1>4. CASE MainStep
  BY <1>1, <1>4, NameShape, OtherShape DEF MainStep
<1>5. CASE EnqStep \/ OutStep \/ ErrStep \/ Quiet
  BY <1>1, <1>5, OtherShape DEF EnqStep, OutStep, ErrStep
<1> QED
  BY <1>2, <1>3, <1>4, <1>5 DEF Next

(* At first Main has the names given, and nobody anything else. *)
LEMMA InitShape == Init => ShapeInv
BY DEF Init, ShapeInv, Shape, Between

-----------------------------------------------------------------------------
(* The ticket for an inode: it is given to the goroutine that stores the     *)
(* inode in the map, for the name it has.                                    *)
NamesOf(i) == {n \in Node : Inode[n] = i}

InodeHeld(a, i) ==
  \/ Has(dirs[a], NamesOf(i))
  \/ pc[a] \in {"stat", "out"} /\ at[a] \in NamesOf(i)
  \/ pc[a] = "emit" /\ cur[a] \in NamesOf(i)

InodeTicket(i) ==
  {a \in Agent : InodeHeld(a, i)} \cup {s \in {InCh} : Has(ch, NamesOf(i))}
  \cup {s \in {InEnqd} : Has(enqd, NamesOf(i))}
  \cup {s \in {IsOut} : \E n \in NamesOf(i) : emitted[n] > 0}

(* There is one ticket for an inode at most, and none before it is stored,   *)
(* or when it is that of a symlink that is followed; and who has it has one  *)
(* name of the inode, once.                                                   *)
Stored(i) ==
  /\ ino[i] = "absent" => InodeTicket(i) = {}
  /\ ino[i] = "changed" => FollowSymlinks /\ \A n \in NamesOf(i) : Kind[n] = "link"
Queued(i) ==
  /\ Once(ch, NamesOf(i)) /\ Once(enqd, NamesOf(i))
  /\ \A a \in Agent : /\ Once(dirs[a], NamesOf(i))
                      /\ pc[a] = "emit" /\ cur[a] \in NamesOf(i) => ~Has(dirs[a], NamesOf(i))
OutputOnce(i) ==
  /\ \A m, n \in NamesOf(i) : emitted[m] > 0 /\ emitted[n] > 0 => m = n
  /\ \A n \in NamesOf(i) : emitted[n] <= 1
InodeInv(i) == Exclusive(InodeTicket(i)) /\ Stored(i) /\ Queued(i) /\ OutputOnce(i)

(* Who has the ticket: what the set above says, spot by spot *)
LEMMA InodeSpots ==
  ASSUME NEW i
  PROVE  /\ \A a \in Agent : a \in InodeTicket(i) <=> InodeHeld(a, i)
         /\ InCh \in InodeTicket(i) <=> Has(ch, NamesOf(i))
         /\ InEnqd \in InodeTicket(i) <=> Has(enqd, NamesOf(i))
         /\ IsOut \in InodeTicket(i) <=> \E n \in NamesOf(i) : emitted[n] > 0
         /\ \A s \in InodeTicket(i) : s \in Agent \cup {InCh, InEnqd, IsOut}
BY Spots DEF InodeTicket

(* The same after a step *)
LEMMA InodeSpotsNext ==
  ASSUME NEW i
  PROVE  /\ \A a \in Agent : a \in InodeTicket(i)' <=> InodeHeld(a, i)'
         /\ InCh \in InodeTicket(i)' <=> Has(ch', NamesOf(i))
         /\ InEnqd \in InodeTicket(i)' <=> Has(enqd', NamesOf(i))
         /\ IsOut \in InodeTicket(i)' <=> \E n \in NamesOf(i) : emitted'[n] > 0
         /\ \A s \in InodeTicket(i)' : s \in Agent \cup {InCh, InEnqd, IsOut}
BY Spots DEF InodeTicket

(* A step of one goroutine that takes no new ticket: the others and the      *)
(* queues keep what they have.                                               *)
LEMMA InodeQuiet ==
  ASSUME TypeOK, NEW i, InodeInv(i), NEW a \in Agent, UNCHANGED <<ch, enqd, emitted>>,
         \A b \in Agent : b # a => /\ pc'[b] = pc[b] /\ at'[b] = at[b] /\ cur'[b] = cur[b]
                                   /\ dirs'[b] = dirs[b],
         InodeHeld(a, i)' => InodeHeld(a, i),
         Once(dirs'[a], NamesOf(i)),
         pc'[a] = "emit" /\ cur'[a] \in NamesOf(i) => ~Has(dirs'[a], NamesOf(i)),
         ino'[i] = ino[i] \/ (ino'[i] = "changed" /\ FollowSymlinks /\ \A n \in NamesOf(i) : Kind[n] = "link")
  PROVE  InodeInv(i)'
<1>1. \A b \in Agent : InodeHeld(b, i)' => InodeHeld(b, i)
  BY DEF InodeHeld
<1>2. InodeTicket(i)' \subseteq InodeTicket(i)
  BY <1>1, InodeSpots, InodeSpotsNext
<1>3. Exclusive(InodeTicket(i)')
  BY <1>2, Passed DEF InodeInv
<1>4. Stored(i)'
  BY <1>2 DEF InodeInv, Stored
<1>5. Queued(i)'
  BY DEF InodeInv, Queued
<1>6. OutputOnce(i)'
  BY DEF InodeInv, OutputOnce
<1> QED
  BY <1>3, <1>4, <1>5, <1>6 DEF InodeInv

(* Taking a directory from the channel passes the ticket to the worker, and  *)
(* outputting the directory passes it on.                                    *)
LEMMA WorkerInode ==
  ASSUME TypeOK, PosInv, ShapeInv, NEW i, InodeInv(i), NEW w \in Worker,
         Take(w) \/ Exit(w) \/ StatDir(w) \/ OutputDir(w) \/ ReadDir(w) \/ Done(w)
  PROVE  InodeInv(i)'
<1> DEFINE M == NamesOf(i)
<1>1. w \in Agent /\ Shape(w)
  BY Workers DEF ShapeInv
<1>2. Exclusive(InodeTicket(i)) /\ Stored(i) /\ Queued(i) /\ OutputOnce(i)
  BY DEF InodeInv
<1>3. CASE Take(w)
  <2>1. /\ ch # <<>> /\ ch \in Seq(Dirs) /\ ch' = Tail(ch) /\ UNCHANGED <<todo, dirs, enqd, ino, emitted>>
        /\ pc[w] = "take" /\ pc'[w] = "stat" /\ at'[w] = Head(ch)
        /\ \A b \in Agent : b # w => pc'[b] = pc[b] /\ at'[b] = at[b] /\ cur'[b] = cur[b]
    BY <1>1, <1>3 DEF Take, Goto, TypeOK, queue, maps, hist
  <2>2. ~Has(dirs'[w], M)
    BY <1>1, <2>1, EmptyOnce DEF Shape, Between
  <2>3. \A b \in Agent : b # w => (InodeHeld(b, i)' <=> InodeHeld(b, i))
    BY <2>1 DEF InodeHeld
  <2>4. InodeHeld(w, i)' <=> Head(ch) \in M
    BY <2>1, <2>2 DEF InodeHeld
  <2>5. CASE Head(ch) \in M
    <3>1. InCh \in InodeTicket(i) /\ ~Has(ch', M)
      BY <1>2, <2>1, <2>5, TailOnce, InodeSpots DEF Queued
    <3>2. \A s \in InodeTicket(i) : s = InCh
      BY <1>2, <3>1 DEF Exclusive
    <3>3. InodeTicket(i)' \subseteq {w}
      BY <2>1, <2>3, <3>1, <3>2, Spots, InodeSpots, InodeSpotsNext
    <3>4. Stored(i)'
      BY <1>2, <2>1, <3>1 DEF Stored
    <3>5. Queued(i)'
      BY <1>1, <1>2, <2>1, <2>2, TailOnce DEF Queued
    <3> QED
      BY <1>2, <2>1, <3>3, <3>4, <3>5, Passed DEF InodeInv, OutputOnce
  <2>6. CASE Head(ch) \notin M
    <3>1. Has(ch', M) => Has(ch, M)
      BY <2>1, TailOnce
    <3>2. InodeTicket(i)' \subseteq InodeTicket(i)
      BY <2>1, <2>3, <2>4, <2>6, <3>1, InodeSpots, InodeSpotsNext
    <3>3. Stored(i)'
      BY <1>2, <2>1, <3>2 DEF Stored
    <3>4. Queued(i)'
      BY <1>1, <1>2, <2>1, <2>2, TailOnce DEF Queued
    <3> QED
      BY <1>2, <2>1, <3>2, <3>3, <3>4, Passed DEF InodeInv, OutputOnce
  <2> QED
    BY <2>5, <2>6
<1>4. CASE Exit(w) \/ StatDir(w) \/ Done(w) \/ ReadDir(w)
  <2>1. /\ UNCHANGED <<at, cur, dirs, ch, enqd, ino, emitted>>
        /\ pc'[w] \in {"exit", "out", "err", "take", "next"} /\ \A b \in Agent : b # w => pc'[b] = pc[b]
        /\ pc'[w] = "out" => pc[w] = "stat"
    BY <1>1, <1>4 DEF Exit, StatDir, Done, ReadDir, Goto, TypeOK, queue, maps, hist
  <2>2. InodeHeld(w, i)' => InodeHeld(w, i)
    BY <2>1 DEF InodeHeld
  <2>3. Once(dirs'[w], M)
    BY <1>1, <1>2, <2>1 DEF Queued
  <2> QED
    BY <1>1, <2>1, <2>2, <2>3, InodeQuiet
<1>5. CASE OutputDir(w)
  <2>1. at[w] \in Node /\ pc[w] = "out" /\ Output(w, at[w], "read", "errout")
    BY <1>5 DEF OutputDir, PosInv, Idle, Dirs
  <2>2. Goto(w, "read") \/ Goto(w, "errout")
    BY <1>1, <2>1, OutputTypes
  <2>3. /\ UNCHANGED <<at, cur, dirs, ch, enqd, ino>>
        /\ pc'[w] \in {"read", "errout"} /\ \A b \in Agent : b # w => pc'[b] = pc[b]
    BY <1>1, <1>5, <2>2 DEF OutputDir, Goto, TypeOK, queue, maps
  <2>4. /\ \A m \in Node : m # at[w] => emitted'[m] = emitted[m]
        /\ emitted[at[w]] = 0 => emitted'[at[w]] <= 1
    BY <1>1, <2>1, OutputCount
  <2>5. ~InodeHeld(w, i)'
    BY <1>1, <2>1, <2>3, EmptyOnce DEF InodeHeld, Shape, Between
  <2>6. Queued(i)'
    BY <1>2, <2>3 DEF Queued
  <2>7. \A b \in Agent : b # w => (InodeHeld(b, i)' <=> InodeHeld(b, i))
    BY <2>3 DEF InodeHeld
  <2>8. CASE at[w] \in M
    <3>1. w \in InodeTicket(i)
      BY <1>1, <2>1, <2>8, InodeSpots DEF InodeHeld
    <3>2. \A s \in InodeTicket(i) : s = w
      BY <1>2, <3>1 DEF Exclusive
    <3>3. InodeTicket(i)' \subseteq {IsOut}
      BY <1>1, <2>3, <2>5, <2>7, <3>2, Spots, InodeSpots, InodeSpotsNext
    <3>4. \A n \in M : ~(emitted[n] > 0)
      BY <1>1, <3>2, Spots, InodeSpots
    <3>5. \A n \in M : emitted[n] = 0
      <4>1. \A n \in M : emitted[n] \in 0 .. 2
        BY DEF TypeOK, NamesOf
      <4> QED
        BY <3>4, <4>1
    <3>6. OutputOnce(i)'
      BY <2>4, <2>8, <3>5 DEF OutputOnce, NamesOf
    <3>7. Stored(i)'
      BY <1>2, <2>3, <3>1 DEF Stored
    <3> QED
      BY <1>2, <2>6, <3>3, <3>6, <3>7, Passed DEF InodeInv
  <2>9. CASE at[w] \notin M
    <3>1. \A n \in M : emitted'[n] = emitted[n]
      BY <2>4, <2>9 DEF NamesOf
    <3>2. InodeTicket(i)' \subseteq InodeTicket(i)
      BY <2>3, <2>5, <2>7, <3>1, InodeSpots, InodeSpotsNext
    <3>3. OutputOnce(i)'
      BY <1>2, <3>1 DEF OutputOnce
    <3>4. Stored(i)'
      BY <1>2, <2>3, <3>2 DEF Stored
    <3> QED
      BY <1>2, <2>6, <3>2, <3>3, <3>4, Passed DEF InodeInv
  <2> QED
    BY <2>8, <2>9
<1> QED
  BY <1>3, <1>4, <1>5

(* A goroutine that stores an inode gets the ticket for it: there was none.  *)
LEMMA InodeTaken ==
  ASSUME TypeOK, NEW i, InodeInv(i), NEW a \in Agent, UNCHANGED <<ch, enqd, emitted>>,
         \A b \in Agent : b # a => /\ pc'[b] = pc[b] /\ at'[b] = at[b] /\ cur'[b] = cur[b]
                                   /\ dirs'[b] = dirs[b],
         ino[i] = "absent", ino'[i] = "same",
         Once(dirs'[a], NamesOf(i)),
         pc'[a] = "emit" /\ cur'[a] \in NamesOf(i) => ~Has(dirs'[a], NamesOf(i))
  PROVE  InodeInv(i)'
<1>1. InodeTicket(i) = {}
  BY DEF InodeInv, Stored
<1>2. \A b \in Agent : b # a => (InodeHeld(b, i)' <=> InodeHeld(b, i))
  BY DEF InodeHeld
<1>3. InodeTicket(i)' \subseteq {a}
  BY <1>1, <1>2, InodeSpots, InodeSpotsNext
<1>4. Exclusive(InodeTicket(i)')
  BY <1>3 DEF Exclusive
<1>5. Stored(i)' /\ Queued(i)' /\ OutputOnce(i)'
  BY DEF InodeInv, Stored, Queued, OutputOnce
<1> QED
  BY <1>4, <1>5 DEF InodeInv

(* What the map holds after a name is remembered *)
LEMMA Remembered ==
  ASSUME TypeOK, IgnoreDuplicateInode, NEW n \in Node, NEW i \in DOMAIN ino,
         Remember(n), ~SeenBefore(n)
  PROVE  /\ Inode[n] # i => ino'[i] = ino[i]
         /\ Inode[n] = i => \/ ino[i] = "absent" /\ ino'[i] = "same"
                            \/ ino[i] = "changed" /\ ino'[i] = "changed"
BY DEF Remember, SeenBefore, TypeOK

(* The steps Main and the workers share: only the first who meets an inode   *)
(* goes on, and what it pushes or outputs is the name it met.                *)
LEMMA NameInode ==
  ASSUME TypeOK, PosInv, ShapeInv, IgnoreDuplicateInode, NEW i \in DOMAIN ino, InodeInv(i),
         NEW a \in Agent, NameStep(a)
  PROVE  InodeInv(i)'
<1> DEFINE M == NamesOf(i)
<1>1. Shape(a)
  BY DEF ShapeInv
<1>2. Exclusive(InodeTicket(i)) /\ Stored(i) /\ Queued(i) /\ OutputOnce(i)
  BY DEF InodeInv
<1>3. Once(dirs[a], M)
  BY <1>2 DEF Queued
<1>4. CASE Name(a) \/ SendErr(a)
  <2>1. /\ UNCHANGED <<at, dirs, ch, enqd, ino, emitted>> /\ pc'[a] \in {"glob", "look", "next", "read"}
        /\ \A b \in Agent : b # a => pc'[b] = pc[b] /\ cur'[b] = cur[b]
    BY <1>4, ErrStates DEF Name, SendErr, Goto, TypeOK, queue, maps, hist
  <2>2. InodeHeld(a, i)' => InodeHeld(a, i)
    BY <2>1 DEF InodeHeld
  <2> QED
    BY <1>3, <2>1, <2>2, InodeQuiet
<1>5. CASE Look(a)
  <2>1. /\ pc[a] = "look" /\ cur[a] \in Node /\ UNCHANGED <<at, cur, ch, enqd, emitted>>
        /\ \A b \in Agent : b # a => pc'[b] = pc[b] /\ dirs'[b] = dirs[b]
    BY <1>5 DEF Look, PosInv, Goto, Push, TypeOK, queue, hist
  <2>2. CASE UNCHANGED ino /\ UNCHANGED dirs /\ pc'[a] \in {"next", "err"}
    <3>1. InodeHeld(a, i)' => InodeHeld(a, i)
      BY <2>1, <2>2 DEF InodeHeld
    <3> QED
      BY <1>3, <2>1, <2>2, <3>1, InodeQuiet
  <2>3. CASE /\ ~SeenBefore(cur[a]) /\ Remember(cur[a])
             /\ \/ UNCHANGED dirs /\ pc'[a] \in {"next", "err", "link"}
                \/ UNCHANGED dirs /\ pc'[a] = "emit" /\ ~(Kind[cur[a]] = "link" /\ FollowSymlinks)
                \/ Kind[cur[a]] = "dir" /\ Push(a, cur[a]) /\ pc'[a] = "next"
    <3>1. /\ Inode[cur[a]] # i => ino'[i] = ino[i]
          /\ Inode[cur[a]] = i => \/ ino[i] = "absent" /\ ino'[i] = "same"
                                  \/ ino[i] = "changed" /\ ino'[i] = "changed"
      BY <2>1, <2>3, Remembered
    <3>2. cur[a] \in M <=> Inode[cur[a]] = i
      BY <2>1 DEF NamesOf
    <3>3. CASE UNCHANGED dirs /\ pc'[a] \in {"next", "err", "link"}
      <4>1. CASE ino'[i] = ino[i]
        <5>1. InodeHeld(a, i)' => InodeHeld(a, i)
          BY <2>1, <3>3 DEF InodeHeld
        <5> QED
          BY <1>3, <2>1, <3>3, <4>1, <5>1, InodeQuiet
      <4>2. CASE ino'[i] # ino[i]
        <5>1. ino[i] = "absent" /\ ino'[i] = "same"
          BY <3>1, <4>2
        <5> QED
          BY <1>3, <2>1, <3>3, <5>1, InodeTaken
      <4> QED
        BY <4>1, <4>2
    <3>4. CASE /\ UNCHANGED dirs /\ pc'[a] = "emit" /\ ~(Kind[cur[a]] = "link" /\ FollowSymlinks)
      <4>1. CASE cur[a] \in M
        <5>1. ino[i] # "changed"
          BY <1>2, <3>4, <4>1 DEF Stored
        <5>2. ino[i] = "absent" /\ ino'[i] = "same"
          BY <3>1, <3>2, <4>1, <5>1
        <5>3. ~Has(dirs[a], M)
          BY <1>2, <5>2, InodeSpots DEF Stored, InodeHeld
        <5> QED
          BY <1>3, <2>1, <3>4, <5>2, <5>3, InodeTaken
      <4>2. CASE cur[a] \notin M
        <5>1. InodeHeld(a, i)' => InodeHeld(a, i)
          BY <2>1, <3>4, <4>2 DEF InodeHeld
        <5> QED
          BY <1>3, <2>1, <3>1, <3>2, <3>4, <4>2, <5>1, InodeQuiet
      <4> QED
        BY <4>1, <4>2
    <3>5. CASE Kind[cur[a]] = "dir" /\ Push(a, cur[a]) /\ pc'[a] = "next"
      <4>1. dirs[a] \in Seq(Dirs) /\ cur[a] \in Dirs /\ dirs'[a] = Append(dirs[a], cur[a])
        BY <2>1, <3>5 DEF Push, TypeOK, Dirs
      <4>2. /\ Has(dirs'[a], M) <=> Has(dirs[a], M) \/ cur[a] \in M
            /\ (cur[a] \in M => ~Has(dirs[a], M)) => Once(dirs'[a], M)
        BY <1>3, <4>1, AppendOnce
      <4>3. CASE cur[a] \in M
        <5>1. ino[i] # "changed"
          BY <1>2, <3>5, <4>3 DEF Stored
        <5>2. ino[i] = "absent" /\ ino'[i] = "same"
          BY <3>1, <3>2, <4>3, <5>1
        <5>3. ~Has(dirs[a], M)
          BY <1>2, <5>2, InodeSpots DEF Stored, InodeHeld
        <5> QED
          BY <2>1, <3>5, <4>2, <5>2, <5>3, InodeTaken
      <4>4. CASE cur[a] \notin M
        <5>1. InodeHeld(a, i)' => InodeHeld(a, i)
          BY <2>1, <3>5, <4>2, <4>4 DEF InodeHeld
        <5> QED
          BY <2>1, <3>1, <3>2, <3>5, <4>2, <4>4, <5>1, InodeQuiet
      <4> QED
        BY <4>3, <4>4
    <3> QED
      BY <2>3, <3>3, <3>4, <3>5
  <2>4. \/ UNCHANGED ino /\ UNCHANGED dirs /\ pc'[a] \in {"next", "err"}
        \/ /\ ~SeenBefore(cur[a]) /\ Remember(cur[a])
           /\ \/ UNCHANGED dirs /\ pc'[a] \in {"next", "err", "link"}
              \/ UNCHANGED dirs /\ pc'[a] = "emit" /\ ~(Kind[cur[a]] = "link" /\ FollowSymlinks)
              \/ Kind[cur[a]] = "dir" /\ Push(a, cur[a]) /\ pc'[a] = "next"
    <3>1. \A p : Goto(a, p) => pc'[a] = p
      BY DEF Goto, TypeOK
    <3> QED
      BY <1>5, <3>1 DEF Look, maps
  <2> QED
    BY <2>2, <2>3, <2>4
<1>6. CASE Resolve(a)
  <2>1. pc[a] = "link" /\ cur[a] \in Node /\ Kind[cur[a]] = "link" /\ FollowSymlinks
    BY <1>1, <1>6 DEF Resolve, PosInv, Shape
  <2>2. /\ UNCHANGED <<at, dirs, ch, enqd, emitted>> /\ pc'[a] \in {"seen", "err"}
        /\ \A b \in Agent : b # a => pc'[b] = pc[b] /\ cur'[b] = cur[b]
        /\ ino' = ino \/ ino' = [ino EXCEPT ![Inode[cur[a]]] = "changed"]
    BY <1>6 DEF Resolve, Goto, TypeOK, queue, hist
  <2>3. ino'[i] = ino[i] \/ (ino'[i] = "changed" /\ \A n \in M : Kind[n] = "link")
    <3>1. CASE Inode[cur[a]] = i
      <4>1. \A n \in M : Kind[n] = "link"
        BY <2>1, <3>1, FileSystem DEF NamesOf
      <4> QED
        BY <2>2, <4>1, <3>1
    <3>2. CASE Inode[cur[a]] # i
      BY <2>2, <3>2
    <3> QED
      BY <3>1, <3>2
  <2>4. InodeHeld(a, i)' => InodeHeld(a, i)
    BY <2>2 DEF InodeHeld
  <2> QED
    BY <1>3, <2>1, <2>2, <2>3, <2>4, InodeQuiet
<1>7. CASE LookTarget(a)
  <2>1. /\ pc[a] = "seen" /\ cur[a] \in Node /\ Kind[cur[a]] # "link" /\ FollowSymlinks
        /\ UNCHANGED <<at, cur, ch, enqd, emitted>> /\ Remember(cur[a])
        /\ pc'[a] \in {"next", "emit"}
        /\ \A b \in Agent : b # a => pc'[b] = pc[b] /\ dirs'[b] = dirs[b]
    BY <1>1, <1>7 DEF LookTarget, PosInv, Shape, Goto, Push, TypeOK, queue, hist
  <2>2. \/ UNCHANGED dirs
        \/ pc'[a] = "next" /\ Kind[cur[a]] = "dir" /\ Push(a, cur[a])
    BY <1>7 DEF LookTarget, Goto, TypeOK
  <2>3. CASE SeenBefore(cur[a])
    <3>1. UNCHANGED dirs /\ pc'[a] = "next"
      BY <1>7, <2>3 DEF LookTarget, Goto, TypeOK
    <3>2. UNCHANGED ino
      BY <2>1, <2>3 DEF Remember, SeenBefore
    <3>3. InodeHeld(a, i)' => InodeHeld(a, i)
      BY <2>1, <3>1 DEF InodeHeld
    <3> QED
      BY <1>3, <2>1, <3>1, <3>2, <3>3, InodeQuiet
  <2>4. CASE ~SeenBefore(cur[a])
    <3>1. /\ Inode[cur[a]] # i => ino'[i] = ino[i]
          /\ Inode[cur[a]] = i => \/ ino[i] = "absent" /\ ino'[i] = "same"
                                  \/ ino[i] = "changed" /\ ino'[i] = "changed"
      BY <2>1, <2>4, Remembered
    <3>2. cur[a] \in M <=> Inode[cur[a]] = i
      BY <2>1 DEF NamesOf
    <3>3. Once(dirs'[a], M) \/ cur[a] \in M
      <4>1. CASE UNCHANGED dirs
        BY <1>3, <4>1
      <4>2. CASE ~UNCHANGED dirs
        <5>1. dirs[a] \in Seq(Dirs) /\ cur[a] \in Dirs /\ dirs'[a] = Append(dirs[a], cur[a])
          BY <2>1, <2>2, <4>2 DEF Push, TypeOK, Dirs
        <5> QED
          BY <1>3, <5>1, AppendOnce
      <4> QED
        BY <4>1, <4>2
    <3>4. CASE cur[a] \in M
      <4>1. ino[i] # "changed"
        BY <1>2, <2>1, <3>4 DEF Stored
      <4>2. ino[i] = "absent" /\ ino'[i] = "same"
        BY <3>1, <3>2, <3>4, <4>1
      <4>3. ~Has(dirs[a], M)
        BY <1>2, <4>2, InodeSpots DEF Stored, InodeHeld
      <4>4. Once(dirs'[a], M) /\ (pc'[a] = "emit" => ~Has(dirs'[a], M))
        <5>1. CASE UNCHANGED dirs
          BY <1>3, <4>3, <5>1
        <5>2. CASE ~UNCHANGED dirs
          <6>1. dirs[a] \in Seq(Dirs) /\ cur[a] \in Dirs /\ dirs'[a] = Append(dirs[a], cur[a]) /\ pc'[a] = "next"
            BY <2>1, <2>2, <5>2 DEF Push, TypeOK, Dirs
          <6> QED
            BY <1>3, <4>3, <6>1, AppendOnce
        <5> QED
          BY <5>1, <5>2
      <4> QED
        BY <2>1, <4>2, <4>4, InodeTaken
    <3>5. CASE cur[a] \notin M
      <4>1. Has(dirs'[a], M) => Has(dirs[a], M)
        <5>1. CASE ~UNCHANGED dirs
          <6>1. dirs[a] \in Seq(Dirs) /\ cur[a] \in Dirs /\ dirs'[a] = Append(dirs[a], cur[a])
            BY <2>1, <2>2, <5>1 DEF Push, TypeOK, Dirs
          <6> QED
            BY <3>5, <6>1, AppendOnce
        <5> QED
          BY <5>1
      <4>2. InodeHeld(a, i)' => InodeHeld(a, i)
        BY <2>1, <3>5, <4>1 DEF InodeHeld
      <4>3. ino'[i] = ino[i]
        BY <3>1, <3>2, <3>5
      <4> QED
        BY <2>1, <3>3, <3>5, <4>2, <4>3, InodeQuiet
    <3> QED
      BY <3>4, <3>5
  <2> QED
    BY <2>3, <2>4
<1>8. CASE OutputEntry(a)
  <2>1. cur[a] \in Node /\ pc[a] = "emit" /\ Output(a, cur[a], "next", "err")
    BY <1>8 DEF OutputEntry, PosInv
  <2>2. Goto(a, "next") \/ Goto(a, "err")
    BY <2>1, OutputTypes
  <2>3. /\ UNCHANGED <<at, cur, dirs, ch, enqd, ino>>
        /\ pc'[a] \in {"next", "err"} /\ \A b \in Agent : b # a => pc'[b] = pc[b]
    BY <1>8, <2>2 DEF OutputEntry, Goto, TypeOK, queue, maps
  <2>4. /\ \A m \in Node : m # cur[a] => emitted'[m] = emitted[m]
        /\ emitted[cur[a]] = 0 => emitted'[cur[a]] <= 1
    BY <2>1, OutputCount
  <2>5. Queued(i)'
    BY <1>2, <2>3 DEF Queued
  <2>6. \A b \in Agent : b # a => (InodeHeld(b, i)' <=> InodeHeld(b, i))
    BY <2>3 DEF InodeHeld
  <2>7. InodeHeld(a, i)' <=> Has(dirs[a], M)
    BY <2>3 DEF InodeHeld
  <2>8. CASE cur[a] \in M
    <3>1. a \in InodeTicket(i) /\ ~Has(dirs[a], M)
      BY <1>2, <2>1, <2>8, InodeSpots DEF InodeHeld, Queued
    <3>2. \A s \in InodeTicket(i) : s = a
      BY <1>2, <3>1 DEF Exclusive
    <3>3. InodeTicket(i)' \subseteq {IsOut}
      BY <2>3, <2>6, <2>7, <3>1, <3>2, Spots, InodeSpots, InodeSpotsNext
    <3>4. \A n \in M : ~(emitted[n] > 0)
      BY <3>2, Spots, InodeSpots
    <3>5. \A n \in M : emitted[n] = 0
      <4>1. \A n \in M : emitted[n] \in 0 .. 2
        BY DEF TypeOK, NamesOf
      <4> QED
        BY <3>4, <4>1
    <3>6. OutputOnce(i)'
      BY <2>4, <2>8, <3>5 DEF OutputOnce, NamesOf
    <3>7. Stored(i)'
      BY <1>2, <2>3, <3>1 DEF Stored
    <3> QED
      BY <1>2, <2>5, <3>3, <3>6, <3>7, Passed DEF InodeInv
  <2>9. CASE cur[a] \notin M
    <3>1. \A n \in M : emitted'[n] = emitted[n]
      BY <2>4, <2>9 DEF NamesOf
    <3>2. InodeHeld(a, i)' => InodeHeld(a, i)
      BY <2>7 DEF InodeHeld
    <3>3. InodeTicket(i)' \subseteq InodeTicket(i)
      BY <2>3, <2>6, <3>1, <3>2, InodeSpots, InodeSpotsNext
    <3>4. OutputOnce(i)'
      BY <1>2, <3>1 DEF OutputOnce
    <3>5. Stored(i)'
      BY <1>2, <2>3, <3>3 DEF Stored
    <3> QED
      BY <1>2, <2>5, <3>3, <3>4, <3>5, Passed DEF InodeInv
  <2> QED
    BY <2>8, <2>9
<1>9. CASE Enq(a)
  <2>1. /\ pc[a] = "next" /\ enqd' = enqd \o dirs[a] /\ dirs'[a] = <<>> /\ UNCHANGED <<at, cur, ch, ino, emitted>>
        /\ enqd \in Seq(Dirs) /\ dirs[a] \in Seq(Dirs) /\ pc'[a] \in {"wait", "done"}
        /\ \A b \in Agent : b # a => pc'[b] = pc[b] /\ dirs'[b] = dirs[b]
    BY <1>9 DEF Enq, Goto, TypeOK, maps, hist
  <2>2. Has(dirs[a], M) => ~Has(enqd, M)
    <3> SUFFICES ASSUME Has(dirs[a], M), Has(enqd, M) PROVE FALSE
      OBVIOUS
    <3>1. a \in InodeTicket(i) /\ InEnqd \in InodeTicket(i)
      BY InodeSpots DEF InodeHeld
    <3> QED
      BY <1>2, <3>1, Spots DEF Exclusive
  <2>3. /\ Has(enqd', M) <=> Has(enqd, M) \/ Has(dirs[a], M)
        /\ Once(enqd', M)
    BY <1>2, <1>3, <2>1, <2>2, ConcatOnce DEF Queued
  <2>4. ~Has(dirs'[a], M) /\ Once(dirs'[a], M)
    BY <2>1, EmptyOnce
  <2>5. \A b \in Agent : b # a => (InodeHeld(b, i)' <=> InodeHeld(b, i))
    BY <2>1 DEF InodeHeld
  <2>6. ~InodeHeld(a, i)'
    BY <2>1, <2>4 DEF InodeHeld
  <2>7. Queued(i)' /\ OutputOnce(i)'
    BY <1>2, <2>1, <2>3, <2>4 DEF Queued, OutputOnce
  <2>8. CASE Has(dirs[a], M)
    <3>1. a \in InodeTicket(i)
      BY <2>8, InodeSpots DEF InodeHeld
    <3>2. \A s \in InodeTicket(i) : s = a
      BY <1>2, <3>1 DEF Exclusive
    <3>3. InodeTicket(i)' \subseteq {InEnqd}
      BY <2>1, <2>5, <2>6, <3>2, Spots, InodeSpots, InodeSpotsNext
    <3>4. Stored(i)'
      BY <1>2, <2>1, <3>1 DEF Stored
    <3> QED
      BY <1>2, <2>7, <3>3, <3>4, Passed DEF InodeInv
  <2>9. CASE ~Has(dirs[a], M)
    <3>1. InodeTicket(i)' \subseteq InodeTicket(i)
      BY <2>1, <2>3, <2>5, <2>6, <2>9, InodeSpots, InodeSpotsNext
    <3>2. Stored(i)'
      BY <1>2, <2>1, <3>1 DEF Stored
    <3> QED
      BY <1>2, <2>7, <3>1, <3>2, Passed DEF InodeInv
  <2> QED
    BY <2>8, <2>9
<1> QED
  BY <1>4, <1>5, <1>6, <1>7, <1>8, <1>9 DEF NameStep

(* The steps of the other goroutines: an enq goroutine passes the ticket to  *)
(* the channel with the name it sends.                                       *)
LEMMA OtherInode ==
  ASSUME TypeOK, NEW i \in DOMAIN ino, InodeInv(i),
         EnqSend \/ CloseCh \/ CloseOut \/ CloseErr \/ Join \/ TakeOut \/ TakeErr \/ Quiet
  PROVE  InodeInv(i)'
<1> DEFINE M == NamesOf(i)
<1> USE DEF pos, queue, maps, chans, hist
<1>1. Main \in Agent
  BY Workers
<1>2. Exclusive(InodeTicket(i)) /\ Stored(i) /\ Queued(i) /\ OutputOnce(i)
  BY DEF InodeInv
<1>3. UNCHANGED <<at, cur, dirs, ino, emitted>>
  BY DEF EnqSend, CloseCh, CloseOut, CloseErr, Join, TakeOut, TakeErr, Quiet, vars
<1>4. CASE CloseCh \/ CloseOut \/ CloseErr \/ Join
  <2>1. /\ UNCHANGED <<ch, enqd>> /\ pc'[Main] \in {"closeout", "closeerr", "join", "exit"}
        /\ \A b \in Agent : b # Main => pc'[b] = pc[b]
    BY <1>1, <1>4 DEF CloseCh, CloseOut, CloseErr, Join, Goto, TypeOK
  <2>2. InodeHeld(Main, i)' => InodeHeld(Main, i)
    BY <1>3, <2>1 DEF InodeHeld
  <2>3. Once(dirs'[Main], M)
    BY <1>1, <1>2, <1>3 DEF Queued
  <2> QED
    BY <1>1, <1>3, <2>1, <2>2, <2>3, InodeQuiet
<1>5. CASE EnqSend \/ TakeOut \/ TakeErr \/ Quiet
  <2>1. UNCHANGED pc
    BY <1>5 DEF EnqSend, TakeOut, TakeErr, Quiet, vars
  <2>2. \A b \in Agent : InodeHeld(b, i)' <=> InodeHeld(b, i)
    BY <1>3, <2>1 DEF InodeHeld
  <2>3. CASE UNCHANGED <<ch, enqd>>
    <3>1. InodeTicket(i)' \subseteq InodeTicket(i)
      BY <1>3, <2>2, <2>3, InodeSpots, InodeSpotsNext
    <3>2. Stored(i)'
      BY <1>2, <1>3, <3>1 DEF Stored
    <3>3. Queued(i)' /\ OutputOnce(i)'
      BY <1>2, <1>3, <2>1, <2>3 DEF Queued, OutputOnce
    <3> QED
      BY <1>2, <3>1, <3>2, <3>3, Passed DEF InodeInv
  <2>4. CASE ~UNCHANGED <<ch, enqd>>
    <3>1. PICK k \in 1 .. Len(enqd) : ch' = Append(ch, enqd[k]) /\ enqd' = RemoveAt(enqd, k)
      BY <1>5, <2>4 DEF EnqSend, TakeOut, TakeErr, Quiet, vars
    <3>2. enqd \in Seq(Dirs) /\ ch \in Seq(Dirs)
      BY DEF TypeOK
    <3>3. enqd[k] \in Dirs
      BY <3>1, <3>2, ElementOfSeq
    <3>4. /\ Has(ch', M) <=> Has(ch, M) \/ enqd[k] \in M
          /\ (enqd[k] \in M => ~Has(ch, M)) => Once(ch', M)
      BY <1>2, <3>1, <3>2, <3>3, AppendOnce DEF Queued
    <3>5. /\ Has(enqd', M) => Has(enqd, M)
          /\ enqd[k] \in M => Has(enqd, M) /\ ~Has(enqd', M)
          /\ Once(enqd', M)
      BY <1>2, <3>1, <3>2, RemoveOnce DEF Queued
    <3>6. OutputOnce(i)'
      BY <1>2, <1>3 DEF OutputOnce
    <3>7. CASE enqd[k] \in M
      <4>1. InEnqd \in InodeTicket(i) /\ \A s \in InodeTicket(i) : s = InEnqd
        BY <1>2, <3>5, <3>7, InodeSpots DEF Exclusive
      <4>2. InodeTicket(i)' \subseteq {InCh} /\ ~Has(ch, M)
        BY <1>3, <2>2, <3>5, <3>7, <4>1, Spots, InodeSpots, InodeSpotsNext
      <4>3. Stored(i)'
        BY <1>2, <1>3, <4>1 DEF Stored
      <4>4. Queued(i)'
        BY <1>2, <1>3, <2>1, <3>4, <3>5, <4>2 DEF Queued
      <4> QED
        BY <1>2, <3>6, <4>2, <4>3, <4>4, Passed DEF InodeInv
    <3>8. CASE enqd[k] \notin M
      <4>1. InodeTicket(i)' \subseteq InodeTicket(i)
        BY <1>3, <2>2, <3>4, <3>5, <3>8, InodeSpots, InodeSpotsNext
      <4>2. Stored(i)'
        BY <1>2, <1>3, <4>1 DEF Stored
      <4>3. Queued(i)'
        BY <1>2, <1>3, <2>1, <3>4, <3>5, <3>8 DEF Queued
      <4> QED
        BY <1>2, <3>6, <4>1, <4>2, <4>3, Passed DEF InodeInv
    <3> QED
      BY <3>7, <3>8
  <2> QED
    BY <2>3, <2>4
<1> QED
  BY <1>4, <1>5

(* At first nobody has a ticket. *)
LEMMA InitInode == Init => \A i \in DOMAIN ino : InodeInv(i)
<1> SUFFICES ASSUME Init, NEW i \in DOMAIN ino PROVE InodeInv(i)
  OBVIOUS
<1>1. /\ ch = <<>> /\ enqd = <<>> /\ ino[i] = "absent"
      /\ \A n \in NamesOf(i) : emitted[n] = 0
      /\ \A a \in Agent : dirs[a] = <<>> /\ pc[a] \in {"next", "take"}
  BY DEF Init, NamesOf
<1>2. InodeTicket(i) = {}
  <2>1. \A a \in Agent : ~InodeHeld(a, i)
    BY <1>1, EmptyOnce DEF InodeHeld
  <2>2. ~Has(ch, NamesOf(i)) /\ ~Has(enqd, NamesOf(i)) /\ ~\E n \in NamesOf(i) : emitted[n] > 0
    BY <1>1, EmptyOnce
  <2> QED
    BY <2>1, <2>2, InodeSpots
<1>3. Exclusive(InodeTicket(i)) /\ Stored(i)
  BY <1>1, <1>2 DEF Exclusive, Stored
<1>4. Queued(i)
  BY <1>1, EmptyOnce DEF Queued
<1>5. OutputOnce(i)
  BY <1>1 DEF OutputOnce
<1> QED
  BY <1>3, <1>4, <1>5 DEF InodeInv

InodesInv == IgnoreDuplicateInode => \A i \in DOMAIN ino : InodeInv(i)

(* There is one ticket for each inode in every reachable state. *)
THEOREM InodeInductive == Spec => [](IInv /\ ShapeInv /\ InodesInv)
<1>1. Init => ShapeInv /\ InodesInv
  BY InitShape, InitInode DEF InodesInv
<1>2. IInv /\ ShapeInv /\ InodesInv /\ [Next]_vars => InodesInv'
  <2> SUFFICES ASSUME IInv, ShapeInv, InodesInv, [Next]_vars, IgnoreDuplicateInode,
                      NEW i \in (DOMAIN ino)'
               PROVE  InodeInv(i)'
    BY DEF InodesInv
  <2>1. TypeOK /\ PosInv /\ TypeOK'
    <3>1. TypeOK /\ PosInv
      BY DEF IInv
    <3>2. CASE UNCHANGED vars
      BY <3>1, <3>2 DEF vars, pos, queue, maps, chans, hist, TypeOK
    <3>3. CASE Next
      BY <3>1, <3>3, TypeStep DEF IInv
    <3> QED
      BY <3>1, <3>2, <3>3
  <2>2. i \in DOMAIN ino
    BY <2>1 DEF TypeOK
  <2>3. InodeInv(i)
    BY <2>2 DEF InodesInv
  <2>4. CASE UNCHANGED vars
    BY <2>3, <2>4 DEF vars, pos, queue, maps, hist, InodeInv, InodeTicket, InodeHeld, Exclusive, Stored, Queued, OutputOnce
  <2>5. ASSUME NEW w \in Worker, WorkerStep(w) PROVE InodeInv(i)'
    <3>1. w \in Agent
      BY Workers
    <3> QED
      BY <2>1, <2>2, <2>3, <2>5, <3>1, WorkerInode, NameInode DEF WorkerStep
  <2>6. CASE MainStep
    <3>1. Main \in Agent
      BY Workers
    <3> QED
      BY <2>1, <2>2, <2>3, <2>6, <3>1, NameInode, OtherInode DEF MainStep
  <2>7. CASE EnqStep \/ OutStep \/ ErrStep \/ Quiet
    BY <2>1, <2>2, <2>3, <2>7, OtherInode DEF EnqStep, OutStep, ErrStep
  <2> QED
    BY <2>4, <2>5, <2>6, <2>7 DEF Next
<1> QED
  BY Inductive, <1>1, <1>2, ShapeStep, PTL DEF Spec

(* With IgnoreDuplicateInode each inode is output once, under one name,      *)
(* whichever goroutines meet its names at the same time: LoadOrStore gives   *)
(* it to one of them, and following a symlink never gives it away again.     *)
THEOREM OncePerInodeHolds == Spec => []OncePerInode
<1>1. IInv /\ InodesInv => OncePerInode
  <2> SUFFICES ASSUME IInv, InodesInv, IgnoreDuplicateInode, NEW i \in DOMAIN ino
               PROVE  LET named == {n \in Node : Inode[n] = i /\ emitted[n] > 0}
                      IN  Cardinality(named) <= 1 /\ \A n \in named : emitted[n] = 1
    BY DEF OncePerInode
  <2> DEFINE named == {n \in Node : Inode[n] = i /\ emitted[n] > 0}
  <2>1. OutputOnce(i)
    BY DEF InodesInv, InodeInv
  <2>2. \A m, n \in named : m = n
    BY <2>1 DEF OutputOnce, NamesOf
  <2>3. \A n \in named : emitted[n] = 1
    <3> SUFFICES ASSUME NEW n \in named PROVE emitted[n] = 1
      OBVIOUS
    <3>1. emitted[n] \in 0 .. 2
      BY DEF IInv, TypeOK
    <3> QED
      BY <2>1, <3>1 DEF OutputOnce, NamesOf
  <2>4. Cardinality(named) <= 1
    <3> HIDE DEF named
    <3>1. CASE named = {}
      BY <3>1, FS_EmptySet
    <3>2. CASE named # {}
      <4>1. PICK n \in named : TRUE
        BY <3>2
      <4>2. named = {n}
        BY <2>2, <4>1
      <4> QED
        BY <4>2, FS_Singleton
    <3> QED
      BY <3>1, <3>2
  <2> QED
    BY <2>3, <2>4
<1> QED
  BY InodeInductive, <1>1, PTL

-----------------------------------------------------------------------------
(* The names below a name: itself, what it lists, what those list, ...        *)
Closed(S) == \A d \in S \cap Dirs : Children[d] \subseteq S
Below(n) == {m \in Node : \A S \in SUBSET Node : n \in S /\ Closed(S) => m \in S}
Above(n) == {m \in Node : n \in Below(m)}

(* Below(n) is the least closed set with n. *)
LEMMA BelowLeast ==
  ASSUME NEW n \in Node
  PROVE  /\ n \in Below(n) /\ Below(n) \subseteq Node /\ Closed(Below(n))
         /\ \A S \in SUBSET Node : n \in S /\ Closed(S) => Below(n) \subseteq S
<1>1. n \in Below(n) /\ Below(n) \subseteq Node
  BY DEF Below
<1>2. \A S \in SUBSET Node : n \in S /\ Closed(S) => Below(n) \subseteq S
  BY DEF Below
<1>3. Closed(Below(n))
  <2> SUFFICES ASSUME NEW d \in Below(n) \cap Dirs, NEW c \in Children[d] PROVE c \in Below(n)
    BY DEF Closed
  <2>1. c \in Node
    BY Assumptions
  <2>2. \A S \in SUBSET Node : n \in S /\ Closed(S) => c \in S
    BY <1>2 DEF Closed
  <2> QED
    BY <2>1, <2>2 DEF Below
<1> QED
  BY <1>1, <1>2, <1>3

(* What is below a name below n is below n. *)
LEMMA BelowBelow ==
  ASSUME NEW n \in Node, NEW m \in Below(n)
  PROVE  Below(m) \subseteq Below(n)
<1>1. m \in Node
  BY DEF Below
<1> QED
  BY <1>1, BelowLeast

(* A name below n other than n is listed by a directory below n. *)
LEMMA ListedBelow ==
  ASSUME NEW n \in Node, NEW c \in Below(n), c # n
  PROVE  \E d \in Below(n) \cap Dirs : c \in Children[d]
<1> SUFFICES ASSUME \A d \in Below(n) \cap Dirs : c \notin Children[d] PROVE FALSE
  OBVIOUS
<1> DEFINE S == Below(n) \ {c}
<1>1. S \in SUBSET Node /\ n \in S
  BY BelowLeast
<1>2. Closed(S)
  BY BelowLeast DEF Closed
<1> QED
  BY <1>1, <1>2, BelowLeast

(* A name below a directory, other than the directory, is below one of the   *)
(* names the directory lists.                                                *)
LEMMA BelowChild ==
  ASSUME NEW d \in Dirs, NEW m \in Below(d), m # d
  PROVE  \E c \in Children[d] : m \in Below(c)
<1> DEFINE S == {d} \cup {k \in Node : \E c \in Children[d] : k \in Below(c)}
<1>1. d \in Node /\ Children[d] \subseteq Node
  BY Assumptions DEF Dirs
<1>2. ASSUME NEW e \in S \cap Dirs, NEW k \in Children[e] PROVE k \in S
  <2>1. k \in Node
    BY Assumptions
  <2>2. CASE e = d
    BY <1>1, <2>1, <2>2, BelowLeast
  <2>3. CASE e # d
    <3>1. PICK c \in Children[d] : e \in Below(c)
      BY <2>3
    <3>2. k \in Below(c)
      BY <1>1, <3>1, BelowLeast DEF Closed
    <3> QED
      BY <2>1, <3>1, <3>2
  <2> QED
    BY <2>2, <2>3
<1>3. S \in SUBSET Node /\ d \in S /\ Closed(S)
  BY <1>1, <1>2 DEF Closed
<1>4. m \in S
  BY <1>1, <1>3, BelowLeast
<1> QED
  BY <1>4

(* No directory is below a name that it lists. *)
LEMMA NoCycle ==
  ASSUME NEW d \in Dirs, NEW c \in Children[d]
  PROVE  d \notin Below(c)
<1> SUFFICES ASSUME d \in Below(c) PROVE FALSE
  OBVIOUS
<1> DEFINE S == {x \in Below(c) : d \in Below(x)}
<1>1. d \in Node /\ c \in Node
  BY Assumptions DEF Dirs
<1>2. c \in S /\ d \in S /\ S \in SUBSET Node
  BY <1>1, BelowLeast
<1>3. PICK n \in S : \A e \in S \cap Dirs : n \notin Children[e]
  BY <1>2, FileSystem
<1>4. n # c
  BY <1>2, <1>3
<1>5. PICK e \in Below(c) \cap Dirs : n \in Children[e]
  BY <1>1, <1>4, ListedBelow
<1>6. n \in Below(e) /\ e \in Node
  BY <1>5, BelowLeast DEF Closed, Dirs
<1>7. d \in Below(e)
  BY <1>6, BelowBelow
<1> QED
  BY <1>3, <1>5, <1>7

(* Of two names with a name below both, one is below the other. *)
LEMMA Chain ==
  ASSUME NEW c \in Node, NEW e \in Node, NEW m \in Below(c) \cap Below(e)
  PROVE  c \in Below(e) \/ e \in Below(c)
<1> DEFINE S == Below(c) \cap Below(e)
<1>1. S \in SUBSET Node /\ S # {}
  BY BelowLeast
<1>2. PICK n \in S : \A d \in S \cap Dirs : n \notin Children[d]
  BY <1>1, FileSystem
<1>3. CASE n = c \/ n = e
  BY <1>2, <1>3
<1>4. CASE n # c /\ n # e
  <2>1. PICK d \in Below(c) \cap Dirs : n \in Children[d]
    BY <1>2, <1>4, ListedBelow
  <2>2. PICK f \in Below(e) \cap Dirs : n \in Children[f]
    BY <1>2, <1>4, ListedBelow
  <2>3. d = f
    BY <2>1, <2>2, FileSystem
  <2> QED
    BY <1>2, <2>1, <2>2, <2>3
<1> QED
  BY <1>3, <1>4

(* Of the names a directory lists only one has a given name below it. *)
LEMMA OneBranch ==
  ASSUME NEW d \in Dirs, NEW c \in Children[d], NEW e \in Children[d], NEW m \in Below(c) \cap Below(e)
  PROVE  c = e
<1>1. c \in Node /\ e \in Node /\ d \in Node
  BY Assumptions DEF Dirs
<1>2. ASSUME NEW x \in Children[d], NEW y \in Children[d], x \in Below(y), x # y PROVE FALSE
  <2>1. y \in Node
    BY Assumptions
  <2>2. PICK f \in Below(y) \cap Dirs : x \in Children[f]
    BY <1>2, <2>1, ListedBelow
  <2>3. f = d
    BY <1>2, <2>2, FileSystem
  <2> QED
    BY <1>2, <2>2, <2>3, NoCycle
<1> QED
  BY <1>1, <1>2, Chain

(* The same, said of the names above n: a directory that lists one of them   *)
(* is one of them and not n, and lists one only.                             *)
LEMMA AboveChildren ==
  ASSUME NEW n \in Node, NEW d \in Dirs
  PROVE  /\ \A c, e \in Children[d] \cap Above(n) : c = e
         /\ Children[d] \cap Above(n) # {} => d \in Above(n) /\ d # n
<1>1. d \in Node /\ Children[d] \subseteq Node
  BY Assumptions DEF Dirs
<1>2. \A c, e \in Children[d] \cap Above(n) : c = e
  BY OneBranch DEF Above
<1>3. ASSUME NEW c \in Children[d] \cap Above(n) PROVE d \in Above(n) /\ d # n
  <2>1. n \in Below(c)
    BY <1>3 DEF Above
  <2>2. c \in Below(d)
    BY <1>1, BelowLeast DEF Closed
  <2>3. n \in Below(d)
    BY <1>1, <2>1, <2>2, BelowBelow
  <2> QED
    BY <1>1, <2>1, <2>3, NoCycle DEF Above
<1> QED
  BY <1>2, <1>3

-----------------------------------------------------------------------------
(* A walk of names that do not contain one another, in which no symlink is   *)
(* followed                                                                   *)
Separate ==
  /\ ~FollowSymlinks
  /\ \A j, k \in 1 .. Len(Names) : j # k => Names[k] \notin Below(Names[j])

(* The ticket for a name n: it goes down from the name given to n, with the  *)
(* names above n.  A worker that reads n itself has passed it on.            *)
NodeHeld(a, n) ==
  \/ Has(todo[a], Above(n)) \/ Has(dirs[a], Above(n))
  \/ pc[a] \in {"glob", "look", "emit"} /\ cur[a] \in Above(n)
  \/ pc[a] \in {"stat", "out"} /\ at[a] \in Above(n)
  \/ pc[a] \in {"errout", "read"} /\ at[a] \in Above(n) \ {n}

NodeTicket(n) ==
  {a \in Agent : NodeHeld(a, n)} \cup {s \in {InCh} : Has(ch, Above(n))}
  \cup {s \in {InEnqd} : Has(enqd, Above(n))} \cup {s \in {IsOut} : emitted[n] > 0}

(* A goroutine has it in one place, and once. *)
Tidy(a, n) ==
  /\ Once(todo[a], Above(n)) /\ Once(dirs[a], Above(n))
  /\ ~(Has(todo[a], Above(n)) /\ Has(dirs[a], Above(n)))
  /\ pc[a] \in {"glob", "look", "emit"} /\ cur[a] \in Above(n)
       => ~Has(todo[a], Above(n)) /\ ~Has(dirs[a], Above(n))

NodeInv(n) ==
  /\ Exclusive(NodeTicket(n))
  /\ Once(ch, Above(n)) /\ Once(enqd, Above(n))
  /\ \A a \in Agent : Tidy(a, n)
  /\ emitted[n] <= 1

(* Who has the ticket, spot by spot, before and after a step *)
LEMMA NodeSpots ==
  ASSUME NEW n
  PROVE  /\ \A a \in Agent : a \in NodeTicket(n) <=> NodeHeld(a, n)
         /\ InCh \in NodeTicket(n) <=> Has(ch, Above(n))
         /\ InEnqd \in NodeTicket(n) <=> Has(enqd, Above(n))
         /\ IsOut \in NodeTicket(n) <=> emitted[n] > 0
         /\ \A s \in NodeTicket(n) : s \in Agent \cup {InCh, InEnqd, IsOut}
BY Spots DEF NodeTicket

(* and the same after a step *)
LEMMA NodeSpotsNext ==
  ASSUME NEW n
  PROVE  /\ \A a \in Agent : a \in NodeTicket(n)' <=> NodeHeld(a, n)'
         /\ InCh \in NodeTicket(n)' <=> Has(ch', Above(n))
         /\ InEnqd \in NodeTicket(n)' <=> Has(enqd', Above(n))
         /\ IsOut \in NodeTicket(n)' <=> emitted'[n] > 0
         /\ \A s \in NodeTicket(n)' : s \in Agent \cup {InCh, InEnqd, IsOut}
BY Spots DEF NodeTicket

(* A step of one goroutine that takes no new ticket *)
LEMMA NodeQuiet ==
  ASSUME TypeOK, NEW n \in Node, NodeInv(n), NEW a \in Agent, UNCHANGED <<ch, enqd, emitted>>,
         \A b \in Agent : b # a => /\ pc'[b] = pc[b] /\ at'[b] = at[b] /\ cur'[b] = cur[b]
                                   /\ todo'[b] = todo[b] /\ dirs'[b] = dirs[b],
         NodeHeld(a, n)' => NodeHeld(a, n),
         Tidy(a, n)'
  PROVE  NodeInv(n)'
<1>1. \A b \in Agent : NodeHeld(b, n)' => NodeHeld(b, n)
  BY DEF NodeHeld
<1>2. NodeTicket(n)' \subseteq NodeTicket(n)
  BY <1>1, NodeSpots, NodeSpotsNext
<1>3. Exclusive(NodeTicket(n)')
  BY <1>2, Passed DEF NodeInv
<1>4. \A b \in Agent : Tidy(b, n)'
  BY DEF NodeInv, Tidy
<1> QED
  BY <1>3, <1>4 DEF NodeInv

(* Taking a directory from the channel passes the ticket to the worker,       *)
(* outputting n passes it on, and reading a directory above n passes it to    *)
(* the one name listed there that is above n or n.                            *)
LEMMA WorkerNode ==
  ASSUME TypeOK, PosInv, ShapeInv, NEW n \in Node, NodeInv(n), NEW w \in Worker,
         Take(w) \/ Exit(w) \/ StatDir(w) \/ OutputDir(w) \/ ReadDir(w) \/ Done(w)
  PROVE  NodeInv(n)'
<1> DEFINE M == Above(n)
<1>1. w \in Agent /\ Shape(w)
  BY Workers DEF ShapeInv
<1>2. /\ Exclusive(NodeTicket(n)) /\ Once(ch, M) /\ Once(enqd, M) /\ emitted[n] <= 1
      /\ \A a \in Agent : Tidy(a, n)
  BY DEF NodeInv
<1>3. pc[w] \in {"take", "stat", "out", "errout", "read", "done"} => ~Has(todo[w], M) /\ ~Has(dirs[w], M)
  BY <1>1, EmptyOnce DEF Shape, Between
<1>4. CASE Take(w)
  <2>1. /\ ch # <<>> /\ ch \in Seq(Dirs) /\ ch' = Tail(ch) /\ UNCHANGED <<todo, dirs, enqd, emitted>>
        /\ pc[w] = "take" /\ pc'[w] = "stat" /\ at'[w] = Head(ch)
        /\ \A b \in Agent : b # w => pc'[b] = pc[b] /\ at'[b] = at[b] /\ cur'[b] = cur[b]
    BY <1>1, <1>4 DEF Take, Goto, TypeOK, queue, maps, hist
  <2>2. \A b \in Agent : b # w => (NodeHeld(b, n)' <=> NodeHeld(b, n))
    BY <2>1 DEF NodeHeld
  <2>3. NodeHeld(w, n)' <=> Head(ch) \in M
    BY <1>3, <2>1 DEF NodeHeld
  <2>4. \A b \in Agent : Tidy(b, n)'
    BY <1>2, <2>1 DEF Tidy
  <2>5. Once(ch', M)
    BY <1>2, <2>1, TailOnce
  <2>6. CASE Head(ch) \in M
    <3>1. InCh \in NodeTicket(n) /\ ~Has(ch', M)
      BY <1>2, <2>1, <2>6, TailOnce, NodeSpots
    <3>2. \A s \in NodeTicket(n) : s = InCh
      BY <1>2, <3>1 DEF Exclusive
    <3>3. NodeTicket(n)' \subseteq {w}
      BY <2>1, <2>2, <3>1, <3>2, Spots, NodeSpots, NodeSpotsNext
    <3> QED
      BY <1>2, <2>1, <2>4, <2>5, <3>3, Passed DEF NodeInv
  <2>7. CASE Head(ch) \notin M
    <3>1. Has(ch', M) => Has(ch, M)
      BY <2>1, TailOnce
    <3>2. NodeTicket(n)' \subseteq NodeTicket(n)
      BY <2>1, <2>2, <2>3, <2>7, <3>1, NodeSpots, NodeSpotsNext
    <3> QED
      BY <1>2, <2>1, <2>4, <2>5, <3>2, Passed DEF NodeInv
  <2> QED
    BY <2>6, <2>7
<1>5. CASE Exit(w) \/ StatDir(w) \/ Done(w)
  <2>1. /\ UNCHANGED <<at, cur, todo, dirs, ch, enqd, emitted>>
        /\ pc'[w] \in {"exit", "out", "err", "take"} /\ \A b \in Agent : b # w => pc'[b] = pc[b]
        /\ pc'[w] = "out" => pc[w] = "stat"
    BY <1>1, <1>5 DEF Exit, StatDir, Done, Goto, TypeOK, queue, maps, hist
  <2>2. NodeHeld(w, n)' => NodeHeld(w, n)
    BY <2>1 DEF NodeHeld
  <2>3. Tidy(w, n)'
    BY <1>1, <1>2, <2>1 DEF Tidy
  <2> QED
    BY <1>1, <2>1, <2>2, <2>3, NodeQuiet
<1>6. CASE OutputDir(w)
  <2>1. at[w] \in Node /\ pc[w] = "out" /\ Output(w, at[w], "read", "errout")
    BY <1>6 DEF OutputDir, PosInv, Idle, Dirs
  <2>2. Goto(w, "read") \/ Goto(w, "errout")
    BY <1>1, <2>1, OutputTypes
  <2>3. /\ UNCHANGED <<at, cur, todo, dirs, ch, enqd>>
        /\ pc'[w] \in {"read", "errout"} /\ \A b \in Agent : b # w => pc'[b] = pc[b]
    BY <1>1, <1>6, <2>2 DEF OutputDir, Goto, TypeOK, queue, maps
  <2>4. /\ \A m \in Node : m # at[w] => emitted'[m] = emitted[m]
        /\ emitted[at[w]] = 0 => emitted'[at[w]] <= 1
    BY <1>1, <2>1, OutputCount
  <2>5. \A b \in Agent : b # w => (NodeHeld(b, n)' <=> NodeHeld(b, n))
    BY <2>3 DEF NodeHeld
  <2>6. NodeHeld(w, n)' <=> at[w] \in M \ {n}
    BY <1>3, <2>1, <2>3 DEF NodeHeld
  <2>7. \A b \in Agent : Tidy(b, n)'
    BY <1>2, <1>3, <2>1, <2>3 DEF Tidy
  <2>8. CASE at[w] = n
    <3>1. n \in M
      BY BelowLeast DEF Above
    <3>2. w \in NodeTicket(n)
      BY <1>1, <2>1, <2>8, <3>1, NodeSpots DEF NodeHeld
    <3>3. \A s \in NodeTicket(n) : s = w
      BY <1>2, <3>2 DEF Exclusive
    <3>4. NodeTicket(n)' \subseteq {IsOut}
      BY <1>1, <2>3, <2>5, <2>6, <2>8, <3>3, Spots, NodeSpots, NodeSpotsNext
    <3>5. ~(emitted[n] > 0)
      BY <1>1, <3>3, Spots, NodeSpots
    <3>6. emitted[n] \in 0 .. 2
      BY DEF TypeOK
    <3>7. emitted'[n] <= 1
      BY <2>4, <2>8, <3>5, <3>6
    <3> QED
      BY <1>2, <2>3, <2>7, <3>4, <3>7, Passed DEF NodeInv
  <2>9. CASE at[w] # n
    <3>1. emitted'[n] = emitted[n]
      BY <2>4, <2>9
    <3>2. NodeHeld(w, n)' => NodeHeld(w, n)
      BY <2>1, <2>6 DEF NodeHeld
    <3>3. NodeTicket(n)' \subseteq NodeTicket(n)
      BY <2>3, <2>5, <3>1, <3>2, NodeSpots, NodeSpotsNext
    <3> QED
      BY <1>2, <2>3, <2>7, <3>1, <3>3, Passed DEF NodeInv
  <2> QED
    BY <2>8, <2>9
<1>7. CASE ReadDir(w)
  <2>1. /\ pc[w] = "read" /\ at[w] \in Dirs /\ pc'[w] \in {"next", "err"}
        /\ UNCHANGED <<at, cur, dirs, ch, enqd, emitted>>
        /\ \A b \in Agent : b # w => pc'[b] = pc[b] /\ todo'[b] = todo[b]
    BY <1>1, <1>7 DEF ReadDir, PosInv, Idle, Goto, TypeOK, queue, maps, hist
  <2>2. CASE UNCHANGED todo
    <3>1. NodeHeld(w, n)' => NodeHeld(w, n)
      BY <2>1, <2>2 DEF NodeHeld
    <3>2. Tidy(w, n)'
      BY <1>1, <1>2, <2>1, <2>2 DEF Tidy
    <3> QED
      BY <1>1, <2>1, <2>2, <3>1, <3>2, NodeQuiet
  <2>3. CASE ~UNCHANGED todo
    <3>1. PICK list \in SetToSeqs(Children[at[w]]) : todo' = [todo EXCEPT ![w] = list]
      BY <1>7, <2>3 DEF ReadDir
    <3>2. todo'[w] = list
      BY <1>1, <3>1 DEF TypeOK
    <3>3. Cardinality(Children[at[w]]) \in Nat
      BY <2>1, Assumptions, FS_CardinalityType
    <3>4. /\ Len(list) = Cardinality(Children[at[w]]) /\ DOMAIN list = 1 .. Len(list)
          /\ \A k \in 1 .. Len(list) : list[k] \in Children[at[w]]
          /\ \A j, k \in 1 .. Len(list) : j # k => list[j] # list[k]
      BY <3>3 DEF SetToSeqs
    <3>5. Once(list, M)
      BY <2>1, <3>4, AboveChildren DEF Once
    <3>6. Has(list, M) => at[w] \in M /\ at[w] # n
      <4> SUFFICES ASSUME Has(list, M) PROVE at[w] \in M /\ at[w] # n
        OBVIOUS
      <4>1. PICK k \in 1 .. Len(list) : list[k] \in M
        BY <3>4 DEF Has, ToSet
      <4>2. Children[at[w]] \cap M # {}
        BY <3>4, <4>1
      <4> QED
        BY <2>1, <4>2, AboveChildren
    <3>7. NodeHeld(w, n)' => NodeHeld(w, n)
      BY <1>3, <2>1, <3>2, <3>6 DEF NodeHeld
    <3>8. Tidy(w, n)'
      BY <1>1, <1>2, <1>3, <2>1, <3>2, <3>5 DEF Tidy
    <3> QED
      BY <1>1, <2>1, <3>7, <3>8, NodeQuiet
  <2> QED
    BY <2>2, <2>3
<1> QED
  BY <1>4, <1>5, <1>6, <1>7

(* The steps Main and the workers share: within a goroutine the ticket goes   *)
(* from todo to the name being processed, and from there to dirs or out.      *)
LEMMA NameNode ==
  ASSUME TypeOK, PosInv, ShapeInv, Separate, NEW n \in Node, NodeInv(n),
         NEW a \in Agent, NameStep(a)
  PROVE  NodeInv(n)'
<1> DEFINE M == Above(n)
<1>1. Shape(a) /\ ~FollowSymlinks
  BY DEF ShapeInv, Separate
<1>2. /\ Exclusive(NodeTicket(n)) /\ Once(ch, M) /\ Once(enqd, M) /\ emitted[n] <= 1
      /\ \A b \in Agent : Tidy(b, n)
  BY DEF NodeInv
<1>3. Tidy(a, n)
  BY <1>2
<1>4. CASE Name(a)
  <2>1. /\ pc[a] = "next" /\ todo[a] \in Seq(Node) /\ todo[a] # <<>>
        /\ UNCHANGED <<at, dirs, ch, enqd, emitted>> /\ pc'[a] \in {"glob", "look"}
        /\ todo'[a] = Tail(todo[a]) /\ cur'[a] = Head(todo[a])
        /\ \A b \in Agent : b # a => pc'[b] = pc[b] /\ cur'[b] = cur[b] /\ todo'[b] = todo[b]
    BY <1>4 DEF Name, Goto, TypeOK, queue, maps, hist
  <2>2. /\ Has(todo'[a], M) => Has(todo[a], M)
        /\ cur'[a] \in M => Has(todo[a], M) /\ ~Has(todo'[a], M)
        /\ Once(todo'[a], M)
    BY <1>3, <2>1, TailOnce DEF Tidy
  <2>3. NodeHeld(a, n)' => NodeHeld(a, n)
    BY <2>1, <2>2 DEF NodeHeld
  <2>4. Tidy(a, n)'
    BY <1>3, <2>1, <2>2 DEF Tidy
  <2> QED
    BY <2>1, <2>3, <2>4, NodeQuiet
<1>5. CASE Look(a)
  <2>1. /\ pc[a] = "look" /\ cur[a] \in Node /\ UNCHANGED <<at, cur, todo, ch, enqd, emitted>>
        /\ \A b \in Agent : b # a => pc'[b] = pc[b] /\ dirs'[b] = dirs[b]
    BY <1>5 DEF Look, PosInv, Goto, Push, TypeOK, queue, hist
  <2>2. CASE UNCHANGED dirs /\ pc'[a] \in {"next", "err", "emit"}
    <3>1. NodeHeld(a, n)' => NodeHeld(a, n)
      BY <2>1, <2>2 DEF NodeHeld
    <3>2. Tidy(a, n)'
      BY <1>3, <2>1, <2>2 DEF Tidy
    <3> QED
      BY <2>1, <3>1, <3>2, NodeQuiet
  <2>3. CASE Kind[cur[a]] = "dir" /\ Push(a, cur[a]) /\ pc'[a] = "next"
    <3>1. dirs[a] \in Seq(Dirs) /\ cur[a] \in Dirs /\ dirs'[a] = Append(dirs[a], cur[a])
      BY <2>1, <2>3 DEF Push, TypeOK, Dirs
    <3>2. Has(dirs'[a], M) <=> Has(dirs[a], M) \/ cur[a] \in M
      BY <3>1, AppendOnce
    <3>3. Once(dirs'[a], M)
      BY <1>3, <2>1, <3>1, AppendOnce DEF Tidy
    <3>4. NodeHeld(a, n)' => NodeHeld(a, n)
      BY <2>1, <2>3, <3>2 DEF NodeHeld
    <3>5. Tidy(a, n)'
      BY <1>3, <2>1, <2>3, <3>2, <3>3 DEF Tidy
    <3> QED
      BY <2>1, <3>4, <3>5, NodeQuiet
  <2>4. \/ UNCHANGED dirs /\ pc'[a] \in {"next", "err", "emit"}
        \/ Kind[cur[a]] = "dir" /\ Push(a, cur[a]) /\ pc'[a] = "next"
    <3>1. \A p : Goto(a, p) => pc'[a] = p
      BY DEF Goto, TypeOK
    <3> QED
      BY <1>1, <1>5, <3>1 DEF Look
  <2> QED
    BY <2>2, <2>3, <2>4
<1>6. CASE Resolve(a) \/ LookTarget(a)
  BY <1>1, <1>6 DEF Resolve, LookTarget, Shape
<1>7. CASE OutputEntry(a)
  <2>1. cur[a] \in Node /\ pc[a] = "emit" /\ Output(a, cur[a], "next", "err")
    BY <1>7 DEF OutputEntry, PosInv
  <2>2. Goto(a, "next") \/ Goto(a, "err")
    BY <2>1, OutputTypes
  <2>3. /\ UNCHANGED <<at, cur, todo, dirs, ch, enqd>>
        /\ pc'[a] \in {"next", "err"} /\ \A b \in Agent : b # a => pc'[b] = pc[b]
    BY <1>7, <2>2 DEF OutputEntry, Goto, TypeOK, queue, maps
  <2>4. /\ \A m \in Node : m # cur[a] => emitted'[m] = emitted[m]
        /\ emitted[cur[a]] = 0 => emitted'[cur[a]] <= 1
    BY <2>1, OutputCount
  <2>5. \A b \in Agent : b # a => (NodeHeld(b, n)' <=> NodeHeld(b, n))
    BY <2>3 DEF NodeHeld
  <2>6. NodeHeld(a, n)' <=> Has(todo[a], M) \/ Has(dirs[a], M)
    BY <2>3 DEF NodeHeld
  <2>7. \A b \in Agent : Tidy(b, n)'
    BY <1>2, <2>1, <2>3 DEF Tidy
  <2>8. CASE cur[a] = n
    <3>1. n \in M
      BY BelowLeast DEF Above
    <3>2. a \in NodeTicket(n) /\ ~Has(todo[a], M) /\ ~Has(dirs[a], M)
      BY <1>3, <2>1, <2>8, <3>1, NodeSpots DEF NodeHeld, Tidy
    <3>3. \A s \in NodeTicket(n) : s = a
      BY <1>2, <3>2 DEF Exclusive
    <3>4. NodeTicket(n)' \subseteq {IsOut}
      BY <2>3, <2>5, <2>6, <3>2, <3>3, Spots, NodeSpots, NodeSpotsNext
    <3>5. ~(emitted[n] > 0)
      BY <3>3, Spots, NodeSpots
    <3>6. emitted[n] \in 0 .. 2
      BY DEF TypeOK
    <3>7. emitted'[n] <= 1
      BY <2>4, <2>8, <3>5, <3>6
    <3> QED
      BY <1>2, <2>3, <2>7, <3>4, <3>7, Passed DEF NodeInv
  <2>9. CASE cur[a] # n
    <3>1. emitted'[n] = emitted[n]
      BY <2>4, <2>9
    <3>2. NodeHeld(a, n)' => NodeHeld(a, n)
      BY <2>6 DEF NodeHeld
    <3>3. NodeTicket(n)' \subseteq NodeTicket(n)
      BY <2>3, <2>5, <3>1, <3>2, NodeSpots, NodeSpotsNext
    <3> QED
      BY <1>2, <2>3, <2>7, <3>1, <3>3, Passed DEF NodeInv
  <2> QED
    BY <2>8, <2>9
<1>8. CASE SendErr(a)
  <2>1. /\ UNCHANGED <<at, cur, todo, dirs, ch, enqd, emitted>>
        /\ \A b \in Agent : b # a => pc'[b] = pc[b]
        /\ \/ pc[a] = "err" /\ pc'[a] = "next"
           \/ pc[a] = "errout" /\ pc'[a] = "read"
           \/ pc[a] = "glob" /\ pc'[a] = "look"
    BY <1>8, ErrStates DEF SendErr, Goto, TypeOK, queue, maps
  <2>2. NodeHeld(a, n)' => NodeHeld(a, n)
    BY <2>1 DEF NodeHeld
  <2>3. Tidy(a, n)'
    BY <1>3, <2>1 DEF Tidy
  <2> QED
    BY <2>1, <2>2, <2>3, NodeQuiet
<1>9. CASE Enq(a)
  <2>1. /\ pc[a] = "next" /\ enqd' = enqd \o dirs[a] /\ dirs'[a] = <<>>
        /\ UNCHANGED <<at, cur, todo, ch, emitted>>
        /\ enqd \in Seq(Dirs) /\ dirs[a] \in Seq(Dirs) /\ pc'[a] \in {"wait", "done"}
        /\ \A b \in Agent : b # a => pc'[b] = pc[b] /\ dirs'[b] = dirs[b]
    BY <1>9 DEF Enq, Goto, TypeOK, maps, hist
  <2>2. Has(dirs[a], M) => ~Has(enqd, M)
    <3> SUFFICES ASSUME Has(dirs[a], M), Has(enqd, M) PROVE FALSE
      OBVIOUS
    <3>1. a \in NodeTicket(n) /\ InEnqd \in NodeTicket(n)
      BY NodeSpots DEF NodeHeld
    <3> QED
      BY <1>2, <3>1, Spots DEF Exclusive
  <2>3. /\ Has(enqd', M) <=> Has(enqd, M) \/ Has(dirs[a], M)
        /\ Once(enqd', M)
    BY <1>2, <1>3, <2>1, <2>2, ConcatOnce DEF Tidy
  <2>4. ~Has(dirs'[a], M) /\ Once(dirs'[a], M)
    BY <2>1, EmptyOnce
  <2>5. \A b \in Agent : b # a => (NodeHeld(b, n)' <=> NodeHeld(b, n))
    BY <2>1 DEF NodeHeld
  <2>6. NodeHeld(a, n)' => Has(todo[a], M)
    BY <2>1, <2>4 DEF NodeHeld
  <2>7. \A b \in Agent : Tidy(b, n)'
    BY <1>2, <2>1, <2>4 DEF Tidy
  <2>8. CASE Has(dirs[a], M)
    <3>1. a \in NodeTicket(n) /\ ~Has(todo[a], M)
      BY <1>3, <2>8, NodeSpots DEF NodeHeld, Tidy
    <3>2. \A s \in NodeTicket(n) : s = a
      BY <1>2, <3>1 DEF Exclusive
    <3>3. NodeTicket(n)' \subseteq {InEnqd}
      BY <2>1, <2>5, <2>6, <3>1, <3>2, Spots, NodeSpots, NodeSpotsNext
    <3> QED
      BY <1>2, <2>1, <2>3, <2>7, <3>3, Passed DEF NodeInv
  <2>9. CASE ~Has(dirs[a], M)
    <3>1. NodeHeld(a, n)' => NodeHeld(a, n)
      BY <2>6 DEF NodeHeld
    <3>2. NodeTicket(n)' \subseteq NodeTicket(n)
      BY <2>1, <2>3, <2>5, <2>9, <3>1, NodeSpots, NodeSpotsNext
    <3> QED
      BY <1>2, <2>1, <2>3, <2>7, <3>2, Passed DEF NodeInv
  <2> QED
    BY <2>8, <2>9
<1> QED
  BY <1>4, <1>5, <1>6, <1>7, <1>8, <1>9 DEF NameStep

(* The steps of the other goroutines *)
LEMMA OtherNode ==
  ASSUME TypeOK, NEW n \in Node, NodeInv(n),
         EnqSend \/ CloseCh \/ CloseOut \/ CloseErr \/ Join \/ TakeOut \/ TakeErr \/ Quiet
  PROVE  NodeInv(n)'
<1> DEFINE M == Above(n)
<1> USE DEF pos, queue, maps, chans, hist
<1>1. Main \in Agent
  BY Workers
<1>2. /\ Exclusive(NodeTicket(n)) /\ Once(ch, M) /\ Once(enqd, M) /\ emitted[n] <= 1
      /\ \A b \in Agent : Tidy(b, n)
  BY DEF NodeInv
<1>3. UNCHANGED <<at, cur, todo, dirs, emitted>>
  BY DEF EnqSend, CloseCh, CloseOut, CloseErr, Join, TakeOut, TakeErr, Quiet, vars
<1>4. CASE CloseCh \/ CloseOut \/ CloseErr \/ Join
  <2>1. /\ UNCHANGED <<ch, enqd>> /\ pc'[Main] \in {"closeout", "closeerr", "join", "exit"}
        /\ \A b \in Agent : b # Main => pc'[b] = pc[b]
    BY <1>1, <1>4 DEF CloseCh, CloseOut, CloseErr, Join, Goto, TypeOK
  <2>2. NodeHeld(Main, n)' => NodeHeld(Main, n)
    BY <1>3, <2>1 DEF NodeHeld
  <2>3. Tidy(Main, n)'
    BY <1>1, <1>2, <1>3, <2>1 DEF Tidy
  <2> QED
    BY <1>1, <1>3, <2>1, <2>2, <2>3, NodeQuiet
<1>5. CASE EnqSend \/ TakeOut \/ TakeErr \/ Quiet
  <2>1. UNCHANGED pc
    BY <1>5 DEF EnqSend, TakeOut, TakeErr, Quiet, vars
  <2>2. \A b \in Agent : Tidy(b, n)' /\ (NodeHeld(b, n)' <=> NodeHeld(b, n))
    BY <1>2, <1>3, <2>1 DEF Tidy, NodeHeld
  <2>3. CASE UNCHANGED <<ch, enqd>>
    <3>1. NodeTicket(n)' \subseteq NodeTicket(n)
      BY <1>3, <2>2, <2>3, NodeSpots, NodeSpotsNext
    <3> QED
      BY <1>2, <1>3, <2>2, <2>3, <3>1, Passed DEF NodeInv
  <2>4. CASE ~UNCHANGED <<ch, enqd>>
    <3>1. PICK k \in 1 .. Len(enqd) : ch' = Append(ch, enqd[k]) /\ enqd' = RemoveAt(enqd, k)
      BY <1>5, <2>4 DEF EnqSend, TakeOut, TakeErr, Quiet, vars
    <3>2. enqd \in Seq(Dirs) /\ ch \in Seq(Dirs)
      BY DEF TypeOK
    <3>3. enqd[k] \in Dirs
      BY <3>1, <3>2, ElementOfSeq
    <3>4. /\ Has(ch', M) <=> Has(ch, M) \/ enqd[k] \in M
          /\ (enqd[k] \in M => ~Has(ch, M)) => Once(ch', M)
      BY <1>2, <3>1, <3>2, <3>3, AppendOnce
    <3>5. /\ Has(enqd', M) => Has(enqd, M)
          /\ enqd[k] \in M => Has(enqd, M) /\ ~Has(enqd', M)
          /\ Once(enqd', M)
      BY <1>2, <3>1, <3>2, RemoveOnce
    <3>6. CASE enqd[k] \in M
      <4>1. InEnqd \in NodeTicket(n) /\ \A s \in NodeTicket(n) : s = InEnqd
        BY <1>2, <3>5, <3>6, NodeSpots DEF Exclusive
      <4>2. NodeTicket(n)' \subseteq {InCh} /\ ~Has(ch, M)
        BY <1>3, <2>2, <3>5, <3>6, <4>1, Spots, NodeSpots, NodeSpotsNext
      <4> QED
        BY <1>2, <1>3, <2>2, <3>4, <3>5, <4>2, Passed DEF NodeInv
    <3>7. CASE enqd[k] \notin M
      <4>1. NodeTicket(n)' \subseteq NodeTicket(n)
        BY <1>3, <2>2, <3>4, <3>5, <3>7, NodeSpots, NodeSpotsNext
      <4> QED
        BY <1>2, <1>3, <2>2, <3>4, <3>5, <3>7, <4>1, Passed DEF NodeInv
    <3> QED
      BY <3>6, <3>7
  <2> QED
    BY <2>3, <2>4
<1> QED
  BY <1>4, <1>5

(* At first only Main can have a ticket: for a name, or a name above it, that *)
(* was given.                                                                *)
LEMMA InitNode == Init /\ Separate => \A n \in Node : NodeInv(n)
<1> SUFFICES ASSUME Init, Separate, NEW n \in Node PROVE NodeInv(n)
  OBVIOUS
<1> DEFINE M == Above(n)
<1>1. /\ ch = <<>> /\ enqd = <<>> /\ emitted[n] = 0
      /\ \A a \in Agent : dirs[a] = <<>> /\ pc[a] \in {"next", "take"}
      /\ \A a \in Agent : todo[a] = IF a = Main THEN Names ELSE <<>>
  BY DEF Init
<1>2. Once(Names, M)
  <2> SUFFICES ASSUME NEW j \in 1 .. Len(Names), NEW k \in 1 .. Len(Names),
                      Names[j] \in M, Names[k] \in M, j # k
               PROVE  FALSE
    BY DEF Once
  <2>1. /\ Names[j] \in Node /\ n \in Below(Names[j])
        /\ Names[k] \in Node /\ n \in Below(Names[k])
    BY DEF Above
  <2>2. Names[j] \in Below(Names[k]) \/ Names[k] \in Below(Names[j])
    BY <2>1, Chain
  <2> QED
    BY <2>2 DEF Separate
<1>3. \A a \in Agent : Tidy(a, n)
  BY <1>1, <1>2, EmptyOnce DEF Tidy
<1>4. \A a \in Agent : NodeHeld(a, n) => a = Main
  BY <1>1, EmptyOnce DEF NodeHeld
<1>5. ~Has(ch, M) /\ ~Has(enqd, M) /\ ~(emitted[n] > 0)
  BY <1>1, EmptyOnce
<1>6. NodeTicket(n) \subseteq {Main}
  BY <1>4, <1>5, NodeSpots
<1>7. Exclusive(NodeTicket(n))
  BY <1>6 DEF Exclusive
<1> QED
  BY <1>1, <1>3, <1>7, EmptyOnce DEF NodeInv

NodesInv == Separate => \A n \in Node : NodeInv(n)

(* There is one ticket for each name in every reachable state. *)
THEOREM NodeInductive == Spec => [](IInv /\ ShapeInv /\ NodesInv)
<1>1. Init => ShapeInv /\ NodesInv
  BY InitShape, InitNode DEF NodesInv
<1>2. IInv /\ ShapeInv /\ NodesInv /\ [Next]_vars => NodesInv'
  <2> SUFFICES ASSUME IInv, ShapeInv, NodesInv, [Next]_vars, Separate, NEW n \in Node
               PROVE  NodeInv(n)'
    BY DEF NodesInv
  <2>1. TypeOK /\ PosInv /\ NodeInv(n)
    BY DEF IInv, NodesInv
  <2>2. CASE UNCHANGED vars
    BY <2>1, <2>2 DEF vars, pos, queue, maps, hist, NodeInv, NodeTicket, NodeHeld, Exclusive, Tidy
  <2>3. ASSUME NEW w \in Worker, WorkerStep(w) PROVE NodeInv(n)'
    <3>1. w \in Agent
      BY Workers
    <3> QED
      BY <2>1, <2>3, <3>1, WorkerNode, NameNode DEF WorkerStep
  <2>4. CASE MainStep
    <3>1. Main \in Agent
      BY Workers
    <3> QED
      BY <2>1, <2>4, <3>1, NameNode, OtherNode DEF MainStep
  <2>5. CASE EnqStep \/ OutStep \/ ErrStep \/ Quiet
    BY <2>1, <2>5, OtherNode DEF EnqStep, OutStep, ErrStep
  <2> QED
    BY <2>2, <2>3, <2>4, <2>5 DEF Next
<1> QED
  BY Inductive, <1>1, <1>2, ShapeStep, PTL DEF Spec

(* In a walk of names that do not contain one another, without following      *)
(* symlinks, nothing is output that is not asked for, and no entry twice,     *)
(* without any record of what was output.                                     *)
THEOREM OnlyExpectedHolds == ASSUME Separate PROVE Spec => []OnlyExpected
<1>1. IInv /\ NodesInv /\ FoundInv => OnlyExpected
  <2> SUFFICES ASSUME IInv, NodesInv, FoundInv, NEW n \in Node
               PROVE  emitted[n] <= IF n \in MayAppear THEN 1 ELSE 0
    BY DEF OnlyExpected
  <2>1. emitted[n] \in 0 .. 2 /\ emitted[n] <= 1
    BY DEF IInv, TypeOK, NodesInv, NodeInv
  <2>2. emitted[n] > 0 => n \in MayAppear
    BY DEF FoundInv, Found
  <2> QED
    BY <2>1, <2>2
<1> QED
  BY NodeInductive, FoundInductive, <1>1, PTL

-----------------------------------------------------------------------------
(* What is known of Main before it waits, of the name a worker works on, and  *)
(* of the end                                                                 *)
Starting == pc[Main] \notin Closing \cup {"wait"}

PhaseInv ==
  /\ Starting => dirWg = 0
  /\ pc[Main] = "exit" => \A w \in Worker : pc[w] = "exit"
  /\ \A w \in Worker : pc[w] \in {"stat", "out", "errout", "read"} => cur[w] = at[w]
  /\ pc[Main] \in {"glob", "look", "link"} => cur[Main] \in ToSet(Names)
  /\ pc[Main] = "seen" => \E l \in ToSet(Names) : Kind[l] = "link" /\ cur[Main] = Target[l]

(* The steps of the worker's loop: there are none before Main waits, since    *)
(* nothing is queued, and none after the end.                                 *)
LEMMA WorkerPhase ==
  ASSUME IInv, PhaseInv, NEW w \in Worker,
         Take(w) \/ Exit(w) \/ StatDir(w) \/ OutputDir(w) \/ ReadDir(w) \/ Done(w)
  PROVE  PhaseInv'
<1>1. /\ w \in Agent /\ w # Main /\ Main \in Agent /\ \A v \in Worker : v \in Agent
      /\ TypeOK /\ PosInv /\ Balance
  BY Workers DEF IInv
<1>2. /\ pc[w] \in {"take", "stat", "out", "read", "done"}
      /\ at' = at \/ (pc'[w] = "stat" /\ at'[w] = cur'[w])
      /\ \A a \in Agent : a # w => pc'[a] = pc[a] /\ cur'[a] = cur[a] /\ at'[a] = at[a]
  <2>1. CASE OutputDir(w)
    <3>1. at[w] \in Node /\ pc[w] = "out" /\ Output(w, at[w], "read", "errout")
      BY <1>1, <2>1 DEF OutputDir, PosInv, Idle, Dirs
    <3>2. Goto(w, "read") \/ Goto(w, "errout")
      BY <1>1, <3>1, OutputTypes
    <3> QED
      BY <1>1, <2>1, <3>1, <3>2 DEF OutputDir, Goto, TypeOK
  <2>2. CASE Take(w) \/ Exit(w) \/ StatDir(w) \/ ReadDir(w) \/ Done(w)
    BY <1>1, <2>2 DEF Take, Exit, StatDir, ReadDir, Done, Goto, TypeOK
  <2> QED
    BY <2>1, <2>2
<1>3. pc'[w] \in {"stat", "out", "errout", "read"} => cur'[w] = at'[w]
  <2>1. CASE OutputDir(w)
    BY <1>1, <2>1 DEF OutputDir, PhaseInv
  <2>2. CASE Take(w)
    BY <1>1, <2>2 DEF Take, TypeOK
  <2>3. CASE Exit(w) \/ StatDir(w) \/ ReadDir(w) \/ Done(w)
    <3>1. UNCHANGED <<at, cur>> /\ (pc'[w] \in {"exit", "next", "err", "take"} \/ pc[w] = "stat")
      BY <1>1, <2>3 DEF Exit, StatDir, ReadDir, Done, Goto, TypeOK
    <3> QED
      BY <3>1 DEF PhaseInv
  <2> QED
    BY <2>1, <2>2, <2>3
<1>4. CASE dirWg = 0
  <2>1. ch = <<>> /\ pc[w] = "take"
    BY <1>1, <1>2, <1>4, NothingLeft DEF Idle
  <2>2. UNCHANGED dirWg
    BY <2>1 DEF Take, Exit, StatDir, OutputDir, ReadDir, Done, queue
  <2> QED
    BY <1>1, <1>2, <1>3, <1>4, <2>2 DEF PhaseInv, Starting
<1>5. CASE dirWg # 0
  BY <1>1, <1>2, <1>3, <1>5 DEF PhaseInv, Starting
<1> QED
  BY <1>4, <1>5

(* The steps Main and the workers share *)
LEMMA NamePhase ==
  ASSUME IInv, ShapeInv, FoundInv, PhaseInv, NEW a \in Agent, NameStep(a)
  PROVE  PhaseInv'
<1>1. /\ Main \in Agent /\ \A v \in Worker : v \in Agent /\ v # Main
      /\ TypeOK /\ PosInv /\ Balance /\ Shape(a) /\ AgentFound(Main)
      /\ Agent = Worker \cup {Main}
  BY Workers DEF IInv, ShapeInv, FoundInv
<1>2. /\ pc[a] \in {"next", "look", "link", "seen", "emit", "err", "errout", "glob"}
      /\ \A b \in Agent : b # a => pc'[b] = pc[b] /\ cur'[b] = cur[b]
      /\ UNCHANGED at
      /\ pc'[a] \in {"stat", "out", "errout", "read"} => UNCHANGED cur /\ pc[a] = "errout"
      /\ \/ UNCHANGED dirWg /\ pc'[a] \notin Closing
         \/ pc'[a] = IF a = Main THEN "wait" ELSE "done"
  <2> USE DEF Closing
  <2>1. CASE OutputEntry(a)
    <3>1. cur[a] \in Node /\ pc[a] = "emit" /\ Output(a, cur[a], "next", "err")
      BY <1>1, <2>1 DEF OutputEntry, PosInv
    <3>2. Goto(a, "next") \/ Goto(a, "err")
      BY <1>1, <3>1, OutputTypes
    <3>3. UNCHANGED <<at, cur, dirWg>> /\ pc'[a] \in {"next", "err"} /\ \A b \in Agent : b # a => pc'[b] = pc[b]
      BY <1>1, <2>1, <3>2 DEF OutputEntry, Goto, TypeOK, queue
    <3> QED
      BY <3>1, <3>3
  <2>2. CASE Name(a) \/ Enq(a)
    BY <1>1, <2>2 DEF Name, Enq, Goto, TypeOK, queue
  <2>3. CASE Look(a) \/ Resolve(a) \/ LookTarget(a)
    <3>1. /\ pc[a] \in {"look", "link", "seen"} /\ UNCHANGED <<at, dirWg>>
          /\ pc'[a] \in {"next", "err", "link", "emit", "seen"}
          /\ \A b \in Agent : b # a => pc'[b] = pc[b] /\ cur'[b] = cur[b]
      BY <1>1, <2>3 DEF Look, Resolve, LookTarget, Goto, TypeOK, queue
    <3> QED
      BY <3>1
  <2>4. CASE SendErr(a)
    BY <1>1, <2>4, ErrStates DEF SendErr, Goto, TypeOK, queue
  <2> QED
    BY <2>1, <2>2, <2>3, <2>4 DEF NameStep
<1>3. \A w \in Worker : pc'[w] \in {"stat", "out", "errout", "read"} => cur'[w] = at'[w]
  BY <1>1, <1>2 DEF PhaseInv
<1>4. Starting' => dirWg' = 0
  <2>1. CASE a = Main
    BY <1>1, <1>2, <2>1 DEF PhaseInv, Starting, Closing, PosInv
  <2>2. CASE a # Main
    <3>1. a \in Worker
      BY <1>1, <2>2
    <3>2. dirWg # 0
      BY <1>1, <1>2, <3>1, NothingLeft DEF Idle
    <3> QED
      BY <1>1, <1>2, <2>2, <3>2 DEF PhaseInv, Starting
  <2> QED
    BY <2>1, <2>2
<1>5. pc'[Main] = "exit" => \A w \in Worker : pc'[w] = "exit"
  BY <1>1, <1>2 DEF PhaseInv, Closing
<1>6. /\ pc'[Main] \in {"glob", "look", "link"} => cur'[Main] \in ToSet(Names)
      /\ pc'[Main] = "seen" => \E l \in ToSet(Names) : Kind[l] = "link" /\ cur'[Main] = Target[l]
  <2>1. CASE a # Main
    BY <1>1, <1>2, <2>1 DEF PhaseInv
  <2>2. CASE a = Main
    <3>1. CASE Name(a)
      <4>1. todo[a] \in Seq(Node) /\ todo[a] # <<>> /\ cur'[a] = Head(todo[a]) /\ pc'[a] \in {"glob", "look"}
        BY <1>1, <3>1 DEF Name, Goto, TypeOK
      <4> QED
        BY <1>1, <2>2, <4>1, TailElems DEF AgentFound
    <3>2. CASE Look(a) \/ SendErr(a)
      <4>1. UNCHANGED cur /\ (pc'[a] = "look" => pc[a] = "glob") /\ pc'[a] \notin {"glob", "seen"} /\ (pc'[a] = "link" => pc[a] = "look")
        BY <1>1, <3>2, ErrStates DEF Look, SendErr, Goto, TypeOK
      <4> QED
        BY <2>2, <4>1 DEF PhaseInv
    <3>3. CASE Resolve(a)
      <4>1. pc[a] = "link" /\ Kind[cur[a]] = "link" /\ ((pc'[a] = "seen" /\ cur'[a] = Target[cur[a]]) \/ pc'[a] = "err")
        BY <1>1, <3>3 DEF Resolve, Goto, TypeOK, PosInv
      <4> QED
        BY <2>2, <4>1 DEF PhaseInv
    <3>4. CASE LookTarget(a) \/ Enq(a)
      <4>1. pc'[a] \in {"next", "emit", "wait", "done"}
        BY <1>1, <3>4 DEF LookTarget, Enq, Goto, TypeOK
      <4> QED
        BY <2>2, <4>1
    <3>5. CASE OutputEntry(a)
      <4>1. cur[a] \in Node /\ Output(a, cur[a], "next", "err")
        BY <1>1, <3>5 DEF OutputEntry, PosInv
      <4>2. Goto(a, "next") \/ Goto(a, "err")
        BY <1>1, <4>1, OutputTypes
      <4> QED
        BY <1>1, <2>2, <4>2 DEF Goto, TypeOK
    <3> QED
      BY <3>1, <3>2, <3>3, <3>4, <3>5 DEF NameStep
  <2> QED
    BY <2>1, <2>2
<1> QED
  BY <1>3, <1>4, <1>5, <1>6 DEF PhaseInv

(* The steps of the other goroutines *)
LEMMA OtherPhase ==
  ASSUME IInv, PhaseInv,
         EnqSend \/ CloseCh \/ CloseOut \/ CloseErr \/ Join \/ TakeOut \/ TakeErr \/ Quiet
  PROVE  PhaseInv'
<1>1. Main \in Agent /\ (\A v \in Worker : v \in Agent /\ v # Main) /\ TypeOK
  BY Workers DEF IInv
<1>2. UNCHANGED <<at, cur, dirWg>>
  BY DEF EnqSend, CloseCh, CloseOut, CloseErr, Join, TakeOut, TakeErr, Quiet, vars, pos, queue
<1>3. CASE CloseCh \/ CloseOut \/ CloseErr \/ Join
  <2>1. /\ ~Starting /\ pc'[Main] \in Closing
        /\ pc'[Main] = "exit" => \A w \in Worker : pc[w] = "exit"
        /\ \A w \in Worker : pc'[w] = pc[w]
    BY <1>1, <1>3 DEF CloseCh, CloseOut, CloseErr, Join, Goto, TypeOK, Starting, Closing
  <2> QED
    BY <1>2, <2>1 DEF PhaseInv, Starting, Closing
<1>4. CASE EnqSend \/ TakeOut \/ TakeErr \/ Quiet
  <2>1. UNCHANGED pc
    BY <1>4 DEF EnqSend, TakeOut, TakeErr, Quiet, vars, pos
  <2> QED
    BY <1>2, <2>1 DEF PhaseInv, Starting
<1> QED
  BY <1>3, <1>4

(* At first nothing is queued. *)
LEMMA InitPhase == Init => PhaseInv
<1> SUFFICES ASSUME Init PROVE PhaseInv
  OBVIOUS
<1>1. dirWg = 0 /\ pc[Main] = "next" /\ \A w \in Worker : pc[w] = "take"
  BY Workers DEF Init
<1> QED
  BY <1>1 DEF PhaseInv

(* Every step keeps the phases. *)
LEMMA PhaseStep == IInv /\ ShapeInv /\ FoundInv /\ PhaseInv /\ [Next]_vars => PhaseInv'
<1> SUFFICES ASSUME IInv, ShapeInv, FoundInv, PhaseInv, [Next]_vars PROVE PhaseInv'
  OBVIOUS
<1>1. Main \in Agent /\ \A w \in Worker : w \in Agent
  BY Workers
<1>2. CASE UNCHANGED vars
  BY <1>2 DEF vars, pos, queue, PhaseInv, Starting
<1>3. ASSUME NEW w \in Worker, WorkerStep(w) PROVE PhaseInv'
  BY <1>1, <1>3, WorkerPhase, NamePhase DEF WorkerStep
<1>4. CASE MainStep
  BY <1>1, <1>4, NamePhase, OtherPhase DEF MainStep
<1>5. CASE EnqStep \/ OutStep \/ ErrStep \/ Quiet
  BY <1>1, <1>5, OtherPhase DEF EnqStep, OutStep, ErrStep
<1> QED
  BY <1>2, <1>3, <1>4, <1>5 DEF Next

-----------------------------------------------------------------------------
(* Completeness.  It takes options under which what the walk does with a name *)
(* depends on the name: with OneFS no symlink given leads to a directory      *)
(* (doWalk does not track its file system), and with IgnoreDuplicateInode     *)
(* directories and symlinks that are followed have one name, and what is      *)
(* refused by the filter is not asked for under another name (the refused     *)
(* name may be the first of its inode).                                       *)
Followed(m) == Kind[m] = "link" /\ FollowSymlinks
Refused(m) == m \notin Exclude /\ Filter[m] # "pass"

Regular ==
  /\ OneFS /\ FollowSymlinks => \A n \in ToSet(Names) : Kind[n] = "link" => Kind[Target[n]] # "dir"
  /\ IgnoreDuplicateInode =>
       /\ \A m, n \in Node : Inode[m] = Inode[n] /\ (Kind[n] = "dir" \/ Followed(n)) => m = n
       /\ \A m \in Node, n \in MayAppear : Refused(m) => Inode[m] # Inode[n]

(* Where a name is: still to be looked at, a symlink to be resolved, what one *)
(* resolved to, to be output, a directory to be read, failed, or accounted    *)
(* for                                                                         *)
Todo == {m \in Node : \E a \in Agent : m \in ToSet(todo[a]) \/ (pc[a] \in {"glob", "look"} /\ cur[a] = m)}
Linked == {m \in Node : \E a \in Agent : pc[a] = "link" /\ cur[a] = m}
Met == {m \in Node : \E a \in Agent : pc[a] = "seen" /\ cur[a] = m}
Emitting == {m \in Node : \E a \in Agent : pc[a] = "emit" /\ cur[a] = m}
Waiting ==
  ToSet(ch) \cup ToSet(enqd) \cup
  {m \in Node : \E a \in Agent : m \in ToSet(dirs[a]) \/ (pc[a] \in {"stat", "out", "errout", "read"} /\ at[a] = m)}
Gone == {m \in Flaky : m \in reported \/ \E a \in Agent : pc[a] = "err" /\ cur[a] = m}
Shown == {m \in Node : emitted[m] > 0} \cup reported \cup Emitting \cup Gone

(* An entry is settled when nothing has to be found any more for it to be     *)
(* output, or to be accounted for; R are the directories that were read.      *)
Mates(n) == {m \in Node : m = n \/ (IgnoreDuplicateInode /\ Inode[m] = Inode[n])}
Settled(R, n) ==
  \/ n \in Dirs /\ n \in R \cup Gone \cup Waiting
  \/ n \notin Dirs /\ (Kind[n] \notin Type \/ Mates(n) \cap Shown # {})
OffFS(n) == OneFS /\ n \in Dirs /\ Dev[n] \notin RootDevs(ToSet(Names) \ Gone)
Safe(R, n) == Settled(R, n) \/ OffFS(n)
EntryOK(R, n) == n \in Met \/ Safe(R, n)
NameOK(R, m) == m \in Gone \cup Todo \cup Linked \/ EntryOK(R, Resolved(m))

(* Every name given, and every name in a directory that was read, is somewhere; *)
(* so is the name under which an inode was stored.                             *)
Passable(S) == {m \in S : m \notin Exclude /\ Filter[m] = "pass"}
StoredOK(R, m) == Refused(m) \/ m \in Linked \cup Gone \/ (~Followed(m) /\ Safe(R, m))
CoverInv(R) ==
  /\ R \subseteq Dirs
  /\ \A m \in Passable(ToSet(Names)) : NameOK(R, m)
  /\ \A d \in R : \A m \in Passable(Children[d]) : NameOK(R, m)
  /\ "dir" \in Type => \A d \in R : emitted[d] > 0
  /\ IgnoreDuplicateInode =>
       \A i \in DOMAIN ino : ino[i] = "same" => \E m \in NamesOf(i) : StoredOK(R, m)

(* Main tracks the file system of every directory it was given. *)
TrackInv ==
  OneFS =>
    /\ \A d \in Passable(ToSet(Names)) \cap Dirs :
         \/ d \in Gone \/ Dev[d] \in fs \/ d \in ToSet(todo[Main])
         \/ pc[Main] \in {"glob", "look"} /\ cur[Main] = d
    /\ Starting /\ IgnoreDuplicateInode =>
         \A d \in Dirs : ino[Inode[d]] = "same" => Refused(d) \/ Dev[d] \in fs

(* What Tail drops is the head. *)
LEMMA TailLeaves ==
  ASSUME NEW S, NEW q \in Seq(S), q # <<>>
  PROVE  ToSet(q) \subseteq {Head(q)} \cup ToSet(Tail(q))
<1>1. Len(q) \in Nat \ {0} /\ DOMAIN q = 1 .. Len(q)
  BY EmptySeq
<1>2. Head(q) = q[1]
  BY <1>1, HeadTailProperties
<1>3. DOMAIN Tail(q) = 1 .. Len(q) - 1 /\ \A k \in 1 .. Len(q) - 1 : Tail(q)[k] = q[k + 1]
  BY <1>1, HeadTailProperties
<1>4. \A k \in 1 .. Len(q) : k = 1 \/ (k - 1 \in 1 .. Len(q) - 1 /\ (k - 1) + 1 = k)
  BY <1>1
<1> SUFFICES ASSUME NEW k \in 1 .. Len(q) PROVE q[k] \in {Head(q)} \cup ToSet(Tail(q))
  BY <1>1 DEF ToSet
<1>5. CASE k = 1
  BY <1>2, <1>5
<1>6. CASE k # 1
  <2>1. k - 1 \in DOMAIN Tail(q) /\ Tail(q)[k - 1] = q[k]
    BY <1>3, <1>4, <1>6
  <2> QED
    BY <2>1 DEF ToSet
<1> QED
  BY <1>5, <1>6

(* RemoveAt takes away no other element than the one it removes. *)
LEMMA RemoveLeaves ==
  ASSUME NEW S, NEW q \in Seq(S), NEW i \in 1 .. Len(q)
  PROVE  ToSet(q) \subseteq {q[i]} \cup ToSet(RemoveAt(q, i))
<1> DEFINE r == RemoveAt(q, i)
<1>1. Len(q) \in Nat /\ i \in Int /\ DOMAIN q = 1 .. Len(q)
  OBVIOUS
<1>2. Len(r) = Len(q) - 1 /\ DOMAIN r = 1 .. Len(q) - 1
  BY RemoveOne
<1>3. \A k \in 1 .. Len(q) - 1 : r[k] = q[IF k < i THEN k ELSE k + 1]
  BY RemovePlaces
<1> HIDE DEF r
<1>4. ASSUME NEW k \in 1 .. Len(q), k < i PROVE q[k] \in ToSet(r)
  <2>1. k \in DOMAIN r /\ r[k] = q[k]
    BY <1>1, <1>2, <1>3, <1>4
  <2> QED
    BY <2>1 DEF ToSet
<1>5. ASSUME NEW k \in 1 .. Len(q), k > i PROVE q[k] \in ToSet(r)
  <2>1. k - 1 \in DOMAIN r /\ ~(k - 1 < i) /\ (k - 1) + 1 = k
    BY <1>1, <1>2, <1>5
  <2>2. r[k - 1] = q[k]
    BY <1>2, <1>3, <2>1
  <2> QED
    BY <2>1, <2>2 DEF ToSet
<1>6. \A k \in 1 .. Len(q) : k < i \/ k = i \/ k > i
  BY <1>1
<1> QED
  BY <1>1, <1>4, <1>5, <1>6 DEF ToSet, r

(* A listing has every name of the directory. *)
LEMMA ListsAll ==
  ASSUME NEW S, IsFiniteSet(S), NEW list \in SetToSeqs(S)
  PROVE  ToSet(list) = S
<1>1. Cardinality(S) \in Nat
  BY FS_CardinalityType
<1> DEFINE D == 1 .. Cardinality(S)
<1>2. list \in [D -> S] /\ \A i, j \in D : i # j => list[i] # list[j]
  BY DEF SetToSeqs
<1>3. IsFiniteSet(D) /\ Cardinality(D) = Cardinality(S)
  BY <1>1, FS_Interval
<1>4. DOMAIN list = D /\ ToSet(list) \subseteq S
  BY <1>2 DEF ToSet
<1>5. list \in [D -> ToSet(list)]
  BY <1>2 DEF ToSet
<1>6. list \in Injection(D, ToSet(list))
  BY <1>2, <1>5 DEF Injection, IsInjective
<1>7. IsFiniteSet(ToSet(list)) /\ Cardinality(ToSet(list)) <= Cardinality(S)
  BY <1>4, FS_Subset
<1>8. Cardinality(D) <= Cardinality(ToSet(list))
  BY <1>6, <1>7, FS_Injection
<1>9. Cardinality(ToSet(list)) = Cardinality(S)
  BY <1>1, <1>3, <1>7, <1>8, FS_CardinalityType
<1> QED
  BY <1>4, <1>9, FS_Subset

(* What is settled stays settled if what failed stays so, what waits goes on  *)
(* waiting or is read, and what was shown, of the kinds to output, stays so.   *)
LEMMA ShownStays ==
  ASSUME NEW R, NEW R2, R \subseteq R2, R2 \subseteq Dirs, Gone \subseteq Gone',
         Waiting \subseteq Waiting' \cup R2 \cup Gone',
         \A n \in Shown : n \in Node => n \in Shown' \/ Kind[n] \notin Type
  PROVE  /\ \A n \in Node : Settled(R, n) => Settled(R2, n)'
         /\ \A n \in Node : OffFS(n) => OffFS(n)'
<1>1. ASSUME NEW n \in Node, Settled(R, n) PROVE Settled(R2, n)'
  <2>1. CASE n \in Dirs
    BY <1>1, <2>1 DEF Settled
  <2>2. CASE n \notin Dirs /\ Kind[n] \notin Type
    BY <2>2 DEF Settled
  <2>3. CASE n \notin Dirs /\ Kind[n] \in Type
    <3>1. PICK m \in Mates(n) : m \in Shown
      BY <1>1, <2>3 DEF Settled
    <3>2. m \in Node /\ Kind[m] = Kind[n]
      BY <3>1, FileSystem DEF Mates
    <3>3. m \in Shown'
      BY <2>3, <3>1, <3>2
    <3>4. Mates(n)' = Mates(n)
      BY DEF Mates
    <3> QED
      BY <2>3, <3>1, <3>3, <3>4 DEF Settled
  <2> QED
    BY <2>1, <2>2, <2>3
<1>2. ASSUME NEW n \in Node, OffFS(n) PROVE OffFS(n)'
  BY <1>2 DEF OffFS, RootDevs, Accepted
<1> QED
  BY <1>1, <1>2

(* Nothing is lost by a step of goroutine a in which what a holds, and what   *)
(* it takes from a queue, stays somewhere.                                     *)
LEMMA CoverStep ==
  ASSUME NEW R, CoverInv(R), NEW R2, R \subseteq R2, R2 \subseteq Dirs, NEW a \in Agent,
         DOMAIN ino' = DOMAIN ino,
         \A b \in Agent : b # a => /\ pc'[b] = pc[b] /\ cur'[b] = cur[b] /\ at'[b] = at[b]
                                   /\ todo'[b] = todo[b] /\ dirs'[b] = dirs[b],
         reported \subseteq reported', \A n \in Node : emitted[n] > 0 => emitted'[n] > 0,
         \A m \in ToSet(todo[a]) : m \in Passable(Node) => NameOK(R2, m)',
         pc[a] \in {"glob", "look"} =>
           \A m \in {cur[a]} \cap Passable(Node) : NameOK(R2, m)' \/ m \in Gone \cup Linked \/ Safe(R, Resolved(m)),
         pc[a] = "link" => cur[a] \in Linked' \cup Gone' \/ Resolved(cur[a]) \in Met',
         pc[a] = "seen" => \A n \in {cur[a]} : EntryOK(R2, n)' \/ Safe(R, n),
         pc[a] = "emit" => cur[a] \in Shown' \/ Kind[cur[a]] \notin Type,
         pc[a] = "err" /\ cur[a] \in Flaky => cur[a] \in Gone',
         ToSet(ch) \cup ToSet(enqd) \cup ToSet(dirs[a]) \subseteq Waiting' \cup R2 \cup Gone',
         pc[a] \in {"stat", "out", "errout", "read"} => at[a] \in Waiting' \cup R2 \cup Gone',
         "dir" \in Type => \A d \in R2 \ R : emitted'[d] > 0,
         \A d \in R2 \ R : \A m \in Passable(Children[d]) : NameOK(R2, m)',
         IgnoreDuplicateInode =>
           \A i \in DOMAIN ino : ino'[i] = "same" =>
             \/ /\ ino[i] = "same"
                /\ pc[a] = "link" => Inode[cur[a]] # i \/ cur[a] \in Linked' \cup Gone'
             \/ \E m \in NamesOf(i) : StoredOK(R2, m)' \/ (~Followed(m) /\ Safe(R, m))
  PROVE  CoverInv(R2)'
<1>1. Gone \subseteq Gone'
  <2> SUFFICES ASSUME NEW m \in Gone PROVE m \in Gone'
    OBVIOUS
  <2>1. CASE m \in reported
    BY <2>1 DEF Gone
  <2>2. CASE m \notin reported
    <3>1. PICK b \in Agent : pc[b] = "err" /\ cur[b] = m
      BY <2>2 DEF Gone
    <3>2. CASE b = a
      BY <3>1, <3>2 DEF Gone
    <3>3. CASE b # a
      BY <3>1, <3>3 DEF Gone
    <3> QED
      BY <3>2, <3>3
  <2> QED
    BY <2>1, <2>2
<1>2. Waiting \subseteq Waiting' \cup R2 \cup Gone'
  <2> SUFFICES ASSUME NEW m \in Waiting PROVE m \in Waiting' \cup R2 \cup Gone'
    OBVIOUS
  <2>1. CASE m \in ToSet(ch) \cup ToSet(enqd)
    BY <2>1
  <2>2. CASE m \notin ToSet(ch) \cup ToSet(enqd)
    <3>1. PICK b \in Agent : m \in ToSet(dirs[b]) \/ (pc[b] \in {"stat", "out", "errout", "read"} /\ at[b] = m)
      BY <2>2 DEF Waiting
    <3>2. CASE b = a
      BY <3>1, <3>2
    <3>3. CASE b # a
      <4>1. m \in Node
        BY <2>2 DEF Waiting
      <4> QED
        BY <3>1, <3>3, <4>1 DEF Waiting
    <3> QED
      BY <3>2, <3>3
  <2> QED
    BY <2>1, <2>2
<1>3. \A n \in Shown : n \in Node => n \in Shown' \/ Kind[n] \notin Type
  <2> SUFFICES ASSUME NEW n \in Shown, n \in Node, Kind[n] \in Type PROVE n \in Shown'
    OBVIOUS
  <2>1. CASE n \in Emitting
    <3>1. PICK b \in Agent : pc[b] = "emit" /\ cur[b] = n
      BY <2>1 DEF Emitting
    <3>2. CASE b # a
      BY <3>1, <3>2 DEF Shown, Emitting
    <3> QED
      BY <3>1, <3>2
  <2>2. CASE n \notin Emitting
    BY <1>1, <2>2 DEF Shown
  <2> QED
    BY <2>1, <2>2
<1>4. /\ \A n \in Node : Settled(R, n) => Settled(R2, n)'
      /\ \A n \in Node : OffFS(n) => OffFS(n)'
      /\ \A n \in Node : Safe(R, n) => Safe(R2, n)'
  BY <1>1, <1>2, <1>3, ShownStays DEF Safe
<1>5. ASSUME NEW n \in Node, EntryOK(R, n) PROVE EntryOK(R2, n)'
  <2>1. CASE n \in Met
    <3>1. PICK b \in Agent : pc[b] = "seen" /\ cur[b] = n
      BY <2>1 DEF Met
    <3>2. CASE b # a
      BY <3>1, <3>2 DEF EntryOK, Met
    <3> QED
      BY <1>4, <3>1, <3>2 DEF EntryOK
  <2>2. CASE n \notin Met
    BY <1>4, <1>5, <2>2 DEF EntryOK
  <2> QED
    BY <2>1, <2>2
<1>6. ASSUME NEW l \in Linked PROVE l \in Linked' \cup Gone' \/ Resolved(l) \in Met'
  <2>1. PICK b \in Agent : pc[b] = "link" /\ cur[b] = l
    BY DEF Linked
  <2>2. CASE b # a
    BY <2>1, <2>2 DEF Linked
  <2> QED
    BY <2>1, <2>2
<1>7. ASSUME NEW m \in Passable(Node), NameOK(R, m) PROVE NameOK(R2, m)'
  <2>1. m \in Node /\ Resolved(m) \in Node
    BY Assumptions DEF Passable, Resolved
  <2>2. CASE m \in Gone
    BY <1>1, <2>2 DEF NameOK
  <2>3. CASE m \in Linked
    BY <1>6, <2>3 DEF NameOK, EntryOK
  <2>4. CASE EntryOK(R, Resolved(m))
    BY <1>5, <2>1, <2>4 DEF NameOK
  <2>5. CASE m \in Todo
    <3>1. PICK b \in Agent : m \in ToSet(todo[b]) \/ (pc[b] \in {"glob", "look"} /\ cur[b] = m)
      BY <2>5 DEF Todo
    <3>2. CASE b # a
      BY <2>1, <3>1, <3>2 DEF NameOK, Todo
    <3>3. CASE b = a
      <4>1. NameOK(R2, m)' \/ m \in Gone \cup Linked \/ Safe(R, Resolved(m))
        BY <1>7, <3>1, <3>3
      <4> QED
        BY <2>2, <2>3, <2>4, <4>1 DEF EntryOK
    <3> QED
      BY <3>2, <3>3
  <2> QED
    BY <1>7, <2>2, <2>3, <2>4, <2>5 DEF NameOK
<1>8. Passable(ToSet(Names)) \subseteq Passable(Node) /\ \A d \in Dirs : Passable(Children[d]) \subseteq Passable(Node)
  BY Assumptions DEF Passable, ToSet
<1>9. \A m \in Passable(ToSet(Names)) : NameOK(R2, m)'
  BY <1>7, <1>8 DEF CoverInv
<1>10. \A d \in R2 : \A m \in Passable(Children[d]) : NameOK(R2, m)'
  BY <1>7, <1>8 DEF CoverInv
<1>11. "dir" \in Type => \A d \in R2 : emitted'[d] > 0
  <2>1. R \subseteq Node
    BY DEF Dirs
  <2> QED
    BY <2>1 DEF CoverInv
<1>12. ASSUME IgnoreDuplicateInode, NEW i \in DOMAIN ino', ino'[i] = "same"
       PROVE  \E m \in NamesOf(i) : StoredOK(R2, m)'
  <2>1. i \in DOMAIN ino
    OBVIOUS
  <2>2. CASE /\ ino[i] = "same"
             /\ pc[a] = "link" => Inode[cur[a]] # i \/ cur[a] \in Linked' \cup Gone'
    <3>1. PICK m \in NamesOf(i) : StoredOK(R, m)
      BY <1>12, <2>1, <2>2 DEF CoverInv
    <3>2. m \in Node /\ Inode[m] = i
      BY DEF NamesOf
    <3>3. CASE Refused(m)
      BY <3>3 DEF StoredOK, Refused
    <3>4. CASE m \in Gone
      BY <1>1, <3>4 DEF StoredOK
    <3>5. CASE m \in Linked
      <4>1. PICK b \in Agent : pc[b] = "link" /\ cur[b] = m
        BY <3>5 DEF Linked
      <4>2. m \in Linked' \cup Gone'
        <5>1. CASE b # a
          BY <4>1, <5>1, <3>2 DEF Linked
        <5> QED
          BY <2>2, <3>2, <4>1, <5>1
      <4> QED
        BY <4>2 DEF StoredOK
    <3>6. CASE ~Followed(m) /\ Safe(R, m)
      <4>1. Safe(R2, m)'
        BY <1>4, <3>2, <3>6
      <4>2. ~Followed(m)'
        BY <3>6 DEF Followed
      <4> QED
        BY <4>1, <4>2 DEF StoredOK
    <3> QED
      BY <3>1, <3>3, <3>4, <3>5, <3>6 DEF StoredOK
  <2>3. ASSUME NEW m \in NamesOf(i), ~Followed(m), Safe(R, m) PROVE StoredOK(R2, m)'
    <3>1. Safe(R2, m)'
      BY <1>4, <2>3 DEF NamesOf
    <3> QED
      BY <2>3, <3>1 DEF StoredOK, Followed
  <2> QED
    BY <1>12, <2>1, <2>2, <2>3
<1>13. (IgnoreDuplicateInode =>
         \A i \in DOMAIN ino : ino[i] = "same" => \E m \in NamesOf(i) : StoredOK(R2, m))'
  BY <1>12 DEF NamesOf
<1> QED
  BY <1>9, <1>10, <1>11, <1>13 DEF CoverInv

(* The same when no directory is read and the inode map is left alone          *)
LEMMA CoverSame ==
  ASSUME NEW R, CoverInv(R), NEW a \in Agent, UNCHANGED ino,
         \A b \in Agent : b # a => /\ pc'[b] = pc[b] /\ cur'[b] = cur[b] /\ at'[b] = at[b]
                                   /\ todo'[b] = todo[b] /\ dirs'[b] = dirs[b],
         reported \subseteq reported', \A n \in Node : emitted[n] > 0 => emitted'[n] > 0,
         \A m \in ToSet(todo[a]) : m \in Passable(Node) => NameOK(R, m)',
         pc[a] \in {"glob", "look"} =>
           \A m \in {cur[a]} \cap Passable(Node) : NameOK(R, m)' \/ m \in Gone \cup Linked \/ Safe(R, Resolved(m)),
         pc[a] = "link" => cur[a] \in Linked' \cup Gone',
         pc[a] = "seen" => \A n \in {cur[a]} : EntryOK(R, n)' \/ Safe(R, n),
         pc[a] = "emit" => cur[a] \in Shown' \/ Kind[cur[a]] \notin Type,
         pc[a] = "err" /\ cur[a] \in Flaky => cur[a] \in Gone',
         ToSet(ch) \cup ToSet(enqd) \cup ToSet(dirs[a]) \subseteq Waiting' \cup R \cup Gone',
         pc[a] \in {"stat", "out", "errout", "read"} => at[a] \in Waiting' \cup R \cup Gone'
  PROVE  CoverInv(R)'
<1>1. R \subseteq Dirs
  BY DEF CoverInv
<1>2. \A i \in DOMAIN ino : ino'[i] = "same" =>
        ino[i] = "same" /\ (pc[a] = "link" => Inode[cur[a]] # i \/ cur[a] \in Linked' \cup Gone')
  OBVIOUS
<1>3. R \ R = {} /\ R \subseteq R
  OBVIOUS
<1>4. DOMAIN ino' = DOMAIN ino
  OBVIOUS
<1> QED
  BY <1>1, <1>2, <1>3, <1>4, CoverStep

(* A name whose inode is stored already is accounted for.                     *)
LEMMA SeenEntry ==
  ASSUME PosInv, ShapeInv, FoundInv, Regular, NEW R, CoverInv(R), NEW n \in Admitted, ~Followed(n), SeenBefore(n),
         Inode[n] \in DOMAIN ino
  PROVE  Settled(R, n) \/ OffFS(n)
<1>1. n \in Node /\ IgnoreDuplicateInode
  BY ListedNodes DEF SeenBefore
<1>2. CASE OneFS /\ n \in Dirs /\ Dev[n] \notin Devs
  <2>1. RootDevs(ToSet(Names) \ Gone) \subseteq Devs
    BY DEF Devs, RootDevs, Accepted
  <2> QED
    BY <1>2, <2>1 DEF OffFS
<1>3. CASE ~(OneFS /\ n \in Dirs /\ Dev[n] \notin Devs)
  <2>1. n \in MayAppear
    BY <1>3, Admission DEF Found
  <2>2. PICK m \in Node : Inode[m] = Inode[n] /\ StoredOK(R, m)
    BY <1>1 DEF SeenBefore, CoverInv, NamesOf
  <2>3. ~Refused(m) /\ Kind[m] = Kind[n]
    BY <1>1, <2>1, <2>2, FileSystem DEF Regular
  <2>4. m \notin Linked
    <3> SUFFICES ASSUME m \in Linked PROVE FALSE
      OBVIOUS
    <3>1. PICK a \in Agent : pc[a] = "link" /\ cur[a] = m
      BY DEF Linked
    <3>2. Followed(m)
      BY <3>1 DEF PosInv, ShapeInv, Shape, Followed
    <3> QED
      BY <1>1, <2>2, <2>3, <3>2 DEF Followed
  <2>5. CASE n \in Dirs
    <3>1. m = n
      BY <1>1, <2>2, <2>5 DEF Regular, Dirs
    <3> QED
      BY <2>2, <2>3, <2>4, <2>5, <3>1 DEF StoredOK, Safe, Settled
  <2>6. CASE n \notin Dirs
    <3>1. m \notin Dirs /\ Mates(m) = Mates(n) /\ m \in Mates(n)
      BY <1>1, <2>2, <2>3, <2>6 DEF Dirs, Mates
    <3>2. m \in Gone => m \in Shown
      BY DEF Shown
    <3> QED
      BY <2>2, <2>3, <2>4, <2>6, <3>1, <3>2 DEF StoredOK, Safe, Settled, OffFS
  <2> QED
    BY <2>5, <2>6
<1> QED
  BY <1>2, <1>3

(* So is a symlink to follow.                                                  *)
LEMMA SeenLink ==
  ASSUME Regular, NEW R, CoverInv(R), NEW n \in Node, n \in Passable(Node), Followed(n), SeenBefore(n),
         Inode[n] \in DOMAIN ino
  PROVE  n \in Linked \cup Gone
<1>1. IgnoreDuplicateInode
  BY DEF SeenBefore
<1>2. PICK m \in Node : Inode[m] = Inode[n] /\ StoredOK(R, m)
  BY <1>1 DEF SeenBefore, CoverInv, NamesOf
<1>3. m = n
  BY <1>1, <1>2 DEF Regular
<1> QED
  BY <1>2, <1>3 DEF StoredOK, Refused, Passable

(* A directory that is not entered is on none of the file systems of the names *)
(* given: when a worker asks, Main has tracked them all.                       *)
LEMMA Dropped ==
  ASSUME IInv, ShapeInv, PhaseInv, TrackInv, Regular, NEW a \in Agent, pc[a] \in {"look", "seen"},
         a = Main => pc[a] = "seen", NEW n \in Dirs, n = cur[a], ~SameFS(n)
  PROVE  OffFS(n)
<1>1. OneFS /\ Dev[n] \notin fs
  BY DEF SameFS
<1>2. a # Main
  <2> SUFFICES ASSUME a = Main PROVE FALSE
    OBVIOUS
  <2>1. FollowSymlinks
    BY DEF ShapeInv, Shape
  <2>2. PICK l \in ToSet(Names) : Kind[l] = "link" /\ n = Target[l]
    BY DEF PhaseInv
  <2> QED
    BY <1>1, <2>1, <2>2 DEF Regular, Dirs
<1>3. ~Starting
  <2>1. a \in Worker /\ pc[a] \notin Idle
    BY <1>2, Workers DEF Idle
  <2> QED
    BY <2>1, NothingLeft DEF IInv, PhaseInv
<1>4. ToSet(todo[Main]) = {} /\ pc[Main] \notin {"glob", "look"} /\ Main \in Agent
  BY <1>3, Workers, EmptyElems DEF Starting, Closing, ShapeInv, Shape, Between
<1>5. ASSUME NEW d \in Accepted(ToSet(Names) \ Gone) \cap Dirs PROVE Dev[d] \in fs
  <2>1. PICK m \in Passable(ToSet(Names)) : m \notin Gone /\ d = Resolved(m)
    BY DEF Accepted, Passable
  <2>2. m \in ToSet(Names) /\ m \in Node
    BY Assumptions DEF Passable, ToSet
  <2>3. d = m
    BY <1>1, <2>1, <2>2 DEF Resolved, Regular, Dirs
  <2> QED
    BY <1>1, <1>4, <2>1, <2>3 DEF TrackInv
<1> QED
  BY <1>1, <1>5 DEF OffFS, RootDevs

(* What goroutine a keeps is not lost.                                         *)
LEMMA Kept ==
  ASSUME TypeOK, NEW R2, NEW a \in Agent
  PROVE  /\ todo'[a] = todo[a] => \A m \in ToSet(todo[a]) : m \in Passable(Node) => NameOK(R2, m)'
         /\ dirs'[a] = dirs[a] => ToSet(dirs[a]) \subseteq Waiting'
         /\ ch' = ch => ToSet(ch) \subseteq Waiting'
         /\ enqd' = enqd => ToSet(enqd) \subseteq Waiting'
<1>1. ToSet(dirs[a]) \subseteq Node
  <2>1. ToSet(dirs[a]) \subseteq Dirs
    <3>1. dirs[a] \in Seq(Dirs)
      BY DEF TypeOK
    <3> QED
      BY <3>1 DEF ToSet
  <2> QED
    BY <2>1 DEF Dirs
<1> QED
  BY <1>1 DEF NameOK, Todo, Waiting, Passable

(* The steps of the worker's loop: a directory that is taken is output and    *)
(* read, or fails.                                                             *)
LEMMA WorkerCover ==
  ASSUME IInv, ShapeInv, FoundInv, PhaseInv, NEW R, CoverInv(R), NEW w \in Worker,
         Take(w) \/ Exit(w) \/ StatDir(w) \/ OutputDir(w) \/ ReadDir(w) \/ Done(w)
  PROVE  \E R2 : CoverInv(R2)'
<1> USE DEF queue, maps, hist
<1>1. /\ w \in Agent /\ w # Main /\ TypeOK /\ PosInv /\ Shape(w) /\ AgentFound(w) /\ R \subseteq Dirs
      /\ \A m \in ToSet(todo[w]) : pc[w] \in Between
  <2>1. w \in Agent /\ w # Main /\ TypeOK /\ PosInv /\ Shape(w) /\ AgentFound(w) /\ R \subseteq Dirs
    BY Workers DEF IInv, ShapeInv, FoundInv, CoverInv
  <2> QED
    BY <2>1, EmptyElems DEF Shape
<1>2. UNCHANGED <<enqd, ino, reported>> /\ \A b \in Agent : dirs'[b] = dirs[b]
  BY DEF Take, Exit, StatDir, OutputDir, ReadDir, Done
<1>3. DOMAIN ino' = DOMAIN ino /\ reported \subseteq reported'
  BY <1>2
<1>4. CASE Take(w)
  <2>1. ch \in Seq(Dirs) /\ ch # <<>>
    BY <1>1, <1>4 DEF Take, TypeOK
  <2>2. Head(ch) \in Dirs /\ Head(ch) \in Node /\ ToSet(ch) \subseteq {Head(ch)} \cup ToSet(Tail(ch))
    BY <2>1, TailLeaves, HeadTailProperties DEF Dirs
  <2>3. /\ at'[w] = Head(ch) /\ pc[w] = "take" /\ pc'[w] = "stat" /\ UNCHANGED <<todo, emitted>> /\ ch' = Tail(ch)
        /\ \A b \in Agent : b # w => pc'[b] = pc[b] /\ at'[b] = at[b] /\ cur'[b] = cur[b]
    BY <1>1, <1>4 DEF Take, Goto, TypeOK
  <2>4. ToSet(ch) \subseteq Waiting'
    BY <1>1, <2>2, <2>3 DEF Waiting
  <2>5. /\ \A m \in ToSet(todo[w]) : m \in Passable(Node) => NameOK(R, m)'
        /\ ToSet(dirs[w]) \subseteq Waiting' /\ ToSet(enqd) \subseteq Waiting'
    BY <1>1, <1>2, <2>3, Kept
  <2>6. ToSet(ch) \cup ToSet(enqd) \cup ToSet(dirs[w]) \subseteq Waiting' \cup R \cup Gone'
    BY <2>4, <2>5
  <2>7. \A b \in Agent : b # w => todo'[b] = todo[b] /\ dirs'[b] = dirs[b]
    BY <1>2, <2>3
  <2>8. pc[w] \notin {"glob", "look", "link", "seen", "emit", "err", "stat", "out", "errout", "read"}
    BY <2>3
  <2> QED
    BY <1>1, <1>3, <2>3, <2>5, <2>6, <2>7, <2>8, <1>2, CoverSame
<1>5. CASE Exit(w) \/ StatDir(w) \/ Done(w)
  <2>1. /\ \/ pc[w] = "stat" /\ pc'[w] = "out"
           \/ pc[w] = "stat" /\ pc'[w] = "err" /\ cur[w] \in Flaky
           \/ pc[w] \in {"take", "done"}
        /\ UNCHANGED <<at, cur, todo, ch, emitted>>
        /\ \A b \in Agent : b # w => pc'[b] = pc[b]
    BY <1>1, <1>5 DEF Exit, StatDir, Done, Goto, TypeOK
  <2>2. /\ \A m \in ToSet(todo[w]) : m \in Passable(Node) => NameOK(R, m)'
        /\ ToSet(ch) \cup ToSet(dirs[w]) \cup ToSet(enqd) \subseteq Waiting'
    BY <1>1, <1>2, <2>1, Kept
  <2>3. pc[w] = "stat" => at[w] \in Waiting' \cup R \cup Gone'
    <3>1. pc[w] = "stat" => at[w] = cur[w] /\ at[w] \in Node
      BY <1>1 DEF PhaseInv, PosInv
    <3> QED
      BY <1>1, <2>1, <3>1 DEF Waiting, Gone
  <2> QED
    BY <1>1, <1>2, <1>3, <2>1, <2>2, <2>3, CoverSame
<1>6. CASE OutputDir(w)
  <2>1. at[w] \in Node /\ pc[w] = "out" /\ Output(w, at[w], "read", "errout") /\ UNCHANGED <<at, cur, todo, ch>>
    BY <1>1, <1>6 DEF OutputDir, PosInv, Idle, Dirs
  <2>2. Goto(w, "read") \/ Goto(w, "errout")
    BY <1>1, <2>1, OutputTypes
  <2>3. pc'[w] \in {"read", "errout"} /\ \A b \in Agent : b # w => pc'[b] = pc[b]
    BY <1>1, <2>2 DEF Goto, TypeOK
  <2>4. \A n \in Node : emitted[n] > 0 => emitted'[n] > 0
    BY <1>1, <2>1, OutputCount
  <2>5. /\ \A m \in ToSet(todo[w]) : m \in Passable(Node) => NameOK(R, m)'
        /\ ToSet(ch) \cup ToSet(dirs[w]) \cup ToSet(enqd) \subseteq Waiting'
    BY <1>1, <1>2, <2>1, Kept
  <2>6. at[w] \in Waiting'
    BY <1>1, <2>1, <2>3 DEF Waiting
  <2> QED
    BY <1>1, <1>2, <1>3, <2>1, <2>3, <2>4, <2>5, <2>6, CoverSame
<1>7. CASE ReadDir(w)
  <2>1. /\ pc[w] = "read" /\ at[w] \in Dirs /\ at[w] \in Node /\ at[w] = cur[w]
        /\ ("dir" \in Type => emitted[at[w]] > 0)
        /\ UNCHANGED <<at, cur, ch, emitted>>
        /\ \A b \in Agent : b # w => pc'[b] = pc[b]
    <3>1. pc[w] = "read" /\ UNCHANGED <<at, cur, ch, emitted>> /\ \A b \in Agent : b # w => pc'[b] = pc[b]
      BY <1>1, <1>7 DEF ReadDir, Goto, TypeOK
    <3>2. at[w] \in Dirs /\ at[w] = cur[w] /\ ("dir" \in Type => emitted[at[w]] > 0)
      BY <1>1, <3>1 DEF PosInv, Idle, AgentFound, PhaseInv
    <3> QED
      BY <3>1, <3>2 DEF Dirs
  <2>2. ToSet(ch) \cup ToSet(dirs[w]) \cup ToSet(enqd) \subseteq Waiting'
    BY <1>1, <1>2, <2>1, Kept
  <2>3. ToSet(todo[w]) = {}
    BY <1>1, <2>1 DEF Between
  <2>4. CASE pc'[w] = "err"
    <3>1. at[w] \in Flaky /\ UNCHANGED todo
      BY <1>1, <1>7, <2>4 DEF ReadDir, Goto, TypeOK
    <3>2. at[w] \in Gone'
      BY <1>1, <2>1, <2>4, <3>1 DEF Gone
    <3> QED
      BY <1>1, <1>2, <1>3, <2>1, <2>2, <2>3, <3>1, <3>2, CoverSame
  <2>5. CASE pc'[w] # "err"
    <3>1. PICK list \in SetToSeqs(Children[at[w]]) : todo' = [todo EXCEPT ![w] = list]
      BY <1>1, <1>7, <2>5 DEF ReadDir, Goto, TypeOK
    <3>2. Children[at[w]] \subseteq Node /\ ToSet(list) = Children[at[w]]
      BY <2>1, Assumptions, ListsAll
    <3>3. todo'[w] = list /\ \A b \in Agent : b # w => todo'[b] = todo[b]
      BY <1>1, <3>1 DEF TypeOK
    <3>4. PICK R2 : R2 = R \cup {at[w]}
      OBVIOUS
    <3>5. \A m \in Passable(Children[at[w]]) : m \in Todo'
      BY <1>1, <3>2, <3>3 DEF Passable, Todo
    <3>6. \A d \in R2 \ R : d = at[w]
      BY <3>4
    <3>7. \A d \in R2 \ R : \A m \in Passable(Children[d]) : NameOK(R2, m)'
      BY <3>5, <3>6 DEF NameOK
    <3>8. R \subseteq R2 /\ R2 \subseteq Dirs /\ at[w] \in R2
      BY <1>1, <2>1, <3>4
    <3>9. "dir" \in Type => \A d \in R2 \ R : emitted'[d] > 0
      BY <2>1, <3>6
    <3> QED
      BY <1>1, <1>2, <1>3, <2>1, <2>2, <2>3, <3>3, <3>7, <3>8, <3>9, CoverStep
  <2> QED
    BY <2>4, <2>5
<1> QED
  BY <1>4, <1>5, <1>6, <1>7

(* Whatever a goroutine does with a name, the name is not lost.               *)
LEMMA LookCover ==
  ASSUME IInv, ShapeInv, FoundInv, PhaseInv, TrackInv, Regular, NEW R, CoverInv(R), NEW a \in Agent, Look(a)
  PROVE  CoverInv(R)'
<1> DEFINE n == cur[a]
<1> USE DEF maps, hist
<1>1. /\ pc[a] = "look" /\ n \in Node /\ n \in Listed /\ TypeOK /\ PosInv /\ R \subseteq Dirs
      /\ UNCHANGED <<at, cur, todo, ch, enqd, reported, emitted>>
      /\ Inode[n] \in DOMAIN ino /\ Main \in Agent
  BY Workers DEF Look, IInv, PosInv, FoundInv, AgentFound, TypeOK, CoverInv, queue
<1>2. /\ pc'[a] \in {"next", "err", "link", "emit"}
      /\ \A b \in Agent : b # a => pc'[b] = pc[b]
  BY <1>1 DEF Look, Goto, TypeOK
<1>3. /\ \A m \in ToSet(todo[a]) : m \in Passable(Node) => NameOK(R, m)'
      /\ ToSet(ch) \subseteq Waiting' /\ ToSet(enqd) \subseteq Waiting'
  BY <1>1, Kept
<1>4. CASE (Excluded(n) \/ SeenBefore(n)) /\ UNCHANGED <<dirs, maps>>
  <2>1. ASSUME n \in Passable(Node) PROVE n \in Gone \cup Linked \/ Safe(R, Resolved(n))
    <3>1. SeenBefore(n) /\ n \notin Exclude /\ Filter[n] = "pass"
      BY <1>4, <2>1 DEF Passable, Excluded
    <3>2. CASE Followed(n)
      BY <1>1, <2>1, <3>1, <3>2, SeenLink
    <3>3. CASE ~Followed(n)
      <4>1. Resolved(n) = n /\ n \in Admitted
        BY <1>1, <3>1, <3>3, Passing DEF Followed, Resolved
      <4> QED
        BY <1>1, <3>1, <3>3, <4>1, SeenEntry DEF Safe
    <3> QED
      BY <3>2, <3>3
  <2>2. ToSet(dirs[a]) \subseteq Waiting'
    BY <1>1, <1>4, Kept
  <2> QED
    BY <1>1, <1>2, <1>3, <1>4, <2>1, <2>2, CoverSame
<1>5. CASE n \in Flaky /\ Goto(a, "err") /\ UNCHANGED <<dirs, maps>>
  <2>1. n \in Gone'
    BY <1>1, <1>5 DEF Gone, Goto, TypeOK
  <2>2. \A m \in {n} : NameOK(R, m)'
    BY <2>1 DEF NameOK
  <2>3. ToSet(dirs[a]) \subseteq Waiting'
    BY <1>1, <1>5, Kept
  <2> QED
    BY <1>1, <1>2, <1>3, <1>5, <2>2, <2>3, CoverSame
<1>6. CASE /\ ~Excluded(n) /\ ~SeenBefore(n) /\ Remember(n)
           /\ \/ ~Passes(n) /\ UNCHANGED dirs
              \/ Passes(n) /\ Kind[n] = "dir" /\ IF Descend(a, n) THEN Push(a, n) ELSE UNCHANGED dirs
              \/ /\ Passes(n) /\ Kind[n] # "dir" /\ UNCHANGED dirs
                 /\ Goto(a, IF Kind[n] = "link" /\ FollowSymlinks THEN "link" ELSE "emit")
  <2>1. /\ \A b \in Agent : b # a => dirs'[b] = dirs[b]
        /\ ToSet(dirs[a]) \subseteq Waiting'
        /\ Passes(n) /\ Kind[n] = "dir" /\ Descend(a, n) => n \in Waiting'
    <3>1. CASE UNCHANGED dirs /\ ~(Passes(n) /\ Kind[n] = "dir" /\ Descend(a, n))
      BY <1>1, <3>1, Kept
    <3>2. CASE Push(a, n) /\ n \in Dirs
      <4>1. dirs[a] \in Seq(Dirs) /\ dirs'[a] = Append(dirs[a], n) /\ \A b \in Agent : b # a => dirs'[b] = dirs[b]
        BY <1>1, <3>2 DEF Push, TypeOK
      <4>2. ToSet(dirs'[a]) = ToSet(dirs[a]) \cup {n}
        BY <3>2, <4>1, AppendElems
      <4>3. ToSet(dirs'[a]) \subseteq Node
        <5>1. ToSet(dirs[a]) \subseteq Dirs
          BY <4>1 DEF ToSet
        <5> QED
          BY <1>1, <4>2, <5>1 DEF Dirs
      <4>4. ToSet(dirs'[a]) \subseteq Waiting'
        BY <4>3 DEF Waiting
      <4> QED
        BY <4>1, <4>2, <4>4
    <3> QED
      BY <1>1, <1>6, <3>1, <3>2 DEF Dirs
  <2>2. /\ \A m \in {n} : StoredOK(R, m)' \/ (~Followed(m) /\ Safe(R, m))
        /\ n \in Passable(Node) => \A m \in {n} : NameOK(R, m)' \/ Safe(R, Resolved(m))
    <3>1. CASE ~Passes(n)
      <4>1. Refused(n) /\ n \notin Passable(Node)
        BY <1>6, <3>1 DEF Passes, Refused, Excluded, Passable
      <4>2. \A m \in {n} : Refused(m)'
        BY <4>1 DEF Refused
      <4> QED
        BY <4>1, <4>2 DEF StoredOK
    <3>2. CASE Passes(n) /\ Kind[n] = "dir"
      <4>1. n \in Dirs /\ ~Followed(n) /\ Resolved(n) = n
        BY <1>1, <3>2 DEF Dirs, Followed, Resolved
      <4>2. CASE Descend(a, n)
        <5>1. \A m \in {n} : Settled(R, m)' /\ ~Followed(m)' /\ Resolved(m) = m
          BY <2>1, <3>2, <4>1, <4>2 DEF Settled, Followed
        <5>2. \A m \in {n} : Safe(R, m)'
          BY <5>1 DEF Safe
        <5> QED
          BY <5>1, <5>2 DEF StoredOK, NameOK, EntryOK
      <4>3. CASE ~Descend(a, n)
        <5>1. a # Main /\ ~SameFS(n)
          BY <4>3 DEF Descend
        <5>2. OffFS(n)
          BY <1>1, <4>1, <5>1, Dropped
        <5> QED
          BY <4>1, <5>2 DEF Safe
      <4> QED
        BY <4>2, <4>3
    <3>3. CASE Passes(n) /\ Kind[n] # "dir" /\ Followed(n)
      <4>1. n \in Linked'
        BY <1>1, <1>6, <3>3 DEF Linked, Followed, Goto, TypeOK
      <4> QED
        BY <4>1 DEF StoredOK, NameOK
    <3>4. CASE Passes(n) /\ Kind[n] # "dir" /\ ~Followed(n)
      <4>1. n \in Emitting' /\ n \notin Dirs /\ Resolved(n) = n
        BY <1>1, <1>6, <3>4 DEF Emitting, Followed, Resolved, Dirs, Goto, TypeOK
      <4>2. \A m \in {n} : Settled(R, m)' /\ ~Followed(m)' /\ Resolved(m) = m
        BY <1>1, <3>4, <4>1 DEF Settled, Mates, Shown, Followed
      <4>3. \A m \in {n} : Safe(R, m)'
        BY <4>2 DEF Safe
      <4> QED
        BY <4>2, <4>3 DEF StoredOK, NameOK, EntryOK
    <3> QED
      BY <3>1, <3>2, <3>3, <3>4
  <2>3. ino' \in [{Inode[m] : m \in Node} -> {"absent", "same", "changed"}] /\ DOMAIN ino' = DOMAIN ino
    BY <1>1, <1>6, RememberType DEF TypeOK
  <2>4. IgnoreDuplicateInode =>
          \A i \in DOMAIN ino : ino'[i] = "same" =>
            ino[i] = "same" \/ \E m \in NamesOf(i) : StoredOK(R, m)' \/ (~Followed(m) /\ Safe(R, m))
    <3> SUFFICES ASSUME IgnoreDuplicateInode, NEW i \in DOMAIN ino, ino'[i] = "same", ino[i] # "same"
                 PROVE  \E m \in NamesOf(i) : StoredOK(R, m)' \/ (~Followed(m) /\ Safe(R, m))
      OBVIOUS
    <3>1. Inode[n] = i
      BY <1>1, <1>6, Remembered
    <3>2. n \in NamesOf(i)
      BY <1>1, <3>1 DEF NamesOf
    <3> QED
      BY <2>2, <3>2
  <2>5. \A m \in {n} \cap Passable(Node) : NameOK(R, m)' \/ Safe(R, Resolved(m))
    BY <2>2
  <2>6. R \ R = {} /\ R \subseteq R
    OBVIOUS
  <2>7. ToSet(ch) \cup ToSet(enqd) \cup ToSet(dirs[a]) \subseteq Waiting' \cup R \cup Gone'
    BY <1>3, <2>1
  <2> QED
    BY <1>1, <1>2, <1>3, <2>1, <2>3, <2>4, <2>5, <2>6, <2>7, CoverStep
<1> QED
  BY <1>4, <1>5, <1>6 DEF Look

(* What a symlink resolved to *)
LEMMA TargetCover ==
  ASSUME IInv, ShapeInv, FoundInv, PhaseInv, TrackInv, Regular, NEW R, CoverInv(R), NEW a \in Agent, LookTarget(a)
  PROVE  CoverInv(R)'
<1> DEFINE n == cur[a]
<1> USE DEF maps, hist
<1>1. /\ pc[a] = "seen" /\ n \in Node /\ n \in Admitted /\ TypeOK /\ PosInv /\ R \subseteq Dirs
      /\ Remember(n)
      /\ UNCHANGED <<at, cur, todo, ch, enqd, reported, emitted>>
      /\ Inode[n] \in DOMAIN ino
  BY Workers DEF LookTarget, IInv, PosInv, FoundInv, AgentFound, TypeOK, CoverInv, queue
<1>2. \A b \in Agent : b # a => pc'[b] = pc[b]
  BY <1>1 DEF LookTarget, Goto, TypeOK
<1>3. /\ \A m \in ToSet(todo[a]) : m \in Passable(Node) => NameOK(R, m)'
      /\ ToSet(ch) \subseteq Waiting' /\ ToSet(enqd) \subseteq Waiting'
  BY <1>1, Kept
<1>4. Kind[n] # "link" /\ ~Followed(n)
  BY <1>1 DEF ShapeInv, Shape, Followed
<1>5. /\ \A b \in Agent : b # a => dirs'[b] = dirs[b]
      /\ ToSet(dirs[a]) \subseteq Waiting'
      /\ ~SeenBefore(n) /\ Kind[n] = "dir" /\ SameFS(n) => n \in Waiting'
  <2>1. CASE UNCHANGED dirs /\ ~(~SeenBefore(n) /\ Kind[n] = "dir" /\ SameFS(n))
    BY <1>1, <2>1, Kept
  <2>2. CASE Push(a, n) /\ n \in Dirs
    <3>1. dirs[a] \in Seq(Dirs) /\ dirs'[a] = Append(dirs[a], n) /\ \A b \in Agent : b # a => dirs'[b] = dirs[b]
      BY <1>1, <2>2 DEF Push, TypeOK
    <3>2. ToSet(dirs'[a]) = ToSet(dirs[a]) \cup {n}
      BY <2>2, <3>1, AppendElems
    <3>3. ToSet(dirs'[a]) \subseteq Node
      <4>1. ToSet(dirs[a]) \subseteq Dirs
        BY <3>1 DEF ToSet
      <4> QED
        BY <1>1, <3>2, <4>1 DEF Dirs
    <3>4. ToSet(dirs'[a]) \subseteq Waiting'
      BY <3>3 DEF Waiting
    <3> QED
      BY <3>1, <3>2, <3>4
  <2> QED
    BY <1>1, <2>1, <2>2 DEF LookTarget, Dirs
<1>6. \A m \in {n} : Safe(R, m)' \/ Safe(R, m)
  <2>1. CASE SeenBefore(n)
    BY <1>1, <1>4, <2>1, SeenEntry DEF IInv, Safe
  <2>2. CASE ~SeenBefore(n) /\ Kind[n] = "dir" /\ SameFS(n)
    <3>1. n \in Dirs
      BY <1>1, <2>2 DEF Dirs
    <3>2. \A m \in {n} : Settled(R, m)'
      BY <1>5, <2>2, <3>1 DEF Settled
    <3> QED
      BY <3>2 DEF Safe
  <2>3. CASE Kind[n] = "dir" /\ ~SameFS(n)
    <3>1. n \in Dirs
      BY <1>1, <2>3 DEF Dirs
    <3>2. OffFS(n)
      BY <1>1, <2>3, <3>1, Dropped
    <3> QED
      BY <3>2 DEF Safe
  <2>4. CASE ~SeenBefore(n) /\ Kind[n] # "dir"
    <3>1. n \in Emitting' /\ n \notin Dirs
      BY <1>1, <2>4 DEF LookTarget, Emitting, Dirs, Goto, TypeOK
    <3>2. \A m \in {n} : Settled(R, m)'
      BY <1>1, <3>1 DEF Settled, Mates, Shown
    <3> QED
      BY <3>2 DEF Safe
  <2> QED
    BY <2>1, <2>2, <2>3, <2>4
<1>7. \A m \in {n} : EntryOK(R, m)' \/ Safe(R, m)
  BY <1>6 DEF EntryOK
<1>8. ino' \in [{Inode[m] : m \in Node} -> {"absent", "same", "changed"}] /\ DOMAIN ino' = DOMAIN ino
  BY <1>1, RememberType DEF TypeOK
<1>9. IgnoreDuplicateInode =>
        \A i \in DOMAIN ino : ino'[i] = "same" =>
          ino[i] = "same" \/ \E m \in NamesOf(i) : StoredOK(R, m)' \/ (~Followed(m) /\ Safe(R, m))
  <2> SUFFICES ASSUME IgnoreDuplicateInode, NEW i \in DOMAIN ino, ino'[i] = "same", ino[i] # "same"
               PROVE  \E m \in NamesOf(i) : StoredOK(R, m)' \/ (~Followed(m) /\ Safe(R, m))
    OBVIOUS
  <2>1. Inode[n] = i
    BY <1>1 DEF Remember, TypeOK
  <2>2. n \in NamesOf(i)
    BY <1>1, <2>1 DEF NamesOf
  <2>3. \A m \in {n} : StoredOK(R, m)' \/ (~Followed(m) /\ Safe(R, m))
    <3>1. \A m \in {n} : ~Followed(m)'
      BY <1>4 DEF Followed
    <3> QED
      BY <1>4, <1>6, <3>1 DEF StoredOK
  <2> QED
    BY <2>2, <2>3
<1>10. R \ R = {} /\ R \subseteq R
  OBVIOUS
<1>11. ToSet(ch) \cup ToSet(enqd) \cup ToSet(dirs[a]) \subseteq Waiting' \cup R \cup Gone'
  BY <1>3, <1>5
<1> QED
  BY <1>1, <1>2, <1>3, <1>5, <1>7, <1>8, <1>9, <1>10, <1>11, CoverStep

(* The other steps Main and the workers share *)
LEMMA NameCover ==
  ASSUME IInv, ShapeInv, FoundInv, PhaseInv, TrackInv, Regular, NEW R, CoverInv(R), NEW a \in Agent, NameStep(a)
  PROVE  CoverInv(R)'
<1> DEFINE n == cur[a]
<1> USE DEF maps, hist
<1>1. TypeOK /\ PosInv /\ R \subseteq Dirs
  BY DEF IInv, CoverInv
<1>2. CASE Look(a) \/ LookTarget(a)
  BY <1>2, LookCover, TargetCover
<1>3. CASE Name(a)
  <2>1. todo[a] \in Seq(Node) /\ todo[a] # <<>>
    BY <1>1, <1>3 DEF Name, TypeOK
  <2>2. Head(todo[a]) \in Node /\ ToSet(todo[a]) \subseteq {Head(todo[a])} \cup ToSet(Tail(todo[a]))
    BY <2>1, TailLeaves, HeadTailProperties
  <2>3. /\ pc[a] = "next" /\ pc'[a] \in {"glob", "look"} /\ cur'[a] = Head(todo[a]) /\ todo'[a] = Tail(todo[a])
        /\ UNCHANGED <<at, dirs, ch, enqd, ino, emitted, reported>>
        /\ \A b \in Agent : b # a => pc'[b] = pc[b] /\ cur'[b] = cur[b] /\ todo'[b] = todo[b]
    BY <1>1, <1>3 DEF Name, Goto, TypeOK, queue
  <2>4. \A m \in ToSet(todo[a]) : m \in Passable(Node) => NameOK(R, m)'
    BY <2>2, <2>3 DEF NameOK, Todo, Passable
  <2>5. ToSet(ch) \cup ToSet(enqd) \cup ToSet(dirs[a]) \subseteq Waiting'
    BY <1>1, <2>3, Kept
  <2>6. pc[a] \notin {"glob", "look", "link", "seen", "emit", "err", "stat", "out", "errout", "read"}
    BY <2>3
  <2> QED
    BY <2>3, <2>4, <2>5, <2>6, CoverSame
<1>4. CASE Resolve(a)
  <2>1. /\ pc[a] = "link" /\ n \in Node /\ Kind[n] = "link" /\ FollowSymlinks
        /\ UNCHANGED <<at, todo, dirs, ch, enqd, emitted, reported>>
        /\ \A b \in Agent : b # a => pc'[b] = pc[b] /\ cur'[b] = cur[b]
    BY <1>1, <1>4 DEF Resolve, PosInv, ShapeInv, Shape, Goto, TypeOK, queue
  <2>2. /\ \A m \in ToSet(todo[a]) : m \in Passable(Node) => NameOK(R, m)'
        /\ ToSet(ch) \cup ToSet(enqd) \cup ToSet(dirs[a]) \subseteq Waiting'
    BY <1>1, <2>1, Kept
  <2>3. CASE UNCHANGED <<ino, cur>> /\ n \in Flaky /\ Goto(a, "err")
    <3>1. n \in Gone'
      BY <1>1, <2>3 DEF Gone, Goto, TypeOK
    <3> QED
      BY <2>1, <2>2, <2>3, <3>1, CoverSame
  <2>4. CASE /\ ino' = IF IgnoreDuplicateInode THEN [ino EXCEPT ![Inode[n]] = "changed"] ELSE ino
             /\ cur' = [cur EXCEPT ![a] = Target[n]] /\ Goto(a, "seen")
    <3>1. Resolved(n) = Target[n] /\ Target[n] \in Node
      BY <2>1, Assumptions DEF Resolved
    <3>2. Resolved(n) \in Met'
      BY <1>1, <2>4, <3>1 DEF Met, Goto, TypeOK
    <3>3. DOMAIN ino' = DOMAIN ino
      BY <2>4
    <3>4. IgnoreDuplicateInode => \A i \in DOMAIN ino : ino'[i] = "same" => ino[i] = "same" /\ Inode[n] # i
      BY <1>1, <2>4 DEF TypeOK
    <3>5. R \ R = {} /\ R \subseteq R
      OBVIOUS
    <3> QED
      BY <1>1, <2>1, <2>2, <3>2, <3>3, <3>4, <3>5, CoverStep
  <2> QED
    BY <1>4, <2>3, <2>4 DEF Resolve
<1>5. CASE OutputEntry(a)
  <2>1. /\ pc[a] = "emit" /\ n \in Node /\ Output(a, n, "next", "err")
        /\ UNCHANGED <<at, cur, todo, dirs, ch, enqd, ino, reported>>
    BY <1>1, <1>5 DEF OutputEntry, PosInv, queue
  <2>2. Goto(a, "next") \/ Goto(a, "err")
    BY <1>1, <2>1, OutputTypes
  <2>3. \A b \in Agent : b # a => pc'[b] = pc[b]
    BY <1>1, <2>2 DEF Goto, TypeOK
  <2>4. (\A m \in Node : emitted[m] > 0 => emitted'[m] > 0) /\ (Kind[n] \in Type => emitted'[n] > 0)
    BY <1>1, <2>1, OutputCount
  <2>5. n \in Shown' \/ Kind[n] \notin Type
    BY <2>1, <2>4 DEF Shown
  <2>6. /\ \A m \in ToSet(todo[a]) : m \in Passable(Node) => NameOK(R, m)'
        /\ ToSet(ch) \cup ToSet(enqd) \cup ToSet(dirs[a]) \subseteq Waiting'
    BY <1>1, <2>1, Kept
  <2> QED
    BY <2>1, <2>3, <2>4, <2>5, <2>6, CoverSame
<1>6. CASE SendErr(a)
  <2>1. /\ UNCHANGED <<at, cur, todo, dirs, ch, enqd, ino, emitted>> /\ reported \subseteq reported'
        /\ \A b \in Agent : b # a => pc'[b] = pc[b]
        /\ \/ pc[a] = "err" /\ n \in reported'
           \/ pc[a] = "errout" /\ pc'[a] = "read"
           \/ pc[a] = "glob" /\ pc'[a] = "look"
    BY <1>1, <1>6, ErrStates DEF SendErr, Goto, TypeOK, queue
  <2>2. /\ \A m \in ToSet(todo[a]) : m \in Passable(Node) => NameOK(R, m)'
        /\ ToSet(ch) \cup ToSet(enqd) \cup ToSet(dirs[a]) \subseteq Waiting'
    BY <1>1, <2>1, Kept
  <2>3. pc[a] = "err" /\ n \in Flaky => n \in Gone'
    BY <2>1 DEF Gone
  <2>4. pc[a] = "glob" => \A m \in {n} \cap Passable(Node) : NameOK(R, m)'
    BY <2>1 DEF NameOK, Todo, Passable
  <2>5. pc[a] = "errout" => at[a] \in Waiting'
    <3>1. pc[a] = "errout" => at[a] \in Node
      BY <1>1, Workers DEF PosInv, Idle, Dirs
    <3> QED
      BY <2>1, <3>1 DEF Waiting
  <2> QED
    BY <2>1, <2>2, <2>3, <2>4, <2>5, CoverSame
<1>7. CASE Enq(a)
  <2>1. /\ enqd' = enqd \o dirs[a] /\ dirs'[a] = <<>> /\ pc[a] = "next"
        /\ UNCHANGED <<at, cur, todo, ch, ino, emitted, reported>>
        /\ \A b \in Agent : b # a => pc'[b] = pc[b] /\ dirs'[b] = dirs[b]
    BY <1>1, <1>7 DEF Enq, Goto, TypeOK, queue
  <2>2. ToSet(enqd') = ToSet(enqd) \cup ToSet(dirs[a])
    <3>1. enqd \in Seq(Dirs) /\ dirs[a] \in Seq(Dirs)
      BY <1>1 DEF TypeOK
    <3> QED
      BY <2>1, <3>1, ConcatElems
  <2>3. ToSet(enqd') \subseteq Waiting'
    BY DEF Waiting
  <2>4. /\ \A m \in ToSet(todo[a]) : m \in Passable(Node) => NameOK(R, m)'
        /\ ToSet(ch) \subseteq Waiting'
    BY <1>1, <2>1, Kept
  <2>5. ToSet(ch) \cup ToSet(enqd) \cup ToSet(dirs[a]) \subseteq Waiting'
    BY <2>2, <2>3, <2>4
  <2> QED
    BY <2>1, <2>4, <2>5, CoverSame
<1> QED
  BY <1>2, <1>3, <1>4, <1>5, <1>6, <1>7 DEF NameStep

(* The steps of the other goroutines *)
LEMMA OtherCover ==
  ASSUME IInv, NEW R, CoverInv(R),
         EnqSend \/ CloseCh \/ CloseOut \/ CloseErr \/ Join \/ TakeOut \/ TakeErr \/ UNCHANGED vars
  PROVE  CoverInv(R)'
<1>1. TypeOK /\ PosInv /\ Main \in Agent
  BY Workers DEF IInv
<1>2. /\ UNCHANGED <<at, cur, todo, dirs, ino, emitted, reported>>
      /\ \A b \in Agent : b # Main => pc'[b] = pc[b]
      /\ \/ UNCHANGED pc
         \/ pc[Main] \notin {"glob", "look", "link", "seen", "emit", "err", "stat", "out", "errout", "read"}
  BY <1>1 DEF EnqSend, CloseCh, CloseOut, CloseErr, Join, TakeOut, TakeErr, vars, pos, queue, maps, hist, Goto, TypeOK
<1>3. ToSet(ch) \cup ToSet(enqd) \subseteq Waiting'
  <2>1. CASE EnqSend /\ ~chClosed
    <3>1. PICK i \in 1 .. Len(enqd) : ch' = Append(ch, enqd[i]) /\ enqd' = RemoveAt(enqd, i)
      BY <2>1 DEF EnqSend
    <3>2. enqd \in Seq(Dirs) /\ ch \in Seq(Dirs) /\ enqd[i] \in Dirs
      BY <1>1, <3>1 DEF TypeOK
    <3>3. ToSet(enqd) \subseteq {enqd[i]} \cup ToSet(enqd')
      BY <3>1, <3>2, RemoveLeaves
    <3>4. ToSet(ch') = ToSet(ch) \cup {enqd[i]}
      BY <3>1, <3>2, AppendElems
    <3>5. ToSet(ch') \cup ToSet(enqd') \subseteq Waiting'
      BY DEF Waiting
    <3> QED
      BY <3>3, <3>4, <3>5
  <2>2. CASE ~(EnqSend /\ ~chClosed)
    <3>1. UNCHANGED <<ch, enqd>>
      BY <2>2 DEF EnqSend, CloseCh, CloseOut, CloseErr, Join, TakeOut, TakeErr, vars, queue
    <3> QED
      BY <1>1, <3>1, Kept
  <2> QED
    BY <2>1, <2>2
<1>4. /\ \A m \in ToSet(todo[Main]) : m \in Passable(Node) => NameOK(R, m)'
      /\ ToSet(dirs[Main]) \subseteq Waiting'
  BY <1>1, <1>2, Kept
<1>5. pc[Main] \in {"glob", "look"} => \A m \in {cur[Main]} \cap Passable(Node) : NameOK(R, m)'
  BY <1>1, <1>2 DEF NameOK, Todo, Passable
<1>6. /\ pc[Main] = "link" => cur[Main] \in Linked'
      /\ pc[Main] = "emit" => cur[Main] \in Shown'
      /\ pc[Main] = "err" /\ cur[Main] \in Flaky => cur[Main] \in Gone'
  BY <1>1, <1>2 DEF Linked, Shown, Emitting, Gone, PosInv
<1>7. pc[Main] = "seen" => \A m \in {cur[Main]} : EntryOK(R, m)'
  BY <1>1, <1>2 DEF EntryOK, Met, PosInv
<1>8. pc[Main] \notin {"stat", "out", "errout", "read"}
  BY <1>1 DEF PosInv
<1> QED
  BY <1>1, <1>2, <1>3, <1>4, <1>5, <1>6, <1>7, <1>8, CoverSame

(* At first Main holds the names given, and no inode is stored.                *)
LEMMA InitCover == Init => CoverInv({})
<1> SUFFICES ASSUME Init PROVE CoverInv({})
  OBVIOUS
<1>1. Main \in Agent /\ todo[Main] = Names
  BY Workers DEF Init
<1>2. \A m \in Passable(ToSet(Names)) : m \in Todo
  <2>1. ToSet(Names) \subseteq Node
    BY Assumptions DEF ToSet
  <2> QED
    BY <1>1, <2>1 DEF Passable, Todo
<1>3. \A i \in DOMAIN ino : ino[i] # "same"
  BY DEF Init
<1> QED
  BY <1>2, <1>3 DEF CoverInv, NameOK

(* Every step keeps them. *)
LEMMA CoverNext ==
  ASSUME IInv, ShapeInv, FoundInv, PhaseInv, TrackInv, Regular, NEW R, CoverInv(R), [Next]_vars
  PROVE  \E R2 : CoverInv(R2)'
<1>1. Main \in Agent /\ \A w \in Worker : w \in Agent
  BY Workers
<1>2. ASSUME NEW w \in Worker, WorkerStep(w) PROVE \E R2 : CoverInv(R2)'
  BY <1>1, <1>2, WorkerCover, NameCover DEF WorkerStep
<1>3. CASE MainStep
  BY <1>1, <1>3, NameCover, OtherCover DEF MainStep
<1>4. CASE EnqStep \/ OutStep \/ ErrStep \/ Quiet \/ UNCHANGED vars
  BY <1>4, OtherCover DEF EnqStep, OutStep, ErrStep, Quiet
<1> QED
  BY <1>2, <1>3, <1>4 DEF Next

-----------------------------------------------------------------------------
(* Main tracks what it is given.  Until it waits nothing is queued, so no     *)
(* worker is in its loop.                                                      *)
LEMMA OnlyMain ==
  ASSUME IInv, PhaseInv, Starting, NEW w \in Worker
  PROVE  w \in Agent /\ w # Main /\ pc[w] \in Idle
BY Workers, NothingLeft DEF IInv, PhaseInv

(* Nothing is forgotten that failed.                                           *)
LEMMA GoneGrows ==
  ASSUME IInv, NEW a \in Agent, NameStep(a), NEW d \in Gone
  PROVE  d \in Gone'
<1>1. TypeOK /\ PosInv
  BY DEF IInv
<1>2. CASE d \in reported
  <2>1. reported \subseteq reported'
    BY DEF NameStep, Name, Look, Resolve, LookTarget, OutputEntry, SendErr, Enq, hist
  <2> QED
    BY <1>2, <2>1 DEF Gone
<1>3. CASE d \notin reported
  <2>1. PICK b \in Agent : pc[b] = "err" /\ cur[b] = d
    BY <1>3 DEF Gone
  <2>2. CASE b # a
    <3>1. pc'[b] = pc[b] /\ cur'[b] = cur[b]
      <4>1. CASE OutputEntry(a)
        <5>1. cur[a] \in Node /\ Output(a, cur[a], "next", "err") /\ UNCHANGED cur
          BY <1>1, <4>1 DEF OutputEntry, PosInv
        <5>2. Goto(a, "next") \/ Goto(a, "err")
          BY <1>1, <5>1, OutputTypes
        <5> QED
          BY <1>1, <2>2, <5>1, <5>2 DEF Goto, TypeOK
      <4>2. CASE Name(a) \/ Look(a) \/ Resolve(a) \/ LookTarget(a) \/ SendErr(a) \/ Enq(a)
        BY <1>1, <2>2, <4>2 DEF Name, Look, Resolve, LookTarget, SendErr, Enq, Goto, TypeOK
      <4> QED
        BY <4>1, <4>2 DEF NameStep
    <3> QED
      BY <2>1, <3>1 DEF Gone
  <2>3. CASE b = a
    <3>1. SendErr(a)
      BY <2>1, <2>3 DEF NameStep, Name, Look, Resolve, LookTarget, OutputEntry, Enq
    <3>2. d \in reported'
      BY <2>1, <2>3, <3>1 DEF SendErr
    <3> QED
      BY <3>2 DEF Gone
  <2> QED
    BY <2>2, <2>3
<1> QED
  BY <1>2, <1>3

(* Main looks at a name it was given. *)
LEMMA LookTrack ==
  ASSUME IInv, ShapeInv, PhaseInv, TrackInv, Regular, Look(Main)
  PROVE  TrackInv'
<1> DEFINE n == cur[Main]
<1> SUFFICES ASSUME OneFS PROVE TrackInv'
  BY DEF TrackInv
<1> USE DEF maps
<1>1. /\ Main \in Agent /\ pc[Main] = "look" /\ n \in Node /\ n \in ToSet(Names) /\ TypeOK /\ Starting
      /\ UNCHANGED <<cur, todo>>
  BY Workers DEF Look, IInv, PosInv, PhaseInv, Starting, Closing
<1>2. /\ pc'[Main] \in {"next", "err", "link", "emit"}
      /\ fs \subseteq fs'
  BY <1>1 DEF Look, Goto, TypeOK, TrackFS
<1>3. n \in Passable(Node) /\ n \in Dirs => n \in Gone' \/ Dev[n] \in fs'
  <2> SUFFICES ASSUME n \in Passable(Node), n \in Dirs PROVE n \in Gone' \/ Dev[n] \in fs'
    OBVIOUS
  <2>1. ~Excluded(n) /\ Passes(n) /\ Kind[n] = "dir" /\ ~Refused(n)
    BY DEF Passable, Excluded, Passes, Dirs, Refused
  <2>2. CASE SeenBefore(n)
    BY <1>1, <1>2, <2>1, <2>2 DEF TrackInv, SeenBefore
  <2>3. CASE n \in Flaky /\ Goto(Main, "err")
    BY <1>1, <2>3 DEF Gone, Goto, TypeOK
  <2>4. CASE TrackFS(Main, n)
    BY <2>4 DEF TrackFS
  <2> QED
    BY <1>1, <2>1, <2>2, <2>3, <2>4 DEF Look
<1>4. \A d \in Passable(ToSet(Names)) \cap Dirs : d \in Gone' \/ Dev[d] \in fs' \/ d \in ToSet(todo'[Main])
  <2> SUFFICES ASSUME NEW d \in Passable(ToSet(Names)) \cap Dirs
               PROVE  d \in Gone' \/ Dev[d] \in fs' \/ d \in ToSet(todo'[Main])
    OBVIOUS
  <2>1. CASE d = n
    BY <1>1, <1>3, <2>1 DEF Passable
  <2>2. CASE d # n
    <3>1. d \in Gone => d \in Gone'
      BY <1>1, GoneGrows DEF NameStep
    <3> QED
      BY <1>1, <1>2, <2>2, <3>1 DEF TrackInv
  <2> QED
    BY <2>1, <2>2
<1>5. ASSUME IgnoreDuplicateInode, NEW d \in Dirs, ino'[Inode[d]] = "same" PROVE Refused(d) \/ Dev[d] \in fs'
  <2>1. CASE ino[Inode[d]] = "same"
    BY <1>1, <1>2, <1>5, <2>1 DEF TrackInv
  <2>2. CASE ino[Inode[d]] # "same"
    <3>1. ~Excluded(n) /\ ~SeenBefore(n) /\ Remember(n) /\ (Passes(n) /\ Kind[n] = "dir" => TrackFS(Main, n))
      BY <1>1, <1>5, <2>2 DEF Look, Passes
    <3>2. Inode[d] \in DOMAIN ino
      BY <1>1 DEF Dirs, TypeOK
    <3>3. Inode[n] = Inode[d]
      BY <1>1, <1>5, <2>2, <3>1, <3>2, Remembered
    <3>4. n = d /\ Kind[n] = "dir"
      BY <1>1, <1>5, <3>3 DEF Regular, Dirs
    <3> QED
      BY <3>1, <3>4 DEF TrackFS, Refused, Excluded, Passes
  <2> QED
    BY <2>1, <2>2
<1>6. (Starting /\ IgnoreDuplicateInode =>
         \A d \in Dirs : ino[Inode[d]] = "same" => Refused(d) \/ Dev[d] \in fs)'
  BY <1>5 DEF Refused
<1> QED
  BY <1>4, <1>6 DEF TrackInv, Passable

(* The other steps of Main *)
LEMMA MainTrack ==
  ASSUME IInv, ShapeInv, PhaseInv, TrackInv, Regular, NameStep(Main)
  PROVE  TrackInv'
<1> SUFFICES ASSUME OneFS PROVE TrackInv'
  BY DEF TrackInv
<1> USE DEF maps
<1>1. /\ Main \in Agent /\ TypeOK
      /\ Starting
      /\ \A d \in Gone : d \in Gone'
  <2>1. Main \in Agent /\ TypeOK
    BY Workers DEF IInv
  <2>2. pc[Main] \in {"next", "look", "link", "seen", "emit", "err", "errout", "glob"}
    BY <2>1, ErrStates DEF NameStep, Name, Look, Resolve, LookTarget, OutputEntry, SendErr, Enq
  <2> QED
    BY <2>1, <2>2, GoneGrows DEF Starting, Closing
<1>2. CASE Look(Main)
  BY <1>2, LookTrack
<1>3. CASE Name(Main)
  <2>1. todo[Main] \in Seq(Node) /\ todo[Main] # <<>>
    BY <1>1, <1>3 DEF Name, TypeOK
  <2>2. ToSet(todo[Main]) \subseteq {Head(todo[Main])} \cup ToSet(Tail(todo[Main]))
    BY <2>1, TailLeaves
  <2>3. /\ pc[Main] = "next" /\ pc'[Main] \in {"glob", "look"} /\ cur'[Main] = Head(todo[Main])
        /\ todo'[Main] = Tail(todo[Main]) /\ UNCHANGED <<ino, fs>>
    BY <1>1, <1>3 DEF Name, Goto, TypeOK
  <2> QED
    BY <1>1, <2>2, <2>3 DEF TrackInv, Passable, Refused, Starting
<1>4. CASE Resolve(Main) \/ OutputEntry(Main) \/ SendErr(Main) \/ Enq(Main) \/ LookTarget(Main)
  <2>1. /\ UNCHANGED <<todo, fs>>
        /\ pc[Main] = "glob" => cur'[Main] = cur[Main] /\ pc'[Main] = "look"
        /\ pc[Main] # "look"
    BY <1>1, <1>4, ErrStates DEF Resolve, OutputEntry, SendErr, Enq, LookTarget, Goto, TypeOK
  <2>2. ASSUME IgnoreDuplicateInode, NEW d \in Dirs, ino'[Inode[d]] = "same" PROVE Refused(d) \/ Dev[d] \in fs'
    <3>1. Inode[d] \in DOMAIN ino
      BY <1>1 DEF Dirs, TypeOK
    <3>2. CASE ino[Inode[d]] = "same"
      BY <1>1, <2>1, <2>2, <3>2 DEF TrackInv
    <3>3. CASE ino[Inode[d]] # "same"
      <4>1. LookTarget(Main)
        BY <1>1, <1>4, <2>2, <3>1, <3>3 DEF Resolve, OutputEntry, SendErr, Enq, TypeOK
      <4>2. cur[Main] \in Node /\ FollowSymlinks
        BY <1>1, <4>1 DEF LookTarget, IInv, PosInv, ShapeInv, Shape
      <4>3. Inode[cur[Main]] = Inode[d]
        BY <1>1, <2>2, <3>1, <3>3, <4>1 DEF LookTarget, Remember, TypeOK
      <4>4. cur[Main] = d
        BY <2>2, <4>2, <4>3 DEF Regular, Dirs
      <4>5. PICK l \in ToSet(Names) : Kind[l] = "link" /\ d = Target[l]
        BY <4>1, <4>4 DEF LookTarget, PhaseInv
      <4> QED
        BY <4>2, <4>5 DEF Regular, Dirs
    <3> QED
      BY <3>2, <3>3
  <2>3. (Starting /\ IgnoreDuplicateInode =>
           \A d \in Dirs : ino[Inode[d]] = "same" => Refused(d) \/ Dev[d] \in fs)'
    BY <2>2 DEF Refused
  <2> QED
    BY <1>1, <2>1, <2>3 DEF TrackInv, Passable
<1> QED
  BY <1>2, <1>3, <1>4 DEF NameStep

(* The steps of the others leave alone what Main tracks. *)
LEMMA OtherTrack ==
  ASSUME IInv, PhaseInv, TrackInv,
         \A d \in Gone : d \in Gone', UNCHANGED fs, todo'[Main] = todo[Main], cur'[Main] = cur[Main],
         pc'[Main] = pc[Main] \/ (pc[Main] \notin {"glob", "look"} /\ ~Starting'),
         Starting' => UNCHANGED ino
  PROVE  TrackInv'
BY DEF TrackInv, Passable, Refused, Starting

(* At first Main has all names still to do. *)
LEMMA InitTrack == Init => TrackInv
<1> SUFFICES ASSUME Init PROVE TrackInv
  OBVIOUS
<1>1. todo[Main] = Names /\ \A d \in Dirs : ino[Inode[d]] # "same"
  BY Workers DEF Init, Dirs
<1> QED
  BY <1>1 DEF TrackInv, Passable

(* Every step keeps track of them. *)
LEMMA TrackStep ==
  ASSUME IInv, ShapeInv, PhaseInv, TrackInv, Regular, [Next]_vars
  PROVE  TrackInv'
<1> USE DEF maps, hist, queue, pos
<1>1. Main \in Agent /\ TypeOK /\ \A w \in Worker : w \in Agent /\ w # Main
  BY Workers DEF IInv
<1>2. ASSUME NEW w \in Worker, NameStep(w) PROVE TrackInv'
  <2>1. w \in Agent /\ w # Main /\ pc[w] \notin Idle
    BY <1>1, <1>2, ErrStates DEF NameStep, Name, Look, Resolve, LookTarget, OutputEntry, SendErr, Enq, Idle
  <2>2. ~Starting
    BY <2>1, OnlyMain
  <2>3. \A d \in Gone : d \in Gone'
    BY <1>1, <1>2, GoneGrows
  <2>4. /\ UNCHANGED fs /\ todo'[Main] = todo[Main]
        /\ pc'[Main] = pc[Main] /\ cur'[Main] = cur[Main]
    <3>1. CASE OutputEntry(w)
      <4>1. cur[w] \in Node /\ Output(w, cur[w], "next", "err") /\ UNCHANGED <<cur, todo, fs>>
        BY <1>1, <3>1 DEF OutputEntry, IInv, PosInv
      <4>2. Goto(w, "next") \/ Goto(w, "err")
        BY <1>1, <4>1, OutputTypes
      <4> QED
        BY <1>1, <2>1, <4>1, <4>2 DEF Goto, TypeOK
    <3>2. CASE Name(w) \/ Resolve(w) \/ LookTarget(w) \/ SendErr(w) \/ Enq(w)
      BY <1>1, <2>1, <3>2 DEF Name, Resolve, LookTarget, SendErr, Enq, Goto, TypeOK
    <3>3. CASE Look(w)
      BY <1>1, <2>1, <3>3 DEF Look, TrackFS, Goto, TypeOK
    <3> QED
      BY <1>2, <3>1, <3>2, <3>3 DEF NameStep
  <2> QED
    BY <2>2, <2>3, <2>4, OtherTrack DEF Starting
<1>3. ASSUME NEW w \in Worker, Take(w) \/ Exit(w) \/ StatDir(w) \/ OutputDir(w) \/ ReadDir(w) \/ Done(w) PROVE TrackInv'
  <2>1. /\ UNCHANGED <<fs, ino, reported>> /\ pc[w] # "err"
        /\ \A b \in Agent : b # w => pc'[b] = pc[b] /\ cur'[b] = cur[b] /\ todo'[b] = todo[b]
    <3>1. CASE OutputDir(w)
      <4>1. at[w] \in Node /\ Output(w, at[w], "read", "errout") /\ UNCHANGED <<cur, todo, fs, ino, reported>> /\ pc[w] # "err"
        BY <1>1, <3>1 DEF OutputDir, IInv, PosInv, Idle, Dirs
      <4>2. Goto(w, "read") \/ Goto(w, "errout")
        BY <1>1, <4>1, OutputTypes
      <4> QED
        BY <1>1, <4>1, <4>2 DEF Goto, TypeOK
    <3>2. CASE Take(w) \/ Exit(w) \/ StatDir(w) \/ ReadDir(w) \/ Done(w)
      BY <1>1, <3>2 DEF Take, Exit, StatDir, ReadDir, Done, Goto, TypeOK
    <3> QED
      BY <1>3, <3>1, <3>2
  <2>2. \A d \in Gone : d \in Gone'
    BY <2>1 DEF Gone
  <2> QED
    BY <1>1, <2>1, <2>2, OtherTrack
<1>4. CASE CloseCh \/ CloseOut \/ CloseErr \/ Join
  <2>1. /\ UNCHANGED <<fs, todo, cur, reported>>
        /\ \A b \in Agent : b # Main => pc'[b] = pc[b]
        /\ pc[Main] \in Closing \cup {"wait"} /\ ~Starting'
    BY <1>1, <1>4 DEF CloseCh, CloseOut, CloseErr, Join, Goto, TypeOK, Starting, Closing
  <2>2. \A d \in Gone : d \in Gone'
    BY <2>1 DEF Gone, Closing
  <2> QED
    BY <2>1, <2>2, OtherTrack DEF Closing
<1>5. CASE EnqStep \/ OutStep \/ ErrStep \/ Quiet \/ UNCHANGED vars
  <2>1. UNCHANGED <<pc, fs, ino, todo, cur, reported>>
    BY <1>5 DEF EnqStep, OutStep, ErrStep, Quiet, EnqSend, TakeOut, TakeErr, vars
  <2>2. \A d \in Gone : d \in Gone'
    BY <2>1 DEF Gone
  <2> QED
    BY <2>1, <2>2, OtherTrack
<1>6. CASE \E w \in Worker : WorkerStep(w)
  BY <1>2, <1>3, <1>6 DEF WorkerStep
<1>7. CASE MainStep
  BY <1>4, <1>7, MainTrack DEF MainStep
<1> QED
  BY <1>5, <1>6, <1>7 DEF Next

-----------------------------------------------------------------------------
(* What is expected is in every set that has the names given and, with a      *)
(* directory, what it lists.                                                   *)
LEMMA ExpectedLeast ==
  ASSUME NEW lost, NEW S \in SUBSET Node, Accepted(ToSet(Names) \ lost) \subseteq S,
         \A d \in (S \cap Dirs) \ lost : OnFS(Accepted(Children[d] \ lost), ToSet(Names) \ lost) \subseteq S
  PROVE  Expected(lost) \subseteq S
<1> DEFINE roots == ToSet(Names) \ lost
           Entries(d) == IF d \in lost THEN {} ELSE OnFS(Accepted(Children[d] \ lost), roots)
           Complies(T) == Accepted(roots) \subseteq T /\ \A d \in T \cap Dirs : Entries(d) \subseteq T
<1>1. Expected(lost) = {n \in Node : \A T \in SUBSET Node : Complies(T) => n \in T}
  BY DEF Expected
<1>2. \A d \in S \cap Dirs : Entries(d) \subseteq S
  OBVIOUS
<1>3. Complies(S)
  BY <1>2
<1> HIDE DEF Complies
<1> QED
  BY <1>1, <1>3

(* At the end nobody holds anything. *)
LEMMA AtTheEnd ==
  ASSUME IInv, ShapeInv, PhaseInv, Over
  PROVE  /\ Todo = {} /\ Linked = {} /\ Met = {} /\ Emitting = {} /\ Waiting = {}
         /\ Gone = reported \cap Flaky
<1>1. ch = <<>> /\ enqd = <<>> /\ \A a \in Agent : pc[a] = "exit"
  BY Workers, NothingLeft DEF Over, IInv, CloseInv, Closing, PhaseInv
<1>2. \A a \in Agent : ToSet(todo[a]) = {} /\ ToSet(dirs[a]) = {}
  BY <1>1, EmptyElems DEF ShapeInv, Shape, Between
<1>3. ToSet(ch) = {} /\ ToSet(enqd) = {}
  BY <1>1, EmptyElems
<1>4. Todo = {} /\ Linked = {} /\ Met = {} /\ Emitting = {} /\ Waiting = {}
  BY <1>1, <1>2, <1>3 DEF Todo, Linked, Met, Emitting, Waiting
<1>5. Gone = reported \cap Flaky
  BY <1>1 DEF Gone
<1> QED
  BY <1>4, <1>5

(* Then the directories that were read and the entries that are settled have  *)
(* all that is expected.                                                       *)
LEMMA Covered ==
  ASSUME IInv, ShapeInv, PhaseInv, Over, NEW R, CoverInv(R)
  PROVE  Complete
<1>1. /\ Todo = {} /\ Linked = {} /\ Met = {} /\ Emitting = {} /\ Waiting = {}
      /\ Gone = reported \cap Flaky
  BY AtTheEnd
<1>2. PICK lost : lost = Gone
  OBVIOUS
<1>3. PICK S \in SUBSET Node : S = {n \in Node : Settled(R, n)}
  OBVIOUS
<1>4. \A m \in Passable(Node) : NameOK(R, m) /\ m \notin lost => Resolved(m) \in S \/ OffFS(Resolved(m))
  <2>1. \A m \in Node : Resolved(m) \in Node
    BY Assumptions DEF Resolved
  <2> QED
    BY <1>1, <1>2, <1>3, <2>1 DEF NameOK, EntryOK, Safe, Passable
<1>5. Accepted(ToSet(Names) \ lost) \subseteq S
  <2> SUFFICES ASSUME NEW n \in Accepted(ToSet(Names) \ lost) PROVE n \in S
    OBVIOUS
  <2>1. PICK m \in Passable(ToSet(Names)) : m \notin lost /\ n = Resolved(m)
    BY DEF Accepted, Passable
  <2>2. m \in Passable(Node) /\ NameOK(R, m)
    BY <2>1, Assumptions DEF Passable, ToSet, CoverInv
  <2>3. ~OffFS(n)
    BY <1>2 DEF OffFS, RootDevs
  <2> QED
    BY <1>4, <2>1, <2>2, <2>3
<1>6. ASSUME NEW d \in (S \cap Dirs) \ lost
      PROVE  OnFS(Accepted(Children[d] \ lost), ToSet(Names) \ lost) \subseteq S
  <2> SUFFICES ASSUME NEW n \in OnFS(Accepted(Children[d] \ lost), ToSet(Names) \ lost) PROVE n \in S
    OBVIOUS
  <2>1. PICK m \in Passable(Children[d]) : m \notin lost /\ n = Resolved(m)
    BY DEF OnFS, Accepted, Passable
  <2>2. d \in R
    BY <1>1, <1>2, <1>3, <1>6 DEF Settled
  <2>3. m \in Passable(Node) /\ NameOK(R, m)
    BY <2>1, <2>2, Assumptions DEF Passable, CoverInv
  <2>4. ~OffFS(n)
    BY <1>2 DEF OffFS, OnFS
  <2> QED
    BY <1>4, <2>1, <2>3, <2>4
<1>7. Expected(lost) \subseteq S
  BY <1>5, <1>6, ExpectedLeast
<1> SUFFICES ASSUME NEW n \in Expected(reported \cap Flaky), Kind[n] \in Type, n \notin reported
             PROVE  \/ emitted[n] > 0
                    \/ /\ IgnoreDuplicateInode
                       /\ \E m \in Node : Inode[m] = Inode[n] /\ (emitted[m] > 0 \/ m \in reported)
  BY DEF Complete
<1>8. n \in Node /\ Settled(R, n) /\ n \notin Gone
  BY <1>1, <1>2, <1>3, <1>7
<1>9. CASE n \in Dirs
  BY <1>1, <1>8, <1>9 DEF Settled, CoverInv, Dirs
<1>10. CASE n \notin Dirs
  <2>1. PICK m \in Mates(n) : m \in Shown
    BY <1>8, <1>10 DEF Settled
  <2>2. m \in Node /\ (emitted[m] > 0 \/ m \in reported)
    BY <1>1, <2>1 DEF Shown, Mates
  <2> QED
    BY <2>1, <2>2 DEF Mates
<1> QED
  BY <1>9, <1>10

(* Under those options what the names given lead to is always somewhere       *)
(* (walk.go, walkPath, doWalk, doSymlink and enq): nothing is dropped between  *)
(* the goroutines.                                                             *)
CoverageInv == Regular => TrackInv /\ \E R : CoverInv(R)

(* It is inductive together with the invariants above (walk.go, doWalk,        *)
(* walkPath, worker, enq).                                                     *)
THEOREM CoverageInductive == Spec => [](IInv /\ ShapeInv /\ FoundInv /\ PhaseInv /\ CoverageInv)
<1>1. Init => IInv /\ ShapeInv /\ FoundInv /\ PhaseInv /\ CoverageInv
  BY InitIInv, InitShape, InitFound, InitPhase, InitTrack, InitCover DEF CoverageInv
<1>2. IInv /\ ShapeInv /\ FoundInv /\ PhaseInv /\ CoverageInv /\ [Next]_vars => PhaseInv' /\ CoverageInv'
  <2> SUFFICES ASSUME IInv, ShapeInv, FoundInv, PhaseInv, CoverageInv, [Next]_vars
               PROVE  PhaseInv' /\ CoverageInv'
    OBVIOUS
  <2>1. PhaseInv'
    BY PhaseStep
  <2>2. ASSUME Regular PROVE (TrackInv /\ \E R : CoverInv(R))'
    <3>1. PICK R : CoverInv(R)
      BY <2>2 DEF CoverageInv
    <3>2. TrackInv
      BY <2>2 DEF CoverageInv
    <3>3. TrackInv'
      BY <2>2, <3>2, TrackStep
    <3>4. \E R2 : CoverInv(R2)'
      BY <2>2, <3>1, <3>2, CoverNext
    <3> QED
      BY <3>3, <3>4
  <2>3. CoverageInv'
    <3>1. Regular' => Regular
      BY DEF Regular, Followed, Refused, MayAppear
    <3> QED
      BY <2>2, <3>1 DEF CoverageInv
  <2> QED
    BY <2>1, <2>3
<1>3. IInv /\ ShapeInv /\ [Next]_vars => ShapeInv'
  BY ShapeStep
<1> QED
  BY <1>1, <1>2, <1>3, Inductive, FoundInductive, PTL DEF Spec

(* When the walk is over, every entry the options ask for was output, or its  *)
(* failure or that of a directory above it was reported.                       *)
THEOREM CompleteHolds == ASSUME Regular PROVE Spec => []Complete
<1>1. IInv /\ ShapeInv /\ PhaseInv /\ CoverageInv => Complete
  <2> SUFFICES ASSUME IInv, ShapeInv, PhaseInv, CoverageInv, Over PROVE Complete
    BY DEF Complete
  <2>1. PICK R : CoverInv(R)
    BY DEF CoverageInv
  <2> QED
    BY <2>1, Covered
<1> QED
  BY <1>1, CoverageInductive, PTL
=============================================================================
