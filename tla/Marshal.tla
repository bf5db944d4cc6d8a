------------------------------ MODULE Marshal ------------------------------
(***************************************************************************)
(* Info.MarshalTo and Info.Unmarshal (info_marshal.go, xattr_marshal.go,   *)
(* encdec.go), used as their tests use them: Infos are marshaled one after  *)
(* the other into one buffer, and read back from as much of it as arrived,  *)
(* into one Info that is used again.  Numbers have W32 or W64 digits.       *)
(***************************************************************************)
EXTENDS Integers, SequencesExt, FiniteSetsExt

CONSTANTS
  Base,        \* a byte is a digit to this base
  W32, W64,    \* digits of a uint32 and of a uint64
  Second,      \* nanoseconds in a second
  Slash, Dot,  \* two bytes
  Infos,       \* the Infos that are marshaled
  Room,        \* the size of the buffer
  Fill         \* the bytes the buffer may be full of at first

Byte == 0..Base - 1

ASSUME Assumptions ==
  /\ Base \in Nat \ {0, 1} /\ W32 \in Nat \ {0} /\ W64 \in Nat \ {0}
  /\ Second \in Nat \ {0} /\ Room \in Nat /\ Fill \subseteq Byte
  /\ Slash \in Byte /\ Dot \in Byte /\ Slash # Dot

VARIABLES
  buf,    \* the buffer
  wpos,   \* how much of it the writer has used
  total,  \* how much of it reaches the reader
  rpos,   \* how much of it the reader has consumed
  di,     \* the attributes of the Info the reader uses
  pc,     \* "writing", "reading", or how Unmarshal failed
  sent,   \* history: what was marshaled, and wpos after it
  got     \* history: what was unmarshaled

vars == <<buf, wpos, total, rpos, di, pc, sent, got>>

Init ==
  /\ \E b \in Fill : buf = [i \in 1..Room |-> b]
  /\ wpos = 0 /\ total = 0 /\ rpos = 0 /\ di = << >>
  /\ pc = "writing" /\ sent = << >> /\ got = << >>

Drop(b, n) == SubSeq(b, n + 1, Len(b))

-----------------------------------------------------------------------------
(* encdec.go *)

Shifted(n) == LET f[k \in Nat] == IF k = 0 THEN n ELSE f[k - 1] \div Base IN f
Digits(n, w) == [i \in 1..w |-> Shifted(n)[w - i] % Base]

NumberAt(b, at, w) ==
  LET f[k \in 0..w] == IF k = 0 THEN 0 ELSE f[k - 1] * Base + b[at + k] IN f[w]

EncStr(str) == Digits(Len(str), W32) \o str
EncTime(t) == Digits(t.s * Second + t.ns, W64)
DecTime(v) == [s |-> v \div Second, ns |-> v % Second]

-----------------------------------------------------------------------------
(* Marshaling *)

(* filepath.Base *)
BaseName(path) ==
  LET end == SelectLastInSeq(path, LAMBDA c : c # Slash) IN
  IF path = << >> THEN <<Dot>>
  ELSE IF end = 0 THEN <<Slash>>
  ELSE SubSeq(path, 1 + SelectLastInSubSeq(path, 1, end, LAMBDA c : c = Slash), end)

PathFor(ii, junk) == IF junk THEN BaseName(ii.path) ELSE ii.path

XattrSize(x) ==
  W32 + MapThenSumSet(LAMBDA k : W32 + W32 + Len(k) + Len(x[k]), DOMAIN x)

(* The map is written in any order. *)
EncXattr(x, keys) ==
  Digits(XattrSize(x) - W32, W32) \o FlattenSeq(
    [i \in DOMAIN keys |-> Digits(Len(keys[i]), W32) \o Digits(Len(x[keys[i]]), W32)
                             \o keys[i] \o x[keys[i]]])

FixedSize == 1 + 3 * W64 + 4 * W32 + 4 * W64

(* FixedSize has the version in it already: the last byte is never set. *)
MarshalSize(ii, junk) ==
  1 + FixedSize + Len(PathFor(ii, junk)) + W32 + XattrSize(ii.xattr) + W32

(* mutant: the length that is written is that of the whole *)
LengthWhole(size) == size

Length(size) == size - W32

(* The Infos that have an encoding: times from 1970 on, and numbers and sizes *)
(* that fit (enc32, enc64 and enctime cut off what does not, without a check). *)
Fits(n, w) == Shifted(n)[w] = 0

Marshalable(ii) ==
  /\ ii \in [u64 : [1..4 -> Nat], u32 : [1..4 -> Nat],
            time : [1..3 -> [s : Nat, ns : 0..Second - 1]],
            path : Seq(Byte), xattr : [DOMAIN ii.xattr -> Seq(Byte)]]
  /\ DOMAIN ii.xattr \subseteq Seq(Byte) /\ IsFiniteSet(DOMAIN ii.xattr)
  /\ \A i \in 1..4 : Fits(ii.u64[i], W64) /\ Fits(ii.u32[i], W32)
  /\ \A i \in 1..3 : Fits(ii.time[i].s * Second + ii.time[i].ns, W64)
  /\ \A junk \in BOOLEAN : Fits(MarshalSize(ii, junk), W32)

ASSUME AllMarshalable == \A ii \in Infos : Marshalable(ii)

Encoded(ii, junk, keys) ==
  Digits(Length(MarshalSize(ii, junk)), W32) \o <<1>>
    \o FlattenSeq([i \in 1..4 |-> Digits(ii.u64[i], W64)])
    \o FlattenSeq([i \in 1..4 |-> Digits(ii.u32[i], W32)])
    \o FlattenSeq([i \in 1..3 |-> EncTime(ii.time[i])])
    \o EncStr(PathFor(ii, junk)) \o EncXattr(ii.xattr, keys)

MarshalTo(ii, junk) ==
  /\ pc = "writing"
  /\ LET size == MarshalSize(ii, junk) IN
     /\ size <= Room - wpos
     /\ \E keys \in SetToSeqs(DOMAIN ii.xattr) :
          LET enc == Encoded(ii, junk, keys) IN
          buf' = [i \in 1..Room |->
                    IF i - wpos \in DOMAIN enc THEN enc[i - wpos] ELSE buf[i]]
     /\ wpos' = wpos + size
     /\ sent' = Append(sent, [info |-> [ii EXCEPT !.path = PathFor(ii, junk)],
                              end |-> wpos + size])
  /\ UNCHANGED <<total, rpos, di, pc, got>>

(* The buffer is too small: an error, and nothing is written. *)
MarshalRefused(ii, junk) ==
  /\ pc = "writing" /\ MarshalSize(ii, junk) > Room - wpos
  /\ pc' = "reading" /\ total' = wpos
  /\ UNCHANGED <<buf, wpos, rpos, di, sent, got>>

(* The writer stops, and some of what it wrote arrives. *)
Arrive ==
  /\ pc = "writing"
  /\ pc' = "reading" /\ total' \in 0..wpos
  /\ UNCHANGED <<buf, wpos, rpos, di, sent, got>>

-----------------------------------------------------------------------------
(* Unmarshaling: the bytes consumed and the Info, or an error *)

Failed(why) == [n |-> 0, err |-> why]

(* mutant: the attributes of the Info used before stay *)
NewXattrKept(old) == old

NewXattr(old) == << >>

Stored(x, k, v) == [c \in DOMAIN x \cup {k} |-> IF c = k THEN v ELSE x[c]]

(* The loop of Xattr.Unmarshal: one key and its value, which are stored in x, *)
(* while less than z has been read.                                            *)
NextPair(b, z, s) ==
  LET k == s.at + W32 + W32
      v == k + NumberAt(b, s.at, W32)
      end == v + NumberAt(b, s.at + W32, W32)
  IN IF s.err # "nil" \/ s.at >= z THEN s
     ELSE IF Len(b) < k \/ Len(b) < end THEN [s EXCEPT !.err = "small"]
     ELSE [at |-> end, err |-> "nil",
           x |-> Stored(s.x, SubSeq(b, k + 1, v), SubSeq(b, v + 1, end))]

(* Xattr.Unmarshal into the map x; the loop is over after z steps at the latest. *)
DecXattr(b, x) ==
  LET z == NumberAt(b, 0, W32)
      body == Drop(b, W32)
      loop[i \in Nat] == IF i = 0 THEN [at |-> 0, err |-> "nil", x |-> x]
                         ELSE NextPair(body, z, loop[i - 1])
  IN IF Len(b) < W32 \/ Len(body) < z THEN Failed("small") ELSE loop[z]

(* after the version; what z says bounds nothing but the result *)
UnmarshalV1(b, z, old) ==
  LET times == 4 * W64 + 4 * W32
      path == FixedSize - 1
      rest == path + W32 + NumberAt(b, path, W32)
      x == DecXattr(Drop(b, rest), NewXattr(old))
  IN IF Len(b) < path + W32 \/ Len(b) < rest \/ x.err # "nil" THEN Failed("small")
     ELSE [n |-> z + W32, err |-> "nil",
           info |-> [u64 |-> [i \in 1..4 |-> NumberAt(b, (i - 1) * W64, W64)],
                     u32 |-> [i \in 1..4 |-> NumberAt(b, 4 * W64 + (i - 1) * W32, W32)],
                     time |-> [i \in 1..3 |-> DecTime(NumberAt(b, times + (i - 1) * W64, W64))],
                     path |-> SubSeq(b, path + W32 + 1, rest),
                     xattr |-> x.x]]

Unmarshaled(b, old) ==
  LET z == NumberAt(b, 0, W32)
      body == Drop(b, W32)
  IN IF Len(b) < W32 \/ Len(body) < z \/ z < FixedSize THEN Failed("small")
     ELSE IF body[1] # 1 THEN Failed("version")
     ELSE UnmarshalV1(Drop(body, 1), z, old)

Unmarshal ==
  /\ pc = "reading"
  /\ LET r == Unmarshaled(SubSeq(buf, rpos + 1, total), di) IN
     IF r.err = "nil"
     THEN /\ rpos' = rpos + r.n /\ di' = r.info.xattr
          /\ got' = Append(got, r.info) /\ UNCHANGED pc
     ELSE pc' = r.err /\ UNCHANGED <<rpos, di, got>>
  /\ UNCHANGED <<buf, wpos, total, sent>>

Stopped == pc \in {"small", "version"} /\ UNCHANGED vars

Writing == \E ii \in Infos, junk \in BOOLEAN : MarshalTo(ii, junk) \/ MarshalRefused(ii, junk)
Next == Writing \/ Arrive \/ Unmarshal \/ Stopped
Spec == Init /\ [][Next]_vars

-----------------------------------------------------------------------------
(* What is read is what was marshaled, in the same order, every field of   *)
(* it, whatever is cut off and whatever the buffer held before.            *)
InOrder ==
  /\ Len(got) <= Len(sent)
  /\ \A k \in DOMAIN got : got[k] = sent[k].info

(* The reader stops for want of bytes only, right after the last Info that *)
(* arrived whole.                                                          *)
NothingLost ==
  /\ pc # "version"
  /\ rpos = (IF got = << >> THEN 0 ELSE sent[Len(got)].end)
  /\ pc = "small" /\ Len(got) < Len(sent) => sent[Len(got) + 1].end > total
=============================================================================
