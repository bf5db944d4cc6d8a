--------------------------- MODULE MarshalProofs ---------------------------
(***************************************************************************)
(* Proofs about Marshal: whatever is read back is what was marshaled, for   *)
(* every width of numbers, every Info and every point at which the stream   *)
(* is cut off.  What the recursive definitions compute is proved by the      *)
(* least-number principle, which follows from the well-foundedness of the   *)
(* strict subsets of a finite set.                                          *)
(***************************************************************************)
EXTENDS Marshal, FiniteSetTheorems, SequenceTheorems, WellFoundedInduction, TLAPS

-----------------------------------------------------------------------------
(* Induction and recursion over the naturals, as facts about sets *)

(* A set of naturals has a least element: x such that 0 .. x is minimal. *)
LEMMA Least ==
  ASSUME NEW T, T \subseteq Nat, T # {}
  PROVE  \E x \in T : \A y \in T : x <= y
<1> DEFINE Upto == {0 .. x : x \in T}
<1>1. Upto \subseteq FiniteSubsetsOf(Nat) /\ Upto # {}
  <2>1. \A x \in T : 0 .. x \in SUBSET Nat
    OBVIOUS
  <2>2. \A x \in T : IsFiniteSet(0 .. x)
    BY FS_Interval
  <2> QED BY <2>1, <2>2 DEF FiniteSubsetsOf
<1>2. IsWellFoundedOn(StrictSubsetOrdering(Nat), FiniteSubsetsOf(Nat))
  BY FS_StrictSubsetOrderingWellFounded
<1> HIDE DEF Upto
<1>3. \E X \in Upto : \A Y \in Upto : ~ (<<Y, X>> \in StrictSubsetOrdering(Nat))
  BY <1>1, <1>2, WFMin
<1> USE DEF Upto
<1>4. PICK x \in T : \A y \in T : ~ (<<0 .. y, 0 .. x>> \in StrictSubsetOrdering(Nat))
  BY <1>3
<1>5. ASSUME NEW y \in T PROVE x <= y
  <2>1. 0 .. y \in SUBSET Nat /\ 0 .. x \in SUBSET Nat
    OBVIOUS
  <2>2. ~ (0 .. y \subseteq 0 .. x /\ 0 .. y # 0 .. x)
    BY <1>4, <2>1 DEF StrictSubsetOrdering
  <2>3. CASE y < x
    <3>1. 0 .. y \subseteq 0 .. x /\ x \in 0 .. x /\ x \notin 0 .. y
      BY <2>3
    <3> QED BY <2>2, <3>1
  <2> QED BY <2>3
<1> QED BY <1>5

(* Induction over the naturals *)
LEMMA Induction ==
  ASSUME NEW T, T \subseteq Nat, 0 \in T, \A n \in T : n + 1 \in T
  PROVE  T = Nat
<1> SUFFICES ASSUME Nat \ T # {} PROVE FALSE
  OBVIOUS
<1>1. PICK x \in Nat \ T : \A y \in Nat \ T : x <= y
  BY Least
<1>2. x # 0 /\ x - 1 \in T /\ (x - 1) + 1 = x
  BY <1>1
<1> QED BY <1>1, <1>2

(* Recursion over the naturals: a function is defined by its value at 0 and a *)
(* step from each value to the next.                                          *)
Steps(f, e, G) == f[0] = e /\ \A n \in Nat : f[n + 1] = G[n][f[n]]

LEMMA Recursion ==
  ASSUME NEW V, NEW e \in V, NEW G \in [Nat -> [V -> V]]
  PROVE  \E f \in [Nat -> V] : Steps(f, e, G)
<1> DEFINE Part(n) == {g \in [0 .. n -> V] :
                         g[0] = e /\ \A k \in 0 .. n - 1 : g[k + 1] = G[k][g[k]]}
<1>1. \A n \in Nat : Part(n) # {}
  <2> DEFINE T == {n \in Nat : Part(n) # {}}
  <2>1. 0 \in T
    <3>1. [k \in 0 .. 0 |-> e] \in Part(0)
      OBVIOUS
    <3> QED BY <3>1
  <2>2. ASSUME NEW n \in T PROVE n + 1 \in T
    <3>1. PICK g \in Part(n) : TRUE
      OBVIOUS
    <3> DEFINE h == [k \in 0 .. n + 1 |-> IF k = n + 1 THEN G[n][g[n]] ELSE g[k]]
    <3>2. h \in [0 .. n + 1 -> V]
      OBVIOUS
    <3>3. h[0] = e /\ \A k \in 0 .. (n + 1) - 1 : h[k + 1] = G[k][h[k]]
      <4>1. \A k \in 0 .. n : h[k] = g[k]
        OBVIOUS
      <4>2. h[n + 1] = G[n][g[n]]
        OBVIOUS
      <4> HIDE DEF h
      <4> QED BY <4>1, <4>2
    <3>4. h \in Part(n + 1)
      BY <3>2, <3>3
    <3> HIDE DEF Part, h
    <3> QED BY <3>4
  <2> HIDE DEF T
  <2>3. T = Nat
    BY <2>1, <2>2, Induction DEF T
  <2> QED BY <2>3 DEF T
<1>2. ASSUME NEW m \in Nat, NEW n \in Nat, m <= n, NEW g \in Part(m), NEW h \in Part(n)
      PROVE  g[m] = h[m]
  <2> DEFINE T == {k \in Nat : k <= m => g[k] = h[k]}
  <2>1. 0 \in T
    OBVIOUS
  <2>2. ASSUME NEW k \in T PROVE k + 1 \in T
    <3>1. CASE k + 1 <= m
      <4>1. k \in 0 .. m - 1 /\ k \in 0 .. n - 1
        BY <1>2, <3>1
      <4> QED BY <4>1
    <3> QED BY <3>1
  <2> HIDE DEF T
  <2>3. T = Nat
    BY <2>1, <2>2, Induction DEF T
  <2> QED BY <2>3 DEF T
<1> DEFINE at(n) == CHOOSE g \in Part(n) : TRUE
<1>3. \A n \in Nat : at(n) \in Part(n)
  BY <1>1
<1> HIDE DEF at
<1> DEFINE f == [n \in Nat |-> at(n)[n]]
<1>4. f \in [Nat -> V]
  BY <1>3
<1>5. f[0] = e
  BY <1>3
<1>6. ASSUME NEW n \in Nat PROVE f[n + 1] = G[n][f[n]]
  <2>1. at(n + 1) \in Part(n + 1) /\ at(n) \in Part(n) /\ n \in 0 .. (n + 1) - 1
    BY <1>3
  <2>2. at(n + 1)[n + 1] = G[n][at(n + 1)[n]]
    BY <2>1
  <2> HIDE DEF Part
  <2>3. at(n)[n] = at(n + 1)[n]
    BY <1>2, <2>1
  <2> QED BY <2>2, <2>3
<1> HIDE DEF f
<1> QED BY <1>4, <1>5, <1>6 DEF Steps
-----------------------------------------------------------------------------
(* Numbers *)

LEMMA Widths ==
  /\ Base \in Nat /\ Base > 1 /\ W32 \in Nat /\ W32 > 0 /\ W64 \in Nat /\ W64 > 0
  /\ Second \in Nat /\ Second > 0 /\ Room \in Nat
BY Assumptions

LEMMA Division ==
  \A a \in Nat : a \div Base \in Nat /\ a % Base \in Byte /\ (a \div Base) * Base + (a % Base) = a
BY Widths DEF Byte

(* Shifted(n)[k] is n without its last k digits. *)
LEMMA ShiftedDef ==
  ASSUME NEW n \in Nat
  PROVE  /\ Shifted(n) \in [Nat -> Nat]
         /\ Shifted(n)[0] = n
         /\ \A k \in Nat : Shifted(n)[k + 1] = Shifted(n)[k] \div Base
<1> DEFINE Is(f) == f = [k \in Nat |-> IF k = 0 THEN n ELSE f[k - 1] \div Base]
           G == [k \in Nat |-> [v \in Nat |-> v \div Base]]
<1>1. G \in [Nat -> [Nat -> Nat]]
  BY Widths
<1> HIDE DEF G
<1>2. PICK g \in [Nat -> Nat] : Steps(g, n, G)
  BY <1>1, Recursion
<1>3. g[0] = n /\ \A k \in Nat : g[k + 1] = g[k] \div Base
  BY <1>2 DEF G, Steps
<1>4. Is(g)
  <2>1. ASSUME NEW k \in Nat PROVE g[k] = IF k = 0 THEN n ELSE g[k - 1] \div Base
    <3>1. CASE k # 0
      <4>1. k - 1 \in Nat /\ (k - 1) + 1 = k
        BY <3>1
      <4> QED BY <1>3, <3>1, <4>1
    <3> QED BY <1>3, <3>1
  <2> QED BY <2>1
<1>5. Shifted(n) = CHOOSE f : Is(f)
  BY DEF Shifted
<1>6. Is(Shifted(n))
  <2> HIDE DEF Is
  <2> QED BY <1>4, <1>5
<1> DEFINE f == Shifted(n)
<1>7. \A k \in Nat : f[k] = IF k = 0 THEN n ELSE f[k - 1] \div Base
  <2> HIDE DEF f
  <2>1. Is(f)
    BY <1>6 DEF f
  <2> QED BY <2>1
<1>8. f[0] = n /\ \A k \in Nat : f[k + 1] = f[k] \div Base
  <2> HIDE DEF f
  <2>1. \A k \in Nat : k + 1 \in Nat /\ k + 1 # 0 /\ (k + 1) - 1 = k
    OBVIOUS
  <2> QED BY <1>7, <2>1
<1>9. \A k \in Nat : f[k] \in Nat
  <2> DEFINE T == {k \in Nat : f[k] \in Nat}
  <2> HIDE DEF f
  <2>1. 0 \in T /\ \A k \in T : k + 1 \in T
    BY <1>8, Division
  <2> HIDE DEF T
  <2>2. T = Nat
    BY <2>1, Induction DEF T
  <2> QED BY <2>2 DEF T
<1>10. f \in [Nat -> Nat]
  <2> HIDE DEF f
  <2>1. f = [k \in Nat |-> IF k = 0 THEN n ELSE f[k - 1] \div Base]
    BY <1>6 DEF f
  <2>2. DOMAIN f = Nat /\ f = [k \in Nat |-> f[k]]
    BY <2>1
  <2> QED BY <1>9, <2>2
<1> QED BY <1>8, <1>10

LEMMA DigitsType ==
  ASSUME NEW n \in Nat, NEW w \in Nat
  PROVE  Digits(n, w) \in Seq(Byte) /\ Len(Digits(n, w)) = w
<1>1. \A i \in 1 .. w : Shifted(n)[w - i] % Base \in Byte
  <2> TAKE i \in 1 .. w
  <2>1. Shifted(n)[w - i] \in Nat
    BY ShiftedDef
  <2> QED BY <2>1, Widths DEF Byte
<1>2. Digits(n, w) \in [1 .. w -> Byte]
  BY <1>1 DEF Digits
<1> QED BY <1>2

(* A smaller number fits if a greater does. *)
LEMMA FitsLess ==
  ASSUME NEW m \in Nat, NEW n \in Nat, m <= n, NEW w \in Nat, Fits(n, w)
  PROVE  Fits(m, w)
<1> DEFINE T == {k \in Nat : Shifted(m)[k] <= Shifted(n)[k]}
<1>1. 0 \in T
  BY ShiftedDef
<1>2. ASSUME NEW k \in T PROVE k + 1 \in T
  <2>1. \A a, b \in Nat : a <= b => a \div Base <= b \div Base
    BY Widths
  <2>2. /\ Shifted(m)[k + 1] = Shifted(m)[k] \div Base /\ Shifted(m)[k] \in Nat
        /\ Shifted(n)[k + 1] = Shifted(n)[k] \div Base /\ Shifted(n)[k] \in Nat
    BY ShiftedDef
  <2> QED BY <2>1, <2>2
<1> HIDE DEF T
<1>3. T = Nat
  BY <1>1, <1>2, Induction DEF T
<1>4. Shifted(m)[w] <= Shifted(n)[w] /\ Shifted(m)[w] \in Nat
  BY <1>3, ShiftedDef DEF T
<1> QED BY <1>4 DEF Fits

-----------------------------------------------------------------------------
(* Bytes in their place *)

(* The bytes s stand in b after the first p. *)
Placed(b, p, s) == p + Len(s) <= Len(b) /\ \A i \in 1 .. Len(s) : b[p + i] = s[i]

LEMMA Concat ==
  \A s, t \in Seq(Byte) : s \o t \in Seq(Byte) /\ Len(s \o t) = Len(s) + Len(t)
OBVIOUS

LEMMA PlacedConcat ==
  ASSUME NEW b \in Seq(Byte), NEW p \in Nat, NEW s \in Seq(Byte), NEW t \in Seq(Byte),
         Placed(b, p, s \o t)
  PROVE  Placed(b, p, s) /\ Placed(b, p + Len(s), t)
<1>1. Len(s \o t) = Len(s) + Len(t) /\ Len(s) \in Nat /\ Len(t) \in Nat
  OBVIOUS
<1>2. \A i \in 1 .. Len(s) : (s \o t)[i] = s[i]
  OBVIOUS
<1>3. \A i \in 1 .. Len(t) : (s \o t)[Len(s) + i] = t[i]
  OBVIOUS
<1>4. Placed(b, p, s)
  BY <1>1, <1>2 DEF Placed
<1>5. \A i \in 1 .. Len(t) : b[p + Len(s) + i] = t[i]
  <2> TAKE i \in 1 .. Len(t)
  <2>1. Len(s) + i \in 1 .. Len(s \o t) /\ p + (Len(s) + i) = p + Len(s) + i
    BY <1>1
  <2>2. b[p + (Len(s) + i)] = (s \o t)[Len(s) + i]
    BY <2>1 DEF Placed
  <2> QED BY <1>3, <2>1, <2>2
<1> QED BY <1>1, <1>4, <1>5 DEF Placed

LEMMA PlacedDrop ==
  ASSUME NEW b \in Seq(Byte), NEW p \in Nat, NEW s \in Seq(Byte), NEW d \in 0 .. p,
         Placed(b, p, s)
  PROVE  Placed(Drop(b, d), p - d, s)
<1>1. d <= Len(b) /\ Len(s) \in Nat /\ Len(b) \in Nat
  BY DEF Placed
<1>2. Len(Drop(b, d)) = Len(b) - d /\ \A i \in 1 .. Len(b) - d : Drop(b, d)[i] = b[d + i]
  BY <1>1 DEF Drop
<1>3. ASSUME NEW i \in 1 .. Len(s) PROVE Drop(b, d)[p - d + i] = s[i]
  <2>1. p - d + i \in 1 .. Len(b) - d /\ d + (p - d + i) = p + i
    BY <1>1 DEF Placed
  <2> QED BY <1>2, <2>1 DEF Placed
<1> QED BY <1>1, <1>2, <1>3 DEF Placed

LEMMA DropType ==
  ASSUME NEW b \in Seq(Byte), NEW d \in 0 .. Len(b)
  PROVE  Drop(b, d) \in Seq(Byte) /\ Len(Drop(b, d)) = Len(b) - d
BY DEF Drop

(* A number that fits is read back from its digits. *)
LEMMA NumberOfDigits ==
  ASSUME NEW b, NEW p \in Nat, NEW n \in Nat, NEW w \in Nat, Fits(n, w),
         Placed(b, p, Digits(n, w))
  PROVE  NumberAt(b, p, w) = n
<1> DEFINE Is(f) == f = [k \in 0 .. w |-> IF k = 0 THEN 0 ELSE f[k - 1] * Base + b[p + k]]
           g == [k \in 0 .. w |-> Shifted(n)[w - k]]
           N == CHOOSE f : Is(f)
<1>1. \A k \in 1 .. w : b[p + k] = Shifted(n)[w - k] % Base
  BY DigitsType DEF Placed, Digits
<1>2. g[0] = 0 /\ g[w] = n
  BY ShiftedDef DEF Fits
<1>3. ASSUME NEW k \in 1 .. w PROVE g[k - 1] * Base + b[p + k] = g[k]
  <2>1. w - k \in Nat /\ w - (k - 1) = (w - k) + 1
    OBVIOUS
  <2>2. /\ Shifted(n)[w - k] \in Nat
        /\ Shifted(n)[w - (k - 1)] = Shifted(n)[w - k] \div Base
    BY <2>1, ShiftedDef
  <2>3. g[k - 1] = Shifted(n)[w - (k - 1)] /\ g[k] = Shifted(n)[w - k]
    OBVIOUS
  <2> HIDE DEF g
  <2> QED BY <1>1, <2>2, <2>3, Division
<1>4. DOMAIN g = 0 .. w /\ g = [k \in 0 .. w |-> g[k]]
  OBVIOUS
<1> HIDE DEF g
<1>5. Is(g)
  <2>1. \A k \in 0 .. w : g[k] = IF k = 0 THEN 0 ELSE g[k - 1] * Base + b[p + k]
    BY <1>2, <1>3
  <2> QED BY <1>4, <2>1
<1>6. Is(N)
  <2> HIDE DEF Is
  <2> QED BY <1>5
<1>7. NumberAt(b, p, w) = N[w]
  BY DEF NumberAt
<1> HIDE DEF N
<1>8. \A k \in 0 .. w : N[k] = IF k = 0 THEN 0 ELSE N[k - 1] * Base + b[p + k]
  BY <1>6
<1> DEFINE T == {k \in Nat : k <= w => N[k] = g[k]}
<1>9. 0 \in T
  BY <1>2, <1>8
<1>10. ASSUME NEW k \in T PROVE k + 1 \in T
  <2>1. CASE k + 1 <= w
    <3>1. k + 1 \in 1 .. w /\ (k + 1) - 1 = k /\ k + 1 # 0 /\ N[k] = g[k]
      BY <2>1
    <3>2. N[k + 1] = N[k] * Base + b[p + (k + 1)]
      BY <1>8, <3>1
    <3>3. g[k] * Base + b[p + (k + 1)] = g[k + 1]
      BY <1>3, <3>1
    <3> QED BY <3>1, <3>2, <3>3
  <2> QED BY <2>1
<1> HIDE DEF T
<1>11. T = Nat
  BY <1>9, <1>10, Induction DEF T
<1>12. w \in T /\ w <= w
  BY <1>11
<1> QED BY <1>2, <1>7, <1>12 DEF T

LEMMA PlacedWithin ==
  ASSUME NEW b \in Seq(Byte), NEW p \in Nat, NEW s \in Seq(Byte), Placed(b, p, s),
         NEW q \in Nat, NEW t \in Seq(Byte), Placed(s, q, t)
  PROVE  Placed(b, p + q, t)
<1>1. Len(b) \in Nat /\ Len(s) \in Nat /\ Len(t) \in Nat
  OBVIOUS
<1>2. ASSUME NEW i \in 1 .. Len(t) PROVE b[p + q + i] = t[i]
  <2>1. q + i \in 1 .. Len(s) /\ p + (q + i) = p + q + i
    BY <1>1 DEF Placed
  <2>2. b[p + (q + i)] = s[q + i] /\ s[q + i] = t[i]
    BY <2>1 DEF Placed
  <2> QED BY <2>1, <2>2
<1> QED BY <1>1, <1>2 DEF Placed

LEMMA PlacedIn ==
  ASSUME NEW s \in Seq(Byte), NEW t \in Seq(Byte)
  PROVE  /\ Placed(s \o t, 0, s) /\ Placed(s \o t, Len(s), t)
         /\ \A p \in Nat, r \in Seq(Byte) : Placed(s, p, r) => Placed(s \o t, p, r)
<1>1. Len(s \o t) = Len(s) + Len(t) /\ Len(s) \in Nat /\ Len(t) \in Nat /\ s \o t \in Seq(Byte)
  OBVIOUS
<1>2. \A i \in 1 .. Len(s) : (s \o t)[i] = s[i]
  OBVIOUS
<1>3. \A i \in 1 .. Len(t) : (s \o t)[Len(s) + i] = t[i]
  OBVIOUS
<1>4. Placed(s \o t, 0, s) /\ Placed(s \o t, Len(s), t)
  BY <1>1, <1>2, <1>3 DEF Placed
<1>5. ASSUME NEW p \in Nat, NEW r \in Seq(Byte), Placed(s, p, r) PROVE Placed(s \o t, p, r)
  <2>1. Placed(s \o t, 0 + p, r)
    BY <1>1, <1>4, <1>5, PlacedWithin
  <2> QED BY <2>1
<1> QED BY <1>4, <1>5

(* Where each part of a concatenation is: after the first i parts, off[i] *)
(* bytes                                                                  *)
Offsets(off, parts) ==
  /\ \A i \in 0 .. Len(parts) : off[i] \in Nat
  /\ off[0] = 0
  /\ \A i \in 1 .. Len(parts) : off[i] = off[i - 1] + Len(parts[i])

LEMMA Flatten ==
  ASSUME NEW parts \in Seq(Seq(Byte)), NEW off, Offsets(off, parts)
  PROVE  /\ FlattenSeq(parts) \in Seq(Byte)
         /\ Len(FlattenSeq(parts)) = off[Len(parts)]
         /\ \A i \in 1 .. Len(parts) : Placed(FlattenSeq(parts), off[i - 1], parts[i])
<1> DEFINE n == Len(parts)
<1>1. n \in Nat /\ \A i \in 1 .. n : parts[i] \in Seq(Byte)
  OBVIOUS
<1>0. /\ \A i \in 0 .. n : off[i] \in Nat
      /\ off[0] = 0
      /\ \A i \in 1 .. n : off[i] = off[i - 1] + Len(parts[i])
  BY DEF Offsets
<1>2. CASE n = 0
  <2>1. FlattenSeq(parts) = parts /\ parts = << >>
    BY <1>2 DEF FlattenSeq
  <2> QED BY <1>2, <2>1 DEF Offsets
<1>3. CASE n # 0
  <2> DEFINE Is(f) == f = [i \in 1 .. n |-> IF i = 1 THEN parts[i] ELSE f[i - 1] \o parts[i]]
             F == CHOOSE f : Is(f)
             G == [k \in Nat |-> [v \in Seq(Byte) |-> IF k + 1 <= n THEN v \o parts[k + 1] ELSE v]]
  <2>1. FlattenSeq(parts) = F[n]
    BY <1>3 DEF FlattenSeq
  <2>2. G \in [Nat -> [Seq(Byte) -> Seq(Byte)]]
    BY <1>1
  <2>3. << >> \in Seq(Byte)
    OBVIOUS
  <2> HIDE DEF G
  <2>4. PICK g \in [Nat -> Seq(Byte)] : Steps(g, << >>, G)
    BY <2>2, <2>3, Recursion
  <2>5. g[0] = << >> /\ \A k \in Nat : k + 1 <= n => g[k + 1] = g[k] \o parts[k + 1]
    BY <2>4 DEF G, Steps
  <2> DEFINE h == [i \in 1 .. n |-> g[i]]
  <2>6. Is(h)
    <3>1. ASSUME NEW i \in 1 .. n
          PROVE  g[i] = IF i = 1 THEN parts[i] ELSE g[i - 1] \o parts[i]
      <4>1. i - 1 \in Nat /\ (i - 1) + 1 = i /\ (i - 1) + 1 <= n
        BY <1>1
      <4>2. g[i] = g[i - 1] \o parts[i]
        BY <2>5, <4>1
      <4>3. << >> \o parts[i] = parts[i]
        BY <1>1
      <4>4. i = 1 => g[i - 1] = << >>
        BY <2>5
      <4> QED BY <4>2, <4>3, <4>4
    <3>2. \A i \in 1 .. n : i # 1 => h[i - 1] = g[i - 1]
      BY <1>1
    <3> QED BY <3>1, <3>2
  <2>7. Is(F)
    <3> HIDE DEF Is, h
    <3> QED BY <2>6
  <2> HIDE DEF F
  <2>8. \A i \in 1 .. n : F[i] = IF i = 1 THEN parts[i] ELSE F[i - 1] \o parts[i]
    BY <2>7
  <2> HIDE DEF n
  <2> DEFINE Good(k) == /\ F[k] \in Seq(Byte) /\ Len(F[k]) = off[k]
                        /\ \A i \in 1 .. k : Placed(F[k], off[i - 1], parts[i])
             T == {k \in Nat : k + 1 <= n => Good(k + 1)}
  <2>9. 0 \in T
    <3>1. F[1] = parts[1] /\ parts[1] \in Seq(Byte) /\ off[1] = 0 + Len(parts[1]) /\ off[0] = 0
      <4>1. 1 \in 1 .. n /\ 1 - 1 = 0
        BY <1>1, <1>3
      <4> QED BY <1>1, <1>0, <2>8, <4>1
    <3>2. Placed(F[1], 0, parts[1]) /\ Len(F[1]) = off[1]
      BY <3>1 DEF Placed
    <3>3. \A i \in 1 .. 1 : Placed(F[1], off[i - 1], parts[i])
      <4>1. \A i \in 1 .. 1 : i = 1 /\ i - 1 = 0
        OBVIOUS
      <4> QED BY <3>1, <3>2, <4>1
    <3>4. Good(1)
      BY <3>1, <3>2, <3>3
    <3>5. 0 + 1 = 1
      OBVIOUS
    <3> HIDE DEF Good
    <3> QED BY <3>4, <3>5
  <2>10. ASSUME NEW k \in T PROVE k + 1 \in T
    <3>1. CASE (k + 1) + 1 <= n
      <4> DEFINE m == k + 1
      <4>1. Good(m) /\ m \in Nat /\ m # 0 /\ m + 1 <= n
        <5> HIDE DEF Good
        <5> QED BY <1>1, <3>1
      <4> HIDE DEF m
      <4>0. m + 1 \in 1 .. n /\ m + 1 # 1 /\ (m + 1) - 1 = m
        BY <1>1, <4>1
      <4>2. F[m + 1] = F[m] \o parts[m + 1] /\ parts[m + 1] \in Seq(Byte)
        BY <1>1, <2>8, <4>0
      <4>3. off[m + 1] = off[m] + Len(parts[m + 1])
        BY <1>0, <4>0
      <4>4. F[m + 1] \in Seq(Byte) /\ Len(F[m + 1]) = off[m + 1]
        <5>1. F[m] \in Seq(Byte) /\ Len(F[m]) = off[m]
          BY <4>1
        <5>2. \A s, t \in Seq(Byte) : s \o t \in Seq(Byte) /\ Len(s \o t) = Len(s) + Len(t)
          OBVIOUS
        <5> HIDE DEF Good
        <5> QED BY <4>2, <4>3, <5>1, <5>2
      <4>5. ASSUME NEW i \in 1 .. m + 1 PROVE Placed(F[m + 1], off[i - 1], parts[i])
        <5>1. CASE i = m + 1
          <6>1. F[m] \in Seq(Byte) /\ Len(F[m]) = off[m]
            BY <4>1
          <6>2. Placed(F[m + 1], off[m], parts[m + 1])
            BY <4>2, <6>1, PlacedIn
          <6> QED BY <4>0, <5>1, <6>2
        <5>2. CASE i # m + 1
          <6>1. i \in 1 .. m /\ i - 1 \in 0 .. n /\ i \in 1 .. n
            <7>1. \A a \in Nat : \A c \in 1 .. a + 1 : a + 1 <= n /\ c # a + 1 =>
                     c \in 1 .. a /\ c - 1 \in 0 .. n /\ c \in 1 .. n
              BY <1>1
            <7>2. m \in Nat /\ m + 1 <= n
              BY <4>1
            <7> HIDE DEF Good
            <7> QED BY <5>2, <7>1, <7>2
          <6>2. Placed(F[m], off[i - 1], parts[i]) /\ off[i - 1] \in Nat /\ parts[i] \in Seq(Byte)
            BY <1>1, <1>0, <4>1, <6>1
          <6> QED BY <4>1, <4>2, <6>2, PlacedIn
        <5> QED BY <5>1, <5>2
      <4>6. Good(m + 1)
        BY <4>4, <4>5
      <4> HIDE DEF Good
      <4> QED BY <4>6 DEF m
    <3> HIDE DEF Good
    <3> QED BY <3>1
  <2> HIDE DEF T
  <2>11. T = Nat
    BY <2>9, <2>10, Induction DEF T
  <2>12. n - 1 \in T /\ (n - 1) + 1 = n
    BY <1>1, <1>3, <2>11
  <2>13. Good(n)
    <3> HIDE DEF Good
    <3> QED BY <2>12, <1>1 DEF T
  <2> QED BY <2>1, <2>13 DEF n
<1> QED BY <1>2, <1>3
-----------------------------------------------------------------------------
(* The sum over a finite set, which does not depend on the order *)

(* What the fold that defines MapThenSumSet says of a sum over the subsets *)
(* of K, with the elements chosen in some order                            *)
Sums(f, w, K) ==
  f = [s \in SUBSET K |-> IF s = {} THEN 0 ELSE w[CHOOSE k \in s : TRUE] + f[s \ {CHOOSE k \in s : TRUE}]]

LEMMA SumsAt ==
  ASSUME NEW K, NEW w \in [K -> Nat], NEW f, Sums(f, w, K)
  PROVE  /\ f[{}] = 0
         /\ \A s \in SUBSET K : s # {} =>
              \E c \in s : c = (CHOOSE k \in s : TRUE) /\ f[s] = w[c] + f[s \ {c}]
<1>1. \A s \in SUBSET K :
        f[s] = IF s = {} THEN 0 ELSE w[CHOOSE k \in s : TRUE] + f[s \ {CHOOSE k \in s : TRUE}]
  BY DEF Sums
<1>2. f[{}] = 0
  <2>1. {} \in SUBSET K
    OBVIOUS
  <2> QED BY <1>1, <2>1
<1>3. ASSUME NEW s \in SUBSET K, s # {}
      PROVE  \E c \in s : c = (CHOOSE k \in s : TRUE) /\ f[s] = w[c] + f[s \ {c}]
  <2> DEFINE c == CHOOSE k \in s : TRUE
  <2>1. c \in s
    BY <1>3
  <2>2. f[s] = w[c] + f[s \ {c}]
    BY <1>1, <1>3
  <2> QED BY <2>1, <2>2
<1> QED BY <1>2, <1>3

LEMMA Smaller ==
  ASSUME NEW K, IsFiniteSet(K), NEW s \in SUBSET K
  PROVE  /\ IsFiniteSet(s) /\ Cardinality(s) \in Nat
         /\ \A k \in s : Cardinality(s \ {k}) = Cardinality(s) - 1
         /\ Cardinality(s) <= Cardinality(K)
         /\ Cardinality(s) = 0 => s = {}
BY FS_Subset, FS_CardinalityType, FS_RemoveElement, FS_EmptySet

LEMMA SumsExist ==
  ASSUME NEW K, IsFiniteSet(K), NEW w \in [K -> Nat]
  PROVE  \E f : Sums(f, w, K)
<1> DEFINE V == [SUBSET K -> Nat]
           e == [s \in SUBSET K |-> 0]
           Next1(g) == [s \in SUBSET K |-> IF s = {} THEN 0
                          ELSE w[CHOOSE k \in s : TRUE] + g[s \ {CHOOSE k \in s : TRUE}]]
           G == [n \in Nat |-> [g \in V |-> Next1(g)]]
<1>1. e \in V
  OBVIOUS
<1>2. ASSUME NEW g \in V PROVE Next1(g) \in V
  <2>1. ASSUME NEW s \in SUBSET K, s # {}
        PROVE  w[CHOOSE k \in s : TRUE] + g[s \ {CHOOSE k \in s : TRUE}] \in Nat
    <3> DEFINE c == CHOOSE k \in s : TRUE
    <3>1. c \in s
      BY <2>1
    <3> HIDE DEF c
    <3>2. w[c] \in Nat /\ s \ {c} \in SUBSET K
      BY <3>1
    <3>3. g[s \ {c}] \in Nat
      BY <3>2
    <3>4. w[c] + g[s \ {c}] \in Nat
      BY <3>2, <3>3
    <3> QED BY <3>4 DEF c
  <2> QED BY <2>1
<1>3. G \in [Nat -> [V -> V]]
  <2> HIDE DEF Next1, V
  <2> QED BY <1>2
<1> HIDE DEF G, e, V
<1>4. PICK h \in [Nat -> V] : Steps(h, e, G)
  BY <1>1, <1>3, Recursion
<1>5. h[0] = e /\ \A n \in Nat : h[n] \in V /\ h[n + 1] = Next1(h[n])
  <2> HIDE DEF Next1
  <2> QED BY <1>4 DEF Steps, G
<1>6. \A n \in Nat : /\ h[n + 1][{}] = 0
                    /\ \A s \in SUBSET K : s # {} =>
                         \E c \in s : \A m \in {n, n + 1} : h[m + 1][s] = w[c] + h[m][s \ {c}]
  <2> TAKE n \in Nat
  <2>1. h[n + 1][{}] = 0
    <3>1. {} \in SUBSET K
      OBVIOUS
    <3> QED BY <1>5, <3>1
  <2>2. ASSUME NEW s \in SUBSET K, s # {}
        PROVE  \E c \in s : \A m \in {n, n + 1} : h[m + 1][s] = w[c] + h[m][s \ {c}]
    <3> DEFINE c == CHOOSE k \in s : TRUE
    <3>1. c \in s
      BY <2>2
    <3>2. \A m \in {n, n + 1} : m \in Nat /\ h[m + 1][s] = w[c] + h[m][s \ {c}]
      <4>1. ASSUME NEW m \in Nat PROVE h[m + 1][s] = w[c] + h[m][s \ {c}]
        <5>1. h[m + 1] = Next1(h[m])
          <6> HIDE DEF Next1
          <6> QED BY <1>5
        <5>2. Next1(h[m])[s] = w[c] + h[m][s \ {c}]
          BY <2>2
        <5> HIDE DEF Next1, c
        <5> QED BY <5>1, <5>2
      <4>2. \A m \in {n, n + 1} : m \in Nat
        OBVIOUS
      <4> HIDE DEF c, Next1
      <4> QED BY <4>1, <4>2
    <3> HIDE DEF c
    <3> QED BY <3>1, <3>2
  <2> QED BY <2>1, <2>2
<1> DEFINE T == {n \in Nat : \A s \in SUBSET K : Cardinality(s) <= n => h[n + 1][s] = h[n][s]}
<1>7. 0 \in T
  <2>1. ASSUME NEW s \in SUBSET K, Cardinality(s) <= 0 PROVE h[0 + 1][s] = h[0][s]
    <3>1. s = {}
      BY <2>1, Smaller
    <3>2. h[0 + 1][{}] = 0 /\ h[0][{}] = 0
      BY <1>5, <1>6 DEF e
    <3> QED BY <3>1, <3>2
  <2> QED BY <2>1
<1>8. ASSUME NEW n \in T PROVE n + 1 \in T
  <2>1. ASSUME NEW s \in SUBSET K, Cardinality(s) <= n + 1
        PROVE  h[(n + 1) + 1][s] = h[n + 1][s]
    <3>1. CASE s = {}
      BY <1>6, <3>1
    <3>2. CASE s # {}
      <4>1. PICK c \in s : \A m \in {n, n + 1} : h[m + 1][s] = w[c] + h[m][s \ {c}]
        BY <1>6, <3>2
      <4>2. Cardinality(s \ {c}) <= n /\ s \ {c} \in SUBSET K
        BY <2>1, Smaller
      <4>3. h[n + 1][s \ {c}] = h[n][s \ {c}]
        BY <4>2
      <4> QED BY <4>1, <4>3
    <3> QED BY <3>1, <3>2
  <2> QED BY <2>1
<1> HIDE DEF T
<1>9. T = Nat
  BY <1>7, <1>8, Induction DEF T
<1> DEFINE N == Cardinality(K)
<1>10. N \in Nat /\ \A s \in SUBSET K : Cardinality(s) <= N
  BY FS_CardinalityType, Smaller
<1>11. h[N + 1] = h[N]
  <2>1. \A s \in SUBSET K : h[N + 1][s] = h[N][s]
    BY <1>9, <1>10 DEF T
  <2>2. h[N] \in V /\ h[N + 1] \in V
    BY <1>5, <1>10
  <2> HIDE DEF N, Next1
  <2> QED BY <2>1, <2>2 DEF V
<1>12. h[N] = Next1(h[N])
  <2> HIDE DEF Next1, N
  <2> QED BY <1>5, <1>10, <1>11
<1>13. Sums(h[N], w, K)
  <2> HIDE DEF N
  <2> QED BY <1>12 DEF Sums
<1> QED BY <1>13

LEMMA SumsType ==
  ASSUME NEW K, IsFiniteSet(K), NEW w \in [K -> Nat], NEW f, Sums(f, w, K)
  PROVE  \A s \in SUBSET K : f[s] \in Nat
<1> DEFINE T == {n \in Nat : \A s \in SUBSET K : Cardinality(s) <= n => f[s] \in Nat}
<1>1. 0 \in T
  <2>1. f[{}] \in Nat
    BY SumsAt
  <2>2. \A s \in SUBSET K : Cardinality(s) <= 0 => s = {}
    BY Smaller
  <2> QED BY <2>1, <2>2
<1>2. ASSUME NEW n \in T PROVE n + 1 \in T
  <2>1. ASSUME NEW s \in SUBSET K, Cardinality(s) <= n + 1 PROVE f[s] \in Nat
    <3>1. CASE s # {}
      <4>1. PICK c \in s : f[s] = w[c] + f[s \ {c}]
        BY <3>1, SumsAt
      <4>2. Cardinality(s \ {c}) <= n /\ s \ {c} \in SUBSET K
        BY <2>1, Smaller
      <4>3. f[s \ {c}] \in Nat /\ w[c] \in Nat
        BY <4>2
      <4> QED BY <4>1, <4>3
    <3>2. CASE s = {}
      BY <3>2, SumsAt
    <3> QED BY <3>1, <3>2
  <2> QED BY <2>1
<1> HIDE DEF T
<1>3. T = Nat
  BY <1>1, <1>2, Induction DEF T
<1> QED BY <1>3, Smaller DEF T

(* Any element may be taken away first. *)
LEMMA SumsAnyOrder ==
  ASSUME NEW K, IsFiniteSet(K), NEW w \in [K -> Nat], NEW f, Sums(f, w, K)
  PROVE  \A s \in SUBSET K : \A k \in s : f[s] = w[k] + f[s \ {k}]
<1> DEFINE T == {n \in Nat : \A s \in SUBSET K :
                   Cardinality(s) <= n => \A k \in s : f[s] = w[k] + f[s \ {k}]}
<1>1. 0 \in T
  BY Smaller
<1>2. ASSUME NEW n \in T PROVE n + 1 \in T
  <2>1. ASSUME NEW s \in SUBSET K, Cardinality(s) <= n + 1, NEW k \in s
        PROVE  f[s] = w[k] + f[s \ {k}]
    <3>1. PICK c \in s : f[s] = w[c] + f[s \ {c}]
      BY SumsAt
    <3>2. CASE c # k
      <4>1. /\ Cardinality(s \ {c}) <= n /\ s \ {c} \in SUBSET K /\ k \in s \ {c}
            /\ Cardinality(s \ {k}) <= n /\ s \ {k} \in SUBSET K /\ c \in s \ {k}
        BY <2>1, <3>2, Smaller
      <4>2. f[s \ {c}] = w[k] + f[(s \ {c}) \ {k}]
        BY <4>1
      <4>3. f[s \ {k}] = w[c] + f[(s \ {k}) \ {c}]
        BY <4>1
      <4>4. (s \ {c}) \ {k} = (s \ {k}) \ {c} /\ (s \ {c}) \ {k} \in SUBSET K
        OBVIOUS
      <4>5. f[(s \ {c}) \ {k}] \in Nat /\ w[c] \in Nat /\ w[k] \in Nat
        BY <4>4, SumsType
      <4> DEFINE r == f[(s \ {c}) \ {k}]
      <4>6. f[s] = w[c] + (w[k] + r)
        BY <3>1, <4>2
      <4>7. w[k] + f[s \ {k}] = w[k] + (w[c] + r)
        BY <4>3, <4>4
      <4>8. r \in Nat
        BY <4>5
      <4> HIDE DEF r
      <4> QED BY <4>5, <4>6, <4>7, <4>8
    <3>3. CASE c = k
      BY <3>1, <3>3
    <3> QED BY <3>2, <3>3
  <2> QED BY <2>1
<1> HIDE DEF T
<1>3. T = Nat
  BY <1>1, <1>2, Induction DEF T
<1> QED BY <1>3, Smaller DEF T
-----------------------------------------------------------------------------
(* Types *)

LEMMA InfoType ==
  ASSUME NEW ii \in Infos
  PROVE  Marshalable(ii)
BY AllMarshalable

LEMMA MaxIn ==
  ASSUME NEW n \in Nat, NEW S \in SUBSET (1 .. n), S # {}
  PROVE  Max(S) \in S
<1> DEFINE T == {n - x : x \in S}
<1>1. T \subseteq Nat /\ T # {}
  <2>1. \A x \in 1 .. n : n - x \in Nat
    OBVIOUS
  <2>2. \A x \in S : n - x \in Nat
    BY <2>1
  <2> QED BY <2>2
<1>2. PICK y \in T : \A z \in T : y <= z
  BY <1>1, Least
<1>3. PICK x \in S : y = n - x
  OBVIOUS
<1>4. ASSUME NEW z \in S PROVE x >= z
  <2>1. n - z \in T
    OBVIOUS
  <2>2. n - x <= n - z /\ x \in 1 .. n /\ z \in 1 .. n
    BY <1>2, <1>3, <2>1
  <2> QED BY <2>2
<1>5. \E m \in S : \A z \in S : m >= z
  BY <1>4
<1> QED BY <1>5 DEF Max

LEMMA BaseNameType ==
  ASSUME NEW path \in Seq(Byte)
  PROVE  BaseName(path) \in Seq(Byte)
<1> DEFINE I == {i \in 1 .. Len(path) : path[i] # Slash}
           end == IF I # {} THEN Max(I) ELSE 0
           J == {i \in 1 .. end : path[i] = Slash}
           begin == IF J # {} THEN Max(J) ELSE 0
<1>1. BaseName(path) = IF path = << >> THEN <<Dot>> ELSE IF end = 0 THEN <<Slash>>
                       ELSE SubSeq(path, 1 + begin, end)
  BY DEF BaseName, SelectLastInSeq, SelectLastInSubSeq
<1>2. Len(path) \in Nat /\ I \in SUBSET (1 .. Len(path))
  OBVIOUS
<1>3. end \in 0 .. Len(path)
  <2>1. CASE I # {}
    <3>1. Max(I) \in 1 .. Len(path)
      <4> HIDE DEF I
      <4> QED BY <1>2, <2>1, MaxIn
    <3> QED BY <1>2, <2>1, <3>1
  <2> QED BY <1>2, <2>1
<1> HIDE DEF end
<1>4. begin \in 0 .. end
  <2>1. end \in Nat /\ J \in SUBSET (1 .. end)
    BY <1>2, <1>3
  <2>2. CASE J # {}
    <3>1. Max(J) \in 1 .. end
      <4> HIDE DEF J
      <4> QED BY <2>1, <2>2, MaxIn
    <3> QED BY <2>1, <2>2, <3>1
  <2> QED BY <2>1, <2>2
<1> HIDE DEF begin
<1>5. SubSeq(path, 1 + begin, end) \in Seq(Byte)
  <2>1. \A i \in 1 + begin .. end : path[i] \in Byte
    BY <1>3, <1>4
  <2> QED BY <1>3, <1>4, <2>1, SubSeqProperties
<1>6. <<Dot>> \in Seq(Byte) /\ <<Slash>> \in Seq(Byte)
  BY Assumptions
<1> QED BY <1>1, <1>5, <1>6

LEMMA PathForType ==
  ASSUME NEW ii \in Infos, NEW junk \in BOOLEAN
  PROVE  PathFor(ii, junk) \in Seq(Byte)
BY InfoType, BaseNameType DEF PathFor, Marshalable
-----------------------------------------------------------------------------
(* The attributes in the order in which they are written *)

Attributes(x) ==
  x \in [DOMAIN x -> Seq(Byte)] /\ DOMAIN x \subseteq Seq(Byte) /\ IsFiniteSet(DOMAIN x)

PairSize(x, k) == W32 + W32 + Len(k) + Len(x[k])

PairBytes(x, k) == Digits(Len(k), W32) \o Digits(Len(x[k]), W32) \o k \o x[k]

Pairs(x, keys) == [i \in DOMAIN keys |-> PairBytes(x, keys[i])]

LEMMA PairType ==
  ASSUME NEW x, Attributes(x), NEW k \in DOMAIN x
  PROVE  /\ k \in Seq(Byte) /\ x[k] \in Seq(Byte) /\ Len(k) \in Nat /\ Len(x[k]) \in Nat
         /\ PairSize(x, k) \in Nat /\ PairSize(x, k) > 0
         /\ PairBytes(x, k) \in Seq(Byte) /\ Len(PairBytes(x, k)) = PairSize(x, k)
<1>1. k \in Seq(Byte) /\ x[k] \in Seq(Byte) /\ Len(k) \in Nat /\ Len(x[k]) \in Nat
  BY DEF Attributes
<1>2. /\ Digits(Len(k), W32) \in Seq(Byte) /\ Len(Digits(Len(k), W32)) = W32
      /\ Digits(Len(x[k]), W32) \in Seq(Byte) /\ Len(Digits(Len(x[k]), W32)) = W32
  BY <1>1, DigitsType, Widths
<1>3. \A s, t \in Seq(Byte) : s \o t \in Seq(Byte) /\ Len(s \o t) = Len(s) + Len(t)
  BY Concat
<1>4. PairBytes(x, k) \in Seq(Byte) /\ Len(PairBytes(x, k)) = PairSize(x, k)
  BY <1>1, <1>2, <1>3 DEF PairBytes, PairSize
<1>5. PairSize(x, k) \in Nat /\ PairSize(x, k) > 0
  BY <1>1, Widths DEF PairSize
<1> QED BY <1>1, <1>4, <1>5

(* Each key is written once. *)
LEMMA KeysOf ==
  ASSUME NEW K, IsFiniteSet(K), NEW keys \in SetToSeqs(K)
  PROVE  /\ Cardinality(K) \in Nat /\ Len(keys) = Cardinality(K) /\ DOMAIN keys = 1 .. Len(keys)
         /\ \A i \in 1 .. Len(keys) : keys[i] \in K
         /\ \A i, j \in 1 .. Len(keys) : i # j => keys[i] # keys[j]
<1>1. Cardinality(K) \in Nat
  BY FS_CardinalityType
<1> DEFINE n == Cardinality(K)
<1>2. keys \in [1 .. n -> K] /\ \A i, j \in 1 .. n : i # j => keys[i] # keys[j]
  BY DEF SetToSeqs
<1> HIDE DEF n
<1>3. Len(keys) = n
  BY <1>1, <1>2 DEF n
<1> QED BY <1>1, <1>2, <1>3 DEF n

(* The sizes of the pairs add up to XattrSize, and no key is left out. *)
LEMMA XattrLayout ==
  ASSUME NEW x, Attributes(x), NEW keys \in SetToSeqs(DOMAIN x)
  PROVE  /\ \E off : Offsets(off, Pairs(x, keys)) /\ XattrSize(x) = W32 + off[Len(keys)]
         /\ \A k \in DOMAIN x : \E i \in 1 .. Len(keys) : keys[i] = k
<1> DEFINE K == DOMAIN x
           n == Len(keys)
           w == [k \in K |-> PairSize(x, k)]
           Rest(i) == K \ {keys[j] : j \in 1 .. i}
<1>1. IsFiniteSet(K) /\ w \in [K -> Nat]
  BY PairType DEF Attributes
<1>2. /\ n \in Nat /\ n = Cardinality(K) /\ DOMAIN keys = 1 .. n
      /\ \A i \in 1 .. n : keys[i] \in K
      /\ \A i, j \in 1 .. n : i # j => keys[i] # keys[j]
  BY <1>1, KeysOf
<1> DEFINE Is(f) == f = [s \in SUBSET K |-> IF s = {} THEN 0
                          ELSE PairSize(x, CHOOSE k \in s : TRUE) + f[s \ {CHOOSE k \in s : TRUE}]]
           sum == CHOOSE f : Is(f)
<1>3. XattrSize(x) = W32 + sum[K]
  BY Zenon DEF XattrSize, MapThenSumSet, MapThenFoldSet, PairSize
<1>4. ASSUME NEW f PROVE Is(f) <=> Sums(f, w, K)
  <2>1. ASSUME NEW s \in SUBSET K, s # {}
        PROVE  PairSize(x, CHOOSE k \in s : TRUE) = w[CHOOSE k \in s : TRUE]
    <3>1. (CHOOSE k \in s : TRUE) \in K
      BY <2>1
    <3> QED BY <3>1
  <2> HIDE DEF w, K
  <2> QED BY <2>1 DEF Sums
<1>5. Sums(sum, w, K)
  <2>1. \E f : Is(f)
    <3> HIDE DEF Is, w, K
    <3> QED BY <1>1, <1>4, SumsExist
  <2>2. Is(sum)
    <3> HIDE DEF Is
    <3> QED BY <2>1
  <2> HIDE DEF Is, sum
  <2> QED BY <1>4, <2>2
<1> HIDE DEF sum
<1>6. /\ Rest(0) = K /\ \A i \in 0 .. n : Rest(i) \in SUBSET K
      /\ \A i \in Nat : i + 1 <= n =>
           /\ i + 1 \in 1 .. n /\ keys[i + 1] \in Rest(i)
           /\ Rest(i + 1) = Rest(i) \ {keys[i + 1]}
  <2>1. Rest(0) = K /\ \A i \in 0 .. n : Rest(i) \in SUBSET K
    <3>1. 1 .. 0 = {}
      OBVIOUS
    <3>2. {keys[j] : j \in 1 .. 0} = {}
      BY <3>1
    <3> HIDE DEF K
    <3> QED BY <3>2
  <2>2. ASSUME NEW i \in Nat, i + 1 <= n
        PROVE  /\ i + 1 \in 1 .. n /\ keys[i + 1] \in Rest(i)
               /\ Rest(i + 1) = Rest(i) \ {keys[i + 1]}
    <3>1. i + 1 \in 1 .. n /\ i + 1 \notin 1 .. i /\ \A j \in 1 .. i : j \in 1 .. n
      BY <1>2, <2>2
    <3>2. keys[i + 1] \in K /\ \A j \in 1 .. i : keys[j] # keys[i + 1]
      BY <1>2, <3>1
    <3>3. 1 .. i + 1 = (1 .. i) \cup {i + 1}
      OBVIOUS
    <3>4. {keys[j] : j \in 1 .. i + 1} = {keys[j] : j \in 1 .. i} \cup {keys[i + 1]}
      BY <3>3
    <3> QED BY <3>1, <3>2, <3>4
  <2> QED BY <2>1, <2>2
<1> HIDE DEF Rest
<1>7. \A i \in Nat : i + 1 <= n => /\ sum[Rest(i)] = w[keys[i + 1]] + sum[Rest(i + 1)]
                                  /\ i \in 0 .. n /\ i + 1 \in 0 .. n
  <2> HIDE DEF w, K
  <2> TAKE i \in Nat
  <2> HAVE i + 1 <= n
  <2>1. i \in 0 .. n /\ i + 1 \in 0 .. n
    BY <1>2
  <2>2. Rest(i) \in SUBSET K /\ keys[i + 1] \in Rest(i) /\ Rest(i + 1) = Rest(i) \ {keys[i + 1]}
    BY <1>6, <2>1
  <2>3. sum[Rest(i)] = w[keys[i + 1]] + sum[Rest(i) \ {keys[i + 1]}]
    BY <1>1, <1>5, <2>2, SumsAnyOrder
  <2> QED BY <2>1, <2>2, <2>3
<1>8. \A i \in 0 .. n : sum[Rest(i)] \in Nat
  <2> HIDE DEF w, K
  <2> QED BY <1>1, <1>5, <1>6, SumsType
<1>9. sum[K] \in Nat /\ sum[{}] = 0
  <2> HIDE DEF w, K
  <2> QED BY <1>1, <1>5, SumsType, SumsAt
<1> DEFINE T == {i \in Nat : i <= n => Cardinality(Rest(i)) = n - i /\ sum[Rest(i)] <= sum[K]}
<1>10. 0 \in T
  BY <1>2, <1>6, <1>9
<1>11. ASSUME NEW i \in T PROVE i + 1 \in T
  <2>1. CASE i + 1 <= n
    <3>1. /\ sum[Rest(i)] = w[keys[i + 1]] + sum[Rest(i + 1)] /\ i \in 0 .. n /\ i + 1 \in 0 .. n
          /\ keys[i + 1] \in Rest(i) /\ Rest(i + 1) = Rest(i) \ {keys[i + 1]}
          /\ keys[i + 1] \in K
      BY <1>2, <1>6, <1>7, <2>1
    <3>2. Cardinality(Rest(i)) = n - i /\ sum[Rest(i)] <= sum[K]
      BY <1>2, <2>1
    <3>3. Cardinality(Rest(i + 1)) = n - (i + 1)
      <4>1. Cardinality(Rest(i) \ {keys[i + 1]}) = Cardinality(Rest(i)) - 1
        BY <1>1, <1>6, <3>1, Smaller
      <4>2. Cardinality(Rest(i + 1)) = (n - i) - 1
        BY <3>1, <3>2, <4>1
      <4> HIDE DEF n, w, K
      <4> QED BY <1>2, <3>1, <4>2
    <3>4. w[keys[i + 1]] \in Nat
      BY <1>1, <3>1
    <3>5. sum[Rest(i)] \in Nat /\ sum[Rest(i + 1)] \in Nat
      BY <1>8, <3>1
    <3>6. sum[Rest(i + 1)] <= sum[K]
      <4> HIDE DEF w
      <4> QED BY <1>9, <3>1, <3>2, <3>4, <3>5
    <3> QED BY <3>3, <3>6
  <2> QED BY <2>1
<1> HIDE DEF T
<1>12. T = Nat
  BY <1>10, <1>11, Induction DEF T
<1>13. \A i \in 0 .. n : Cardinality(Rest(i)) = n - i /\ sum[Rest(i)] <= sum[K]
  BY <1>2, <1>12 DEF T
<1>14. Rest(n) = {}
  <2>1. Cardinality(Rest(n)) = 0 /\ Rest(n) \in SUBSET K
    BY <1>2, <1>6, <1>13
  <2> QED BY <1>1, <2>1, Smaller
<1> DEFINE off == [i \in 0 .. n |-> sum[K] - sum[Rest(i)]]
<1>15. XattrSize(x) = W32 + off[n]
  <2>1. off[n] = sum[K] - sum[Rest(n)]
    BY <1>2
  <2> HIDE DEF off, K
  <2> QED BY <1>3, <1>9, <1>14, <2>1
<1>16. Len(Pairs(x, keys)) = n /\ \A i \in 1 .. n : Len(Pairs(x, keys)[i]) = w[keys[i]]
  <2>1. \A i \in 1 .. n : Len(PairBytes(x, keys[i])) = w[keys[i]]
    BY <1>2, PairType
  <2>2. DOMAIN Pairs(x, keys) = 1 .. n /\ \A i \in 1 .. n : Pairs(x, keys)[i] = PairBytes(x, keys[i])
    BY <1>2 DEF Pairs
  <2>3. Len(Pairs(x, keys)) = n
    BY <1>2 DEF Pairs
  <2> HIDE DEF w
  <2> QED BY <2>1, <2>2, <2>3
<1>17. Offsets(off, Pairs(x, keys))
  <2>1. \A i \in 0 .. n : off[i] \in Nat
    BY <1>8, <1>9, <1>13
  <2>2. off[0] = 0
    BY <1>2, <1>6, <1>9
  <2>3. ASSUME NEW i \in 1 .. n PROVE off[i] = off[i - 1] + w[keys[i]]
    <3>1. i - 1 \in Nat /\ (i - 1) + 1 = i /\ (i - 1) + 1 <= n /\ i \in 0 .. n
      BY <1>2
    <3>2. sum[Rest(i - 1)] = w[keys[i]] + sum[Rest(i)] /\ i - 1 \in 0 .. n
      BY <1>7, <3>1
    <3>3. w[keys[i]] \in Nat /\ sum[Rest(i - 1)] \in Nat /\ sum[Rest(i)] \in Nat
      BY <1>1, <1>2, <1>8, <3>1, <3>2
    <3> HIDE DEF w
    <3> QED BY <1>9, <3>1, <3>2, <3>3
  <2> HIDE DEF off, w
  <2> QED BY <1>16, <2>1, <2>2, <2>3 DEF Offsets
<1>18. \A k \in DOMAIN x : \E i \in 1 .. Len(keys) : keys[i] = k
  BY <1>14 DEF Rest
<1> HIDE DEF off
<1> QED BY <1>15, <1>17, <1>18

(* The number of bytes, the size of the pairs first and each pair in its place *)
LEMMA XattrBytes ==
  ASSUME NEW x, Attributes(x), NEW keys \in SetToSeqs(DOMAIN x),
         NEW off, Offsets(off, Pairs(x, keys)), XattrSize(x) = W32 + off[Len(keys)]
  PROVE  /\ EncXattr(x, keys) \in Seq(Byte) /\ Len(EncXattr(x, keys)) = XattrSize(x)
         /\ Len(keys) \in Nat /\ off[Len(keys)] \in Nat
         /\ \A i \in 1 .. Len(keys) :
              off[i - 1] \in Nat /\ off[i] \in Nat /\ off[i] <= off[Len(keys)]
              /\ off[i] = off[i - 1] + PairSize(x, keys[i])
         /\ \A b \in Seq(Byte) : Placed(b, 0, EncXattr(x, keys)) =>
              /\ Placed(b, 0, Digits(off[Len(keys)], W32))
              /\ W32 + off[Len(keys)] <= Len(b)
              /\ \A i \in 1 .. Len(keys) : Placed(Drop(b, W32), off[i - 1], PairBytes(x, keys[i]))
<1> DEFINE n == Len(keys)
           P == Pairs(x, keys)
           D == Digits(off[n], W32)
<1>1. n \in Nat /\ DOMAIN keys = 1 .. n /\ \A i \in 1 .. n : keys[i] \in DOMAIN x
  BY KeysOf DEF Attributes
<1>2. P \in Seq(Seq(Byte)) /\ Len(P) = n /\ \A i \in 1 .. n : P[i] = PairBytes(x, keys[i])
  <2>1. P = [i \in 1 .. n |-> PairBytes(x, keys[i])]
    BY <1>1 DEF Pairs
  <2>2. \A i \in 1 .. n : PairBytes(x, keys[i]) \in Seq(Byte)
    BY <1>1, PairType
  <2>3. P \in [1 .. n -> Seq(Byte)]
    BY <2>1, <2>2
  <2> QED BY <1>1, <2>1, <2>3
<1>3. EncXattr(x, keys) = D \o FlattenSeq(P)
  <2>1. XattrSize(x) - W32 = off[n]
    <3>1. off[n] \in Nat
      BY <1>1, <1>2 DEF Offsets
    <3> QED BY <3>1, Widths
  <2> QED BY <2>1 DEF EncXattr, Pairs, PairBytes
<1>10. Offsets(off, P)
  OBVIOUS
<1> HIDE DEF P
<1>4. /\ \A i \in 0 .. n : off[i] \in Nat
      /\ \A i \in 1 .. n : off[i] = off[i - 1] + Len(P[i])
  BY <1>2, <1>10 DEF Offsets
<1>5. /\ FlattenSeq(P) \in Seq(Byte) /\ Len(FlattenSeq(P)) = off[n]
      /\ \A i \in 1 .. n : Placed(FlattenSeq(P), off[i - 1], P[i])
  BY <1>2, <1>10, Flatten
<1>6. off[n] \in Nat /\ D \in Seq(Byte) /\ Len(D) = W32 /\ W32 \in Nat
  <2>1. off[n] \in Nat
    BY <1>1, <1>4
  <2> QED BY <2>1, DigitsType, Widths
<1> HIDE DEF D
<1> DEFINE F == FlattenSeq(P)
<1>7. D \o F \in Seq(Byte) /\ Len(D \o F) = W32 + off[n]
  <2> HIDE DEF F
  <2>1. F \in Seq(Byte) /\ Len(F) = off[n]
    BY <1>5 DEF F
  <2> QED BY <1>6, <2>1
<1>8. ASSUME NEW i \in 1 .. n
      PROVE  /\ off[i - 1] \in Nat /\ off[i] \in Nat /\ off[i] <= off[n]
             /\ off[i] = off[i - 1] + PairSize(x, keys[i])
  <2>1. i - 1 \in 0 .. n /\ i \in 0 .. n
    BY <1>1
  <2>2. Len(P[i]) = PairSize(x, keys[i])
    BY <1>1, <1>2, PairType
  <2>3. off[i - 1] + Len(P[i]) <= off[n]
    BY <1>5 DEF Placed
  <2> QED BY <1>4, <2>1, <2>2, <2>3
<1>9. ASSUME NEW b \in Seq(Byte), Placed(b, 0, D \o F)
      PROVE  /\ Placed(b, 0, D) /\ W32 + off[n] <= Len(b)
             /\ \A i \in 1 .. n : Placed(Drop(b, W32), off[i - 1], PairBytes(x, keys[i]))
  <2>1. F \in Seq(Byte) /\ Len(F) = off[n]
    BY <1>5
  <2> HIDE DEF F
  <2>2. Placed(b, 0, D) /\ Placed(b, W32, F)
    <3>1. Placed(b, 0, D) /\ Placed(b, 0 + Len(D), F)
      BY <1>6, <1>9, <2>1, PlacedConcat
    <3> QED BY <1>6, <3>1
  <2>3. W32 + off[n] <= Len(b)
    BY <2>1, <2>2 DEF Placed
  <2>4. Placed(Drop(b, W32), 0, F) /\ Drop(b, W32) \in Seq(Byte)
    <3>1. W32 \in 0 .. W32 /\ W32 \in 0 .. Len(b) /\ W32 - W32 = 0
      BY <1>6, <2>3
    <3>2. Placed(Drop(b, W32), W32 - W32, F)
      BY <1>6, <2>1, <2>2, <3>1, PlacedDrop
    <3> QED BY <3>1, <3>2, DropType
  <2>5. ASSUME NEW i \in 1 .. n PROVE Placed(Drop(b, W32), off[i - 1], PairBytes(x, keys[i]))
    <3>1. Placed(F, off[i - 1], P[i]) /\ P[i] \in Seq(Byte) /\ off[i - 1] \in Nat
      BY <1>2, <1>5, <1>8 DEF F
    <3>2. Placed(Drop(b, W32), 0 + off[i - 1], P[i])
      BY <2>1, <2>4, <3>1, PlacedWithin
    <3> QED BY <1>2, <3>1, <3>2
  <2> QED BY <2>2, <2>3, <2>5
<1> QED BY <1>1, <1>3, <1>6, <1>7, <1>8, <1>9 DEF D

LEMMA PlacedSub ==
  ASSUME NEW b \in Seq(Byte), NEW p \in Nat, NEW s \in Seq(Byte), Placed(b, p, s)
  PROVE  SubSeq(b, p + 1, p + Len(s)) = s
<1>1. Len(s) \in Nat /\ p + Len(s) <= Len(b) /\ \A i \in 1 .. Len(s) : b[p + i] = s[i]
  BY DEF Placed
<1> DEFINE t == SubSeq(b, p + 1, p + Len(s))
<1>2. t \in Seq(Byte) /\ Len(t) = Len(s) /\ \A i \in 1 .. Len(s) : t[i] = b[p + i]
  BY <1>1
<1> HIDE DEF t
<1>3. \A i \in 1 .. Len(s) : t[i] = s[i]
  BY <1>1, <1>2
<1>4. t = s
  BY <1>2, <1>3
<1> QED BY <1>4 DEF t

(* One iteration of the loop reads the pair that stands where it is. *)
LEMMA PairRoundTrip ==
  ASSUME NEW x, Attributes(x), NEW k \in DOMAIN x, NEW b \in Seq(Byte), NEW p \in Nat,
         Placed(b, p, PairBytes(x, k)), Fits(Len(k), W32), Fits(Len(x[k]), W32),
         NEW z \in Nat, p < z, NEW m
  PROVE  NextPair(b, z, [at |-> p, err |-> "nil", x |-> m]) =
           [at |-> p + PairSize(x, k), err |-> "nil", x |-> Stored(m, k, x[k])]
<1> DEFINE d == Digits(Len(k), W32)
           e == Digits(Len(x[k]), W32)
           v == x[k]
<1>1. k \in Seq(Byte) /\ v \in Seq(Byte) /\ Len(k) \in Nat /\ Len(v) \in Nat /\ W32 \in Nat
  BY PairType, Widths
<1>2. d \in Seq(Byte) /\ e \in Seq(Byte) /\ Len(d) = W32 /\ Len(e) = W32
  BY <1>1, DigitsType
<1>3. Placed(b, p, d \o e \o k \o v)
  BY DEF PairBytes
<1>4. /\ Placed(b, p, d) /\ Placed(b, p + W32, e) /\ Placed(b, p + W32 + W32, k)
      /\ Placed(b, p + W32 + W32 + Len(k), v)
  <2> HIDE DEF d, e, v
  <2>1. /\ d \o e \in Seq(Byte) /\ Len(d \o e) = W32 + W32
        /\ d \o e \o k \in Seq(Byte) /\ Len(d \o e \o k) = W32 + W32 + Len(k)
    <3>1. d \o e \in Seq(Byte) /\ Len(d \o e) = W32 + W32
      BY <1>2, Concat
    <3> DEFINE c == d \o e
    <3> HIDE DEF c
    <3>2. c \o k \in Seq(Byte) /\ Len(c \o k) = Len(c) + Len(k)
      BY <1>1, <3>1, Concat DEF c
    <3> QED BY <3>1, <3>2 DEF c
  <2>2. Placed(b, p, d \o e \o k) /\ Placed(b, p + (W32 + W32 + Len(k)), v)
    BY <1>1, <1>3, <2>1, PlacedConcat
  <2>3. Placed(b, p, d \o e) /\ Placed(b, p + (W32 + W32), k)
    BY <1>1, <2>1, <2>2, PlacedConcat
  <2>4. Placed(b, p, d) /\ Placed(b, p + W32, e)
    BY <1>2, <2>3, PlacedConcat
  <2>5. p + (W32 + W32 + Len(k)) = p + W32 + W32 + Len(k) /\ p + (W32 + W32) = p + W32 + W32
    BY <1>1
  <2> QED BY <2>2, <2>3, <2>4, <2>5
<1>5. NumberAt(b, p, W32) = Len(k) /\ NumberAt(b, p + W32, W32) = Len(v)
  <2>1. p + W32 \in Nat
    BY <1>1
  <2> QED BY <1>1, <1>4, <2>1, NumberOfDigits
<1> DEFINE q == p + W32 + W32
<1>6. SubSeq(b, q + 1, q + Len(k)) = k /\ SubSeq(b, q + Len(k) + 1, q + Len(k) + Len(v)) = v
  <2>1. q \in Nat /\ q + Len(k) \in Nat
    BY <1>1
  <2> HIDE DEF q, v
  <2> QED BY <1>1, <1>4, <2>1, PlacedSub DEF q
<1>7. q + Len(k) + Len(v) <= Len(b) /\ Len(b) \in Nat
  BY <1>4 DEF Placed
<1>8. q + Len(k) + Len(v) = p + PairSize(x, k) /\ ~ (Len(b) < q) /\ ~ (p >= z)
  BY <1>1, <1>7 DEF PairSize
<1> DEFINE s == [at |-> p, err |-> "nil", x |-> m]
           end == q + Len(k) + Len(v)
<1>9. NextPair(b, z, s) =
        IF s.err # "nil" \/ s.at >= z THEN s
        ELSE IF Len(b) < q \/ Len(b) < end THEN [s EXCEPT !.err = "small"]
        ELSE [at |-> end, err |-> "nil",
              x |-> Stored(m, SubSeq(b, q + 1, q + Len(k)), SubSeq(b, q + Len(k) + 1, end))]
  <2> HIDE DEF v
  <2> QED BY <1>5 DEF NextPair
<1>10. s.err = "nil" /\ s.at = p
  OBVIOUS
<1> HIDE DEF d, e, q, v, s
<1>11. ~ (Len(b) < end)
  BY <1>7, <1>8, <1>1 DEF q
<1> HIDE DEF end
<1>12. NextPair(b, z, s) =
         [at |-> end, err |-> "nil",
          x |-> Stored(m, SubSeq(b, q + 1, q + Len(k)), SubSeq(b, q + Len(k) + 1, end))]
  BY <1>8, <1>9, <1>10, <1>11
<1>13. NextPair(b, z, s) = [at |-> p + PairSize(x, k), err |-> "nil", x |-> Stored(m, k, v)]
  BY <1>6, <1>8, <1>12, Zenon DEF end
<1> QED BY <1>13 DEF s, v

(* The attributes with the first i keys *)
First(x, keys, i) == [k \in {keys[j] : j \in 1 .. i} |-> x[k]]

LEMMA FirstKeys ==
  ASSUME NEW x, Attributes(x), NEW keys \in SetToSeqs(DOMAIN x)
  PROVE  /\ First(x, keys, 0) = << >> /\ First(x, keys, Len(keys)) = x
         /\ \A i \in Nat : i + 1 <= Len(keys) =>
              First(x, keys, i + 1) = Stored(First(x, keys, i), keys[i + 1], x[keys[i + 1]])
<1>1. First(x, keys, 0) = << >>
  <2>1. {keys[j] : j \in 1 .. 0} = {}
    <3>1. 1 .. 0 = {}
      OBVIOUS
    <3> QED BY <3>1
  <2>2. DOMAIN First(x, keys, 0) = {}
    BY <2>1 DEF First
  <2>3. << >> = [k \in {} |-> x[k]]
    OBVIOUS
  <2> QED BY <2>1, <2>3 DEF First
<1>2. First(x, keys, Len(keys)) = x
  <2>1. {keys[j] : j \in 1 .. Len(keys)} = DOMAIN x
    <3>1. \A j \in 1 .. Len(keys) : keys[j] \in DOMAIN x
      BY KeysOf DEF Attributes
    <3>2. \A k \in DOMAIN x : \E j \in 1 .. Len(keys) : keys[j] = k
      BY XattrLayout
    <3> QED BY <3>1, <3>2
  <2>2. x = [k \in DOMAIN x |-> x[k]]
    BY DEF Attributes
  <2> QED BY <2>1, <2>2 DEF First
<1>3. ASSUME NEW i \in Nat, i + 1 <= Len(keys)
      PROVE  First(x, keys, i + 1) = Stored(First(x, keys, i), keys[i + 1], x[keys[i + 1]])
  <2> DEFINE key == keys[i + 1]
             A == {keys[j] : j \in 1 .. i}
             B == {keys[j] : j \in 1 .. i + 1}
  <2>1. 1 .. i + 1 = (1 .. i) \cup {i + 1}
    OBVIOUS
  <2>2. B = A \cup {key}
    BY <2>1
  <2> DEFINE g == [c \in A |-> x[c]]
  <2>3. DOMAIN g = A
    OBVIOUS
  <2>4. ASSUME NEW c \in B PROVE (IF c = key THEN x[key] ELSE g[c]) = x[c]
    <3> HIDE DEF key, A, B
    <3> QED BY <2>2
  <2>5. Stored(g, key, x[key]) = [c \in B |-> x[c]]
    <3> HIDE DEF key, A, B, g
    <3> QED BY <2>2, <2>3, <2>4 DEF Stored
  <2> QED BY <2>5 DEF First
<1> QED BY <1>1, <1>2, <1>3

(* Xattr.Unmarshal reads back the attributes, in whatever order they stand. *)
LEMMA XattrRoundTrip ==
  ASSUME NEW x, Attributes(x), NEW keys \in SetToSeqs(DOMAIN x), Fits(XattrSize(x), W32),
         NEW b \in Seq(Byte), Placed(b, 0, EncXattr(x, keys))
  PROVE  DecXattr(b, << >>).err = "nil" /\ DecXattr(b, << >>).x = x
<1> DEFINE n == Len(keys)
<1>1. PICK off : Offsets(off, Pairs(x, keys)) /\ XattrSize(x) = W32 + off[n]
  BY XattrLayout
<1> DEFINE z == NumberAt(b, 0, W32)
           body == Drop(b, W32)
<1>20. /\ n \in Nat /\ off[n] \in Nat /\ W32 \in Nat
       /\ \A i \in 1 .. n : /\ off[i - 1] \in Nat /\ off[i] \in Nat /\ off[i] <= off[n]
                            /\ off[i] = off[i - 1] + PairSize(x, keys[i])
       /\ Placed(b, 0, Digits(off[n], W32)) /\ W32 + off[n] <= Len(b)
       /\ \A i \in 1 .. n : Placed(body, off[i - 1], PairBytes(x, keys[i]))
  BY <1>1, XattrBytes, Widths
<1>6. \A m \in Nat : m <= W32 + off[n] => Fits(m, W32)
  BY <1>1, <1>20, FitsLess
<1>7. z = off[n]
  BY <1>20, <1>6, NumberOfDigits
<1> HIDE DEF body, z
<1>2. /\ n \in Nat /\ z \in Nat /\ W32 \in Nat
      /\ \A i \in 1 .. n : /\ off[i - 1] \in Nat /\ off[i] \in Nat /\ off[i] <= z
                           /\ off[i] = off[i - 1] + PairSize(x, keys[i])
      /\ W32 + z <= Len(b)
      /\ \A i \in 1 .. n : Placed(body, off[i - 1], PairBytes(x, keys[i]))
  BY <1>20, <1>7
<1>3. off[0] = 0
  BY <1>1 DEF Offsets
<1>4. \A i \in 1 .. n : keys[i] \in DOMAIN x
  BY KeysOf DEF Attributes
<1>5. Len(body) = Len(b) - W32 /\ body \in Seq(Byte) /\ Len(b) \in Nat
  BY <1>2, DropType DEF body
<1> DEFINE St(i) == [at |-> off[i], err |-> "nil", x |-> First(x, keys, i)]
<1>8. ASSUME NEW i \in Nat, i + 1 <= n PROVE NextPair(body, z, St(i)) = St(i + 1)
  <2>1. i + 1 \in 1 .. n /\ (i + 1) - 1 = i
    BY <1>2, <1>8
  <2>2. /\ off[i] \in Nat /\ off[i + 1] <= z
        /\ off[i + 1] = off[i] + PairSize(x, keys[i + 1])
        /\ Placed(body, off[i], PairBytes(x, keys[i + 1])) /\ keys[i + 1] \in DOMAIN x
    BY <1>2, <1>4, <2>1
  <2>3. /\ PairSize(x, keys[i + 1]) \in Nat /\ PairSize(x, keys[i + 1]) > 0
        /\ Len(keys[i + 1]) \in Nat /\ Len(x[keys[i + 1]]) \in Nat
    BY <2>2, PairType
  <2>4. /\ off[i] < z
        /\ Len(keys[i + 1]) <= W32 + z /\ Len(x[keys[i + 1]]) <= W32 + z
    <3> DEFINE k == Len(keys[i + 1])
               v == Len(x[keys[i + 1]])
    <3>1. k \in Nat /\ v \in Nat /\ PairSize(x, keys[i + 1]) = W32 + W32 + k + v
      BY <2>3 DEF PairSize
    <3> HIDE DEF k, v
    <3>2. \A p, r, s \in Nat : p + s <= r /\ s > 0 /\ s = W32 + W32 + k + v =>
             p < r /\ k <= W32 + r /\ v <= W32 + r
      BY <3>1, Widths
    <3>3. off[i] + PairSize(x, keys[i + 1]) <= z /\ z \in Nat
      BY <1>2, <2>2
    <3>4. off[i] < z /\ k <= W32 + z /\ v <= W32 + z
      BY <2>2, <2>3, <3>1, <3>2, <3>3
    <3> QED BY <3>4 DEF k, v
  <2>5. Fits(Len(keys[i + 1]), W32) /\ Fits(Len(x[keys[i + 1]]), W32)
    BY <1>6, <1>7, <2>3, <2>4
  <2> DEFINE m == First(x, keys, i)
             k == keys[i + 1]
  <2>6. NextPair(body, z, [at |-> off[i], err |-> "nil", x |-> m]) =
          [at |-> off[i] + PairSize(x, k), err |-> "nil", x |-> Stored(m, k, x[k])]
    <3> HIDE DEF m
    <3> QED BY <1>2, <1>5, <2>2, <2>4, <2>5, PairRoundTrip
  <2>7. First(x, keys, i + 1) = Stored(m, k, x[k])
    BY <1>8, FirstKeys
  <2> HIDE DEF m, k
  <2> QED BY <2>2, <2>6, <2>7 DEF m, k
<1>9. NextPair(body, z, St(n)) = St(n)
  <2>1. St(n).at >= z
    BY <1>2, <1>7
  <2> HIDE DEF St
  <2> QED BY <2>1 DEF NextPair
<1>10. \A i \in Nat : i <= n => i <= off[i] /\ off[i] \in Nat
  <2> DEFINE T == {i \in Nat : i <= n => i <= off[i] /\ off[i] \in Nat}
  <2>1. 0 \in T
    BY <1>3
  <2>2. ASSUME NEW i \in T PROVE i + 1 \in T
    <3>1. CASE i + 1 <= n
      <4>1. i + 1 \in 1 .. n /\ (i + 1) - 1 = i
        BY <1>2, <3>1
      <4>2. off[i + 1] = off[i] + PairSize(x, keys[i + 1]) /\ off[i + 1] \in Nat /\ off[i] \in Nat
        BY <1>2, <4>1
      <4>3. PairSize(x, keys[i + 1]) \in Nat /\ PairSize(x, keys[i + 1]) > 0
        BY <1>4, <4>1, PairType
      <4> QED BY <1>2, <3>1, <4>2, <4>3
    <3> QED BY <3>1
  <2> HIDE DEF T
  <2>3. T = Nat
    BY <2>1, <2>2, Induction DEF T
  <2> QED BY <2>3 DEF T
<1>11. n <= z
  BY <1>2, <1>7, <1>10
<1> DEFINE e == [at |-> 0, err |-> "nil", x |-> << >>]
           Is(f) == f = [i \in Nat |-> IF i = 0 THEN e ELSE NextPair(body, z, f[i - 1])]
           loop == CHOOSE f : Is(f)
           h == [i \in Nat |-> IF i <= n THEN St(i) ELSE St(n)]
<1>12. St(0) = e
  BY <1>3, FirstKeys
<1> HIDE DEF St, e
<1>13. Is(h)
  <2>1. ASSUME NEW i \in Nat, i # 0 PROVE h[i] = NextPair(body, z, h[i - 1])
    <3>1. i - 1 \in Nat /\ (i - 1) + 1 = i
      BY <2>1
    <3>2. CASE i <= n
      <4>1. h[i] = St(i) /\ h[i - 1] = St(i - 1)
        BY <1>2, <3>1, <3>2
      <4> HIDE DEF h
      <4> QED BY <1>8, <3>1, <3>2, <4>1
    <3>3. CASE ~ (i <= n)
      <4>1. h[i] = St(n) /\ h[i - 1] = St(n)
        <5>1. ~ (i - 1 <= n) \/ i - 1 = n
          BY <1>2, <3>3
        <5> QED BY <1>2, <3>1, <3>3, <5>1
      <4> HIDE DEF h
      <4> QED BY <1>9, <4>1
    <3> QED BY <3>2, <3>3
  <2>2. h[0] = e
    BY <1>2, <1>12
  <2>3. h = [i \in Nat |-> h[i]]
    OBVIOUS
  <2> HIDE DEF h
  <2> QED BY <2>1, <2>2, <2>3
<1> HIDE DEF h
<1>14. Is(loop)
  <2> HIDE DEF Is
  <2> QED BY <1>13
<1>15. DecXattr(b, << >>) = loop[z]
  <2>1. DecXattr(b, << >>) = IF Len(b) < W32 \/ Len(body) < z THEN Failed("small") ELSE loop[z]
    BY Zenon DEF DecXattr, body, e, z
  <2>2. ~ (Len(b) < W32) /\ ~ (Len(body) < z)
    BY <1>2, <1>5
  <2> HIDE DEF loop
  <2> QED BY <2>1, <2>2
<1> HIDE DEF loop
<1>16. \A i \in Nat : loop[i] = IF i <= n THEN St(i) ELSE St(n)
  <2> DEFINE T == {i \in Nat : loop[i] = IF i <= n THEN St(i) ELSE St(n)}
  <2>1. \A i \in Nat : loop[i] = IF i = 0 THEN e ELSE NextPair(body, z, loop[i - 1])
    BY <1>14
  <2>2. 0 \in T
    BY <1>2, <1>12, <2>1
  <2>3. ASSUME NEW i \in T PROVE i + 1 \in T
    <3>1. i + 1 \in Nat /\ i + 1 # 0 /\ (i + 1) - 1 = i
      OBVIOUS
    <3>2. loop[i + 1] = NextPair(body, z, loop[i])
      BY <2>1, <3>1
    <3>3. CASE i + 1 <= n
      <4>1. i <= n /\ loop[i] = St(i)
        BY <1>2, <3>3
      <4> QED BY <1>8, <3>2, <3>3, <4>1
    <3>4. CASE ~ (i + 1 <= n)
      <4>1. loop[i] = St(n)
        <5>1. ~ (i <= n) \/ i = n
          BY <1>2, <3>4
        <5> QED BY <5>1
      <4> QED BY <1>9, <3>2, <3>4, <4>1
    <3> QED BY <3>3, <3>4
  <2> HIDE DEF T
  <2>4. T = Nat
    BY <2>2, <2>3, Induction DEF T
  <2> QED BY <2>4 DEF T
<1>17. loop[z] = St(n)
  <2>1. z = n \/ ~ (z <= n)
    BY <1>2, <1>11
  <2> QED BY <1>2, <1>16, <2>1
<1>18. DecXattr(b, << >>) = [at |-> off[n], err |-> "nil", x |-> First(x, keys, n)]
  BY <1>15, <1>17 DEF St
<1> QED BY <1>18, FirstKeys
-----------------------------------------------------------------------------
(* The whole encoding *)

(* A group of numbers of the same width *)
LEMMA Group ==
  ASSUME NEW m \in Nat, NEW w \in Nat, NEW n \in [1 .. m -> Nat]
  PROVE  LET F == FlattenSeq([i \in 1 .. m |-> Digits(n[i], w)]) IN
         /\ F \in Seq(Byte) /\ Len(F) = m * w
         /\ \A i \in 1 .. m : (i - 1) * w \in Nat /\ Placed(F, (i - 1) * w, Digits(n[i], w))
<1> DEFINE P == [i \in 1 .. m |-> Digits(n[i], w)]
           off == [i \in 0 .. m |-> i * w]
<1>1. P \in Seq(Seq(Byte)) /\ Len(P) = m /\ \A i \in 1 .. m : Len(P[i]) = w
  <2>1. \A i \in 1 .. m : Digits(n[i], w) \in Seq(Byte) /\ Len(Digits(n[i], w)) = w
    BY DigitsType
  <2>2. P \in [1 .. m -> Seq(Byte)]
    BY <2>1
  <2> QED BY <2>1, <2>2
<1>2. \A i \in Nat : i * w \in Nat
  OBVIOUS
<1>3. Offsets(off, P)
  <2>1. \A i \in 0 .. m : off[i] \in Nat
    BY <1>2
  <2>2. off[0] = 0
    OBVIOUS
  <2>3. ASSUME NEW i \in 1 .. m PROVE off[i] = off[i - 1] + w
    <3>1. i - 1 \in 0 .. m /\ i \in 0 .. m /\ i * w = (i - 1) * w + w
      OBVIOUS
    <3> QED BY <3>1
  <2> HIDE DEF P, off
  <2> QED BY <1>1, <2>1, <2>2, <2>3 DEF Offsets
<1>4. off[m] = m * w /\ \A i \in 1 .. m : off[i - 1] = (i - 1) * w /\ (i - 1) * w \in Nat
  <2>1. \A i \in 1 .. m : i - 1 \in 0 .. m /\ i - 1 \in Nat
    OBVIOUS
  <2> QED BY <1>2, <2>1
<1>5. /\ FlattenSeq(P) \in Seq(Byte) /\ Len(FlattenSeq(P)) = off[m]
      /\ \A i \in 1 .. m : Placed(FlattenSeq(P), off[i - 1], P[i])
  <2> HIDE DEF P, off
  <2> QED BY <1>1, <1>3, Flatten
<1>6. \A i \in 1 .. m : P[i] = Digits(n[i], w)
  OBVIOUS
<1> DEFINE F == FlattenSeq(P)
<1>7. F \in Seq(Byte) /\ Len(F) = m * w
  BY <1>4, <1>5
<1>8. \A i \in 1 .. m : (i - 1) * w \in Nat /\ Placed(F, (i - 1) * w, Digits(n[i], w))
  <2> HIDE DEF P, off
  <2> QED BY <1>4, <1>5, <1>6 DEF F
<1> HIDE DEF P
<1> QED BY <1>7, <1>8 DEF P

(* Where the parts of a concatenation stand *)
LEMMA PlacedParts ==
  ASSUME NEW b \in Seq(Byte), NEW S \in [1 .. 7 -> Seq(Byte)],
         NEW s, s = S[1] \o S[2] \o S[3] \o S[4] \o S[5] \o S[6] \o S[7]
  PROVE  LET p2 == Len(S[1])
             p3 == p2 + Len(S[2])
             p4 == p3 + Len(S[3])
             p5 == p4 + Len(S[4])
             p6 == p5 + Len(S[5])
             p7 == p6 + Len(S[6])
         IN /\ s \in Seq(Byte) /\ Len(s) = p7 + Len(S[7])
            /\ Placed(b, 0, s) =>
                 /\ Placed(b, 0, S[1]) /\ Placed(b, p2, S[2]) /\ Placed(b, p3, S[3])
                 /\ Placed(b, p4, S[4]) /\ Placed(b, p5, S[5]) /\ Placed(b, p6, S[6])
                 /\ Placed(b, p7, S[7])
<1> DEFINE s1 == S[1]
           s2 == S[2]
           s3 == S[3]
           s4 == S[4]
           s5 == S[5]
           s6 == S[6]
           s7 == S[7]
<1>0. /\ s1 \in Seq(Byte) /\ s2 \in Seq(Byte) /\ s3 \in Seq(Byte) /\ s4 \in Seq(Byte)
      /\ s5 \in Seq(Byte) /\ s6 \in Seq(Byte) /\ s7 \in Seq(Byte)
  OBVIOUS
<1>12. s = s1 \o s2 \o s3 \o s4 \o s5 \o s6 \o s7
  OBVIOUS
<1> HIDE DEF s1, s2, s3, s4, s5, s6, s7
<1> DEFINE t2 == s1 \o s2
           t3 == t2 \o s3
           t4 == t3 \o s4
           t5 == t4 \o s5
           t6 == t5 \o s6
           t7 == t6 \o s7
<1>1. t2 \in Seq(Byte) /\ Len(t2) = Len(s1) + Len(s2)
  BY <1>0, Concat
<1> HIDE DEF t2
<1>2. t3 \in Seq(Byte) /\ Len(t3) = Len(t2) + Len(s3)
  BY <1>0, <1>1, Concat
<1> HIDE DEF t3
<1>3. t4 \in Seq(Byte) /\ Len(t4) = Len(t3) + Len(s4)
  BY <1>0, <1>2, Concat
<1> HIDE DEF t4
<1>4. t5 \in Seq(Byte) /\ Len(t5) = Len(t4) + Len(s5)
  BY <1>0, <1>3, Concat
<1> HIDE DEF t5
<1>5. t6 \in Seq(Byte) /\ Len(t6) = Len(t5) + Len(s6)
  BY <1>0, <1>4, Concat
<1> HIDE DEF t6
<1>6. t7 \in Seq(Byte) /\ Len(t7) = Len(t6) + Len(s7)
  BY <1>0, <1>5, Concat
<1> HIDE DEF t7
<1>7. \A t \in Seq(Byte) : Len(t) \in Nat /\ 0 + Len(t) = Len(t)
  OBVIOUS
<1>8. \A t \in Seq(Byte), u \in Seq(Byte) :
        Placed(b, 0, t \o u) => Placed(b, 0, t) /\ Placed(b, Len(t), u)
  <2> TAKE t \in Seq(Byte), u \in Seq(Byte)
  <2> HAVE Placed(b, 0, t \o u)
  <2>1. Placed(b, 0, t) /\ Placed(b, 0 + Len(t), u)
    BY PlacedConcat
  <2> QED BY <1>7, <2>1
<1>9. ASSUME Placed(b, 0, t7)
      PROVE  /\ Placed(b, 0, s1) /\ Placed(b, Len(s1), s2) /\ Placed(b, Len(t2), s3)
             /\ Placed(b, Len(t3), s4) /\ Placed(b, Len(t4), s5) /\ Placed(b, Len(t5), s6)
             /\ Placed(b, Len(t6), s7)
  <2>1. Placed(b, 0, t6) /\ Placed(b, Len(t6), s7)
    BY <1>0, <1>5, <1>8, <1>9 DEF t7
  <2>2. Placed(b, 0, t5) /\ Placed(b, Len(t5), s6)
    BY <1>0, <1>4, <1>8, <2>1 DEF t6
  <2>3. Placed(b, 0, t4) /\ Placed(b, Len(t4), s5)
    BY <1>0, <1>3, <1>8, <2>2 DEF t5
  <2>4. Placed(b, 0, t3) /\ Placed(b, Len(t3), s4)
    BY <1>0, <1>2, <1>8, <2>3 DEF t4
  <2>5. Placed(b, 0, t2) /\ Placed(b, Len(t2), s3)
    BY <1>0, <1>1, <1>8, <2>4 DEF t3
  <2>6. Placed(b, 0, s1) /\ Placed(b, Len(s1), s2)
    BY <1>0, <1>8, <2>5 DEF t2
  <2> QED BY <2>1, <2>2, <2>3, <2>4, <2>5, <2>6
<1>10. t7 = s
  BY <1>12 DEF t2, t3, t4, t5, t6, t7
<1>11. /\ Len(t2) = Len(s1) + Len(s2) /\ Len(t3) = Len(s1) + Len(s2) + Len(s3)
       /\ Len(t4) = Len(s1) + Len(s2) + Len(s3) + Len(s4)
       /\ Len(t5) = Len(s1) + Len(s2) + Len(s3) + Len(s4) + Len(s5)
       /\ Len(t6) = Len(s1) + Len(s2) + Len(s3) + Len(s4) + Len(s5) + Len(s6)
       /\ Len(t7) = Len(s1) + Len(s2) + Len(s3) + Len(s4) + Len(s5) + Len(s6) + Len(s7)
  BY <1>1, <1>2, <1>3, <1>4, <1>5, <1>6, Zenon
<1> QED BY <1>6, <1>9, <1>10, <1>11, Zenon DEF s1, s2, s3, s4, s5, s6, s7

LEMMA InfoFields ==
  ASSUME NEW ii \in Infos, NEW junk \in BOOLEAN
  PROVE  /\ ii.u64 \in [1 .. 4 -> Nat] /\ ii.u32 \in [1 .. 4 -> Nat]
         /\ ii.time \in [1 .. 3 -> [s : Nat, ns : 0 .. Second - 1]]
         /\ ii.path \in Seq(Byte) /\ Attributes(ii.xattr)
         /\ ii = [u64 |-> ii.u64, u32 |-> ii.u32, time |-> ii.time, path |-> ii.path,
                  xattr |-> ii.xattr]
         /\ PathFor(ii, junk) \in Seq(Byte) /\ Len(PathFor(ii, junk)) \in Nat
         /\ \A i \in 1 .. 4 : Fits(ii.u64[i], W64) /\ Fits(ii.u32[i], W32)
         /\ \A i \in 1 .. 3 : Fits(ii.time[i].s * Second + ii.time[i].ns, W64)
         /\ Fits(MarshalSize(ii, junk), W32)
<1>1. Marshalable(ii)
  BY InfoType
<1>2. ii \in [u64 : [1 .. 4 -> Nat], u32 : [1 .. 4 -> Nat],
              time : [1 .. 3 -> [s : Nat, ns : 0 .. Second - 1]],
              path : Seq(Byte), xattr : [DOMAIN ii.xattr -> Seq(Byte)]]
  BY <1>1 DEF Marshalable
<1>3. PathFor(ii, junk) \in Seq(Byte)
  BY PathForType
<1>4. Attributes(ii.xattr)
  BY <1>1, <1>2 DEF Marshalable, Attributes
<1>5. /\ \A i \in 1 .. 4 : Fits(ii.u64[i], W64) /\ Fits(ii.u32[i], W32)
      /\ \A i \in 1 .. 3 : Fits(ii.time[i].s * Second + ii.time[i].ns, W64)
      /\ Fits(MarshalSize(ii, junk), W32)
  BY <1>1 DEF Marshalable
<1>6. Len(PathFor(ii, junk)) \in Nat
  BY <1>3
<1> QED BY <1>2, <1>3, <1>4, <1>5, <1>6

(* The size, and what fits because the size does *)
LEMMA Sizes ==
  ASSUME NEW ii \in Infos, NEW junk \in BOOLEAN, NEW keys \in SetToSeqs(DOMAIN ii.xattr)
  PROVE  /\ MarshalSize(ii, junk) \in Nat /\ Length(MarshalSize(ii, junk)) \in Nat
         /\ XattrSize(ii.xattr) \in Nat
         /\ Length(MarshalSize(ii, junk)) =
              1 + FixedSize + Len(PathFor(ii, junk)) + W32 + XattrSize(ii.xattr)
         /\ FixedSize = 1 + (4 * W64 + 4 * W32 + 3 * W64) /\ FixedSize \in Nat
         /\ Fits(Length(MarshalSize(ii, junk)), W32)
         /\ Fits(Len(PathFor(ii, junk)), W32) /\ Fits(XattrSize(ii.xattr), W32)
<1> DEFINE size == MarshalSize(ii, junk)
           len == Len(PathFor(ii, junk))
           x == XattrSize(ii.xattr)
<1>1. len \in Nat /\ Attributes(ii.xattr) /\ Fits(size, W32)
  BY InfoFields
<1>2. x \in Nat
  <2>1. PICK off : Offsets(off, Pairs(ii.xattr, keys)) /\ x = W32 + off[Len(keys)]
    BY <1>1, XattrLayout
  <2>2. off[Len(keys)] \in Nat
    BY <1>1, <2>1, XattrBytes
  <2> QED BY <2>1, <2>2, Widths
<1>3. FixedSize = 1 + (4 * W64 + 4 * W32 + 3 * W64) /\ FixedSize \in Nat
  BY Widths DEF FixedSize
<1>4. size = 1 + FixedSize + len + W32 + x + W32
  BY DEF MarshalSize
<1> HIDE DEF x, len, size
<1>5. size \in Nat /\ Length(size) = 1 + FixedSize + len + W32 + x /\ Length(size) \in Nat
  BY <1>1, <1>2, <1>3, <1>4, Widths DEF Length
<1>6. Length(size) <= size /\ len <= size /\ x <= size
  BY <1>1, <1>2, <1>3, <1>4, <1>5, Widths
<1>7. Fits(Length(size), W32) /\ Fits(len, W32) /\ Fits(x, W32)
  BY <1>1, <1>2, <1>5, <1>6, FitsLess, Widths
<1> QED BY <1>2, <1>3, <1>5, <1>7 DEF x, len, size

(* Where the fields of the encoding stand: c is what follows the version. *)
Times == 4 * W64 + 4 * W32

Layout(c, ii, junk, keys) ==
  LET path == Times + 3 * W64 IN
  /\ \A i \in 1 .. 4 : /\ (i - 1) * W64 \in Nat /\ Placed(c, (i - 1) * W64, Digits(ii.u64[i], W64))
                       /\ 4 * W64 + (i - 1) * W32 \in Nat
                       /\ Placed(c, 4 * W64 + (i - 1) * W32, Digits(ii.u32[i], W32))
  /\ \A i \in 1 .. 3 : /\ Times + (i - 1) * W64 \in Nat
                       /\ Placed(c, Times + (i - 1) * W64, EncTime(ii.time[i]))
  /\ Placed(c, path, Digits(Len(PathFor(ii, junk)), W32))
  /\ Placed(c, path + W32, PathFor(ii, junk))
  /\ Placed(c, path + W32 + Len(PathFor(ii, junk)), EncXattr(ii.xattr, keys))

LEMMA EncodedLayout ==
  ASSUME NEW ii \in Infos, NEW junk \in BOOLEAN, NEW keys \in SetToSeqs(DOMAIN ii.xattr)
  PROVE  /\ Encoded(ii, junk, keys) \in Seq(Byte)
         /\ Len(Encoded(ii, junk, keys)) = MarshalSize(ii, junk) - 1
         /\ \A b \in Seq(Byte) : Placed(b, 0, Encoded(ii, junk, keys)) =>
              /\ Placed(b, 0, Digits(Length(MarshalSize(ii, junk)), W32))
              /\ W32 + 1 <= Len(b) /\ b[W32 + 1] = 1
              /\ Layout(Drop(Drop(b, W32), 1), ii, junk, keys)
<1> DEFINE len == Length(MarshalSize(ii, junk))
           path == PathFor(ii, junk)
           x == ii.xattr
           s1 == Digits(len, W32)
           s2 == <<1>>
           s3 == FlattenSeq([i \in 1 .. 4 |-> Digits(ii.u64[i], W64)])
           s4 == FlattenSeq([i \in 1 .. 4 |-> Digits(ii.u32[i], W32)])
           s5 == FlattenSeq([i \in 1 .. 3 |-> EncTime(ii.time[i])])
           d == Digits(Len(path), W32)
           s6 == d \o path
           s7 == EncXattr(x, keys)
<1>1. /\ path \in Seq(Byte) /\ Len(path) \in Nat /\ Attributes(x) /\ len \in Nat
      /\ XattrSize(x) \in Nat /\ len = 1 + FixedSize + Len(path) + W32 + XattrSize(x)
      /\ FixedSize = 1 + (4 * W64 + 4 * W32 + 3 * W64)
  BY InfoFields, Sizes
<1>2. Encoded(ii, junk, keys) = s1 \o s2 \o s3 \o s4 \o s5 \o s6 \o s7
  BY DEF Encoded, EncStr
<1>3. s1 \in Seq(Byte) /\ Len(s1) = W32
  BY <1>1, DigitsType, Widths
<1>4. s2 \in Seq(Byte) /\ Len(s2) = 1 /\ s2[1] = 1
  BY Widths DEF Byte
<1>5. /\ s3 \in Seq(Byte) /\ Len(s3) = 4 * W64
      /\ \A i \in 1 .. 4 : (i - 1) * W64 \in Nat /\ Placed(s3, (i - 1) * W64, Digits(ii.u64[i], W64))
  BY InfoFields, Group, Widths
<1>6. /\ s4 \in Seq(Byte) /\ Len(s4) = 4 * W32
      /\ \A i \in 1 .. 4 : (i - 1) * W32 \in Nat /\ Placed(s4, (i - 1) * W32, Digits(ii.u32[i], W32))
  BY InfoFields, Group, Widths
<1> DEFINE t == [i \in 1 .. 3 |-> ii.time[i].s * Second + ii.time[i].ns]
<1>7. t \in [1 .. 3 -> Nat]
  <2>1. \A i \in 1 .. 3 : ii.time[i].s \in Nat /\ ii.time[i].ns \in Nat
    <3>1. ii.time \in [1 .. 3 -> [s : Nat, ns : 0 .. Second - 1]]
      BY InfoFields
    <3>2. \A i \in 1 .. 3 : ii.time[i] \in [s : Nat, ns : 0 .. Second - 1]
      BY <3>1
    <3>3. \A r \in [s : Nat, ns : 0 .. Second - 1] : r.s \in Nat /\ r.ns \in Nat
      BY Widths
    <3> QED BY <3>2, <3>3
  <2>2. \A a, c \in Nat : a * Second + c \in Nat
    BY Widths
  <2> QED BY <2>1, <2>2
<1>8. \A i \in 1 .. 3 : EncTime(ii.time[i]) = Digits(t[i], W64)
  BY DEF EncTime
<1>9. /\ s5 \in Seq(Byte) /\ Len(s5) = 3 * W64
      /\ \A i \in 1 .. 3 : (i - 1) * W64 \in Nat /\ Placed(s5, (i - 1) * W64, EncTime(ii.time[i]))
  <2> HIDE DEF t
  <2>1. s5 = FlattenSeq([i \in 1 .. 3 |-> Digits(t[i], W64)])
    BY <1>8
  <2>2. LET F == FlattenSeq([i \in 1 .. 3 |-> Digits(t[i], W64)]) IN
        /\ F \in Seq(Byte) /\ Len(F) = 3 * W64
        /\ \A i \in 1 .. 3 : (i - 1) * W64 \in Nat /\ Placed(F, (i - 1) * W64, Digits(t[i], W64))
    BY <1>7, Group, Widths
  <2> HIDE DEF s5
  <2> QED BY <1>8, <2>1, <2>2
<1>10. d \in Seq(Byte) /\ Len(d) = W32 /\ s6 \in Seq(Byte) /\ Len(s6) = W32 + Len(path)
  <2>1. d \in Seq(Byte) /\ Len(d) = W32
    BY <1>1, DigitsType, Widths
  <2> HIDE DEF d, path
  <2> QED BY <1>1, <2>1, Concat
<1>11. s7 \in Seq(Byte) /\ Len(s7) = XattrSize(x)
  BY <1>1, XattrLayout, XattrBytes
<1> DEFINE s == s1 \o s2 \o s3 \o s4 \o s5 \o s6 \o s7
<1> HIDE DEF s1, s2, s3, s4, s5, d, path, x, s7, len
<1>12. \A b \in Seq(Byte) :
         /\ s \in Seq(Byte)
         /\ Len(s) = Len(s1) + Len(s2) + Len(s3) + Len(s4) + Len(s5) + Len(s6) + Len(s7)
         /\ Placed(b, 0, s) =>
              /\ Placed(b, 0, s1) /\ Placed(b, Len(s1), s2) /\ Placed(b, Len(s1) + Len(s2), s3)
              /\ Placed(b, Len(s1) + Len(s2) + Len(s3), s4)
              /\ Placed(b, Len(s1) + Len(s2) + Len(s3) + Len(s4), s5)
              /\ Placed(b, Len(s1) + Len(s2) + Len(s3) + Len(s4) + Len(s5), s6)
              /\ Placed(b, Len(s1) + Len(s2) + Len(s3) + Len(s4) + Len(s5) + Len(s6), s7)
  <2> HIDE DEF s6
  <2>1. /\ s1 \in Seq(Byte) /\ s2 \in Seq(Byte) /\ s3 \in Seq(Byte) /\ s4 \in Seq(Byte)
        /\ s5 \in Seq(Byte) /\ s6 \in Seq(Byte) /\ s7 \in Seq(Byte)
    BY <1>3, <1>4, <1>5, <1>6, <1>9, <1>10, <1>11
  <2> DEFINE S == <<s1, s2, s3, s4, s5, s6, s7>>
  <2> HIDE DEF s2
  <2>2. /\ S \in [1 .. 7 -> Seq(Byte)] /\ S[1] = s1 /\ S[2] = s2 /\ S[3] = s3 /\ S[4] = s4
        /\ S[5] = s5 /\ S[6] = s6 /\ S[7] = s7
    BY <2>1
  <2> HIDE DEF S
  <2>3. s = S[1] \o S[2] \o S[3] \o S[4] \o S[5] \o S[6] \o S[7]
    BY <2>2, Zenon
  <2> HIDE DEF s
  <2> TAKE b \in Seq(Byte)
  <2>4. LET p2 == Len(S[1])
            p3 == p2 + Len(S[2])
            p4 == p3 + Len(S[3])
            p5 == p4 + Len(S[4])
            p6 == p5 + Len(S[5])
            p7 == p6 + Len(S[6])
        IN /\ s \in Seq(Byte) /\ Len(s) = p7 + Len(S[7])
           /\ Placed(b, 0, s) =>
                /\ Placed(b, 0, S[1]) /\ Placed(b, p2, S[2]) /\ Placed(b, p3, S[3])
                /\ Placed(b, p4, S[4]) /\ Placed(b, p5, S[5]) /\ Placed(b, p6, S[6])
                /\ Placed(b, p7, S[7])
    BY <2>2, <2>3, PlacedParts
  <2> QED BY <2>2, <2>4
<1> HIDE DEF s6
<1>13. s \in Seq(Byte) /\ Len(s) = MarshalSize(ii, junk) - 1
  <2>1. s \in Seq(Byte) /\ Len(s) = Len(s1) + Len(s2) + Len(s3) + Len(s4) + Len(s5) + Len(s6) + Len(s7)
    BY <1>3, <1>12
  <2>2. MarshalSize(ii, junk) = len + W32 /\ MarshalSize(ii, junk) \in Nat
    BY Sizes, Widths DEF Length, len
  <2>3. Len(s) = W32 + 1 + 4 * W64 + 4 * W32 + 3 * W64 + (W32 + Len(path)) + XattrSize(x)
    BY <1>3, <1>4, <1>5, <1>6, <1>9, <1>10, <1>11, <2>1
  <2>4. W32 + 1 + 4 * W64 + 4 * W32 + 3 * W64 + (W32 + Len(path)) + XattrSize(x) =
          ((1 + (1 + (4 * W64 + 4 * W32 + 3 * W64)) + Len(path) + W32 + XattrSize(x)) + W32) - 1
    <3> DEFINE p == Len(path)
               a == XattrSize(x)
    <3>1. p \in Nat /\ a \in Nat
      BY <1>1
    <3> HIDE DEF p, a
    <3>2. W32 + 1 + 4 * W64 + 4 * W32 + 3 * W64 + (W32 + p) + a =
            ((1 + (1 + (4 * W64 + 4 * W32 + 3 * W64)) + p + W32 + a) + W32) - 1
      BY <3>1, Widths
    <3> QED BY <3>2 DEF p, a
  <2>5. MarshalSize(ii, junk) =
          (1 + (1 + (4 * W64 + 4 * W32 + 3 * W64)) + Len(path) + W32 + XattrSize(x)) + W32
    BY <1>1, <2>2
  <2> HIDE DEF s
  <2>6. Len(s) = MarshalSize(ii, junk) - 1
    BY <2>3, <2>4, <2>5, Zenon
  <2> QED BY <2>1, <2>6
<1>14. ASSUME NEW b \in Seq(Byte), Placed(b, 0, s)
       PROVE  /\ Placed(b, 0, s1) /\ W32 + 1 <= Len(b) /\ b[W32 + 1] = 1
              /\ Layout(Drop(Drop(b, W32), 1), ii, junk, keys)
  <2> DEFINE c == Drop(Drop(b, W32), 1)
  <2>1. /\ Placed(b, 0, s1) /\ Placed(b, W32, s2) /\ Placed(b, W32 + 1, s3)
        /\ Placed(b, W32 + 1 + 4 * W64, s4) /\ Placed(b, W32 + 1 + 4 * W64 + 4 * W32, s5)
        /\ Placed(b, W32 + 1 + 4 * W64 + 4 * W32 + 3 * W64, s6)
        /\ Placed(b, W32 + 1 + 4 * W64 + 4 * W32 + 3 * W64 + (W32 + Len(path)), s7)
    BY <1>3, <1>4, <1>5, <1>6, <1>9, <1>10, <1>12, <1>14
  <2>2. W32 + 1 <= Len(b) /\ b[W32 + 1] = 1
    BY <1>4, <2>1 DEF Placed
  <2>3. ASSUME NEW q \in Nat, NEW r \in Seq(Byte), Placed(b, W32 + 1 + q, r) PROVE Placed(c, q, r)
    <3>1. W32 \in 0 .. W32 + 1 + q /\ W32 \in 0 .. Len(b) /\ W32 + 1 + q - W32 = q + 1 /\ W32 + 1 + q \in Nat
      BY <2>2, Widths
    <3>2. Placed(Drop(b, W32), q + 1, r) /\ Drop(b, W32) \in Seq(Byte)
      BY <2>3, <3>1, PlacedDrop, DropType
    <3>3. 1 \in 0 .. q + 1 /\ q + 1 - 1 = q /\ q + 1 \in Nat
      OBVIOUS
    <3> QED BY <3>2, <3>3, PlacedDrop
  <2>4. c \in Seq(Byte)
    <3>1. W32 \in 0 .. Len(b) /\ Len(b) - W32 \in Nat /\ 1 \in 0 .. Len(b) - W32
      BY <2>2, Widths
    <3> QED BY <3>1, DropType
  <2> HIDE DEF c
  <2>5. /\ Placed(c, 0, s3) /\ Placed(c, 4 * W64, s4) /\ Placed(c, Times, s5)
        /\ Placed(c, Times + 3 * W64, s6) /\ Placed(c, Times + 3 * W64 + (W32 + Len(path)), s7)
    <3>1. /\ 4 * W64 \in Nat /\ Times \in Nat /\ Times + 3 * W64 \in Nat
          /\ Times + 3 * W64 + (W32 + Len(path)) \in Nat
          /\ W32 + 1 + 0 = W32 + 1 /\ W32 + 1 + Times = W32 + 1 + 4 * W64 + 4 * W32
          /\ W32 + 1 + (Times + 3 * W64) = W32 + 1 + 4 * W64 + 4 * W32 + 3 * W64
          /\ W32 + 1 + (Times + 3 * W64 + (W32 + Len(path))) =
               W32 + 1 + 4 * W64 + 4 * W32 + 3 * W64 + (W32 + Len(path))
      BY <1>1, Widths DEF Times
    <3> QED BY <1>5, <1>6, <1>9, <1>10, <1>11, <2>1, <2>3, <3>1
  <2>6. ASSUME NEW i \in 1 .. 4
        PROVE  /\ (i - 1) * W64 \in Nat /\ Placed(c, (i - 1) * W64, Digits(ii.u64[i], W64))
               /\ 4 * W64 + (i - 1) * W32 \in Nat
               /\ Placed(c, 4 * W64 + (i - 1) * W32, Digits(ii.u32[i], W32))
    <3>1. Digits(ii.u64[i], W64) \in Seq(Byte) /\ Digits(ii.u32[i], W32) \in Seq(Byte)
      BY InfoFields, DigitsType, Widths
    <3>2. (i - 1) * W64 \in Nat /\ 0 + (i - 1) * W64 = (i - 1) * W64
      BY <1>5
    <3>3. (i - 1) * W32 \in Nat /\ 4 * W64 \in Nat /\ 4 * W64 + (i - 1) * W32 \in Nat
      BY <1>6, Widths
    <3>4. Placed(c, 0 + (i - 1) * W64, Digits(ii.u64[i], W64))
      BY <1>5, <2>4, <2>5, <3>1, <3>2, PlacedWithin
    <3>5. Placed(c, 4 * W64 + (i - 1) * W32, Digits(ii.u32[i], W32))
      BY <1>6, <2>4, <2>5, <3>1, <3>3, PlacedWithin
    <3> QED BY <3>2, <3>3, <3>4, <3>5
  <2>7. ASSUME NEW i \in 1 .. 3
        PROVE  Times + (i - 1) * W64 \in Nat /\ Placed(c, Times + (i - 1) * W64, EncTime(ii.time[i]))
    <3>1. EncTime(ii.time[i]) \in Seq(Byte)
      <4>1. t[i] \in Nat
        BY <1>7
      <4> HIDE DEF t
      <4> QED BY <1>8, <4>1, DigitsType, Widths
    <3>2. (i - 1) * W64 \in Nat /\ Times \in Nat /\ Times + (i - 1) * W64 \in Nat
      BY <1>9, Widths DEF Times
    <3> QED BY <1>9, <2>4, <2>5, <3>1, <3>2, PlacedWithin
  <2>8. Placed(c, Times + 3 * W64, d) /\ Placed(c, Times + 3 * W64 + W32, path)
    <3>1. Times + 3 * W64 \in Nat
      BY Widths DEF Times
    <3> QED BY <1>1, <1>10, <2>4, <2>5, <3>1, PlacedConcat DEF s6
  <2>9. Times + 3 * W64 + (W32 + Len(path)) = Times + 3 * W64 + W32 + Len(path)
    BY <1>1, Widths DEF Times
  <2> QED BY <2>1, <2>2, <2>5, <2>6, <2>7, <2>8, <2>9 DEF Layout, c, d, path, s7, x
<1> QED BY <1>2, <1>13, <1>14 DEF s1, len
-----------------------------------------------------------------------------
(* What is unmarshaled *)

LEMMA TimeRoundTrip ==
  ASSUME NEW t \in [s : Nat, ns : 0 .. Second - 1]
  PROVE  t.s * Second + t.ns \in Nat /\ DecTime(t.s * Second + t.ns) = t
<1> DEFINE v == t.s * Second + t.ns
           q == v \div Second
           m == v % Second
<1>1. t.s \in Nat /\ t.ns \in Nat /\ t.ns < Second /\ Second \in Nat /\ Second > 0
  BY Widths
<1>2. v \in Nat
  <2>1. \A a, c \in Nat : a * Second + c \in Nat
    BY <1>1
  <2> QED BY <1>1, <2>1
<1>3. q \in Nat /\ m \in Nat /\ m < Second /\ q * Second + m = v
  <2> HIDE DEF v
  <2> QED BY <1>1, <1>2
<1>4. \A a, c \in Nat : a < c => a * Second + Second <= c * Second
  <2> TAKE a \in Nat, c \in Nat
  <2> HAVE a < c
  <2>1. PICK d \in Nat : c = a + 1 + d
    <3>1. c - a - 1 \in Nat /\ c = a + 1 + (c - a - 1)
      OBVIOUS
    <3> QED BY <3>1
  <2>2. (a + 1 + d) * Second = a * Second + Second + d * Second /\ d * Second \in Nat
    BY <1>1
  <2>3. a * Second \in Nat
    BY <1>1
  <2> QED BY <1>1, <2>1, <2>2, <2>3
<1>5. \A a, c \in Nat : a * Second \in Nat
  BY <1>1
<1>6. v = t.s * Second + t.ns
  OBVIOUS
<1> HIDE DEF v, q, m
<1>7. q = t.s
  <2>1. q * Second \in Nat /\ t.s * Second \in Nat
    BY <1>1, <1>3, <1>5
  <2>2. ~ (q < t.s)
    <3>1. q < t.s => q * Second + Second <= t.s * Second
      BY <1>1, <1>3, <1>4
    <3> QED BY <1>1, <1>3, <1>6, <2>1, <3>1
  <2>3. ~ (t.s < q)
    <3>1. t.s < q => t.s * Second + Second <= q * Second
      BY <1>1, <1>3, <1>4
    <3> QED BY <1>1, <1>3, <1>6, <2>1, <3>1
  <2> QED BY <1>1, <1>3, <2>2, <2>3
<1>8. m = t.ns
  <2> DEFINE a == t.s * Second
  <2>1. a \in Nat
    BY <1>1, <1>5
  <2>2. a + m = a + t.ns
    BY <1>3, <1>6, <1>7
  <2> HIDE DEF a
  <2> QED BY <1>1, <1>3, <2>1, <2>2
<1>9. DecTime(v) = [s |-> q, ns |-> m]
  BY DEF DecTime, q, m
<1>10. t = [s |-> t.s, ns |-> t.ns]
  OBVIOUS
<1> QED BY <1>2, <1>7, <1>8, <1>9, <1>10 DEF v

LEMMA FieldsRoundTrip ==
  ASSUME NEW ii \in Infos, NEW junk \in BOOLEAN, NEW keys \in SetToSeqs(DOMAIN ii.xattr),
         NEW c \in Seq(Byte), Layout(c, ii, junk, keys), NEW z \in Nat, NEW old
  PROVE  UnmarshalV1(c, z, old) =
           [n |-> z + W32, err |-> "nil", info |-> [ii EXCEPT !.path = PathFor(ii, junk)]]
<1> DEFINE p == Times + 3 * W64
           name == PathFor(ii, junk)
           rest == p + W32 + Len(name)
           xb == Drop(c, rest)
<1>1. /\ name \in Seq(Byte) /\ Len(name) \in Nat /\ Fits(Len(name), W32)
      /\ Fits(XattrSize(ii.xattr), W32) /\ Attributes(ii.xattr) /\ FixedSize - 1 = p
  <2>1. FixedSize - 1 = p
    BY Widths DEF FixedSize, Times
  <2> QED BY <2>1, InfoFields, Sizes
<1>2. p \in Nat /\ p + W32 \in Nat /\ rest \in Nat /\ W32 \in Nat
  BY <1>1, Widths DEF Times
<1>3. /\ Placed(c, p, Digits(Len(name), W32)) /\ Placed(c, p + W32, name)
      /\ Placed(c, rest, EncXattr(ii.xattr, keys))
  BY DEF Layout
<1>4. NumberAt(c, p, W32) = Len(name)
  BY <1>1, <1>2, <1>3, NumberOfDigits
<1>5. SubSeq(c, p + W32 + 1, rest) = name
  BY <1>1, <1>2, <1>3, PlacedSub
<1>6. EncXattr(ii.xattr, keys) \in Seq(Byte)
  BY <1>1, XattrLayout, XattrBytes
<1>7. Len(c) \in Nat /\ rest <= Len(c) /\ p + W32 <= Len(c)
  <2>1. Len(EncXattr(ii.xattr, keys)) \in Nat /\ Len(c) \in Nat
    BY <1>6
  <2>2. rest + Len(EncXattr(ii.xattr, keys)) <= Len(c)
    BY <1>3 DEF Placed
  <2> HIDE DEF name
  <2> QED BY <1>1, <1>2, <2>1, <2>2
<1> HIDE DEF rest
<1>8. DecXattr(xb, << >>).err = "nil" /\ DecXattr(xb, << >>).x = ii.xattr
  <2>1. rest \in 0 .. rest /\ rest \in 0 .. Len(c) /\ rest - rest = 0
    BY <1>2, <1>7
  <2>2. xb \in Seq(Byte) /\ Placed(xb, 0, EncXattr(ii.xattr, keys))
    BY <1>2, <1>3, <1>6, <2>1, PlacedDrop, DropType
  <2> HIDE DEF xb
  <2> QED BY <1>1, <2>2, XattrRoundTrip
<1>9. [i \in 1 .. 4 |-> NumberAt(c, (i - 1) * W64, W64)] = ii.u64
  <2>1. ii.u64 \in [1 .. 4 -> Nat]
    BY InfoFields
  <2>2. ASSUME NEW i \in 1 .. 4 PROVE NumberAt(c, (i - 1) * W64, W64) = ii.u64[i]
    <3>1. /\ (i - 1) * W64 \in Nat /\ Placed(c, (i - 1) * W64, Digits(ii.u64[i], W64))
          /\ ii.u64[i] \in Nat /\ Fits(ii.u64[i], W64)
      BY <2>1, InfoFields DEF Layout
    <3> QED BY <3>1, NumberOfDigits, Widths
  <2> QED BY <2>1, <2>2
<1>10. [i \in 1 .. 4 |-> NumberAt(c, 4 * W64 + (i - 1) * W32, W32)] = ii.u32
  <2>1. ii.u32 \in [1 .. 4 -> Nat]
    BY InfoFields
  <2>2. ASSUME NEW i \in 1 .. 4 PROVE NumberAt(c, 4 * W64 + (i - 1) * W32, W32) = ii.u32[i]
    <3>1. /\ 4 * W64 + (i - 1) * W32 \in Nat
          /\ Placed(c, 4 * W64 + (i - 1) * W32, Digits(ii.u32[i], W32))
          /\ ii.u32[i] \in Nat /\ Fits(ii.u32[i], W32)
      BY <2>1, InfoFields DEF Layout
    <3> QED BY <3>1, NumberOfDigits, Widths
  <2> QED BY <2>1, <2>2
<1>11. [i \in 1 .. 3 |-> DecTime(NumberAt(c, Times + (i - 1) * W64, W64))] = ii.time
  <2>1. ii.time \in [1 .. 3 -> [s : Nat, ns : 0 .. Second - 1]]
    BY InfoFields
  <2>2. ASSUME NEW i \in 1 .. 3 PROVE DecTime(NumberAt(c, Times + (i - 1) * W64, W64)) = ii.time[i]
    <3> DEFINE t == ii.time[i]
    <3>1. t \in [s : Nat, ns : 0 .. Second - 1]
      BY <2>1
    <3>2. /\ Times + (i - 1) * W64 \in Nat
          /\ Placed(c, Times + (i - 1) * W64, EncTime(t)) /\ Fits(t.s * Second + t.ns, W64)
      BY InfoFields DEF Layout
    <3> HIDE DEF t
    <3>3. t.s * Second + t.ns \in Nat /\ DecTime(t.s * Second + t.ns) = t
      BY <3>1, TimeRoundTrip
    <3>4. NumberAt(c, Times + (i - 1) * W64, W64) = t.s * Second + t.ns
      BY <3>2, <3>3, NumberOfDigits, Widths DEF EncTime
    <3> QED BY <3>3, <3>4 DEF t
  <2> QED BY <2>1, <2>2
<1> DEFINE info == [u64 |-> ii.u64, u32 |-> ii.u32, time |-> ii.time, path |-> name,
                    xattr |-> ii.xattr]
<1>12. info = [ii EXCEPT !.path = name]
  <2>1. ii = [u64 |-> ii.u64, u32 |-> ii.u32, time |-> ii.time, path |-> ii.path,
              xattr |-> ii.xattr]
    BY InfoFields
  <2> DEFINE u == ii.u64
             w == ii.u32
             t == ii.time
             q == ii.path
             x == ii.xattr
  <2>2. ii = [u64 |-> u, u32 |-> w, time |-> t, path |-> q, xattr |-> x]
    BY <2>1
  <2> HIDE DEF u, w, t, q, x, name
  <2>3. [ii EXCEPT !.path = name] = [u64 |-> u, u32 |-> w, time |-> t, path |-> name, xattr |-> x]
    BY <2>2
  <2> QED BY <2>3 DEF u, w, t, x
<1>13. rest = p + W32 + NumberAt(c, p, W32)
  BY <1>4 DEF rest
<1> DEFINE x == DecXattr(xb, << >>)
           time == [i \in 1 .. 3 |-> DecTime(NumberAt(c, Times + (i - 1) * W64, W64))]
           u64 == [i \in 1 .. 4 |-> NumberAt(c, (i - 1) * W64, W64)]
           u32 == [i \in 1 .. 4 |-> NumberAt(c, 4 * W64 + (i - 1) * W32, W32)]
<1>14. UnmarshalV1(c, z, old) =
         IF Len(c) < p + W32 \/ Len(c) < rest \/ x.err # "nil" THEN Failed("small")
         ELSE [n |-> z + W32, err |-> "nil",
               info |-> [u64 |-> u64, u32 |-> u32, time |-> time,
                         path |-> SubSeq(c, p + W32 + 1, rest), xattr |-> x.x]]
  <2> HIDE DEF p
  <2> QED BY <1>1, <1>13, Zenon DEF UnmarshalV1, NewXattr, Times
<1> HIDE DEF x, time, u64, u32, name, p
<1>15. ~ (Len(c) < p + W32 \/ Len(c) < rest \/ x.err # "nil")
  BY <1>2, <1>7, <1>8 DEF x
<1>16. UnmarshalV1(c, z, old) =
         [n |-> z + W32, err |-> "nil",
          info |-> [u64 |-> u64, u32 |-> u32, time |-> time,
                    path |-> SubSeq(c, p + W32 + 1, rest), xattr |-> x.x]]
  BY <1>14, <1>15, Zenon
<1>17. UnmarshalV1(c, z, old) = [n |-> z + W32, err |-> "nil", info |-> info]
  BY <1>5, <1>8, <1>9, <1>10, <1>11, <1>16, Zenon DEF x, time, u64, u32
<1> QED BY <1>12, <1>17, Zenon DEF name

(* An Info whose bytes all arrived is read back as it was. *)
LEMMA RoundTrip ==
  ASSUME NEW ii \in Infos, NEW junk \in BOOLEAN, NEW keys \in SetToSeqs(DOMAIN ii.xattr),
         NEW b \in Seq(Byte), Placed(b, 0, Encoded(ii, junk, keys)),
         MarshalSize(ii, junk) <= Len(b), NEW old
  PROVE  Unmarshaled(b, old) =
           [n |-> MarshalSize(ii, junk), err |-> "nil",
            info |-> [ii EXCEPT !.path = PathFor(ii, junk)]]
<1> DEFINE size == MarshalSize(ii, junk)
           z == NumberAt(b, 0, W32)
           body == Drop(b, W32)
           info == [ii EXCEPT !.path = PathFor(ii, junk)]
<1>1. /\ size \in Nat /\ Length(size) \in Nat /\ Fits(Length(size), W32)
      /\ XattrSize(ii.xattr) \in Nat /\ FixedSize \in Nat /\ Len(PathFor(ii, junk)) \in Nat
      /\ Length(size) = 1 + FixedSize + Len(PathFor(ii, junk)) + W32 + XattrSize(ii.xattr)
  BY Sizes, InfoFields
<1>2. /\ Placed(b, 0, Digits(Length(size), W32)) /\ W32 + 1 <= Len(b) /\ b[W32 + 1] = 1
      /\ Layout(Drop(body, 1), ii, junk, keys)
  BY EncodedLayout
<1>3. z = Length(size)
  BY <1>1, <1>2, NumberOfDigits, Widths
<1> HIDE DEF z, size
<1>4. Len(b) \in Nat /\ z \in Nat /\ z + W32 = size /\ W32 + z <= Len(b) /\ z >= FixedSize
  BY <1>1, <1>3, Widths DEF Length, size
<1>5. body \in Seq(Byte) /\ Len(body) = Len(b) - W32 /\ body[1] = 1
  <2>1. W32 \in 0 .. Len(b)
    BY <1>2, <1>4, Widths
  <2>2. body[1] = b[W32 + 1]
    BY <1>2, <1>4, <2>1, Widths DEF Drop
  <2> QED BY <1>2, <2>1, <2>2, DropType
<1> HIDE DEF body, info
<1>6. Drop(body, 1) \in Seq(Byte)
  <2>1. 1 \in 0 .. Len(body)
    BY <1>2, <1>4, <1>5, Widths
  <2> QED BY <1>5, <2>1, DropType
<1>7. UnmarshalV1(Drop(body, 1), z, old) = [n |-> z + W32, err |-> "nil", info |-> info]
  <2> DEFINE c == Drop(body, 1)
  <2>1. Layout(c, ii, junk, keys) /\ c \in Seq(Byte) /\ z \in Nat
    BY <1>2, <1>4, <1>6
  <2> HIDE DEF c
  <2>2. UnmarshalV1(c, z, old) =
          [n |-> z + W32, err |-> "nil", info |-> [ii EXCEPT !.path = PathFor(ii, junk)]]
    BY <2>1, FieldsRoundTrip
  <2> QED BY <2>2 DEF c, info
<1>8. ~ (Len(b) < W32 \/ Len(body) < z \/ z < FixedSize) /\ ~ (body[1] # 1)
  BY <1>1, <1>2, <1>4, <1>5, Widths
<1>9. Unmarshaled(b, old) =
        IF Len(b) < W32 \/ Len(body) < z \/ z < FixedSize THEN Failed("small")
        ELSE IF body[1] # 1 THEN Failed("version") ELSE UnmarshalV1(Drop(body, 1), z, old)
  BY Zenon DEF Unmarshaled, body, z
<1>10. Unmarshaled(b, old) = [n |-> z + W32, err |-> "nil", info |-> info]
  BY <1>7, <1>8, <1>9, Zenon
<1> QED BY <1>4, <1>10 DEF size, info

(* An Info that was cut off is refused for want of bytes. *)
LEMMA CutOff ==
  ASSUME NEW ii \in Infos, NEW junk \in BOOLEAN, NEW keys \in SetToSeqs(DOMAIN ii.xattr),
         NEW b \in Seq(Byte), Len(b) < MarshalSize(ii, junk), NEW old,
         W32 <= Len(b) => Placed(b, 0, Digits(Length(MarshalSize(ii, junk)), W32))
  PROVE  Unmarshaled(b, old) = Failed("small")
<1> DEFINE size == MarshalSize(ii, junk)
           z == NumberAt(b, 0, W32)
           body == Drop(b, W32)
<1>1. size \in Nat /\ Length(size) \in Nat /\ Fits(Length(size), W32) /\ Len(b) \in Nat
  BY Sizes
<1>2. CASE Len(b) < W32
  BY <1>2 DEF Unmarshaled
<1>3. CASE W32 <= Len(b)
  <2>1. z = Length(size)
    BY <1>1, <1>3, NumberOfDigits, Widths
  <2>2. Len(body) = Len(b) - W32
    BY <1>1, <1>3, DropType, Widths
  <2>3. Len(body) < z
    BY <1>1, <2>1, <2>2, Widths DEF Length
  <2> QED BY <2>3 DEF Unmarshaled
<1> QED BY <1>1, <1>2, <1>3, Widths

LEMMA NothingThere ==
  ASSUME NEW b \in Seq(Byte), Len(b) = 0, NEW old
  PROVE  Unmarshaled(b, old) = Failed("small")
BY Widths DEF Unmarshaled
-----------------------------------------------------------------------------
(* The inductive invariant *)

Given == {[ii EXCEPT !.path = PathFor(ii, junk)] : ii \in Infos, junk \in BOOLEAN}

TypeOK ==
  /\ buf \in [1 .. Room -> Byte]
  /\ wpos \in 0 .. Room /\ total \in 0 .. wpos /\ rpos \in 0 .. total
  /\ pc \in {"writing", "reading", "small", "version"}
  /\ sent \in Seq([info : Given, end : 0 .. Room]) /\ got \in Seq(Given)

(* Where the writer was after k Infos *)
Start(s, k) == IF k = 0 THEN 0 ELSE s[k].end

(* The k-th Info stands in the buffer, between the ends of the one before and its own. *)
Stands(b, s, k) ==
  \E ii \in Infos, junk \in BOOLEAN : \E keys \in SetToSeqs(DOMAIN ii.xattr) :
    /\ s[k].info = [ii EXCEPT !.path = PathFor(ii, junk)]
    /\ s[k].end = Start(s, k - 1) + MarshalSize(ii, junk)
    /\ Placed(b, Start(s, k - 1), Encoded(ii, junk, keys))

Written ==
  /\ wpos = Start(sent, Len(sent))
  /\ \A k \in 0 .. Len(sent) : Start(sent, k) \in 0 .. wpos
  /\ \A k \in 1 .. Len(sent) : Stands(buf, sent, k)

Read ==
  /\ Len(got) <= Len(sent) /\ rpos = Start(sent, Len(got))
  /\ \A k \in 1 .. Len(got) : got[k] = sent[k].info
  /\ pc = "writing" => got = << >> /\ total = 0
  /\ pc # "version"
  /\ pc = "small" /\ Len(got) < Len(sent) => sent[Len(got) + 1].end > total

Inv == TypeOK /\ Written /\ Read

LEMMA PlacedCut ==
  ASSUME NEW b \in Seq(Byte), NEW p \in Nat, NEW q \in Nat, p <= q, q <= Len(b)
  PROVE  /\ SubSeq(b, p + 1, q) \in Seq(Byte) /\ Len(SubSeq(b, p + 1, q)) = q - p
         /\ \A s \in Seq(Byte) : Placed(b, p, s) /\ p + Len(s) <= q => Placed(SubSeq(b, p + 1, q), 0, s)
<1> DEFINE c == SubSeq(b, p + 1, q)
<1>1. c \in Seq(Byte) /\ Len(c) = q - p /\ \A i \in 1 .. q - p : c[i] = b[p + i]
  BY SubSeqProperties
<1> HIDE DEF c
<1>2. ASSUME NEW s \in Seq(Byte), Placed(b, p, s), p + Len(s) <= q PROVE Placed(c, 0, s)
  <2>1. Len(s) \in Nat /\ \A i \in 1 .. Len(s) : b[p + i] = s[i]
    BY <1>2 DEF Placed
  <2>2. ASSUME NEW i \in 1 .. Len(s) PROVE c[0 + i] = s[i]
    <3>1. i \in 1 .. q - p /\ 0 + i = i
      BY <1>2, <2>1
    <3> QED BY <1>1, <2>1, <3>1
  <2>3. 0 + Len(s) <= Len(c)
    BY <1>1, <1>2, <2>1
  <2> QED BY <2>2, <2>3 DEF Placed
<1> QED BY <1>1, <1>2 DEF c

LEMMA BufferType ==
  ASSUME TypeOK
  PROVE  buf \in Seq(Byte) /\ Len(buf) = Room
BY Widths DEF TypeOK

(* The next Info is read, or it is not all there. *)
LEMMA ReadStep ==
  ASSUME Inv
  PROVE  LET r == Unmarshaled(SubSeq(buf, rpos + 1, total), di)
             k == Len(got) + 1
         IN \/ /\ k <= Len(sent) /\ sent[k].end <= total /\ sent[k].end \in Nat
               /\ r.err = "nil" /\ rpos + r.n = sent[k].end
               /\ r.info = sent[k].info
            \/ r.err = "small" /\ (k <= Len(sent) => sent[k].end > total)
<1> DEFINE b == SubSeq(buf, rpos + 1, total)
           k == Len(got) + 1
           n == Len(sent)
<1>1. /\ buf \in Seq(Byte) /\ Len(buf) = Room /\ rpos \in Nat /\ total \in Nat /\ wpos \in Nat
      /\ rpos <= total /\ total <= wpos /\ wpos <= Room /\ Room \in Nat
      /\ Len(got) \in Nat /\ n \in Nat
  BY BufferType, Widths DEF Inv, TypeOK
<1>2. b \in Seq(Byte) /\ Len(b) = total - rpos
  BY <1>1, PlacedCut
<1>3. Failed("small").err = "small"
  BY DEF Failed
<1>4. CASE k <= n
  <2>1. k \in 1 .. n /\ k - 1 = Len(got) /\ Start(sent, k - 1) = rpos
    BY <1>1, <1>4 DEF Inv, Read
  <2>2. PICK ii \in Infos, junk \in BOOLEAN : \E keys \in SetToSeqs(DOMAIN ii.xattr) :
          /\ sent[k].info = [ii EXCEPT !.path = PathFor(ii, junk)]
          /\ sent[k].end = rpos + MarshalSize(ii, junk)
          /\ Placed(buf, rpos, Encoded(ii, junk, keys))
    <3>1. Stands(buf, sent, k)
      BY <2>1 DEF Inv, Written
    <3> HIDE DEF k
    <3> QED BY <2>1, <3>1 DEF Stands
  <2> DEFINE size == MarshalSize(ii, junk)
             info == sent[k].info
             end == sent[k].end
  <2>3. PICK keys \in SetToSeqs(DOMAIN ii.xattr) :
          /\ info = [ii EXCEPT !.path = PathFor(ii, junk)] /\ end = rpos + size
          /\ Placed(buf, rpos, Encoded(ii, junk, keys))
    BY <2>2
  <2> DEFINE enc == Encoded(ii, junk, keys)
  <2>4. size \in Nat /\ enc \in Seq(Byte) /\ Len(enc) = size - 1
    BY Sizes, EncodedLayout
  <2> HIDE DEF k, end, info
  <2>5. CASE end <= total
    <3>1. Placed(b, 0, enc) /\ size <= Len(b)
      <4>1. rpos + Len(enc) <= total
        BY <1>1, <2>3, <2>4, <2>5
      <4>2. Placed(b, 0, enc)
        <5>1. Placed(buf, rpos, enc) /\ enc \in Seq(Byte)
          BY <2>3, <2>4
        <5> HIDE DEF enc
        <5> QED BY <1>1, <4>1, <5>1, PlacedCut
      <4> HIDE DEF b, size, enc
      <4> QED BY <1>1, <1>2, <2>3, <2>4, <2>5, <4>2
    <3> HIDE DEF b
    <3>2. Unmarshaled(b, di) =
            [n |-> size, err |-> "nil", info |-> [ii EXCEPT !.path = PathFor(ii, junk)]]
      BY <1>2, <3>1, RoundTrip
    <3> HIDE DEF size
    <3>3. Unmarshaled(b, di) = [n |-> size, err |-> "nil", info |-> info]
      BY <2>3, <3>2, Zenon
    <3>4. /\ Unmarshaled(b, di).n = size /\ Unmarshaled(b, di).err = "nil"
          /\ Unmarshaled(b, di).info = info
      BY <3>3
    <3> QED BY <1>1, <1>4, <2>3, <2>4, <2>5, <3>4 DEF b, k, end, info
  <2>6. CASE end > total
    <3>1. Len(b) < size
      <4> HIDE DEF b, size
      <4> QED BY <1>1, <1>2, <2>3, <2>4, <2>6
    <3> DEFINE d == Digits(Length(size), W32)
    <3>2. d \in Seq(Byte) /\ Len(d) = W32
      BY Sizes, DigitsType, Widths
    <3>3. Placed(buf, rpos, d)
      <4>1. /\ Placed(enc, 0, enc)
        BY <2>4 DEF Placed
      <4>2. Placed(enc, 0, d)
        BY <2>4, <4>1, EncodedLayout
      <4> HIDE DEF d, enc
      <4>3. Placed(buf, rpos + 0, d)
        BY <1>1, <2>3, <2>4, <3>2, <4>2, PlacedWithin DEF enc
      <4> QED BY <1>1, <4>3
    <3>4. W32 <= Len(b) => Placed(b, 0, d)
      <4> HIDE DEF d
      <4>1. W32 <= Len(b) => rpos + Len(d) <= total
        BY <1>1, <1>2, <3>2, Widths
      <4> QED BY <1>1, <3>2, <3>3, <4>1, PlacedCut
    <3> HIDE DEF b
    <3>5. Unmarshaled(b, di) = Failed("small")
      BY <1>2, <3>1, <3>4, CutOff
    <3> QED BY <1>3, <2>6, <3>5 DEF b, k, end
  <2>7. end \in Nat
    BY <1>1, <2>3, <2>4
  <2> QED BY <1>1, <2>5, <2>6, <2>7
<1>5. CASE ~ (k <= n)
  <2>1. Len(got) = n /\ rpos = wpos
    BY <1>1, <1>5 DEF Inv, Read, Written
  <2>2. Len(b) = 0
    BY <1>1, <1>2, <2>1
  <2> HIDE DEF b
  <2>3. Unmarshaled(b, di) = Failed("small")
    BY <1>2, <2>2, NothingThere
  <2> QED BY <1>3, <1>5, <2>3 DEF b
<1> QED BY <1>4, <1>5

LEMMA InitInv == Init => Inv
<1> SUFFICES ASSUME Init PROVE Inv
  OBVIOUS
<1>1. PICK f \in Fill : buf = [i \in 1 .. Room |-> f]
  BY DEF Init
<1>2. /\ wpos = 0 /\ total = 0 /\ rpos = 0 /\ pc = "writing" /\ sent = << >> /\ got = << >>
      /\ Len(sent) = 0 /\ Len(got) = 0
  BY DEF Init
<1>3. buf \in [1 .. Room -> Byte]
  BY <1>1, Assumptions
<1>4. TypeOK
  BY <1>2, <1>3, Widths DEF TypeOK
<1>5. Written
  BY <1>2 DEF Written, Start
<1>6. Read
  BY <1>2 DEF Read, Start
<1> QED BY <1>4, <1>5, <1>6 DEF Inv

(* An Info that is marshaled stands behind those before it, which stay. *)
LEMMA MarshalInv ==
  ASSUME Inv, NEW ii \in Infos, NEW junk \in BOOLEAN, MarshalTo(ii, junk)
  PROVE  Inv'
<1> DEFINE n == Len(sent)
           size == MarshalSize(ii, junk)
           info == [ii EXCEPT !.path = PathFor(ii, junk)]
           e == [info |-> info, end |-> wpos + size]
<1>1. PICK keys \in SetToSeqs(DOMAIN ii.xattr) :
        buf' = [i \in 1 .. Room |->
                  IF i - wpos \in DOMAIN Encoded(ii, junk, keys)
                  THEN Encoded(ii, junk, keys)[i - wpos] ELSE buf[i]]
  BY DEF MarshalTo
<1> DEFINE enc == Encoded(ii, junk, keys)
<1>2. /\ pc = "writing" /\ size <= Room - wpos /\ wpos' = wpos + size /\ sent' = Append(sent, e)
      /\ UNCHANGED <<total, rpos, di, pc, got>>
  BY DEF MarshalTo
<1>3. size \in Nat /\ enc \in Seq(Byte) /\ Len(enc) = size - 1 /\ DOMAIN enc = 1 .. size - 1
  <2>1. size \in Nat /\ enc \in Seq(Byte) /\ Len(enc) = size - 1
    BY Sizes, EncodedLayout
  <2> HIDE DEF size, enc
  <2> QED BY <2>1
<1>4. /\ buf \in [1 .. Room -> Byte] /\ wpos \in Nat /\ wpos <= Room /\ n \in Nat /\ Room \in Nat
      /\ total = 0 /\ rpos \in 0 .. total /\ got = << >>
      /\ sent \in Seq([info : Given, end : 0 .. Room])
  BY <1>2, Widths DEF Inv, TypeOK, Read
<1>5. info \in Given
  BY DEF Given
<1> HIDE DEF size, enc, info
<1>6. e \in [info : Given, end : 0 .. Room]
  BY <1>2, <1>3, <1>4, <1>5
<1> HIDE DEF e
<1>7. /\ sent' \in Seq([info : Given, end : 0 .. Room]) /\ Len(sent') = n + 1
      /\ sent'[n + 1] = e /\ \A k \in 1 .. n : sent'[k] = sent[k]
  BY <1>2, <1>4, <1>6
<1>8. /\ buf' \in [1 .. Room -> Byte]
      /\ \A i \in 1 .. Room : buf'[i] = IF i - wpos \in DOMAIN enc THEN enc[i - wpos] ELSE buf[i]
  <2>1. buf' = [i \in 1 .. Room |-> IF i - wpos \in DOMAIN enc THEN enc[i - wpos] ELSE buf[i]]
    BY <1>1 DEF enc
  <2>2. \A i \in 1 .. Room : (IF i - wpos \in DOMAIN enc THEN enc[i - wpos] ELSE buf[i]) \in Byte
    BY <1>3, <1>4
  <2> QED BY <2>1, <2>2
<1>9. e.info = info /\ e.end = wpos + size
  BY DEF e
<1>10. \A k \in 0 .. n : Start(sent', k) = Start(sent, k) /\ Start(sent, k) \in 0 .. wpos
  <2>1. \A k \in 0 .. n : Start(sent, k) \in 0 .. wpos
    BY DEF Inv, Written
  <2> QED BY <1>4, <1>7, <2>1 DEF Start
<1>11. Start(sent', n + 1) = wpos + size /\ Start(sent, n) = wpos
  <2>1. Start(sent, n) = wpos
    BY DEF Inv, Written
  <2> QED BY <1>4, <1>7, <1>9, <2>1 DEF Start
<1>12. TypeOK'
  <2>1. got' = << >> /\ total' = 0 /\ rpos' \in 0 .. total' /\ pc' = "writing"
    BY <1>2, <1>4
  <2>2. wpos' \in 0 .. Room
    BY <1>2, <1>3, <1>4
  <2>3. total' \in 0 .. wpos'
    BY <2>1, <2>2
  <2>4. got' \in Seq(Given)
    BY <2>1
  <2> QED BY <1>7, <1>8, <2>1, <2>2, <2>3, <2>4 DEF TypeOK
<1>13. ASSUME NEW k \in 1 .. n PROVE Stands(buf', sent', k)
  <2>1. k - 1 \in 0 .. n /\ k \in 0 .. n /\ k # 0
    BY <1>4
  <2>2. Start(sent', k - 1) = Start(sent, k - 1) /\ sent'[k] = sent[k] /\ Start(sent, k - 1) \in Nat
    BY <1>4, <1>7, <1>10, <2>1
  <2>3. Start(sent, k) = sent[k].end /\ sent[k].end <= wpos
    BY <1>4, <1>10, <2>1 DEF Start
  <2>4. PICK jj \in Infos, j \in BOOLEAN : \E ks \in SetToSeqs(DOMAIN jj.xattr) :
          /\ sent[k].info = [jj EXCEPT !.path = PathFor(jj, j)]
          /\ sent[k].end = Start(sent, k - 1) + MarshalSize(jj, j)
          /\ Placed(buf, Start(sent, k - 1), Encoded(jj, j, ks))
    BY DEF Inv, Written, Stands
  <2>5. PICK ks \in SetToSeqs(DOMAIN jj.xattr) :
          /\ sent[k].info = [jj EXCEPT !.path = PathFor(jj, j)]
          /\ sent[k].end = Start(sent, k - 1) + MarshalSize(jj, j)
          /\ Placed(buf, Start(sent, k - 1), Encoded(jj, j, ks))
    BY <2>4
  <2> DEFINE p == Start(sent, k - 1)
             s == Encoded(jj, j, ks)
  <2>6. s \in Seq(Byte) /\ Len(s) = MarshalSize(jj, j) - 1 /\ MarshalSize(jj, j) \in Nat
    BY Sizes, EncodedLayout
  <2>7. Placed(buf', p, s)
    <3> DEFINE m == MarshalSize(jj, j)
    <3>1. Len(s) = m - 1 /\ m \in Nat /\ Len(s) \in Nat /\ sent[k].end = p + m /\ p \in Nat
      BY <2>2, <2>5, <2>6
    <3> HIDE DEF p, s, m
    <3>2. p + Len(s) <= wpos
      BY <1>4, <2>3, <3>1
    <3>3. Len(buf') = Room
      BY <1>4, <1>8
    <3>4. ASSUME NEW i \in 1 .. Len(s) PROVE buf'[p + i] = s[i]
      <4>1. p + i \in 1 .. Room /\ ~ ((p + i) - wpos \in 1 .. size - 1)
        BY <1>3, <1>4, <3>1, <3>2
      <4>2. buf'[p + i] = buf[p + i]
        BY <1>3, <1>8, <4>1
      <4>3. buf[p + i] = s[i]
        BY <2>5 DEF Placed, p, s
      <4> QED BY <4>2, <4>3
    <3> QED BY <1>4, <3>1, <3>2, <3>3, <3>4 DEF Placed
  <2> QED BY <2>2, <2>5, <2>7, Zenon DEF Stands
<1>14. Stands(buf', sent', n + 1)
  <2>1. (n + 1) - 1 = n /\ Start(sent', n) = wpos
    BY <1>4, <1>10, <1>11
  <2>2. sent'[n + 1].info = info /\ sent'[n + 1].end = wpos + size
    BY <1>7, <1>9
  <2>3. Placed(buf', wpos, enc)
    <3>1. Len(buf') = Room
      BY <1>4, <1>8
    <3>2. ASSUME NEW i \in 1 .. Len(enc) PROVE buf'[wpos + i] = enc[i]
      <4>1. wpos + i \in 1 .. Room /\ (wpos + i) - wpos = i /\ i \in DOMAIN enc
        BY <1>2, <1>3, <1>4
      <4> QED BY <1>8, <4>1
    <3> QED BY <1>2, <1>3, <1>4, <3>1, <3>2 DEF Placed
  <2> QED BY <2>1, <2>2, <2>3, Zenon DEF Stands, info, size, enc
<1>15. Written'
  <2>1. Len(sent') = n + 1 /\ wpos' = wpos + size
    BY <1>2, <1>7
  <2>2. \A k \in 0 .. n + 1 : Start(sent', k) \in 0 .. wpos + size
    <3>1. \A k \in 0 .. n + 1 : k \in 0 .. n \/ k = n + 1
      BY <1>4
    <3>2. \A a \in 0 .. wpos : a \in 0 .. wpos + size
      BY <1>3, <1>4
    <3>3. wpos + size \in 0 .. wpos + size
      BY <1>3, <1>4
    <3> QED BY <1>10, <1>11, <3>1, <3>2, <3>3
  <2>3. \A k \in 1 .. n + 1 : Stands(buf', sent', k)
    <3>1. \A k \in 1 .. n + 1 : k \in 1 .. n \/ k = n + 1
      BY <1>4
    <3> QED BY <1>13, <1>14, <3>1
  <2> QED BY <1>11, <2>1, <2>2, <2>3 DEF Written
<1>16. Read'
  <2>1. got' = << >> /\ Len(got') = 0 /\ total' = 0 /\ rpos' = 0 /\ pc' = "writing"
    BY <1>2, <1>4
  <2>2. Len(sent') \in Nat
    BY <1>4, <1>7
  <2> QED BY <2>1, <2>2 DEF Read, Start
<1> QED BY <1>12, <1>15, <1>16 DEF Inv

LEMMA UnmarshalInv ==
  ASSUME Inv, Unmarshal
  PROVE  Inv'
<1> DEFINE r == Unmarshaled(SubSeq(buf, rpos + 1, total), di)
           k == Len(got) + 1
<1>1. \/ /\ k <= Len(sent) /\ sent[k].end <= total /\ sent[k].end \in Nat
         /\ r.err = "nil" /\ rpos + r.n = sent[k].end
         /\ r.info = sent[k].info
      \/ r.err = "small" /\ (k <= Len(sent) => sent[k].end > total)
  BY ReadStep
<1>2. /\ pc = "reading" /\ UNCHANGED <<buf, wpos, total, sent>>
      /\ \/ r.err = "nil" /\ rpos' = rpos + r.n /\ got' = Append(got, r.info) /\ UNCHANGED pc
         \/ r.err # "nil" /\ pc' = r.err /\ UNCHANGED <<rpos, di, got>>
  BY DEF Unmarshal
<1> HIDE DEF r
<1>3. /\ Len(got) \in Nat /\ Len(sent) \in Nat /\ total \in Nat /\ wpos \in Nat
      /\ got \in Seq(Given) /\ sent \in Seq([info : Given, end : 0 .. Room])
  BY Widths DEF Inv, TypeOK
<1>4. Written'
  BY <1>2 DEF Inv, Written
<1>5. CASE r.err = "nil"
  <2>1. /\ k <= Len(sent) /\ sent[k].end <= total /\ sent[k].end \in Nat
        /\ rpos' = sent[k].end /\ got' = Append(got, sent[k].info) /\ pc' = "reading"
    BY <1>1, <1>2, <1>5
  <2>2. k \in 1 .. Len(sent)
    BY <1>3, <2>1
  <2>3. sent[k].info \in Given
    <3> DEFINE S == [info : Given, end : 0 .. Room]
    <3> HIDE DEF k, S
    <3>1. sent \in Seq(S)
      BY <1>3 DEF S
    <3>2. sent[k] \in S
      BY <1>3, <2>2, <3>1
    <3> QED BY <3>2 DEF S
  <2>4. /\ got' \in Seq(Given) /\ Len(got') = k /\ got'[k] = sent[k].info
        /\ \A j \in 1 .. Len(got) : got'[j] = got[j]
    BY <1>3, <2>1, <2>3
  <2>5. TypeOK'
    <3>1. rpos' \in 0 .. total
      BY <1>3, <2>1
    <3> QED BY <1>2, <2>1, <2>4, <3>1 DEF Inv, TypeOK
  <2>6. \A j \in 1 .. k : got'[j] = sent[j].info
    <3>1. \A j \in 1 .. k : j \in 1 .. Len(got) \/ j = k
      BY <1>3
    <3>2. \A j \in 1 .. Len(got) : got[j] = sent[j].info
      BY DEF Inv, Read
    <3> QED BY <2>4, <3>1, <3>2
  <2>7. Start(sent, k) = sent[k].end
    BY <1>3 DEF Start
  <2>8. Read'
    BY <1>2, <2>1, <2>4, <2>6, <2>7 DEF Read
  <2> QED BY <1>4, <2>5, <2>8 DEF Inv
<1>6. CASE r.err # "nil"
  <2>1. pc' = "small" /\ (k <= Len(sent) => sent[k].end > total) /\ UNCHANGED <<rpos, got>>
    BY <1>1, <1>2, <1>6
  <2>2. TypeOK'
    BY <1>2, <2>1 DEF Inv, TypeOK
  <2>3. Len(got) < Len(sent) => sent[k].end > total
    BY <1>3, <2>1
  <2>4. Read'
    BY <1>2, <2>1, <2>3 DEF Inv, Read
  <2> QED BY <1>4, <2>2, <2>4 DEF Inv
<1> QED BY <1>5, <1>6

LEMMA NextInv == Inv /\ [Next]_vars => Inv'
<1> SUFFICES ASSUME Inv, [Next]_vars PROVE Inv'
  OBVIOUS
<1>1. CASE \E ii \in Infos, junk \in BOOLEAN : MarshalTo(ii, junk)
  BY <1>1, MarshalInv
<1>2. ASSUME NEW t \in 0 .. wpos, total' = t, pc = "writing", pc' = "reading",
             UNCHANGED <<buf, wpos, rpos, di, sent, got>>
      PROVE  Inv'
  <2>1. total = 0 /\ rpos \in 0 .. total
    BY <1>2 DEF Inv, Read, TypeOK
  <2>2. rpos' \in 0 .. total' /\ total' \in 0 .. wpos'
    BY <1>2, <2>1
  <2>3. TypeOK'
    BY <1>2, <2>2 DEF Inv, TypeOK
  <2>4. Written'
    BY <1>2 DEF Inv, Written
  <2>5. Read'
    BY <1>2 DEF Inv, Read
  <2> QED BY <2>3, <2>4, <2>5 DEF Inv
<1>3. CASE \E ii \in Infos, junk \in BOOLEAN : MarshalRefused(ii, junk)
  <2>1. wpos \in 0 .. wpos
    BY DEF Inv, TypeOK
  <2> QED BY <1>2, <1>3, <2>1 DEF MarshalRefused
<1>4. CASE Arrive
  BY <1>2, <1>4 DEF Arrive
<1>5. CASE Unmarshal
  BY <1>5, UnmarshalInv
<1>6. CASE UNCHANGED vars
  <2>1. TypeOK' /\ Written' /\ Read'
    BY <1>6 DEF Inv, TypeOK, Written, Read, vars
  <2> QED BY <2>1 DEF Inv
<1> QED BY <1>1, <1>3, <1>4, <1>5, <1>6 DEF Next, Writing, Stopped

(* In every state of every behaviour the invariant holds: each Info that was  *)
(* marshaled stands in the buffer, and the reader is at the end of one.       *)
THEOREM InvHolds == Spec => []Inv
<1> QED BY InitInv, NextInv, PTL DEF Spec

(* What Info.Unmarshal returns is what Info.MarshalTo was given, Info by Info *)
(* and field by field, wherever the stream is cut off and whatever the buffer *)
(* and the Info that is used again held before.                               *)
THEOREM InOrderHolds == Spec => []InOrder
<1>1. Inv => InOrder
  BY DEF Inv, TypeOK, Read, InOrder
<1> QED BY <1>1, InvHolds, PTL

(* Info.Unmarshal fails for no other reason than missing bytes, and only when *)
(* every Info that arrived whole has been read; MarshalSize, the length that  *)
(* is written and the bytes that are consumed agree.                          *)
THEOREM NothingLostHolds == Spec => []NothingLost
<1>1. ASSUME Inv PROVE NothingLost
  <2>1. got = << >> <=> Len(got) = 0
    BY <1>1 DEF Inv, TypeOK
  <2>2. rpos = (IF got = << >> THEN 0 ELSE sent[Len(got)].end)
    BY <1>1, <2>1 DEF Inv, Read, Start
  <2> QED BY <1>1, <2>2 DEF Inv, Read, NothingLost
<1> QED BY <1>1, InvHolds, PTL
=============================================================================
