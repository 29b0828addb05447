--------------------------- MODULE CountingProofs ---------------------------
(***************************************************************************)
(* How the counts of module Counting change when a queue or a channel      *)
(* changes by one message.                                                 *)
(*                                                                         *)
(* At the end: induction over a set of numbers, and what it shows of the   *)
(* folds of the community modules.                                         *)
(***************************************************************************)
EXTENDS Counting, FunctionTheorems, FiniteSetTheorems, WellFoundedInduction, TLAPS

\* A count is a natural number.
LEMMA PositionsFinite ==
  ASSUME NEW S, NEW s \in Seq(S), NEW m
  PROVE  IsFiniteSet(Positions(s, m)) /\ Count(s, m) \in Nat
<1>1. IsFiniteSet(1..Len(s))
  BY FS_Interval
<1>2. IsFiniteSet(Positions(s, m))
  BY <1>1, FS_Subset DEF Positions
<1> QED
  BY <1>2, FS_CardinalityType DEF Count

\* An empty queue counts nothing.
LEMMA CountEmpty ==
  ASSUME NEW m
  PROVE  Count(<<>>, m) = 0
<1>1. Positions(<<>>, m) = {}
  BY DEF Positions
<1> QED
  BY <1>1, FS_EmptySet DEF Count

\* Append adds one to the count of the message it appends.
LEMMA CountAppend ==
  ASSUME NEW S, NEW s \in Seq(S), NEW x \in S, NEW m
  PROVE  Count(Append(s, x), m) = Count(s, m) + (IF x = m THEN 1 ELSE 0)
<1>1. IsFiniteSet(Positions(s, m)) /\ Count(s, m) \in Nat
  BY PositionsFinite
<1>2. CASE x = m
  <2>1. Positions(Append(s, x), m) = Positions(s, m) \cup {Len(s) + 1}
    BY <1>2 DEF Positions
  <2>2. Len(s) + 1 \notin Positions(s, m)
    BY DEF Positions
  <2> QED
    BY <1>1, <1>2, <2>1, <2>2, FS_AddElement DEF Count
<1>3. CASE x # m
  <2>1. Positions(Append(s, x), m) = Positions(s, m)
    BY <1>3 DEF Positions
  <2> QED
    BY <1>1, <1>3, <2>1 DEF Count
<1> QED
  BY <1>2, <1>3

\* Tail takes one from the count of the message it drops.
LEMMA CountTail ==
  ASSUME NEW S, NEW s \in Seq(S), s # <<>>, NEW m
  PROVE  Count(Tail(s), m) = Count(s, m) - (IF Head(s) = m THEN 1 ELSE 0)
<1> DEFINE Later == Positions(s, m) \ {1}
           shift == [i \in Positions(Tail(s), m) |-> i + 1]
<1>1. IsFiniteSet(Positions(s, m)) /\ Count(s, m) \in Nat
  BY PositionsFinite
<1>2. /\ IsFiniteSet(Later)
      /\ Cardinality(Later) = Count(s, m) - (IF Head(s) = m THEN 1 ELSE 0)
  <2>1. 1 \in Positions(s, m) <=> Head(s) = m
    BY DEF Positions
  <2> QED
    BY <1>1, <2>1, FS_RemoveElement DEF Count
<1>3. Tail(s) \in Seq(S) /\ IsFiniteSet(Positions(Tail(s), m))
  <2>1. Tail(s) \in Seq(S)
    OBVIOUS
  <2> QED
    BY <2>1, PositionsFinite
<1>4. shift \in Bijection(Positions(Tail(s), m), Later)
  <2>1. shift \in [Positions(Tail(s), m) -> Later]
    BY DEF Positions
  <2>2. ASSUME NEW i \in Positions(Tail(s), m), NEW j \in Positions(Tail(s), m),
               shift[i] = shift[j]
        PROVE  i = j
    BY <2>2 DEF Positions
  <2>3. ASSUME NEW k \in Later
        PROVE  \E i \in Positions(Tail(s), m) : shift[i] = k
    <3>1. k - 1 \in Positions(Tail(s), m)
      BY DEF Positions
    <3>2. shift[k - 1] = k
      BY <3>1 DEF Positions
    <3> QED
      BY <3>1, <3>2
  <2>4. shift \in Injection(Positions(Tail(s), m), Later)
    BY <2>1, <2>2 DEF Injection, IsInjective
  <2>5. shift \in Surjection(Positions(Tail(s), m), Later)
    BY <2>1, <2>3 DEF Surjection
  <2> QED
    BY <2>4, <2>5 DEF Bijection
<1>5. Cardinality(Later) = Cardinality(Positions(Tail(s), m))
  BY <1>3, <1>4, FS_Bijection DEF ExistsBijection
<1> QED
  BY <1>2, <1>5 DEF Count

\* The places of finitely many ports are finitely many.
LEMMA PlacesFinite ==
  ASSUME NEW P, IsFiniteSet(P), NEW cap \in Nat, NEW chan
  PROVE  IsFiniteSet(Places(chan, P, cap)) /\ Cardinality(Places(chan, P, cap)) \in Nat
<1>1. IsFiniteSet(P \X (1..cap))
  <2>1. IsFiniteSet(1..cap)
    BY FS_Interval
  <2> QED
    BY <2>1, FS_Product
<1>2. IsFiniteSet(Places(chan, P, cap))
  BY <1>1, FS_Subset DEF Places
<1> QED
  BY <1>2, FS_CardinalityType

\* One message more in the channel of p is one more place if p is counted.
LEMMA PlacesPut ==
  ASSUME NEW P, IsFiniteSet(P), NEW cap \in Nat, NEW chan,
         \A q \in P : chan[q] \in 0..cap, NEW p, chan[p] < cap,
         NEW after, after[p] = chan[p] + 1, \A q \in P \ {p} : after[q] = chan[q]
  PROVE  Cardinality(Places(after, P, cap)) =
           Cardinality(Places(chan, P, cap)) + (IF p \in P THEN 1 ELSE 0)
<1>1. IsFiniteSet(Places(chan, P, cap)) /\ Cardinality(Places(chan, P, cap)) \in Nat
  BY PlacesFinite
<1>2. CASE p \in P
  <2>1. Places(after, P, cap) = Places(chan, P, cap) \cup {<<p, chan[p] + 1>>}
    BY <1>2 DEF Places
  <2>2. <<p, chan[p] + 1>> \notin Places(chan, P, cap)
    BY DEF Places
  <2>3. Cardinality(Places(chan, P, cap) \cup {<<p, chan[p] + 1>>}) = Cardinality(Places(chan, P, cap)) + 1
    BY ONLY <1>1, <2>2, FS_AddElement
  <2> QED
    BY <1>2, <2>1, <2>3
<1>3. CASE p \notin P
  <2>1. Places(after, P, cap) = Places(chan, P, cap)
    BY <1>3 DEF Places
  <2> QED
    BY <1>1, <1>3, <2>1
<1> QED
  BY <1>2, <1>3

\* One message less in the channel of p is one place less if p is counted.
LEMMA PlacesGet ==
  ASSUME NEW P, IsFiniteSet(P), NEW cap \in Nat, NEW chan,
         \A q \in P : chan[q] \in 0..cap, NEW p, chan[p] > 0,
         NEW after, after[p] = chan[p] - 1, \A q \in P \ {p} : after[q] = chan[q]
  PROVE  Cardinality(Places(after, P, cap)) =
           Cardinality(Places(chan, P, cap)) - (IF p \in P THEN 1 ELSE 0)
<1>1. IsFiniteSet(Places(chan, P, cap)) /\ Cardinality(Places(chan, P, cap)) \in Nat
  BY PlacesFinite
<1>2. CASE p \in P
  <2>1. Places(after, P, cap) = Places(chan, P, cap) \ {<<p, chan[p]>>}
    BY <1>2 DEF Places
  <2>2. <<p, chan[p]>> \in Places(chan, P, cap)
    BY <1>2 DEF Places
  <2>3. Cardinality(Places(chan, P, cap) \ {<<p, chan[p]>>})
          = Cardinality(Places(chan, P, cap)) - 1
    BY <1>1, <2>2, FS_RemoveElement
  <2> QED
    BY <1>2, <2>1, <2>3
<1>3. CASE p \notin P
  <2>1. Places(after, P, cap) = Places(chan, P, cap)
    BY <1>3 DEF Places
  <2> QED
    BY <1>1, <1>3, <2>1
<1> QED
  BY <1>2, <1>3

\* A non-empty set of positions has a greatest one.
LEMMA GreatestIsIn ==
  ASSUME NEW n \in Nat, NEW S, S \subseteq 1..n, S # {}
  PROVE  Greatest(S) \in S /\ \A k \in S : k <= Greatest(S)
<1> DEFINE T == {n - j : j \in S}
<1>1. T \subseteq Nat /\ T # {}
  <2>1. PICK i \in S : TRUE
    OBVIOUS
  <2> QED
    BY <2>1
<1>2. PICK x \in T : \A y \in T : ~(<<y, x>> \in OpToRel(<, Nat))
  BY <1>1, WFMin, NatLessThanWellFounded
<1>3. \A y \in T : x <= y
  <2> HIDE DEF T
  <2>1. \A y \in T : ~(y < x)
    BY <1>1, <1>2, Zenon DEF OpToRel
  <2> QED
    BY <1>1, <2>1
<1>4. PICK j \in S : x = n - j
  BY <1>2
<1>5. \A k \in S : k <= j
  BY <1>3, <1>4
<1> QED
  BY <1>5 DEF Greatest

-----------------------------------------------------------------------------
(* Induction, and folds over the places of a sequence.                      *)

\* Induction over the naturals, by the set of those that have the property.
LEMMA Induction ==
  ASSUME NEW S, 0 \in S, \A k \in Nat : k \in S => k + 1 \in S
  PROVE  Nat \subseteq S
<1> SUFFICES ASSUME Nat \ S # {} PROVE FALSE
  OBVIOUS
<1> DEFINE T == Nat \ S
<1>1. PICK x \in T : \A y \in T : ~(<<y, x>> \in OpToRel(<, Nat))
  <2>1. T \subseteq Nat /\ T # {}
    OBVIOUS
  <2> QED
    BY ONLY <2>1, WFMin, NatLessThanWellFounded
<1>2. \A y \in T : ~(y < x)
  <2> HIDE DEF T
  <2>1. T \subseteq Nat
    BY DEF T
  <2> QED
    BY <1>1, <2>1, Zenon DEF OpToRel
<1>3. x # 0 /\ x - 1 \in Nat /\ x - 1 < x
  OBVIOUS
<1>4. x - 1 \in S
  BY <1>2, <1>3
<1>5. (x - 1) + 1 \in S
  BY <1>3, <1>4
<1> QED
  BY <1>5

\* The value g[s] is made from the greatest element of s and the value for the others.
Folds(g, n, V, base, step) ==
  /\ g[{}] = base
  /\ \A s \in (SUBSET (1..n)) \ {{}} : \A others \in {s \ {Greatest(s)}} :
       g[others] \in V => g[s] = step[<<Greatest(s), g[others]>>]

\* The greatest element of a set that has the greatest of them all.
LEMMA GreatestIsLast ==
  ASSUME NEW k \in Nat, NEW s \in SUBSET (1..(k + 1)), k + 1 \in s
  PROVE  Greatest(s) = k + 1 /\ s \ {k + 1} \in SUBSET (1..k)
<1>1. Greatest(s) \in s /\ \A j \in s : j <= Greatest(s)
  <2>1. k + 1 \in Nat /\ s \subseteq 1..(k + 1) /\ s # {}
    OBVIOUS
  <2> QED
    BY ONLY <2>1, GreatestIsIn
<1>2. Greatest(s) \in 1..(k + 1)
  BY <1>1
<1> QED
  BY <1>1, <1>2

\* There is such a g.
LEMMA FoldExists ==
  ASSUME NEW n \in Nat, NEW V, NEW base \in V, NEW step \in [(1..n) \X V -> V]
  PROVE  \E g \in [SUBSET (1..n) -> V] : Folds(g, n, V, base, step)
<1> DEFINE Good(k) == \E g \in [SUBSET (1..k) -> V] : Folds(g, k, V, base, step)
           S == {k \in Nat : k <= n => Good(k)}
<1>1. 0 \in S
  <2> DEFINE g == [s \in SUBSET (1..0) |-> base]
  <2>1. \A s \in SUBSET (1..0) : s = {}
    OBVIOUS
  <2>2. g \in [SUBSET (1..0) -> V] /\ g[{}] = base
    OBVIOUS
  <2>3. Folds(g, 0, V, base, step)
    BY <2>1, <2>2 DEF Folds
  <2> QED
    BY <2>2, <2>3
<1>2. ASSUME NEW k \in Nat, k \in S PROVE k + 1 \in S
  <2>a. SUFFICES ASSUME k + 1 <= n PROVE Good(k + 1)
    <3> HIDE DEF Good
    <3> QED
      BY <1>2
  <2>b. Good(k)
    <3> HIDE DEF Good
    <3> QED
      BY <1>2, <2>a
  <2>1. PICK f \in [SUBSET (1..k) -> V] : Folds(f, k, V, base, step)
    BY <2>b
  <2> DEFINE Value(s) == IF k + 1 \in s THEN step[<<k + 1, f[s \ {k + 1}]>>] ELSE f[s]
             g == [s \in SUBSET (1..(k + 1)) |-> Value(s)]
  <2>2. \A s \in SUBSET (1..(k + 1)) : k + 1 \notin s => s \in SUBSET (1..k)
    OBVIOUS
  <2>3. \A s \in SUBSET (1..(k + 1)) : Value(s) \in V
    <3> TAKE s \in SUBSET (1..(k + 1))
    <3>1. CASE k + 1 \in s
      <4>1. s \ {k + 1} \in SUBSET (1..k)
        BY <3>1
      <4>2. f[s \ {k + 1}] \in V
        BY <4>1
      <4>3. <<k + 1, f[s \ {k + 1}]>> \in (1..n) \X V
        BY <2>a, <4>2
      <4>4. step[<<k + 1, f[s \ {k + 1}]>>] \in V
        BY ONLY <4>3, step \in [(1..n) \X V -> V]
      <4> QED
        BY <3>1, <4>4
    <3>2. CASE k + 1 \notin s
      BY <2>2, <3>2
    <3> QED
      BY <3>1, <3>2
  <2>4. g \in [SUBSET (1..(k + 1)) -> V]
    BY <2>3
  <2>5. \A s \in SUBSET (1..k) : s \in SUBSET (1..(k + 1)) /\ k + 1 \notin s /\ g[s] = f[s]
    OBVIOUS
  <2>6. g[{}] = base
    BY <2>1, <2>5 DEF Folds
  <2>7. ASSUME NEW s \in SUBSET (1..(k + 1)), s # {}, NEW others, others = s \ {Greatest(s)}
        PROVE  g[s] = step[<<Greatest(s), g[others]>>]
    <3>1. CASE k + 1 \in s
      <4>1. Greatest(s) = k + 1 /\ others \in SUBSET (1..k)
        BY <2>7, <3>1, GreatestIsLast
      <4> QED
        BY <2>5, <2>7, <3>1, <4>1
    <3>2. CASE k + 1 \notin s
      <4>1. s \in SUBSET (1..k) /\ others \in SUBSET (1..k)
        BY <2>2, <2>7, <3>2
      <4>2. f[s] = step[<<Greatest(s), f[others]>>]
        <5>1. f[others] \in V
          BY <4>1
        <5> QED
          BY <2>1, <2>7, <4>1, <5>1 DEF Folds
      <4> QED
        BY <2>5, <4>1, <4>2
    <3> QED
      BY <3>1, <3>2
  <2>8. Folds(g, k + 1, V, base, step)
    <3> HIDE DEF g
    <3> QED
      BY <2>6, <2>7 DEF Folds
  <2> QED
    BY <2>4, <2>8
<1> HIDE DEF S
<1>3. Nat \subseteq S
  BY <1>1, <1>2, Induction
<1>4. Good(n)
  <2> HIDE DEF Good
  <2> QED
    BY <1>3 DEF S
<1> QED
  BY <1>4

\* There is one only, and what comes later in a sequence does not matter.
LEMMA FoldUnique ==
  ASSUME NEW n \in Nat, NEW m \in Nat, n <= m, NEW V, NEW base \in V,
         NEW step \in [(1..n) \X V -> V], NEW next,
         \A i \in 1..n, v \in V : next[<<i, v>>] = step[<<i, v>>],
         NEW f, Folds(f, n, V, base, step), NEW g, Folds(g, m, V, base, next)
  PROVE  \A s \in SUBSET (1..n) : f[s] = g[s] /\ f[s] \in V
<1> DEFINE Same(s) == f[s] = g[s] /\ f[s] \in V
           S == {k \in Nat : k <= n => \A s \in SUBSET (1..k) : Same(s)}
<1>1. 0 \in S
  <2>1. \A s \in SUBSET (1..0) : s = {}
    OBVIOUS
  <2> QED
    BY <2>1 DEF Folds
<1>2. ASSUME NEW k \in Nat, k \in S PROVE k + 1 \in S
  <2> SUFFICES ASSUME k + 1 <= n, NEW s \in SUBSET (1..(k + 1)) PROVE Same(s)
    OBVIOUS
  <2>0. \A o \in SUBSET (1..k) : Same(o)
    BY <1>2
  <2>1. CASE k + 1 \notin s
    <3>1. s \in SUBSET (1..k)
      BY <2>1
    <3> QED
      BY <2>0, <3>1
  <2>2. CASE k + 1 \in s
    <3>1. PICK o : o = s \ {k + 1}
      OBVIOUS
    <3>2. Greatest(s) = k + 1 /\ o \in SUBSET (1..k)
      BY <2>2, <3>1, GreatestIsLast
    <3>3. f[o] = g[o] /\ f[o] \in V
      BY <2>0, <3>2
    <3>4. s \in (SUBSET (1..n)) \ {{}} /\ s \in (SUBSET (1..m)) \ {{}}
      BY <2>2
    <3>5. f[s] = step[<<k + 1, f[o]>>] /\ g[s] = next[<<k + 1, g[o]>>]
      BY <3>1, <3>2, <3>3, <3>4 DEF Folds
    <3>6. k + 1 \in 1..n
      OBVIOUS
    <3> QED
      BY <3>3, <3>5, <3>6
  <2> QED
    BY <2>1, <2>2
<1> HIDE DEF S
<1>3. Nat \subseteq S
  BY <1>1, <1>2, Induction
<1>4. n \in S
  BY <1>3
<1> QED
  BY <1>4 DEF S

\* r is what a fold over n places comes to, with the values V.
IsFold(r, n, V, base, step) ==
  /\ base \in V /\ step \in [(1..n) \X V -> V]
  /\ \E g : Folds(g, n, V, base, step) /\ r = g[1..n]

\* The fold over no place.
LEMMA FoldEmpty ==
  ASSUME NEW V, NEW base, NEW step, NEW r, IsFold(r, 0, V, base, step)
  PROVE  r = base
<1>1. 1..0 = {}
  OBVIOUS
<1> QED
  BY <1>1 DEF IsFold, Folds

Agree(n, V, step, next) == \A i \in 1..n, v \in V : next[<<i, v>>] = step[<<i, v>>]

\* The fold over one place more.
LEMMA FoldLast ==
  ASSUME NEW n \in Nat, NEW V, NEW base, NEW step, NEW next, Agree(n, V, step, next),
         NEW r, IsFold(r, n, V, base, step), NEW q, IsFold(q, n + 1, V, base, next)
  PROVE  r \in V /\ q = next[<<n + 1, r>>]
<1>1. PICK f : Folds(f, n, V, base, step) /\ r = f[1..n]
  BY DEF IsFold
<1>2. PICK g : Folds(g, n + 1, V, base, next) /\ q = g[1..(n + 1)]
  BY DEF IsFold
<1>3. \A s \in SUBSET (1..n) : f[s] = g[s] /\ f[s] \in V
  <2>1. n + 1 \in Nat /\ n <= n + 1
    OBVIOUS
  <2>2. base \in V /\ step \in [(1..n) \X V -> V]
    BY DEF IsFold
  <2> QED
    BY <1>1, <1>2, <2>1, <2>2, FoldUnique DEF Agree
<1>4. f[1..n] = g[1..n] /\ f[1..n] \in V
  <2>1. 1..n \in SUBSET (1..n)
    OBVIOUS
  <2> QED
    BY <1>3, <2>1
<1>5. PICK s : s = 1..(n + 1)
  OBVIOUS
<1>6. s \in SUBSET (1..(n + 1)) /\ n + 1 \in s /\ s # {}
  <2>1. n + 1 \in 1..(n + 1)
    BY ONLY n \in Nat
  <2> QED
    BY ONLY <1>5, <2>1
<1>7. Greatest(s) = n + 1
  BY <1>6, GreatestIsLast
<1>8. s \ {n + 1} = 1..n
  BY <1>5
<1>9. \A o \in {s \ {Greatest(s)}} : o = 1..n /\ g[o] \in V
  BY <1>4, <1>7, <1>8
<1>10. s \in (SUBSET (1..(n + 1))) \ {{}}
  BY <1>6
<1>11. g[s] = next[<<n + 1, g[1..n]>>]
  BY <1>2, <1>7, <1>9, <1>10 DEF Folds
<1> QED
  BY <1>1, <1>2, <1>4, <1>5, <1>11
=============================================================================
