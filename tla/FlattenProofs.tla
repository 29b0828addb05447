--------------------------- MODULE FlattenProofs ---------------------------
(***************************************************************************)
(* Proofs about module Flatten, for every graph and every library of       *)
(* graphs, however deep they are and in whatever order their nodes are     *)
(* met: the graph that the vm sends has the agents, the flows between them *)
(* and the messages for them that the graphs together mean.                *)
(*                                                                         *)
(* The proof goes by the graphs that were met.  Of these the graph that is *)
(* built has all there is (Met), of their nodes the calls have what is not *)
(* met yet (Calls, Walked), and an edge is as far in as they go (Joined).  *)
(***************************************************************************)
EXTENDS FlattenProps, CountingProofs

-----------------------------------------------------------------------------
(* Repeated steps.                                                          *)

\* f is x, step[x], step[step[x]], ... up to its place n.
Goes(f, n, V, step, x) ==
  f \in [0..n -> V] /\ f[0] = x /\ \A k \in 1..n : f[k] = step[f[k - 1]]

\* Two of them are the same as far as they go.
LEMMA GoesOneWay ==
  ASSUME NEW V, NEW step, NEW x
  PROVE  \A n \in Nat : \A m, p \in Nat : \A f, g :
           n <= m /\ n <= p /\ Goes(f, m, V, step, x) /\ Goes(g, p, V, step, x) => f[n] = g[n]
<1> DEFINE AsFar(n) == \A m, p \in Nat : \A f, g :
             n <= m /\ n <= p /\ Goes(f, m, V, step, x) /\ Goes(g, p, V, step, x) => f[n] = g[n]
           S == {n \in Nat : AsFar(n)}
<1>1. AsFar(0)
  BY DEF Goes
<1>2. ASSUME NEW n \in Nat, AsFar(n)
      PROVE  AsFar(n + 1)
  <2> SUFFICES ASSUME NEW m \in Nat, NEW p \in Nat, NEW f, NEW g, n + 1 <= m, n + 1 <= p,
                      Goes(f, m, V, step, x), Goes(g, p, V, step, x)
               PROVE  f[n + 1] = g[n + 1]
    OBVIOUS
  <2>1. f[n] = g[n]
    BY <1>2
  <2>2. n + 1 \in 1..m /\ n + 1 \in 1..p /\ (n + 1) - 1 = n
    OBVIOUS
  <2> QED
    BY <2>1, <2>2 DEF Goes
<1>3. 0 \in S /\ \A n \in Nat : n \in S => n + 1 \in S
  BY <1>1, <1>2
<1>4. Nat \subseteq S
  <2> HIDE DEF S
  <2> QED
    BY <1>3, Induction
<1> QED
  BY <1>4

\* Repeat is the function that its definition says.
LEMMA RepeatIs ==
  ASSUME NEW V, NEW x \in V, NEW step \in [V -> V]
  PROVE  /\ Repeat(step, x)[0] = x
         /\ \A k \in Nat : /\ Repeat(step, x)[k] \in V
                           /\ Repeat(step, x)[k + 1] = step[Repeat(step, x)[k]]
<1> DEFINE G(f, n) == Goes(f, n, V, step, x)
           S == {n \in Nat : \E f : G(f, n)}
           Nth(n) == CHOOSE f : G(f, n)
           F == [k \in Nat |-> Nth(k)[k]]
           It(f) == f = [k \in Nat |-> IF k = 0 THEN x ELSE step[f[k - 1]]]
           R == CHOOSE f : It(f)
<1>1. 0 \in S
  <2>1. G([k \in 0..0 |-> x], 0)
    BY DEF Goes
  <2> QED
    BY <2>1
<1>2. ASSUME NEW n \in Nat, n \in S
      PROVE  n + 1 \in S
  <2>1. PICK f : G(f, n)
    BY <1>2
  <2> DEFINE h == [k \in 0..(n + 1) |-> IF k = n + 1 THEN step[f[n]] ELSE f[k]]
  <2>2. h \in [0..(n + 1) -> V]
    BY <2>1 DEF Goes
  <2>3. h[0] = x
    BY <2>1 DEF Goes
  <2>4. \A k \in 1..(n + 1) : h[k] = step[h[k - 1]]
    BY <2>1 DEF Goes
  <2>5. G(h, n + 1)
    BY <2>2, <2>3, <2>4 DEF Goes
  <2> QED
    BY <2>5
<1>3. \A n \in Nat : G(Nth(n), n)
  <2>1. Nat \subseteq S
    <3> HIDE DEF S
    <3> QED
      BY <1>1, <1>2, Induction
  <2>2. \A n \in Nat : \E f : G(f, n)
    BY <2>1
  <2> HIDE DEF G
  <2> QED
    BY <2>2
<1>4. F \in [Nat -> V] /\ F[0] = x
  <2>1. \A n \in Nat : Nth(n)[n] \in V
    <3> HIDE DEF Nth
    <3> QED
      BY <1>3 DEF Goes
  <2>2. Nth(0)[0] = x
    <3> HIDE DEF Nth
    <3> QED
      BY <1>3 DEF Goes
  <2> HIDE DEF Nth
  <2> QED
    BY <2>1, <2>2
<1>5. \A k \in Nat : F[k + 1] = step[F[k]]
  <2> TAKE k \in Nat
  <2>1. F[k] = Nth(k)[k] /\ F[k + 1] = Nth(k + 1)[k + 1]
    <3> HIDE DEF Nth
    <3> QED
      OBVIOUS
  <2> HIDE DEF Nth
  <2>2. G(Nth(k), k) /\ G(Nth(k + 1), k + 1)
    BY <1>3
  <2>3. Nth(k + 1)[k] = Nth(k)[k]
    BY <2>2, GoesOneWay
  <2>4. Nth(k + 1)[k + 1] = step[Nth(k + 1)[k]]
    <3>1. k + 1 \in 1..(k + 1) /\ (k + 1) - 1 = k
      OBVIOUS
    <3> QED
      BY <2>2, <3>1 DEF Goes
  <2> QED
    BY <2>1, <2>3, <2>4
<1>6. It(F)
  <2> HIDE DEF F
  <2>1. \A k \in Nat : F[k] = IF k = 0 THEN x ELSE step[F[k - 1]]
    <3> TAKE k \in Nat
    <3>1. CASE k = 0
      BY <1>4, <3>1
    <3>2. CASE k # 0
      <4>1. k - 1 \in Nat /\ (k - 1) + 1 = k
        BY <3>2
      <4> QED
        BY <1>5, <3>2, <4>1
    <3> QED
      BY <3>1, <3>2
  <2> QED
    BY <1>4, <2>1
<1>7. It(R)
  <2> HIDE DEF It, F
  <2> QED
    BY <1>6
<1>8. Repeat(step, x) = R
  BY DEF Repeat
<1>9. R[0] = x /\ \A k \in Nat : R[k + 1] = step[R[k]]
  <2> HIDE DEF R
  <2>1. \A k \in Nat : R[k] = IF k = 0 THEN x ELSE step[R[k - 1]]
    BY <1>7
  <2> QED
    BY <2>1
<1>10. \A k \in Nat : R[k] \in V
  <2> DEFINE T == {k \in Nat : R[k] \in V}
  <2>1. 0 \in T /\ \A k \in Nat : k \in T => k + 1 \in T
    <3> HIDE DEF R
    <3> QED
      BY <1>9
  <2>2. Nat \subseteq T
    <3> HIDE DEF T
    <3> QED
      BY <2>1, Induction
  <2> QED
    BY <2>2
<1> QED
  BY <1>8, <1>9, <1>10

-----------------------------------------------------------------------------
(* The places below a graph.                                                *)

\* The elements of a sequence.
LEMMA ToSetIs ==
  ASSUME NEW T, NEW s \in Seq(T)
  PROVE  /\ DOMAIN s = 1..Len(s) /\ Len(s) \in Nat
         /\ \A i \in 1..Len(s) : s[i] \in T /\ s[i] \in ToSet(s)
         /\ \A x \in ToSet(s) : x \in T /\ \E i \in 1..Len(s) : x = s[i]
BY DEF ToSet

\* A name and one more.
LEMMA AppendIs ==
  ASSUME NEW T, NEW s \in Seq(T), NEW a \in T
  PROVE  Append(s, a) \in Seq(T) /\ Len(Append(s, a)) = Len(s) + 1
OBVIOUS

\* A name and what it begins with are told apart.
LEMMA AppendSplits ==
  ASSUME NEW T, NEW s \in Seq(T), NEW t \in Seq(T), NEW a \in T, NEW b \in T,
         Append(s, a) = Append(t, b)
  PROVE  s = t /\ a = b
<1>1. Len(s) + 1 = Len(t) + 1 /\ Len(s) \in Nat /\ Len(t) \in Nat
  <2>1. Len(Append(s, a)) = Len(s) + 1 /\ Len(Append(t, b)) = Len(t) + 1
    OBVIOUS
  <2> QED
    BY <2>1
<1>2. Len(s) = Len(t)
  BY <1>1
<1>3. \A i \in 1..Len(s) : s[i] = t[i]
  <2> TAKE i \in 1..Len(s)
  <2>1. Append(s, a)[i] = s[i] /\ Append(t, b)[i] = t[i]
    BY <1>2
  <2> QED
    BY <2>1
<1>4. a = b
  <2>1. Append(s, a)[Len(s) + 1] = a /\ Append(t, b)[Len(t) + 1] = b
    OBVIOUS
  <2> QED
    BY <1>2, <2>1
<1> QED
  BY <1>2, <1>3, <1>4

\* The graphs of a library are read from files that passed the check.
LEMMA GraphsClear ==
  ASSUME NEW l \in Libraries, NEW x, IsGraph(l, x)
  PROVE  IsClear(GraphOf(l, x))
BY GraphsAssumption DEF IsGraph, GraphOf

\* The nodes of a graph are places.
LEMMA NodesArePlaces ==
  ASSUME NEW l \in Libraries, NEW x \in Place, IsGraph(l, x)
  PROVE  NodesOf(l, x) \subseteq Place
<1>1. GraphOf(l, x) \in CoreGraph
  BY GraphsClear DEF IsClear
<1>2. \A n \in ToSet(GraphOf(l, x).nodes) : n.name \in STRING /\ n.sort \in STRING
  <2> DEFINE T == [name : STRING, sort : STRING]
             ns == GraphOf(l, x).nodes
  <2>1. ns \in Seq(T)
    BY <1>1 DEF CoreGraph
  <2>2. \A n \in ToSet(ns) : n \in T
    <3> HIDE DEF T, ns
    <3> QED
      BY <2>1, ToSetIs
  <2> QED
    BY <2>2
<1>3. x.name \in Seq(STRING)
  BY DEF Place
<1>4. \A n \in STRING : Append(x.name, n) \in Seq(STRING)
  BY <1>3
<1> QED
  BY <1>2, <1>4 DEF NodesOf, Place

\* Levels are sets of places, and where each comes from.
LEMMA LevelIs ==
  ASSUME NEW l \in Libraries
  PROVE  /\ Level(l)[0] = {Root}
         /\ \A k \in Nat :
              /\ Level(l)[k] \in SUBSET Place
              /\ Level(l)[k + 1] = UNION {NodesOf(l, x) : x \in {y \in Level(l)[k] : IsGraph(l, y)}}
<1> DEFINE V == SUBSET Place
           step == Deeper(l)
           base == {Root}
           It(xs) == UNION {NodesOf(l, x) : x \in {y \in xs : IsGraph(l, y)}}
<1>1. step \in [V -> V]
  <2>1. \A xs \in V : It(xs) \in V
    BY NodesArePlaces
  <2> HIDE DEF It
  <2>2. step = [xs \in V |-> It(xs)]
    BY DEF Deeper, It
  <2> HIDE DEF step, V
  <2> QED
    BY <2>1, <2>2
<1>2. base \in V
  <2>1. <<>> \in Seq(STRING)
    OBVIOUS
  <2>2. Top.path \in STRING
    BY GraphsAssumption DEF IsClear, CoreGraph
  <2>3. Root \in Place
    BY <2>1, <2>2 DEF Root, Place
  <2> QED
    BY <2>3
<1>3. /\ Repeat(step, base)[0] = base
      /\ \A k \in Nat : /\ Repeat(step, base)[k] \in V
                        /\ Repeat(step, base)[k + 1] = step[Repeat(step, base)[k]]
  <2> HIDE DEF step, base, V
  <2> QED
    BY <1>1, <1>2, RepeatIs
<1>4. \A xs \in V : step[xs] = It(xs)
  <2> HIDE DEF It
  <2> QED
    BY DEF It, Deeper
<1>5. Level(l) = Repeat(step, base)
  BY DEF Level
<1> HIDE DEF step, base
<1> QED
  BY <1>3, <1>4, <1>5 DEF base

\* A place k levels deep has k names.
LEMMA LevelLen ==
  ASSUME NEW l \in Libraries
  PROVE  \A k \in Nat : \A x \in Level(l)[k] : Len(x.name) = k
<1> DEFINE S == {k \in Nat : \A x \in Level(l)[k] : Len(x.name) = k}
<1>1. 0 \in S
  BY LevelIs DEF Root
<1>2. ASSUME NEW k \in Nat, k \in S
      PROVE  k + 1 \in S
  <2> SUFFICES ASSUME NEW x \in Level(l)[k + 1]
               PROVE  Len(x.name) = k + 1
    OBVIOUS
  <2>1. PICK y \in Level(l)[k] : IsGraph(l, y) /\ x \in NodesOf(l, y)
    BY LevelIs
  <2>2. y \in Place /\ Len(y.name) = k
    BY <1>2, LevelIs
  <2>3. PICK n \in ToSet(GraphOf(l, y).nodes) : x.name = Append(y.name, n.name)
    BY <2>1 DEF NodesOf
  <2>4. y.name \in Seq(STRING)
    BY <2>2 DEF Place
  <2> QED
    BY <2>2, <2>3, <2>4
<1>3. Nat \subseteq S
  <2> HIDE DEF S
  <2> QED
    BY <1>1, <1>2, Induction
<1> QED
  BY <1>3

\* Places below the graph, and the nodes of those that are graphs.
LEMMA BelowGoesOn ==
  ASSUME NEW l \in Libraries
  PROVE  /\ Below(l) \subseteq Place /\ Root \in GraphsBelow(l)
         /\ \A x \in GraphsBelow(l) : NodesOf(l, x) \subseteq Below(l)
         /\ \A x \in GraphsBelow(l) : Len(x.name) < Depth
<1>1. Depth \in Nat /\ \A x \in Level(l)[Depth] : ~IsGraph(l, x)
  BY DepthAssumption
<1>2. Below(l) \subseteq Place
  <2>1. \A k \in 0..Depth : Level(l)[k] \subseteq Place
    BY <1>1, LevelIs
  <2> QED
    BY <2>1 DEF Below
<1>3. Root \in GraphsBelow(l)
  <2>1. 0 \in 0..Depth
    BY <1>1
  <2>2. Root \in Level(l)[0]
    BY LevelIs
  <2> QED
    BY <2>1, <2>2 DEF Below, GraphsBelow, IsGraph
<1>4. ASSUME NEW x \in GraphsBelow(l)
      PROVE  NodesOf(l, x) \subseteq Below(l) /\ Len(x.name) < Depth
  <2>1. PICK k \in 0..Depth : x \in Level(l)[k]
    BY DEF GraphsBelow, Below
  <2>2. k \in Nat /\ k # Depth /\ IsGraph(l, x)
    BY <1>1, <2>1 DEF GraphsBelow
  <2>3. k + 1 \in 0..Depth /\ k < Depth
    BY <1>1, <2>1, <2>2
  <2>4. NodesOf(l, x) \subseteq Level(l)[k + 1]
    BY <2>1, <2>2, LevelIs
  <2> QED
    BY <2>1, <2>2, <2>3, <2>4, LevelLen DEF Below
<1> QED
  BY <1>2, <1>3, <1>4

\* The name of a place says which place it is.
LEMMA NamedOnce ==
  ASSUME NEW l \in Libraries
  PROVE  \A x, y \in Below(l) : x.name = y.name => x = y
<1> DEFINE S == {k \in Nat : \A x, y \in Level(l)[k] : x.name = y.name => x = y}
<1>1. 0 \in S
  BY LevelIs
<1>2. ASSUME NEW k \in Nat, k \in S
      PROVE  k + 1 \in S
  <2> SUFFICES ASSUME NEW x \in Level(l)[k + 1], NEW y \in Level(l)[k + 1], x.name = y.name
               PROVE  x = y
    OBVIOUS
  <2>1. PICK u \in Level(l)[k] : IsGraph(l, u) /\ x \in NodesOf(l, u)
    BY LevelIs
  <2>2. PICK v \in Level(l)[k] : IsGraph(l, v) /\ y \in NodesOf(l, v)
    BY LevelIs
  <2>3. u.name \in Seq(STRING) /\ v.name \in Seq(STRING)
    BY LevelIs DEF Place
  <2> DEFINE ns(w) == GraphOf(l, w).nodes
  <2>4. PICK i \in DOMAIN ns(u) : x = [name |-> Append(u.name, ns(u)[i].name), sort |-> ns(u)[i].sort]
    BY <2>1 DEF NodesOf, ToSet
  <2>5. PICK j \in DOMAIN ns(v) : y = [name |-> Append(v.name, ns(v)[j].name), sort |-> ns(v)[j].sort]
    BY <2>2 DEF NodesOf, ToSet
  <2>6. IsClear(GraphOf(l, u)) /\ IsClear(GraphOf(l, v))
    BY <2>1, <2>2, GraphsClear
  <2>7. ns(u)[i].name \in STRING /\ ns(v)[j].name \in STRING
    <3> DEFINE T == [name : STRING, sort : STRING]
    <3>1. ns(u) \in Seq(T) /\ ns(v) \in Seq(T)
      BY <2>6 DEF IsClear, CoreGraph
    <3>2. ns(u)[i] \in T /\ ns(v)[j] \in T
      <4> HIDE DEF ns, T
      <4> QED
        BY <3>1, ToSetIs
    <3> QED
      BY <3>2
  <2>8. Append(u.name, ns(u)[i].name) = Append(v.name, ns(v)[j].name)
    BY <2>4, <2>5
  <2>9. u.name = v.name /\ ns(u)[i].name = ns(v)[j].name
    <3> HIDE DEF ns
    <3> QED
      BY ONLY <2>3, <2>7, <2>8, AppendSplits
  <2>10. u = v
    BY <1>2, <2>9
  <2>11. i = j
    BY <2>6, <2>9, <2>10 DEF IsClear
  <2> QED
    BY <2>4, <2>5, <2>10, <2>11
<1>3. Nat \subseteq S
  <2> HIDE DEF S
  <2> QED
    BY <1>1, <1>2, Induction
<1> SUFFICES ASSUME NEW x \in Below(l), NEW y \in Below(l), x.name = y.name
             PROVE  x = y
  OBVIOUS
<1>4. PICK k \in 0..Depth : x \in Level(l)[k]
  BY DEF Below
<1>5. PICK m \in 0..Depth : y \in Level(l)[m]
  BY DEF Below
<1>6. k \in Nat /\ m \in Nat
  BY DepthAssumption
<1>7. k = m
  BY <1>4, <1>5, <1>6, LevelLen
<1> QED
  BY <1>3, <1>4, <1>5, <1>6, <1>7

\* What has the first graph and, with a graph, its nodes, has all that is below.
LEMMA ClosedIsAll ==
  ASSUME NEW l \in Libraries, NEW W, Root \in W,
         \A x \in W : IsGraph(l, x) => NodesOf(l, x) \subseteq W
  PROVE  Below(l) \subseteq W
<1> DEFINE S == {k \in Nat : Level(l)[k] \subseteq W}
<1>1. 0 \in S
  BY LevelIs
<1>2. ASSUME NEW k \in Nat, k \in S
      PROVE  k + 1 \in S
  BY <1>2, LevelIs
<1>3. Nat \subseteq S
  <2> HIDE DEF S
  <2> QED
    BY <1>1, <1>2, Induction
<1>4. \A k \in 0..Depth : Level(l)[k] \subseteq W
  BY <1>3, DepthAssumption
<1> QED
  BY <1>4 DEF Below

-----------------------------------------------------------------------------
(* Ports, and what they stand for.                                          *)

\* Repeating a step from where it leads is repeating it once more.
LEMMA RepeatShift ==
  ASSUME NEW V, NEW step \in [V -> V], NEW x \in V
  PROVE  \A k \in Nat : Repeat(step, step[x])[k] = Repeat(step, x)[k + 1]
<1> DEFINE f == Repeat(step, x)
           g == Repeat(step, step[x])
           S == {k \in Nat : g[k] = f[k + 1]}
<1>1. /\ f[0] = x
      /\ \A k \in Nat : f[k] \in V /\ f[k + 1] = step[f[k]]
  <2> HIDE DEF f
  <2> QED
    BY RepeatIs DEF f
<1>2. /\ g[0] = step[x]
      /\ \A k \in Nat : g[k] \in V /\ g[k + 1] = step[g[k]]
  <2>1. step[x] \in V
    OBVIOUS
  <2> QED
    BY <2>1, RepeatIs
<1> HIDE DEF f, g
<1>3. 0 \in S
  BY <1>1, <1>2
<1>4. ASSUME NEW k \in Nat, k \in S
      PROVE  k + 1 \in S
  <2>1. g[k] = f[k + 1]
    BY <1>4
  <2>2. f[(k + 1) + 1] = step[f[k + 1]]
    BY <1>1
  <2> QED
    BY <1>2, <2>1, <2>2
<1>5. Nat \subseteq S
  <2> HIDE DEF S
  <2> QED
    BY <1>3, <1>4, Induction
<1> QED
  BY <1>5 DEF f, g

\* A step that leads nowhere leads nowhere however often it is taken.
LEMMA RepeatStays ==
  ASSUME NEW V, NEW step \in [V -> V], NEW x \in V, step[x] = x
  PROVE  \A k \in Nat : Repeat(step, x)[k] = x
<1> DEFINE f == Repeat(step, x)
           S == {k \in Nat : f[k] = x}
<1>1. f[0] = x /\ \A k \in Nat : f[k + 1] = step[f[k]]
  BY RepeatIs
<1> HIDE DEF f
<1>2. 0 \in S /\ \A k \in Nat : k \in S => k + 1 \in S
  BY <1>1
<1>3. Nat \subseteq S
  <2> HIDE DEF S
  <2> QED
    BY <1>2, Induction
<1> QED
  BY <1>3 DEF f

\* A step stays where it is, or goes from a graph to a node of it.
Deepens(l, step) ==
  /\ step \in [End -> End]
  /\ \A end \in End :
       \/ step[end] = end
       \/ /\ Len(step[end].comp) = Len(end.comp) + 1
          /\ \E x \in GraphsBelow(l) : x.name = end.comp

\* Such steps come to an end, as graphs are not deeper than Depth.
LEMMA DeepensStops ==
  ASSUME NEW l \in Libraries, NEW step, Deepens(l, step), NEW end \in End
  PROVE  step[Repeat(step, end)[Depth]] = Repeat(step, end)[Depth]
<1> DEFINE f == Repeat(step, end)
           S == {k \in Nat : step[f[k]] = f[k] \/ Len(f[k].comp) >= k}
<1>1. f[0] = end /\ \A k \in Nat : f[k] \in End /\ f[k + 1] = step[f[k]]
  BY RepeatIs DEF Deepens
<1> HIDE DEF f
<1>2. \A k \in Nat : Len(f[k].comp) \in Nat
  <2>1. \A e \in End : e.comp \in Seq(STRING)
    BY DEF End
  <2> QED
    BY <1>1, <2>1
<1>3. 0 \in S
  BY <1>2
<1>4. ASSUME NEW k \in Nat, k \in S
      PROVE  k + 1 \in S
  <2>1. CASE step[f[k]] = f[k]
    BY <1>1, <2>1
  <2>2. CASE step[f[k]] # f[k]
    <3>1. Len(f[k + 1].comp) = Len(f[k].comp) + 1
      BY <1>1, <2>2 DEF Deepens
    <3>2. Len(f[k].comp) >= k
      BY <1>4, <2>2
    <3>3. Len(f[k + 1].comp) >= k + 1
      BY <1>2, <3>1, <3>2
    <3> QED
      BY <3>3
  <2> QED
    BY <2>1, <2>2
<1>5. Nat \subseteq S
  <2> HIDE DEF S
  <2> QED
    BY <1>3, <1>4, Induction
<1>6. Depth \in Nat
  BY DepthAssumption
<1>7. step[f[Depth]] = f[Depth]
  <2> SUFFICES ASSUME step[f[Depth]] # f[Depth] PROVE FALSE
    OBVIOUS
  <2>1. PICK x \in GraphsBelow(l) : x.name = f[Depth].comp
    BY <1>1, <1>6 DEF Deepens
  <2>2. Len(x.name) >= Depth
    BY <1>5, <1>6, <2>1
  <2>3. Len(x.name) < Depth
    BY BelowGoesOn
  <2>4. Len(x.name) \in Nat
    BY <1>2, <1>6, <2>1
  <2> QED
    BY <1>6, <2>2, <2>3, <2>4
<1> QED
  BY <1>7 DEF f

\* A step changes nothing of where the steps end.
LEMMA DeepensKeeps ==
  ASSUME NEW l \in Libraries, NEW step, Deepens(l, step), NEW end \in End
  PROVE  /\ Repeat(step, step[end])[Depth] = Repeat(step, end)[Depth]
         /\ step[end] = end => Repeat(step, end)[Depth] = end
<1>1. step \in [End -> End] /\ Depth \in Nat
  BY DepthAssumption DEF Deepens
<1>2. Repeat(step, step[end])[Depth] = Repeat(step, end)[Depth + 1]
  BY <1>1, RepeatShift
<1>3. Repeat(step, end)[Depth + 1] = step[Repeat(step, end)[Depth]]
  BY <1>1, RepeatIs
<1>4. step[end] = end => Repeat(step, end)[Depth] = end
  BY <1>1, RepeatStays
<1> QED
  BY <1>2, <1>3, <1>4, DeepensStops

\* The names in the external ports of a graph.
LEMMA PortsAre ==
  ASSUME NEW l \in Libraries, NEW x, IsGraph(l, x)
  PROVE  /\ \A p \in ToSet(GraphOf(l, x).ext_in) :
              p.in_comp \in STRING /\ p.in_port \in STRING /\ p.port \in STRING
         /\ \A p \in ToSet(GraphOf(l, x).ext_out) :
              p.out_comp \in STRING /\ p.out_port \in STRING /\ p.port \in STRING
<1> DEFINE I == [port : STRING, in_port : STRING, in_elem : STRING, in_comp : STRING]
           O == [port : STRING, out_port : STRING, out_elem : STRING, out_comp : STRING]
           is == GraphOf(l, x).ext_in
           os == GraphOf(l, x).ext_out
<1>1. is \in Seq(I) /\ os \in Seq(O)
  <2>1. GraphOf(l, x) \in CoreGraph
    BY GraphsClear DEF IsClear
  <2> QED
    BY <2>1 DEF CoreGraph
<1>2. (\A p \in ToSet(is) : p \in I) /\ (\A p \in ToSet(os) : p \in O)
  <2> HIDE DEF I, O, is, os
  <2> QED
    BY <1>1, ToSetIs
<1> QED
  BY <1>2

\* What the inputs of a subgraph stand for.
LEMMA InputsAre ==
  ASSUME NEW l \in Libraries, NEW end \in End
  PROVE  \A e \in Inputs(l, end) :
           /\ e \in End /\ Len(e.comp) = Len(end.comp) + 1
           /\ \E x \in GraphsBelow(l) : x.name = end.comp
<1> SUFFICES ASSUME NEW e \in Inputs(l, end)
             PROVE  /\ e \in End /\ Len(e.comp) = Len(end.comp) + 1
                    /\ \E x \in GraphsBelow(l) : x.name = end.comp
  OBVIOUS
<1>1. PICK x \in GraphsBelow(l) : x.name = end.comp
        /\ \E p \in ToSet(GraphOf(l, x).ext_in) : e = [comp |-> Append(x.name, p.in_comp), port |-> p.in_port]
  BY DEF Inputs
<1>2. PICK p \in ToSet(GraphOf(l, x).ext_in) : e = [comp |-> Append(x.name, p.in_comp), port |-> p.in_port]
  BY <1>1
<1>3. p.in_comp \in STRING /\ p.in_port \in STRING
  BY <1>1, <1>2, PortsAre DEF GraphsBelow
<1>4. x.name \in Seq(STRING)
  BY BelowGoesOn DEF GraphsBelow, Place
<1>5. Append(x.name, p.in_comp) \in Seq(STRING) /\ Len(Append(x.name, p.in_comp)) = Len(x.name) + 1
  BY <1>3, <1>4
<1> QED
  BY <1>1, <1>2, <1>3, <1>5 DEF End

\* Enter goes one graph deeper, or nowhere.
LEMMA EnterDeepens ==
  ASSUME NEW l \in Libraries
  PROVE  Deepens(l, Enter(l))
<1> DEFINE It(end) == Through(Inputs(l, end), end)
<1>1. \A end \in End : It(end) = end \/ It(end) \in Inputs(l, end)
  BY DEF Through
<1>2. \A end \in End :
        /\ It(end) \in End
        /\ \/ It(end) = end
           \/ /\ Len(It(end).comp) = Len(end.comp) + 1
              /\ \E x \in GraphsBelow(l) : x.name = end.comp
  <2> HIDE DEF It
  <2> QED
    BY <1>1, InputsAre
<1>3. Enter(l) = [end \in End |-> It(end)]
  BY DEF Enter
<1> HIDE DEF It
<1> QED
  BY <1>2, <1>3 DEF Deepens

\* The port of a subgraph goes to the node that the graph says, which is one.
LEMMA EnterGoes ==
  ASSUME NEW l \in Libraries, NEW x \in GraphsBelow(l),
         NEW i \in DOMAIN GraphOf(l, x).ext_in, NEW end \in End,
         end = [comp |-> x.name, port |-> GraphOf(l, x).ext_in[i].port]
  PROVE  Enter(l)[end] = [comp |-> Append(x.name, GraphOf(l, x).ext_in[i].in_comp),
                          port |-> GraphOf(l, x).ext_in[i].in_port]
<1> DEFINE ps == GraphOf(l, x).ext_in
           to == [comp |-> Append(x.name, ps[i].in_comp), port |-> ps[i].in_port]
<1>1. IsGraph(l, x) /\ x \in Below(l)
  BY DEF GraphsBelow
<1>2. \A j \in DOMAIN ps : ps[j].port = ps[i].port => j = i
  BY <1>1, GraphsClear DEF IsClear
<1>3. ps[i] \in ToSet(ps)
  BY DEF ToSet
<1>4. to \in Inputs(l, end)
  <2> DEFINE Of(y) == {[comp |-> Append(y.name, p.in_comp), port |-> p.in_port] :
                        p \in {q \in ToSet(GraphOf(l, y).ext_in) : q.port = end.port}}
             ys == {y \in GraphsBelow(l) : y.name = end.comp}
  <2>1. x \in ys
    OBVIOUS
  <2>2. ps[i] \in {q \in ToSet(ps) : q.port = end.port}
    BY <1>3
  <2>3. to \in Of(x)
    BY <2>2
  <2>4. Inputs(l, end) = UNION {Of(y) : y \in ys}
    BY DEF Inputs
  <2> HIDE DEF Of, ys, to
  <2> QED
    BY <2>1, <2>3, <2>4
<1>5. ASSUME NEW e \in Inputs(l, end)
      PROVE  e = to
  <2>1. PICK y \in GraphsBelow(l) : y.name = end.comp
          /\ \E p \in ToSet(GraphOf(l, y).ext_in) : p.port = end.port
                /\ e = [comp |-> Append(y.name, p.in_comp), port |-> p.in_port]
    BY DEF Inputs
  <2>2. y = x
    <3>1. y \in Below(l) /\ y.name = x.name
      BY <2>1 DEF GraphsBelow
    <3> QED
      BY <1>1, <3>1, NamedOnce
  <2>3. PICK p \in ToSet(ps) : p.port = end.port
          /\ e = [comp |-> Append(x.name, p.in_comp), port |-> p.in_port]
    BY <2>1, <2>2
  <2>4. PICK j \in DOMAIN ps : p = ps[j]
    BY <2>3 DEF ToSet
  <2>5. j = i
    BY <1>2, <2>3, <2>4
  <2> QED
    BY <2>3, <2>4, <2>5
<1>6. Inputs(l, end) = {to}
  <2> HIDE DEF to
  <2> QED
    BY <1>4, <1>5
<1>7. Enter(l)[end] = Through(Inputs(l, end), end)
  BY DEF Enter
<1>8. Through({to}, end) = to
  <2> HIDE DEF to
  <2> QED
    BY DEF Through
<1> QED
  BY <1>6, <1>7, <1>8

\* Any other port stays.
LEMMA EnterStays ==
  ASSUME NEW l \in Libraries, NEW end \in End,
         \A x \in GraphsBelow(l) : x.name = end.comp =>
           \A p \in ToSet(GraphOf(l, x).ext_in) : p.port # end.port
  PROVE  Enter(l)[end] = end
<1>1. Inputs(l, end) = {}
  BY DEF Inputs
<1>2. Enter(l)[end] = Through(Inputs(l, end), end)
  BY DEF Enter
<1> QED
  BY <1>1, <1>2 DEF Through

\* What the outputs of a subgraph stand for.
LEMMA OutputsAre ==
  ASSUME NEW l \in Libraries, NEW end \in End
  PROVE  \A e \in Outputs(l, end) :
           /\ e \in End /\ Len(e.comp) = Len(end.comp) + 1
           /\ \E x \in GraphsBelow(l) : x.name = end.comp
<1> SUFFICES ASSUME NEW e \in Outputs(l, end)
             PROVE  /\ e \in End /\ Len(e.comp) = Len(end.comp) + 1
                    /\ \E x \in GraphsBelow(l) : x.name = end.comp
  OBVIOUS
<1>1. PICK x \in GraphsBelow(l) : x.name = end.comp
        /\ \E p \in ToSet(GraphOf(l, x).ext_out) : e = [comp |-> Append(x.name, p.out_comp), port |-> p.out_port]
  BY DEF Outputs
<1>2. PICK p \in ToSet(GraphOf(l, x).ext_out) : e = [comp |-> Append(x.name, p.out_comp), port |-> p.out_port]
  BY <1>1
<1>3. p.out_comp \in STRING /\ p.out_port \in STRING
  BY <1>1, <1>2, PortsAre DEF GraphsBelow
<1>4. x.name \in Seq(STRING)
  BY BelowGoesOn DEF GraphsBelow, Place
<1>5. Append(x.name, p.out_comp) \in Seq(STRING) /\ Len(Append(x.name, p.out_comp)) = Len(x.name) + 1
  BY <1>3, <1>4
<1> QED
  BY <1>1, <1>2, <1>3, <1>5 DEF End

\* Leave goes one graph deeper, or nowhere.
LEMMA LeaveDeepens ==
  ASSUME NEW l \in Libraries
  PROVE  Deepens(l, Leave(l))
<1> DEFINE It(end) == Through(Outputs(l, end), end)
<1>1. \A end \in End : It(end) = end \/ It(end) \in Outputs(l, end)
  BY DEF Through
<1>2. \A end \in End :
        /\ It(end) \in End
        /\ \/ It(end) = end
           \/ /\ Len(It(end).comp) = Len(end.comp) + 1
              /\ \E x \in GraphsBelow(l) : x.name = end.comp
  <2> HIDE DEF It
  <2> QED
    BY <1>1, OutputsAre
<1>3. Leave(l) = [end \in End |-> It(end)]
  BY DEF Leave
<1> HIDE DEF It
<1> QED
  BY <1>2, <1>3 DEF Deepens

\* The port of a subgraph goes to the node that the graph says, which is one.
LEMMA LeaveGoes ==
  ASSUME NEW l \in Libraries, NEW x \in GraphsBelow(l),
         NEW i \in DOMAIN GraphOf(l, x).ext_out, NEW end \in End,
         end = [comp |-> x.name, port |-> GraphOf(l, x).ext_out[i].port]
  PROVE  Leave(l)[end] = [comp |-> Append(x.name, GraphOf(l, x).ext_out[i].out_comp),
                          port |-> GraphOf(l, x).ext_out[i].out_port]
<1> DEFINE ps == GraphOf(l, x).ext_out
           to == [comp |-> Append(x.name, ps[i].out_comp), port |-> ps[i].out_port]
<1>1. IsGraph(l, x) /\ x \in Below(l)
  BY DEF GraphsBelow
<1>2. \A j \in DOMAIN ps : ps[j].port = ps[i].port => j = i
  BY <1>1, GraphsClear DEF IsClear
<1>3. ps[i] \in ToSet(ps)
  BY DEF ToSet
<1>4. to \in Outputs(l, end)
  <2> DEFINE Of(y) == {[comp |-> Append(y.name, p.out_comp), port |-> p.out_port] :
                        p \in {q \in ToSet(GraphOf(l, y).ext_out) : q.port = end.port}}
             ys == {y \in GraphsBelow(l) : y.name = end.comp}
  <2>1. x \in ys
    OBVIOUS
  <2>2. ps[i] \in {q \in ToSet(ps) : q.port = end.port}
    BY <1>3
  <2>3. to \in Of(x)
    BY <2>2
  <2>4. Outputs(l, end) = UNION {Of(y) : y \in ys}
    BY DEF Outputs
  <2> HIDE DEF Of, ys, to
  <2> QED
    BY <2>1, <2>3, <2>4
<1>5. ASSUME NEW e \in Outputs(l, end)
      PROVE  e = to
  <2>1. PICK y \in GraphsBelow(l) : y.name = end.comp
          /\ \E p \in ToSet(GraphOf(l, y).ext_out) : p.port = end.port
                /\ e = [comp |-> Append(y.name, p.out_comp), port |-> p.out_port]
    BY DEF Outputs
  <2>2. y = x
    <3>1. y \in Below(l) /\ y.name = x.name
      BY <2>1 DEF GraphsBelow
    <3> QED
      BY <1>1, <3>1, NamedOnce
  <2>3. PICK p \in ToSet(ps) : p.port = end.port
          /\ e = [comp |-> Append(x.name, p.out_comp), port |-> p.out_port]
    BY <2>1, <2>2
  <2>4. PICK j \in DOMAIN ps : p = ps[j]
    BY <2>3 DEF ToSet
  <2>5. j = i
    BY <1>2, <2>3, <2>4
  <2> QED
    BY <2>3, <2>4, <2>5
<1>6. Outputs(l, end) = {to}
  <2> HIDE DEF to
  <2> QED
    BY <1>4, <1>5
<1>7. Leave(l)[end] = Through(Outputs(l, end), end)
  BY DEF Leave
<1>8. Through({to}, end) = to
  <2> HIDE DEF to
  <2> QED
    BY DEF Through
<1> QED
  BY <1>6, <1>7, <1>8

\* Any other port stays.
LEMMA LeaveStays ==
  ASSUME NEW l \in Libraries, NEW end \in End,
         \A x \in GraphsBelow(l) : x.name = end.comp =>
           \A p \in ToSet(GraphOf(l, x).ext_out) : p.port # end.port
  PROVE  Leave(l)[end] = end
<1>1. Outputs(l, end) = {}
  BY DEF Outputs
<1>2. Leave(l)[end] = Through(Outputs(l, end), end)
  BY DEF Leave
<1> QED
  BY <1>1, <1>2 DEF Through

\* The port inside stands for the same port of an agent.
LEMMA InsideKept ==
  ASSUME NEW l \in Libraries, NEW end \in End
  PROVE  /\ Enter(l)[end] \in End /\ Inside(l, Enter(l)[end]) = Inside(l, end)
         /\ Enter(l)[end] = end => Inside(l, end) = end
         /\ Leave(l)[end] \in End /\ Outside(l, Leave(l)[end]) = Outside(l, end)
         /\ Leave(l)[end] = end => Outside(l, end) = end
<1>1. Enter(l)[end] \in End /\ Leave(l)[end] \in End
  BY EnterDeepens, LeaveDeepens DEF Deepens
<1> QED
  BY <1>1, EnterDeepens, LeaveDeepens, DeepensKeeps DEF Inside, Outside

-----------------------------------------------------------------------------
(* What the folds over the external ports make of edges and messages.       *)

\* The external ports of a graph that is read.
InPort == [port : STRING, in_port : STRING, in_elem : STRING, in_comp : STRING]
OutPort == [port : STRING, out_port : STRING, out_elem : STRING, out_comp : STRING]

\* The edges and the messages of the graph that is built: they have whole names.
BuiltEdge ==
  [out_comp : Seq(STRING), out_port : STRING, out_elem : STRING,
   in_port : STRING, in_elem : STRING, in_comp : Seq(STRING)]
BuiltMsg == [msg : STRING, port : STRING, elem : STRING, comp : Seq(STRING)]

\* The two ways to say the greatest of a set of places.
LEMMA MaxIsGreatest ==
  ASSUME NEW n \in Nat, NEW s, s \subseteq 1..n, s # {}
  PROVE  Max(s) = Greatest(s)
<1>1. Greatest(s) \in s /\ \A k \in s : k <= Greatest(s)
  BY GreatestIsIn
<1>2. Max(s) \in s /\ \A k \in s : Max(s) >= k
  <2>1. \E x \in s : \A k \in s : x >= k
    BY <1>1
  <2> QED
    BY <2>1 DEF Max
<1>3. Greatest(s) \in 1..n /\ Max(s) \in 1..n
  BY <1>1, <1>2
<1> QED
  BY <1>1, <1>2, <1>3

\* A fold has what its base has and each of its steps keeps.
LEMMA FoldKeeps ==
  ASSUME NEW n \in Nat, NEW V, NEW base, NEW step, NEW r, IsFold(r, n, V, base, step),
         NEW P, base \in P[0],
         \A i \in 1..n, v \in V : v \in P[i - 1] => step[<<i, v>>] \in P[i]
  PROVE  r \in V /\ r \in P[n]
<1>1. PICK g : Folds(g, n, V, base, step) /\ r = g[1..n]
  BY DEF IsFold
<1>2. base \in V /\ step \in [(1..n) \X V -> V]
  BY DEF IsFold
<1> DEFINE S == {k \in Nat : k <= n => g[1..k] \in V /\ g[1..k] \in P[k]}
<1>3. 0 \in S
  <2>1. 1..0 = {}
    OBVIOUS
  <2> QED
    BY <1>1, <1>2, <2>1 DEF Folds
<1>4. ASSUME NEW k \in Nat, k \in S
      PROVE  k + 1 \in S
  <2> SUFFICES ASSUME k + 1 <= n
               PROVE  g[1..(k + 1)] \in V /\ g[1..(k + 1)] \in P[k + 1]
    OBVIOUS
  <2>1. g[1..k] \in V /\ g[1..k] \in P[k]
    BY <1>4
  <2>2. PICK s : s = 1..(k + 1)
    OBVIOUS
  <2>3. s \in SUBSET (1..(k + 1)) /\ k + 1 \in s /\ s # {} /\ s \in SUBSET (1..n)
    <3>1. k + 1 \in 1..(k + 1)
      OBVIOUS
    <3>2. \A i \in 1..(k + 1) : i \in 1..n
      OBVIOUS
    <3> QED
      BY ONLY <2>2, <3>1, <3>2
  <2>4. Greatest(s) = k + 1
    BY <2>3, GreatestIsLast
  <2>5. s \ {Greatest(s)} = 1..k
    BY <2>2, <2>4
  <2>6. \A o \in {s \ {Greatest(s)}} : o = 1..k /\ g[o] \in V
    BY <2>1, <2>5
  <2>7. s \in (SUBSET (1..n)) \ {{}}
    BY <2>3
  <2>8. g[s] = step[<<k + 1, g[1..k]>>]
    BY <1>1, <2>4, <2>6, <2>7 DEF Folds
  <2>9. k + 1 \in 1..n /\ (k + 1) - 1 = k
    OBVIOUS
  <2>10. step[<<k + 1, g[1..k]>>] \in V
    BY <1>2, <2>1, <2>9
  <2>11. step[<<k + 1, g[1..k]>>] \in P[k + 1]
    BY <2>1, <2>9
  <2> QED
    BY <2>2, <2>8, <2>10, <2>11
<1>5. Nat \subseteq S
  <2> HIDE DEF S
  <2> QED
    BY <1>3, <1>4, Induction
<1> QED
  BY <1>1, <1>5

\* The edge e after the external port x of the graph name.
RedirectedIn(name, e, x) ==
  IF e.in_comp = name /\ e.in_port = x.port
  THEN [e EXCEPT !.in_comp = Append(name, x.in_comp), !.in_port = x.in_port]
  ELSE e

\* The step of the fold over the external ports xs.
RedirectInStep(name, xs) == [p \in (1..Len(xs)) \X Seq(BuiltEdge) |-> RedirectIn(name, p[2], xs[p[1]])]

\* Each edge is redirected for itself.
LEMMA RedirectInIs ==
  ASSUME NEW name \in Seq(STRING), NEW es \in Seq(BuiltEdge), NEW x \in InPort
  PROVE  /\ RedirectIn(name, es, x) \in Seq(BuiltEdge) /\ Len(RedirectIn(name, es, x)) = Len(es)
         /\ \A j \in 1..Len(es) : RedirectIn(name, es, x)[j] = RedirectedIn(name, es[j], x)
<1>1. RedirectIn(name, es, x) = [j \in DOMAIN es |-> RedirectedIn(name, es[j], x)]
  BY DEF RedirectIn, Each, RedirectedIn
<1>2. DOMAIN es = 1..Len(es) /\ Len(es) \in Nat /\ \A j \in 1..Len(es) : es[j] \in BuiltEdge
  OBVIOUS
<1>3. \A e \in BuiltEdge : RedirectedIn(name, e, x) \in BuiltEdge
  <2>1. \A n \in STRING : Append(name, n) \in Seq(STRING)
    BY AppendIs
  <2> QED
    BY <2>1 DEF RedirectedIn, BuiltEdge, InPort
<1> HIDE DEF RedirectedIn
<1>4. [j \in 1..Len(es) |-> RedirectedIn(name, es[j], x)] \in [1..Len(es) -> BuiltEdge]
  BY <1>2, <1>3
<1> QED
  BY <1>1, <1>2, <1>4

\* The fold over the external ports takes them one after the other.
LEMMA RedirectInFold ==
  ASSUME NEW name \in Seq(STRING), NEW es \in Seq(BuiltEdge), NEW xs \in Seq(InPort)
  PROVE  IsFold(FoldLeft(LAMBDA v, x : RedirectIn(name, v, x), es, xs), Len(xs), Seq(BuiltEdge), es,
                RedirectInStep(name, xs))
<1> DEFINE V == Seq(BuiltEdge)
           n == Len(xs)
           It(g) == g = [s \in SUBSET DOMAIN xs |->
                           IF s = {} THEN es ELSE RedirectIn(name, g[s \ {Max(s)}], xs[Max(s)])]
           G == CHOOSE g : It(g)
           step == RedirectInStep(name, xs)
<1>0. n \in Nat /\ DOMAIN xs = 1..n /\ es \in V
  OBVIOUS
<1>1. FoldLeft(LAMBDA v, x : RedirectIn(name, v, x), es, xs) = G[DOMAIN xs]
  BY DEF FoldLeft, MapThenFoldSet
<1>2. \A i \in 1..n, v \in V :
        RedirectIn(name, v, xs[i]) \in V /\ step[<<i, v>>] = RedirectIn(name, v, xs[i])
  <2>1. \A i \in 1..n : xs[i] \in InPort
    OBVIOUS
  <2>2. \A i \in 1..n, v \in V : RedirectIn(name, v, xs[i]) \in V
    BY <2>1, RedirectInIs
  <2> QED
    BY <2>2 DEF RedirectInStep
<1>3. step \in [(1..n) \X V -> V]
  <2>1. \A i \in 1..n, v \in V : RedirectIn(name, v, xs[i]) \in V
    BY <1>2
  <2> QED
    BY <2>1 DEF RedirectInStep
<1> HIDE DEF step, V
<1>4. PICK g \in [SUBSET (1..n) -> V] : Folds(g, n, V, es, step)
  <2> HIDE DEF n
  <2> QED
    BY ONLY <1>0, <1>3, FoldExists
<1>5. \A s \in SUBSET (1..n) : s # {} =>
        Max(s) = Greatest(s) /\ Greatest(s) \in 1..n /\ s \ {Max(s)} \in SUBSET (1..n)
  <2> TAKE s \in SUBSET (1..n)
  <2> HAVE s # {}
  <2>1. Max(s) = Greatest(s) /\ Greatest(s) \in s
    <3> HIDE DEF n
    <3> QED
      BY <1>0, MaxIsGreatest, GreatestIsIn
  <2> QED
    BY <2>1
<1>6. It(g)
  <2> DEFINE Value(s) == IF s = {} THEN es ELSE RedirectIn(name, g[s \ {Max(s)}], xs[Max(s)])
  <2>1. \A s \in SUBSET (1..n) : g[s] = Value(s)
    <3> TAKE s \in SUBSET (1..n)
    <3>1. CASE s = {}
      BY <1>4, <3>1 DEF Folds
    <3>2. CASE s # {}
      <4>1. PICK o : o = s \ {Greatest(s)}
        OBVIOUS
      <4>2. o \in SUBSET (1..n) /\ Greatest(s) \in 1..n /\ Max(s) = Greatest(s)
        BY <1>5, <3>2, <4>1
      <4>3. g[o] \in V
        BY <4>2
      <4>4. g[s] = step[<<Greatest(s), g[o]>>]
        BY <1>4, <3>2, <4>1, <4>3 DEF Folds
      <4>5. g[s] = RedirectIn(name, g[o], xs[Greatest(s)])
        BY <1>2, <4>2, <4>3, <4>4
      <4> QED
        BY <3>2, <4>1, <4>2, <4>5
    <3> QED
      BY <3>1, <3>2
  <2>2. g = [s \in SUBSET (1..n) |-> Value(s)]
    <3> HIDE DEF Value
    <3> QED
      BY <2>1
  <2> QED
    BY <1>0, <2>2
<1>7. It(G)
  <2> HIDE DEF It
  <2> QED
    BY <1>6
<1>8. Folds(G, n, V, es, step)
  <2> HIDE DEF G
  <2>1. \A s \in SUBSET (1..n) :
          G[s] = IF s = {} THEN es ELSE RedirectIn(name, G[s \ {Max(s)}], xs[Max(s)])
    BY <1>0, <1>7
  <2>2. G[{}] = es
    BY <2>1
  <2>3. ASSUME NEW s \in (SUBSET (1..n)) \ {{}}, NEW o, o = s \ {Greatest(s)}, G[o] \in V
        PROVE  G[s] = step[<<Greatest(s), G[o]>>]
    <3>1. Max(s) = Greatest(s) /\ Greatest(s) \in 1..n
      BY <1>5
    <3>2. G[s] = RedirectIn(name, G[o], xs[Greatest(s)])
      BY <2>1, <2>3, <3>1
    <3> QED
      BY <1>2, <2>3, <3>1, <3>2
  <2> QED
    BY <2>2, <2>3 DEF Folds
<1>9. FoldLeft(LAMBDA v, x : RedirectIn(name, v, x), es, xs) = G[1..n]
  <2> HIDE DEF G
  <2> QED
    BY <1>0, <1>1
<1> HIDE DEF G
<1> QED
  BY <1>0, <1>3, <1>8, <1>9 DEF IsFold, V, step

\* The same of an output.
RedirectedOut(name, e, x) ==
  IF e.out_comp = name /\ e.out_port = x.port
  THEN [e EXCEPT !.out_comp = Append(name, x.out_comp), !.out_port = x.out_port]
  ELSE e

\* The step of the fold over the external ports xs.
RedirectOutStep(name, xs) == [p \in (1..Len(xs)) \X Seq(BuiltEdge) |-> RedirectOut(name, p[2], xs[p[1]])]

\* Each edge is redirected for itself.
LEMMA RedirectOutIs ==
  ASSUME NEW name \in Seq(STRING), NEW es \in Seq(BuiltEdge), NEW x \in OutPort
  PROVE  /\ RedirectOut(name, es, x) \in Seq(BuiltEdge) /\ Len(RedirectOut(name, es, x)) = Len(es)
         /\ \A j \in 1..Len(es) : RedirectOut(name, es, x)[j] = RedirectedOut(name, es[j], x)
<1>1. RedirectOut(name, es, x) = [j \in DOMAIN es |-> RedirectedOut(name, es[j], x)]
  BY DEF RedirectOut, Each, RedirectedOut
<1>2. DOMAIN es = 1..Len(es) /\ Len(es) \in Nat /\ \A j \in 1..Len(es) : es[j] \in BuiltEdge
  OBVIOUS
<1>3. \A e \in BuiltEdge : RedirectedOut(name, e, x) \in BuiltEdge
  <2>1. \A n \in STRING : Append(name, n) \in Seq(STRING)
    BY AppendIs
  <2> QED
    BY <2>1 DEF RedirectedOut, BuiltEdge, OutPort
<1> HIDE DEF RedirectedOut
<1>4. [j \in 1..Len(es) |-> RedirectedOut(name, es[j], x)] \in [1..Len(es) -> BuiltEdge]
  BY <1>2, <1>3
<1> QED
  BY <1>1, <1>2, <1>4

\* The fold over the external ports takes them one after the other.
LEMMA RedirectOutFold ==
  ASSUME NEW name \in Seq(STRING), NEW es \in Seq(BuiltEdge), NEW xs \in Seq(OutPort)
  PROVE  IsFold(FoldLeft(LAMBDA v, x : RedirectOut(name, v, x), es, xs), Len(xs), Seq(BuiltEdge), es,
                RedirectOutStep(name, xs))
<1> DEFINE V == Seq(BuiltEdge)
           n == Len(xs)
           It(g) == g = [s \in SUBSET DOMAIN xs |->
                           IF s = {} THEN es ELSE RedirectOut(name, g[s \ {Max(s)}], xs[Max(s)])]
           G == CHOOSE g : It(g)
           step == RedirectOutStep(name, xs)
<1>0. n \in Nat /\ DOMAIN xs = 1..n /\ es \in V
  OBVIOUS
<1>1. FoldLeft(LAMBDA v, x : RedirectOut(name, v, x), es, xs) = G[DOMAIN xs]
  BY DEF FoldLeft, MapThenFoldSet
<1>2. \A i \in 1..n, v \in V :
        RedirectOut(name, v, xs[i]) \in V /\ step[<<i, v>>] = RedirectOut(name, v, xs[i])
  <2>1. \A i \in 1..n : xs[i] \in OutPort
    OBVIOUS
  <2>2. \A i \in 1..n, v \in V : RedirectOut(name, v, xs[i]) \in V
    BY <2>1, RedirectOutIs
  <2> QED
    BY <2>2 DEF RedirectOutStep
<1>3. step \in [(1..n) \X V -> V]
  <2>1. \A i \in 1..n, v \in V : RedirectOut(name, v, xs[i]) \in V
    BY <1>2
  <2> QED
    BY <2>1 DEF RedirectOutStep
<1> HIDE DEF step, V
<1>4. PICK g \in [SUBSET (1..n) -> V] : Folds(g, n, V, es, step)
  <2> HIDE DEF n
  <2> QED
    BY ONLY <1>0, <1>3, FoldExists
<1>5. \A s \in SUBSET (1..n) : s # {} =>
        Max(s) = Greatest(s) /\ Greatest(s) \in 1..n /\ s \ {Max(s)} \in SUBSET (1..n)
  <2> TAKE s \in SUBSET (1..n)
  <2> HAVE s # {}
  <2>1. Max(s) = Greatest(s) /\ Greatest(s) \in s
    <3> HIDE DEF n
    <3> QED
      BY <1>0, MaxIsGreatest, GreatestIsIn
  <2> QED
    BY <2>1
<1>6. It(g)
  <2> DEFINE Value(s) == IF s = {} THEN es ELSE RedirectOut(name, g[s \ {Max(s)}], xs[Max(s)])
  <2>1. \A s \in SUBSET (1..n) : g[s] = Value(s)
    <3> TAKE s \in SUBSET (1..n)
    <3>1. CASE s = {}
      BY <1>4, <3>1 DEF Folds
    <3>2. CASE s # {}
      <4>1. PICK o : o = s \ {Greatest(s)}
        OBVIOUS
      <4>2. o \in SUBSET (1..n) /\ Greatest(s) \in 1..n /\ Max(s) = Greatest(s)
        BY <1>5, <3>2, <4>1
      <4>3. g[o] \in V
        BY <4>2
      <4>4. g[s] = step[<<Greatest(s), g[o]>>]
        BY <1>4, <3>2, <4>1, <4>3 DEF Folds
      <4>5. g[s] = RedirectOut(name, g[o], xs[Greatest(s)])
        BY <1>2, <4>2, <4>3, <4>4
      <4> QED
        BY <3>2, <4>1, <4>2, <4>5
    <3> QED
      BY <3>1, <3>2
  <2>2. g = [s \in SUBSET (1..n) |-> Value(s)]
    <3> HIDE DEF Value
    <3> QED
      BY <2>1
  <2> QED
    BY <1>0, <2>2
<1>7. It(G)
  <2> HIDE DEF It
  <2> QED
    BY <1>6
<1>8. Folds(G, n, V, es, step)
  <2> HIDE DEF G
  <2>1. \A s \in SUBSET (1..n) :
          G[s] = IF s = {} THEN es ELSE RedirectOut(name, G[s \ {Max(s)}], xs[Max(s)])
    BY <1>0, <1>7
  <2>2. G[{}] = es
    BY <2>1
  <2>3. ASSUME NEW s \in (SUBSET (1..n)) \ {{}}, NEW o, o = s \ {Greatest(s)}, G[o] \in V
        PROVE  G[s] = step[<<Greatest(s), G[o]>>]
    <3>1. Max(s) = Greatest(s) /\ Greatest(s) \in 1..n
      BY <1>5
    <3>2. G[s] = RedirectOut(name, G[o], xs[Greatest(s)])
      BY <2>1, <2>3, <3>1
    <3> QED
      BY <1>2, <2>3, <3>1, <3>2
  <2> QED
    BY <2>2, <2>3 DEF Folds
<1>9. FoldLeft(LAMBDA v, x : RedirectOut(name, v, x), es, xs) = G[1..n]
  <2> HIDE DEF G
  <2> QED
    BY <1>0, <1>1
<1> HIDE DEF G
<1> QED
  BY <1>0, <1>3, <1>8, <1>9 DEF IsFold, V, step

\* The same of an initial message.
RedirectedIMsg(name, e, x) ==
  IF e.comp = name /\ e.port = x.in_port
  THEN [e EXCEPT !.comp = Append(name, x.in_comp), !.port = x.in_port, !.elem = x.in_elem]
  ELSE e

\* The step of the fold over the external ports xs.
RedirectIMsgStep(name, xs) ==
  [p \in (1..Len(xs)) \X Seq(BuiltMsg) |-> RedirectIMsg(name, p[2], xs[p[1]])]

\* Each message is redirected for itself.
LEMMA RedirectIMsgIs ==
  ASSUME NEW name \in Seq(STRING), NEW es \in Seq(BuiltMsg), NEW x \in InPort
  PROVE  /\ RedirectIMsg(name, es, x) \in Seq(BuiltMsg) /\ Len(RedirectIMsg(name, es, x)) = Len(es)
         /\ \A j \in 1..Len(es) : RedirectIMsg(name, es, x)[j] = RedirectedIMsg(name, es[j], x)
<1>1. RedirectIMsg(name, es, x) = [j \in DOMAIN es |-> RedirectedIMsg(name, es[j], x)]
  BY DEF RedirectIMsg, Each, RedirectedIMsg
<1>2. DOMAIN es = 1..Len(es) /\ Len(es) \in Nat /\ \A j \in 1..Len(es) : es[j] \in BuiltMsg
  OBVIOUS
<1>3. \A e \in BuiltMsg : RedirectedIMsg(name, e, x) \in BuiltMsg
  <2>1. \A n \in STRING : Append(name, n) \in Seq(STRING)
    BY AppendIs
  <2> QED
    BY <2>1 DEF RedirectedIMsg, BuiltMsg, InPort
<1> HIDE DEF RedirectedIMsg
<1>4. [j \in 1..Len(es) |-> RedirectedIMsg(name, es[j], x)] \in [1..Len(es) -> BuiltMsg]
  BY <1>2, <1>3
<1> QED
  BY <1>1, <1>2, <1>4

\* The fold over the external ports takes them one after the other.
LEMMA RedirectIMsgFold ==
  ASSUME NEW name \in Seq(STRING), NEW es \in Seq(BuiltMsg), NEW xs \in Seq(InPort)
  PROVE  IsFold(FoldLeft(LAMBDA v, x : RedirectIMsg(name, v, x), es, xs), Len(xs), Seq(BuiltMsg), es,
                RedirectIMsgStep(name, xs))
<1> DEFINE V == Seq(BuiltMsg)
           n == Len(xs)
           It(g) == g = [s \in SUBSET DOMAIN xs |->
                           IF s = {} THEN es ELSE RedirectIMsg(name, g[s \ {Max(s)}], xs[Max(s)])]
           G == CHOOSE g : It(g)
           step == RedirectIMsgStep(name, xs)
<1>0. n \in Nat /\ DOMAIN xs = 1..n /\ es \in V
  OBVIOUS
<1>1. FoldLeft(LAMBDA v, x : RedirectIMsg(name, v, x), es, xs) = G[DOMAIN xs]
  BY DEF FoldLeft, MapThenFoldSet
<1>2. \A i \in 1..n, v \in V :
        RedirectIMsg(name, v, xs[i]) \in V /\ step[<<i, v>>] = RedirectIMsg(name, v, xs[i])
  <2>1. \A i \in 1..n : xs[i] \in InPort
    OBVIOUS
  <2>2. \A i \in 1..n, v \in V : RedirectIMsg(name, v, xs[i]) \in V
    BY <2>1, RedirectIMsgIs
  <2> QED
    BY <2>2 DEF RedirectIMsgStep
<1>3. step \in [(1..n) \X V -> V]
  <2>1. \A i \in 1..n, v \in V : RedirectIMsg(name, v, xs[i]) \in V
    BY <1>2
  <2> QED
    BY <2>1 DEF RedirectIMsgStep
<1> HIDE DEF step, V
<1>4. PICK g \in [SUBSET (1..n) -> V] : Folds(g, n, V, es, step)
  <2> HIDE DEF n
  <2> QED
    BY ONLY <1>0, <1>3, FoldExists
<1>5. \A s \in SUBSET (1..n) : s # {} =>
        Max(s) = Greatest(s) /\ Greatest(s) \in 1..n /\ s \ {Max(s)} \in SUBSET (1..n)
  <2> TAKE s \in SUBSET (1..n)
  <2> HAVE s # {}
  <2>1. Max(s) = Greatest(s) /\ Greatest(s) \in s
    <3> HIDE DEF n
    <3> QED
      BY <1>0, MaxIsGreatest, GreatestIsIn
  <2> QED
    BY <2>1
<1>6. It(g)
  <2> DEFINE Value(s) == IF s = {} THEN es ELSE RedirectIMsg(name, g[s \ {Max(s)}], xs[Max(s)])
  <2>1. \A s \in SUBSET (1..n) : g[s] = Value(s)
    <3> TAKE s \in SUBSET (1..n)
    <3>1. CASE s = {}
      BY <1>4, <3>1 DEF Folds
    <3>2. CASE s # {}
      <4>1. PICK o : o = s \ {Greatest(s)}
        OBVIOUS
      <4>2. o \in SUBSET (1..n) /\ Greatest(s) \in 1..n /\ Max(s) = Greatest(s)
        BY <1>5, <3>2, <4>1
      <4>3. g[o] \in V
        BY <4>2
      <4>4. g[s] = step[<<Greatest(s), g[o]>>]
        BY <1>4, <3>2, <4>1, <4>3 DEF Folds
      <4>5. g[s] = RedirectIMsg(name, g[o], xs[Greatest(s)])
        BY <1>2, <4>2, <4>3, <4>4
      <4> QED
        BY <3>2, <4>1, <4>2, <4>5
    <3> QED
      BY <3>1, <3>2
  <2>2. g = [s \in SUBSET (1..n) |-> Value(s)]
    <3> HIDE DEF Value
    <3> QED
      BY <2>1
  <2> QED
    BY <1>0, <2>2
<1>7. It(G)
  <2> HIDE DEF It
  <2> QED
    BY <1>6
<1>8. Folds(G, n, V, es, step)
  <2> HIDE DEF G
  <2>1. \A s \in SUBSET (1..n) :
          G[s] = IF s = {} THEN es ELSE RedirectIMsg(name, G[s \ {Max(s)}], xs[Max(s)])
    BY <1>0, <1>7
  <2>2. G[{}] = es
    BY <2>1
  <2>3. ASSUME NEW s \in (SUBSET (1..n)) \ {{}}, NEW o, o = s \ {Greatest(s)}, G[o] \in V
        PROVE  G[s] = step[<<Greatest(s), G[o]>>]
    <3>1. Max(s) = Greatest(s) /\ Greatest(s) \in 1..n
      BY <1>5
    <3>2. G[s] = RedirectIMsg(name, G[o], xs[Greatest(s)])
      BY <2>1, <2>3, <3>1
    <3> QED
      BY <1>2, <2>3, <3>1, <3>2
  <2> QED
    BY <2>2, <2>3 DEF Folds
<1>9. FoldLeft(LAMBDA v, x : RedirectIMsg(name, v, x), es, xs) = G[1..n]
  <2> HIDE DEF G
  <2> QED
    BY <1>0, <1>1
<1> HIDE DEF G
<1> QED
  BY <1>0, <1>3, <1>8, <1>9 DEF IsFold, V, step

\* f is e with its input redirected by the first k external ports of the graph name.
MovedIn(e, f, name, xs, k) ==
  /\ \A i \in 1..k : e.in_comp = name /\ e.in_port = xs[i].port =>
       f.in_comp = Append(name, xs[i].in_comp) /\ f.in_port = xs[i].in_port
  /\ (\A i \in 1..k : ~(e.in_comp = name /\ e.in_port = xs[i].port)) =>
       f.in_comp = e.in_comp /\ f.in_port = e.in_port
  /\ f.out_comp = e.out_comp /\ f.out_port = e.out_port

\* What was redirected is in the graph, where no port of it is met again.
LEMMA MovedInNext ==
  ASSUME NEW name \in Seq(STRING), NEW xs \in Seq(InPort),
         \A i, j \in 1..Len(xs) : xs[i].port = xs[j].port => i = j,
         NEW e \in BuiltEdge, NEW f \in BuiltEdge, NEW k \in 1..Len(xs),
         MovedIn(e, f, name, xs, k - 1), NEW d, d = RedirectedIn(name, f, xs[k])
  PROVE  MovedIn(e, d, name, xs, k)
<1>1. /\ Len(xs) \in Nat /\ 1..k \subseteq 1..Len(xs) /\ 1..k = (1..(k - 1)) \cup {k}
      /\ k \notin 1..(k - 1)
  OBVIOUS
<1>2. xs[k].in_comp \in STRING /\ \A i \in 1..Len(xs) : xs[i].in_comp \in STRING
  <2>1. \A i \in 1..Len(xs) : xs[i] \in InPort
    OBVIOUS
  <2> QED
    BY <2>1 DEF InPort
<1>3. \A n \in STRING : Append(name, n) # name
  BY AppendIs
<1>4. d.out_comp = e.out_comp /\ d.out_port = e.out_port
  BY DEF RedirectedIn, MovedIn, BuiltEdge
<1>5. CASE \E i \in 1..(k - 1) : e.in_comp = name /\ e.in_port = xs[i].port
  <2>1. PICK i \in 1..(k - 1) : e.in_comp = name /\ e.in_port = xs[i].port
    BY <1>5
  <2>2. f.in_comp = Append(name, xs[i].in_comp) /\ f.in_port = xs[i].in_port
    BY <2>1 DEF MovedIn
  <2>3. d = f
    BY <1>1, <1>2, <1>3, <2>1, <2>2 DEF RedirectedIn
  <2>4. \A j \in 1..k : e.in_port = xs[j].port => j = i
    BY <1>1, <2>1
  <2> QED
    BY <1>1, <1>4, <2>1, <2>2, <2>3, <2>4 DEF MovedIn
<1>6. CASE \A i \in 1..(k - 1) : ~(e.in_comp = name /\ e.in_port = xs[i].port)
  <2>1. f.in_comp = e.in_comp /\ f.in_port = e.in_port
    BY <1>6 DEF MovedIn
  <2>2. CASE e.in_comp = name /\ e.in_port = xs[k].port
    <3>1. d.in_comp = Append(name, xs[k].in_comp) /\ d.in_port = xs[k].in_port
      BY <2>1, <2>2 DEF RedirectedIn, BuiltEdge
    <3> QED
      BY <1>1, <1>4, <1>6, <2>2, <3>1 DEF MovedIn
  <2>3. CASE ~(e.in_comp = name /\ e.in_port = xs[k].port)
    <3>1. d = f
      BY <2>1, <2>3 DEF RedirectedIn
    <3> QED
      BY <1>1, <1>4, <1>6, <2>1, <2>3, <3>1 DEF MovedIn
  <2> QED
    BY <2>2, <2>3
<1> QED
  BY <1>5, <1>6

\* All the inputs after all the ports.
LEMMA RedirectInAll ==
  ASSUME NEW name \in Seq(STRING), NEW es \in Seq(BuiltEdge), NEW xs \in Seq(InPort),
         \A i, j \in 1..Len(xs) : xs[i].port = xs[j].port => i = j,
         NEW r, IsFold(r, Len(xs), Seq(BuiltEdge), es, RedirectInStep(name, xs))
  PROVE  /\ r \in Seq(BuiltEdge) /\ Len(r) = Len(es)
         /\ \A j \in 1..Len(es) : MovedIn(es[j], r[j], name, xs, Len(xs))
<1> DEFINE V == Seq(BuiltEdge)
           n == Len(xs)
           step == RedirectInStep(name, xs)
           Fits(v, k) == Len(v) = Len(es) /\ \A j \in 1..Len(es) : MovedIn(es[j], v[j], name, xs, k)
           P == [k \in 0..n |-> {v \in V : Fits(v, k)}]
<1>1. n \in Nat /\ \A i \in 1..n : xs[i] \in InPort
  OBVIOUS
<1>2. es \in P[0]
  <2>1. \A j \in 1..Len(es) : MovedIn(es[j], es[j], name, xs, 0)
    BY DEF MovedIn
  <2>2. 0 \in 0..n
    BY <1>1
  <2> QED
    BY <2>1, <2>2
<1>3. ASSUME NEW i \in 1..n, NEW v \in V, v \in P[i - 1]
      PROVE  step[<<i, v>>] \in P[i]
  <2>1. i - 1 \in 0..n /\ i \in 0..n
    BY <1>1
  <2>2. Fits(v, i - 1)
    BY <1>3, <2>1
  <2> DEFINE u == RedirectIn(name, v, xs[i])
  <2>3. u \in V /\ Len(u) = Len(v) /\ \A j \in 1..Len(v) : u[j] = RedirectedIn(name, v[j], xs[i])
    BY <1>1, RedirectInIs
  <2>4. step[<<i, v>>] = u
    BY DEF RedirectInStep
  <2> HIDE DEF u
  <2>5. ASSUME NEW j \in 1..Len(es)
        PROVE  MovedIn(es[j], u[j], name, xs, i)
    <3>1. es[j] \in BuiltEdge /\ v[j] \in BuiltEdge
      BY <2>2
    <3>2. MovedIn(es[j], v[j], name, xs, i - 1) /\ u[j] = RedirectedIn(name, v[j], xs[i])
      BY <2>2, <2>3
    <3> QED
      BY <3>1, <3>2, MovedInNext
  <2>6. Fits(u, i)
    BY <2>2, <2>3, <2>5
  <2> HIDE DEF Fits, step
  <2> QED
    BY <2>1, <2>3, <2>4, <2>6
<1>4. IsFold(r, n, V, es, step)
  OBVIOUS
<1>5. r \in V /\ r \in P[n]
  <2> HIDE DEF V, n, step, P
  <2> QED
    BY ONLY <1>1, <1>2, <1>3, <1>4, FoldKeeps
<1>6. Fits(r, n)
  <2>1. n \in 0..n
    BY <1>1
  <2> HIDE DEF Fits
  <2> QED
    BY <1>5, <2>1
<1> QED
  BY <1>5, <1>6

\* f is e with its output redirected by the first k external ports of the graph name.
MovedOut(e, f, name, xs, k) ==
  /\ \A i \in 1..k : e.out_comp = name /\ e.out_port = xs[i].port =>
       f.out_comp = Append(name, xs[i].out_comp) /\ f.out_port = xs[i].out_port
  /\ (\A i \in 1..k : ~(e.out_comp = name /\ e.out_port = xs[i].port)) =>
       f.out_comp = e.out_comp /\ f.out_port = e.out_port
  /\ f.in_comp = e.in_comp /\ f.in_port = e.in_port

\* What was redirected is in the graph, where no port of it is met again.
LEMMA MovedOutNext ==
  ASSUME NEW name \in Seq(STRING), NEW xs \in Seq(OutPort),
         \A i, j \in 1..Len(xs) : xs[i].port = xs[j].port => i = j,
         NEW e \in BuiltEdge, NEW f \in BuiltEdge, NEW k \in 1..Len(xs),
         MovedOut(e, f, name, xs, k - 1), NEW d, d = RedirectedOut(name, f, xs[k])
  PROVE  MovedOut(e, d, name, xs, k)
<1>1. /\ Len(xs) \in Nat /\ 1..k \subseteq 1..Len(xs) /\ 1..k = (1..(k - 1)) \cup {k}
      /\ k \notin 1..(k - 1)
  OBVIOUS
<1>2. xs[k].out_comp \in STRING /\ \A i \in 1..Len(xs) : xs[i].out_comp \in STRING
  <2>1. \A i \in 1..Len(xs) : xs[i] \in OutPort
    OBVIOUS
  <2> QED
    BY <2>1 DEF OutPort
<1>3. \A n \in STRING : Append(name, n) # name
  BY AppendIs
<1>4. d.in_comp = e.in_comp /\ d.in_port = e.in_port
  BY DEF RedirectedOut, MovedOut, BuiltEdge
<1>5. CASE \E i \in 1..(k - 1) : e.out_comp = name /\ e.out_port = xs[i].port
  <2>1. PICK i \in 1..(k - 1) : e.out_comp = name /\ e.out_port = xs[i].port
    BY <1>5
  <2>2. f.out_comp = Append(name, xs[i].out_comp) /\ f.out_port = xs[i].out_port
    BY <2>1 DEF MovedOut
  <2>3. d = f
    BY <1>1, <1>2, <1>3, <2>1, <2>2 DEF RedirectedOut
  <2>4. \A j \in 1..k : e.out_port = xs[j].port => j = i
    BY <1>1, <2>1
  <2> QED
    BY <1>1, <1>4, <2>1, <2>2, <2>3, <2>4 DEF MovedOut
<1>6. CASE \A i \in 1..(k - 1) : ~(e.out_comp = name /\ e.out_port = xs[i].port)
  <2>1. f.out_comp = e.out_comp /\ f.out_port = e.out_port
    BY <1>6 DEF MovedOut
  <2>2. CASE e.out_comp = name /\ e.out_port = xs[k].port
    <3>1. d.out_comp = Append(name, xs[k].out_comp) /\ d.out_port = xs[k].out_port
      BY <2>1, <2>2 DEF RedirectedOut, BuiltEdge
    <3> QED
      BY <1>1, <1>4, <1>6, <2>2, <3>1 DEF MovedOut
  <2>3. CASE ~(e.out_comp = name /\ e.out_port = xs[k].port)
    <3>1. d = f
      BY <2>1, <2>3 DEF RedirectedOut
    <3> QED
      BY <1>1, <1>4, <1>6, <2>1, <2>3, <3>1 DEF MovedOut
  <2> QED
    BY <2>2, <2>3
<1> QED
  BY <1>5, <1>6

\* All the outputs after all the ports.
LEMMA RedirectOutAll ==
  ASSUME NEW name \in Seq(STRING), NEW es \in Seq(BuiltEdge), NEW xs \in Seq(OutPort),
         \A i, j \in 1..Len(xs) : xs[i].port = xs[j].port => i = j,
         NEW r, IsFold(r, Len(xs), Seq(BuiltEdge), es, RedirectOutStep(name, xs))
  PROVE  /\ r \in Seq(BuiltEdge) /\ Len(r) = Len(es)
         /\ \A j \in 1..Len(es) : MovedOut(es[j], r[j], name, xs, Len(xs))
<1> DEFINE V == Seq(BuiltEdge)
           n == Len(xs)
           step == RedirectOutStep(name, xs)
           Fits(v, k) == Len(v) = Len(es) /\ \A j \in 1..Len(es) : MovedOut(es[j], v[j], name, xs, k)
           P == [k \in 0..n |-> {v \in V : Fits(v, k)}]
<1>1. n \in Nat /\ \A i \in 1..n : xs[i] \in OutPort
  OBVIOUS
<1>2. es \in P[0]
  <2>1. \A j \in 1..Len(es) : MovedOut(es[j], es[j], name, xs, 0)
    BY DEF MovedOut
  <2>2. 0 \in 0..n
    BY <1>1
  <2> QED
    BY <2>1, <2>2
<1>3. ASSUME NEW i \in 1..n, NEW v \in V, v \in P[i - 1]
      PROVE  step[<<i, v>>] \in P[i]
  <2>1. i - 1 \in 0..n /\ i \in 0..n
    BY <1>1
  <2>2. Fits(v, i - 1)
    BY <1>3, <2>1
  <2> DEFINE u == RedirectOut(name, v, xs[i])
  <2>3. u \in V /\ Len(u) = Len(v) /\ \A j \in 1..Len(v) : u[j] = RedirectedOut(name, v[j], xs[i])
    BY <1>1, RedirectOutIs
  <2>4. step[<<i, v>>] = u
    BY DEF RedirectOutStep
  <2> HIDE DEF u
  <2>5. ASSUME NEW j \in 1..Len(es)
        PROVE  MovedOut(es[j], u[j], name, xs, i)
    <3>1. es[j] \in BuiltEdge /\ v[j] \in BuiltEdge
      BY <2>2
    <3>2. MovedOut(es[j], v[j], name, xs, i - 1) /\ u[j] = RedirectedOut(name, v[j], xs[i])
      BY <2>2, <2>3
    <3> QED
      BY <3>1, <3>2, MovedOutNext
  <2>6. Fits(u, i)
    BY <2>2, <2>3, <2>5
  <2> HIDE DEF Fits, step
  <2> QED
    BY <2>1, <2>3, <2>4, <2>6
<1>4. IsFold(r, n, V, es, step)
  OBVIOUS
<1>5. r \in V /\ r \in P[n]
  <2> HIDE DEF V, n, step, P
  <2> QED
    BY ONLY <1>1, <1>2, <1>3, <1>4, FoldKeeps
<1>6. Fits(r, n)
  <2>1. n \in 0..n
    BY <1>1
  <2> HIDE DEF Fits
  <2> QED
    BY <1>5, <2>1
<1> QED
  BY <1>5, <1>6

\* A message for no node with the name of the graph stays as it is.
LEMMA RedirectIMsgAll ==
  ASSUME NEW name \in Seq(STRING), NEW ms \in Seq(BuiltMsg), NEW xs \in Seq(InPort),
         NEW r, IsFold(r, Len(xs), Seq(BuiltMsg), ms, RedirectIMsgStep(name, xs))
  PROVE  /\ r \in Seq(BuiltMsg) /\ Len(r) = Len(ms)
         /\ \A j \in 1..Len(ms) : ms[j].comp # name => r[j] = ms[j]
<1> DEFINE V == Seq(BuiltMsg)
           n == Len(xs)
           step == RedirectIMsgStep(name, xs)
           Fits(v) == Len(v) = Len(ms) /\ \A j \in 1..Len(ms) : ms[j].comp # name => v[j] = ms[j]
           P == [k \in 0..n |-> {v \in V : Fits(v)}]
<1>1. n \in Nat /\ \A i \in 1..n : xs[i] \in InPort
  OBVIOUS
<1>2. ms \in P[0]
  <2>1. 0 \in 0..n
    BY <1>1
  <2> QED
    BY <2>1
<1>3. ASSUME NEW i \in 1..n, NEW v \in V, v \in P[i - 1]
      PROVE  step[<<i, v>>] \in P[i]
  <2>1. i - 1 \in 0..n /\ i \in 0..n
    BY <1>1
  <2>2. Fits(v)
    BY <1>3, <2>1
  <2> DEFINE u == RedirectIMsg(name, v, xs[i])
  <2>3. u \in V /\ Len(u) = Len(v) /\ \A j \in 1..Len(v) : u[j] = RedirectedIMsg(name, v[j], xs[i])
    BY <1>1, RedirectIMsgIs
  <2>4. step[<<i, v>>] = u
    BY DEF RedirectIMsgStep
  <2> HIDE DEF u
  <2>5. Fits(u)
    BY <2>2, <2>3 DEF RedirectedIMsg
  <2> HIDE DEF Fits, step
  <2> QED
    BY <2>1, <2>3, <2>4, <2>5
<1>4. IsFold(r, n, V, ms, step)
  OBVIOUS
<1>5. r \in V /\ r \in P[n]
  <2> HIDE DEF V, n, step, P
  <2> QED
    BY ONLY <1>1, <1>2, <1>3, <1>4, FoldKeeps
<1>6. Fits(r)
  <2>1. n \in 0..n
    BY <1>1
  <2> HIDE DEF Fits
  <2> QED
    BY <1>5, <2>1
<1> QED
  BY <1>5, <1>6

-----------------------------------------------------------------------------
(* What joins the graph when a subgraph is met.                             *)

\* The edges and the messages of a graph that is read.
Edge ==
  [out_comp : STRING, out_port : STRING, out_elem : STRING,
   in_port : STRING, in_elem : STRING, in_comp : STRING]
IMsg == [msg : STRING, port : STRING, elem : STRING, comp : STRING]

\* The parts of a graph that is read.
LEMMA PartsAre ==
  ASSUME NEW g, IsClear(g)
  PROVE  /\ g.nodes \in Seq([name : STRING, sort : STRING])
         /\ g.edges \in Seq(Edge) /\ g.imsgs \in Seq(IMsg)
         /\ g.ext_in \in Seq(InPort) /\ g.ext_out \in Seq(OutPort)
BY DEF IsClear, CoreGraph, Edge, IMsg, InPort, OutPort

\* An edge and a message of a graph, with the name of the graph.
NamedEdge(name, e) ==
  [e EXCEPT !.out_comp = Append(name, e.out_comp), !.in_comp = Append(name, e.in_comp)]
NamedIMsg(name, m) == [m EXCEPT !.comp = Append(name, m.comp)]

\* The messages of a graph when they join.
LEMMA PrefixedIMsgs ==
  ASSUME NEW name \in Seq(STRING), NEW ms \in Seq(IMsg)
  PROVE  /\ Prefixed(name, ms, "comp") \in Seq(BuiltMsg) /\ Len(Prefixed(name, ms, "comp")) = Len(ms)
         /\ \A j \in 1..Len(ms) : Prefixed(name, ms, "comp")[j] = NamedIMsg(name, ms[j])
<1>1. DOMAIN ms = 1..Len(ms) /\ Len(ms) \in Nat /\ \A j \in 1..Len(ms) : ms[j] \in IMsg
  OBVIOUS
<1>2. \A m \in IMsg : NamedIMsg(name, m) \in BuiltMsg
  <2>1. \A n \in STRING : Append(name, n) \in Seq(STRING)
    BY AppendIs
  <2> QED
    BY <2>1 DEF IMsg, BuiltMsg, NamedIMsg
<1>3. Prefixed(name, ms, "comp") = [j \in 1..Len(ms) |-> NamedIMsg(name, ms[j])]
  BY <1>1 DEF Prefixed, Each, NamedIMsg
<1>4. [j \in 1..Len(ms) |-> NamedIMsg(name, ms[j])] \in [1..Len(ms) -> BuiltMsg]
  <2> HIDE DEF NamedIMsg
  <2> QED
    BY <1>1, <1>2
<1> HIDE DEF NamedIMsg
<1> QED
  BY <1>1, <1>3, <1>4

\* The edges of a graph when they join.
LEMMA PrefixedEdges ==
  ASSUME NEW name \in Seq(STRING), NEW es \in Seq(Edge),
         NEW r, r = Prefixed(name, Prefixed(name, es, "out_comp"), "in_comp")
  PROVE  /\ r \in Seq(BuiltEdge) /\ Len(r) = Len(es)
         /\ \A j \in 1..Len(es) : r[j] = NamedEdge(name, es[j])
<1>1. DOMAIN es = 1..Len(es) /\ Len(es) \in Nat /\ \A j \in 1..Len(es) : es[j] \in Edge
  OBVIOUS
<1>2. \A e \in Edge : NamedEdge(name, e) \in BuiltEdge
  <2>1. \A n \in STRING : Append(name, n) \in Seq(STRING)
    BY AppendIs
  <2> QED
    BY <2>1 DEF Edge, BuiltEdge, NamedEdge
<1>3. r = [j \in 1..Len(es) |-> NamedEdge(name, es[j])]
  <2> DEFINE Half(e) == [e EXCEPT !.out_comp = Append(name, e.out_comp)]
             half == [j \in 1..Len(es) |-> Half(es[j])]
  <2>1. Prefixed(name, es, "out_comp") = half
    BY <1>1 DEF Prefixed, Each
  <2>2. Prefixed(name, half, "in_comp") = [j \in 1..Len(es) |-> [half[j] EXCEPT !.in_comp = Append(name, half[j].in_comp)]]
    BY <1>1 DEF Prefixed, Each
  <2>3. \A j \in 1..Len(es) : [half[j] EXCEPT !.in_comp = Append(name, half[j].in_comp)] = NamedEdge(name, es[j])
    BY <1>1 DEF NamedEdge, Edge
  <2> QED
    BY <2>1, <2>2, <2>3
<1>4. [j \in 1..Len(es) |-> NamedEdge(name, es[j])] \in [1..Len(es) -> BuiltEdge]
  <2> HIDE DEF NamedEdge
  <2> QED
    BY <1>1, <1>2
<1> HIDE DEF NamedEdge
<1> QED
  BY <1>1, <1>3, <1>4

\* f is what e becomes when the graph g of the node name is merged.
Becomes(e, f, name, g) ==
  \E d \in BuiltEdge : /\ MovedIn(e, d, name, g.ext_in, Len(g.ext_in))
                       /\ MovedOut(d, f, name, g.ext_out, Len(g.ext_out))

\* The edges that are in the graph g, or were there before it.
EdgesWith(name, g) == ToSet(graph.edges) \cup {NamedEdge(name, e) : e \in ToSet(g.edges)}

\* One sequence after the other.
LEMMA ConcatIs ==
  ASSUME NEW T, NEW s \in Seq(T), NEW t \in Seq(T)
  PROVE  /\ s \o t \in Seq(T) /\ Len(s \o t) = Len(s) + Len(t)
         /\ Len(s) \in Nat /\ Len(t) \in Nat
         /\ \A i \in 1..Len(s) : (s \o t)[i] = s[i]
         /\ \A j \in 1..Len(t) : (s \o t)[Len(s) + j] = t[j]
OBVIOUS

\* t has the images of the elements of u under n, and r has what s has and these.
Images(t, u, n) == Len(t) = Len(u) /\ \A j \in 1..Len(u) : t[j] = n[u[j]]
Together(r, s, u, n) ==
  \A x : x \in ToSet(r) <=> x \in ToSet(s) \/ \E y \in ToSet(u) : x = n[y]

\* What was in the graph and what is in the subgraph is in both together.
LEMMA TogetherIs ==
  ASSUME NEW T, NEW S, NEW s \in Seq(T), NEW t \in Seq(T), NEW u \in Seq(S), NEW n, Images(t, u, n)
  PROVE  s \o t \in Seq(T) /\ Together(s \o t, s, u, n)
<1>0. PICK r : r = s \o t
  OBVIOUS
<1>1. r \in Seq(T) /\ Len(r) = Len(s) + Len(t) /\ Len(s) \in Nat /\ Len(t) \in Nat
  BY <1>0, ConcatIs
<1>2. \A i \in 1..Len(s) : r[i] = s[i]
  BY <1>0, ConcatIs
<1>3. \A j \in 1..Len(t) : r[Len(s) + j] = t[j]
  BY <1>0, ConcatIs
<1>4. ASSUME NEW x \in ToSet(r)
      PROVE  x \in ToSet(s) \/ \E y \in ToSet(u) : x = n[y]
  <2>1. PICK i \in 1..Len(r) : x = r[i]
    BY ONLY <1>1, <1>4, ToSetIs
  <2>2. CASE i \in 1..Len(s)
    BY <1>2, <2>1, <2>2, ToSetIs
  <2>3. CASE i \notin 1..Len(s)
    <3> DEFINE j == i - Len(s)
    <3>1. j \in 1..Len(t) /\ i = Len(s) + j
      BY <1>1, <2>1, <2>3
    <3> HIDE DEF j
    <3>2. x = n[u[j]] /\ u[j] \in ToSet(u)
      BY <1>3, <2>1, <3>1, ToSetIs DEF Images
    <3> QED
      BY <3>2
  <2> QED
    BY <2>2, <2>3
<1>5. ASSUME NEW x \in ToSet(s)
      PROVE  x \in ToSet(r)
  <2>1. PICK i \in 1..Len(s) : x = s[i]
    BY ToSetIs
  <2>2. i \in 1..Len(r) /\ x = r[i]
    BY <1>1, <1>2, <2>1
  <2> QED
    BY <1>1, <2>2, ToSetIs
<1>6. ASSUME NEW y \in ToSet(u)
      PROVE  n[y] \in ToSet(r)
  <2>1. PICK j \in 1..Len(u) : y = u[j]
    BY ToSetIs
  <2>2. Len(s) + j \in 1..Len(r) /\ n[y] = r[Len(s) + j]
    BY <1>1, <1>3, <2>1 DEF Images
  <2> QED
    BY <1>1, <2>2, ToSetIs
<1> QED
  BY <1>0, <1>1, <1>4, <1>5, <1>6 DEF Together

\* The edges of the merged graph are the edges there were, redirected.
LEMMA MergedEdges ==
  ASSUME graph.edges \in Seq(BuiltEdge), NEW name \in Seq(STRING), NEW g, IsClear(g)
  PROVE  /\ Merged(g, name).edges \in Seq(BuiltEdge)
         /\ \A e \in EdgesWith(name, g) :
              e \in BuiltEdge /\ \E f \in ToSet(Merged(g, name).edges) : Becomes(e, f, name, g)
         /\ \A f \in ToSet(Merged(g, name).edges) :
              f \in BuiltEdge /\ \E e \in EdgesWith(name, g) : Becomes(e, f, name, g)
<1> DEFINE named == Prefixed(name, Prefixed(name, g.edges, "out_comp"), "in_comp")
           all == graph.edges \o named
           ins == FoldLeft(LAMBDA v, x : RedirectIn(name, v, x), all, g.ext_in)
           outs == FoldLeft(LAMBDA v, x : RedirectOut(name, v, x), ins, g.ext_out)
           nIn == Len(g.ext_in)
           nOut == Len(g.ext_out)
<1>1. Merged(g, name).edges = outs
  BY DEF Merged
<1>2. g.edges \in Seq(Edge) /\ g.ext_in \in Seq(InPort) /\ g.ext_out \in Seq(OutPort)
  BY PartsAre
<1>3. /\ \A i, j \in 1..nIn : g.ext_in[i].port = g.ext_in[j].port => i = j
      /\ \A i, j \in 1..nOut : g.ext_out[i].port = g.ext_out[j].port => i = j
  <2>1. /\ \A i, j \in DOMAIN g.ext_in : g.ext_in[i].port = g.ext_in[j].port => i = j
        /\ \A i, j \in DOMAIN g.ext_out : g.ext_out[i].port = g.ext_out[j].port => i = j
    BY DEF IsClear
  <2>2. DOMAIN g.ext_in = 1..nIn /\ DOMAIN g.ext_out = 1..nOut
    BY <1>2, ToSetIs
  <2> QED
    BY <2>1, <2>2
<1>4. /\ named \in Seq(BuiltEdge) /\ Len(named) = Len(g.edges)
      /\ \A j \in 1..Len(g.edges) : named[j] = NamedEdge(name, g.edges[j])
  BY <1>2, PrefixedEdges
<1>5. all \in Seq(BuiltEdge) /\ ToSet(all) = EdgesWith(name, g)
  <2> DEFINE n == [e \in Edge |-> NamedEdge(name, e)]
  <2>1. n \in [Edge -> BuiltEdge]
    <3>1. \A m \in STRING : Append(name, m) \in Seq(STRING)
      BY AppendIs
    <3> QED
      BY <3>1 DEF Edge, BuiltEdge, NamedEdge
  <2>2. \A j \in 1..Len(g.edges) : named[j] = n[g.edges[j]]
    BY <1>2, <1>4
  <2>3. \A e \in ToSet(g.edges) : n[e] = NamedEdge(name, e)
    BY <1>2, ToSetIs
  <2> HIDE DEF n, named
  <2>4. Images(named, g.edges, n)
    BY <1>4, <2>2 DEF Images
  <2>5. all \in Seq(BuiltEdge) /\ Together(all, graph.edges, g.edges, n)
    BY ONLY graph.edges \in Seq(BuiltEdge), <1>2, <1>4, <2>4, TogetherIs
  <2> QED
    BY <2>3, <2>5 DEF EdgesWith, Together
<1> HIDE DEF named, all
<1>6. IsFold(ins, nIn, Seq(BuiltEdge), all, RedirectInStep(name, g.ext_in))
  BY <1>2, <1>5, RedirectInFold
<1> HIDE DEF ins
<1>7. /\ ins \in Seq(BuiltEdge) /\ Len(ins) = Len(all)
      /\ \A j \in 1..Len(all) : MovedIn(all[j], ins[j], name, g.ext_in, nIn)
  BY <1>2, <1>3, <1>5, <1>6, RedirectInAll
<1>8. IsFold(outs, nOut, Seq(BuiltEdge), ins, RedirectOutStep(name, g.ext_out))
  BY <1>2, <1>7, RedirectOutFold
<1> HIDE DEF outs
<1>9. /\ outs \in Seq(BuiltEdge) /\ Len(outs) = Len(ins)
      /\ \A j \in 1..Len(ins) : MovedOut(ins[j], outs[j], name, g.ext_out, nOut)
  BY <1>2, <1>3, <1>7, <1>8, RedirectOutAll
<1>10. \A j \in 1..Len(all) : Becomes(all[j], outs[j], name, g)
  <2> TAKE j \in 1..Len(all)
  <2>1. ins[j] \in BuiltEdge
    BY <1>7
  <2> QED
    BY <1>7, <1>9, <2>1 DEF Becomes
<1>11. \A e \in ToSet(all) : e \in BuiltEdge /\ \E f \in ToSet(outs) : Becomes(e, f, name, g)
  <2> TAKE e \in ToSet(all)
  <2>1. PICK j \in 1..Len(all) : e = all[j]
    BY <1>5, ToSetIs
  <2>2. outs[j] \in ToSet(outs)
    BY <1>7, <1>9, <2>1, ToSetIs
  <2> QED
    BY <1>5, <1>10, <2>1, <2>2, ToSetIs
<1>12. \A f \in ToSet(outs) : f \in BuiltEdge /\ \E e \in ToSet(all) : Becomes(e, f, name, g)
  <2> TAKE f \in ToSet(outs)
  <2>1. PICK j \in 1..Len(all) : f = outs[j]
    BY <1>7, <1>9, ToSetIs
  <2>2. all[j] \in ToSet(all)
    BY <1>5, <2>1, ToSetIs
  <2> QED
    BY <1>9, <1>10, <2>1, <2>2, ToSetIs
<1> QED
  BY <1>1, <1>5, <1>9, <1>11, <1>12

\* The messages that were not for the subgraph stay, and its own join them.
LEMMA MergedIMsgs ==
  ASSUME graph.imsgs \in Seq(BuiltMsg), NEW name \in Seq(STRING), NEW g, IsClear(g)
  PROVE  /\ Merged(g, name).imsgs \in Seq(BuiltMsg)
         /\ \A m \in ToSet(graph.imsgs) : m.comp # name => m \in ToSet(Merged(g, name).imsgs)
         /\ \A m \in ToSet(g.imsgs) : NamedIMsg(name, m) \in ToSet(Merged(g, name).imsgs)
<1> DEFINE named == Prefixed(name, g.imsgs, "comp")
           all == graph.imsgs \o named
           ms == FoldLeft(LAMBDA v, x : RedirectIMsg(name, v, x), all, g.ext_in)
<1>1. Merged(g, name).imsgs = ms
  BY DEF Merged
<1>2. g.imsgs \in Seq(IMsg) /\ g.ext_in \in Seq(InPort)
  BY PartsAre
<1>3. /\ named \in Seq(BuiltMsg) /\ Len(named) = Len(g.imsgs)
      /\ \A j \in 1..Len(g.imsgs) : named[j] = NamedIMsg(name, g.imsgs[j])
  BY <1>2, PrefixedIMsgs
<1>4. \A m \in IMsg : NamedIMsg(name, m) \in BuiltMsg /\ NamedIMsg(name, m).comp # name
  <2>1. \A n \in STRING : Append(name, n) \in Seq(STRING) /\ Append(name, n) # name
    BY AppendIs
  <2> QED
    BY <2>1 DEF IMsg, BuiltMsg, NamedIMsg
<1>5. /\ all \in Seq(BuiltMsg)
      /\ ToSet(all) = ToSet(graph.imsgs) \cup {NamedIMsg(name, m) : m \in ToSet(g.imsgs)}
  <2> DEFINE n == [m \in IMsg |-> NamedIMsg(name, m)]
  <2> HIDE DEF NamedIMsg
  <2>1. n \in [IMsg -> BuiltMsg]
    BY <1>4
  <2>2. \A j \in 1..Len(g.imsgs) : named[j] = n[g.imsgs[j]]
    BY <1>2, <1>3
  <2>3. \A m \in ToSet(g.imsgs) : n[m] = NamedIMsg(name, m)
    BY <1>2, ToSetIs
  <2> HIDE DEF n, named
  <2>4. Images(named, g.imsgs, n)
    BY <1>3, <2>2 DEF Images
  <2>5. all \in Seq(BuiltMsg) /\ Together(all, graph.imsgs, g.imsgs, n)
    BY ONLY graph.imsgs \in Seq(BuiltMsg), <1>2, <1>3, <2>4, TogetherIs
  <2> QED
    BY <2>3, <2>5 DEF Together
<1> HIDE DEF named, all
<1>6. IsFold(ms, Len(g.ext_in), Seq(BuiltMsg), all, RedirectIMsgStep(name, g.ext_in))
  BY <1>2, <1>5, RedirectIMsgFold
<1> HIDE DEF ms
<1>7. /\ ms \in Seq(BuiltMsg) /\ Len(ms) = Len(all)
      /\ \A j \in 1..Len(all) : all[j].comp # name => ms[j] = all[j]
  BY <1>2, <1>5, <1>6, RedirectIMsgAll
<1>8. \A m \in ToSet(all) : m.comp # name => m \in ToSet(ms)
  <2> SUFFICES ASSUME NEW m \in ToSet(all), m.comp # name
               PROVE  m \in ToSet(ms)
    OBVIOUS
  <2>1. PICK j \in 1..Len(all) : m = all[j]
    BY <1>5, ToSetIs
  <2>2. ms[j] \in ToSet(ms) /\ ms[j] = m
    BY <1>7, <2>1, ToSetIs
  <2> QED
    BY <2>2
<1>9. \A m \in ToSet(g.imsgs) : m \in IMsg
  BY <1>2, ToSetIs
<1> QED
  BY <1>1, <1>4, <1>5, <1>7, <1>8, <1>9

-----------------------------------------------------------------------------
(* The edges: they stand for the same, at whatever subgraph they are.       *)

\* The ports that an edge goes to and comes from.
ToEnd(e) == [comp |-> e.in_comp, port |-> e.in_port]
FromEnd(e) == [comp |-> e.out_comp, port |-> e.out_port]

\* The two edges stand for the same flow between agents.
Same(l, e, f) ==
  Inside(l, ToEnd(e)) = Inside(l, ToEnd(f)) /\ Outside(l, FromEnd(e)) = Outside(l, FromEnd(f))

\* A port that none of the graphs G takes further in.
NoInput(l, G, end) ==
  \A x \in G : x.name = end.comp => \A p \in ToSet(GraphOf(l, x).ext_in) : p.port # end.port
NoOutput(l, G, end) ==
  \A x \in G : x.name = end.comp => \A p \in ToSet(GraphOf(l, x).ext_out) : p.port # end.port

\* The edges es stand for the flows of the graphs G, and are as far in as G goes.
Joined(l, G, es) ==
  /\ es \in Seq(BuiltEdge)
  /\ \A e \in ToSet(es) :
       /\ NoInput(l, G, ToEnd(e)) /\ NoOutput(l, G, FromEnd(e))
       /\ \E x \in G : \E k \in ToSet(GraphOf(l, x).edges) : Same(l, NamedEdge(x.name, k), e)
  /\ \A x \in G : \A k \in ToSet(GraphOf(l, x).edges) :
       \E e \in ToSet(es) : Same(l, NamedEdge(x.name, k), e)

\* x is none of the graphs G, nor is a graph of G in it.
Fresh(G, x) == \A y \in G : y.name # x.name /\ \A n \in STRING : y.name # Append(x.name, n)

\* The ends of an edge are ends.
LEMMA EndsAre ==
  ASSUME NEW e \in BuiltEdge
  PROVE  ToEnd(e) \in End /\ FromEnd(e) \in End
BY DEF BuiltEdge, ToEnd, FromEnd, End

\* A redirected input stands for what it stood for.
LEMMA MovedInSame ==
  ASSUME NEW l \in Libraries, NEW x \in GraphsBelow(l), NEW e \in BuiltEdge, NEW d \in BuiltEdge,
         NEW ps, ps = GraphOf(l, x).ext_in, MovedIn(e, d, x.name, ps, Len(ps))
  PROVE  /\ Inside(l, ToEnd(d)) = Inside(l, ToEnd(e)) /\ FromEnd(d) = FromEnd(e)
         /\ \/ ToEnd(d) = ToEnd(e) /\ NoInput(l, {x}, ToEnd(e))
            \/ \E n \in STRING : d.in_comp = Append(x.name, n)
<1>1. IsGraph(l, x)
  BY DEF GraphsBelow
<1>2. ps \in Seq(InPort) /\ DOMAIN ps = 1..Len(ps)
  <2>1. ps \in Seq(InPort)
    BY <1>1, GraphsClear, PartsAre
  <2> QED
    BY <2>1, ToSetIs
<1>3. FromEnd(d) = FromEnd(e)
  BY DEF MovedIn, FromEnd
<1>4. CASE \E i \in 1..Len(ps) : e.in_comp = x.name /\ e.in_port = ps[i].port
  <2>1. PICK i \in 1..Len(ps) : e.in_comp = x.name /\ e.in_port = ps[i].port
    BY <1>4
  <2>2. d.in_comp = Append(x.name, ps[i].in_comp) /\ d.in_port = ps[i].in_port
    BY <2>1 DEF MovedIn
  <2>3. ToEnd(e) = [comp |-> x.name, port |-> ps[i].port] /\ ToEnd(e) \in End
    BY <2>1, EndsAre DEF ToEnd
  <2>4. Enter(l)[ToEnd(e)] = [comp |-> Append(x.name, ps[i].in_comp), port |-> ps[i].in_port]
    BY <1>2, <2>1, <2>3, EnterGoes
  <2>5. ToEnd(d) = Enter(l)[ToEnd(e)]
    BY <2>2, <2>4 DEF ToEnd
  <2>6. Inside(l, ToEnd(d)) = Inside(l, ToEnd(e))
    BY <2>3, <2>5, InsideKept
  <2>7. ps[i].in_comp \in STRING
    <3>1. ps[i] \in InPort
      BY <1>2
    <3> QED
      BY <3>1 DEF InPort
  <2> QED
    BY <1>3, <2>2, <2>6, <2>7
<1>5. CASE \A i \in 1..Len(ps) : ~(e.in_comp = x.name /\ e.in_port = ps[i].port)
  <2>1. ToEnd(d) = ToEnd(e)
    BY <1>5 DEF MovedIn, ToEnd
  <2>2. NoInput(l, {x}, ToEnd(e))
    <3> SUFFICES ASSUME x.name = ToEnd(e).comp, NEW p \in ToSet(ps)
                 PROVE  p.port # ToEnd(e).port
      BY DEF NoInput
    <3>1. PICK i \in 1..Len(ps) : p = ps[i]
      BY <1>2, ToSetIs
    <3>2. ToEnd(e).comp = e.in_comp /\ ToEnd(e).port = e.in_port
      BY DEF ToEnd
    <3> QED
      BY <1>5, <3>1, <3>2
  <2> QED
    BY <1>3, <2>1, <2>2
<1> QED
  BY <1>4, <1>5

\* A redirected output stands for what it stood for.
LEMMA MovedOutSame ==
  ASSUME NEW l \in Libraries, NEW x \in GraphsBelow(l), NEW e \in BuiltEdge, NEW d \in BuiltEdge,
         NEW ps, ps = GraphOf(l, x).ext_out, MovedOut(e, d, x.name, ps, Len(ps))
  PROVE  /\ Outside(l, FromEnd(d)) = Outside(l, FromEnd(e)) /\ ToEnd(d) = ToEnd(e)
         /\ \/ FromEnd(d) = FromEnd(e) /\ NoOutput(l, {x}, FromEnd(e))
            \/ \E n \in STRING : d.out_comp = Append(x.name, n)
<1>1. IsGraph(l, x)
  BY DEF GraphsBelow
<1>2. ps \in Seq(OutPort) /\ DOMAIN ps = 1..Len(ps)
  <2>1. ps \in Seq(OutPort)
    BY <1>1, GraphsClear, PartsAre
  <2> QED
    BY <2>1, ToSetIs
<1>3. ToEnd(d) = ToEnd(e)
  BY DEF MovedOut, ToEnd
<1>4. CASE \E i \in 1..Len(ps) : e.out_comp = x.name /\ e.out_port = ps[i].port
  <2>1. PICK i \in 1..Len(ps) : e.out_comp = x.name /\ e.out_port = ps[i].port
    BY <1>4
  <2>2. d.out_comp = Append(x.name, ps[i].out_comp) /\ d.out_port = ps[i].out_port
    BY <2>1 DEF MovedOut
  <2>3. FromEnd(e) = [comp |-> x.name, port |-> ps[i].port] /\ FromEnd(e) \in End
    BY <2>1, EndsAre DEF FromEnd
  <2>4. Leave(l)[FromEnd(e)] = [comp |-> Append(x.name, ps[i].out_comp), port |-> ps[i].out_port]
    BY <1>2, <2>1, <2>3, LeaveGoes
  <2>5. FromEnd(d) = Leave(l)[FromEnd(e)]
    BY <2>2, <2>4 DEF FromEnd
  <2>6. Outside(l, FromEnd(d)) = Outside(l, FromEnd(e))
    BY <2>3, <2>5, InsideKept
  <2>7. ps[i].out_comp \in STRING
    <3>1. ps[i] \in OutPort
      BY <1>2
    <3> QED
      BY <3>1 DEF OutPort
  <2> QED
    BY <1>3, <2>2, <2>6, <2>7
<1>5. CASE \A i \in 1..Len(ps) : ~(e.out_comp = x.name /\ e.out_port = ps[i].port)
  <2>1. FromEnd(d) = FromEnd(e)
    BY <1>5 DEF MovedOut, FromEnd
  <2>2. NoOutput(l, {x}, FromEnd(e))
    <3> SUFFICES ASSUME x.name = FromEnd(e).comp, NEW p \in ToSet(ps)
                 PROVE  p.port # FromEnd(e).port
      BY DEF NoOutput
    <3>1. PICK i \in 1..Len(ps) : p = ps[i]
      BY <1>2, ToSetIs
    <3>2. FromEnd(e).comp = e.out_comp /\ FromEnd(e).port = e.out_port
      BY DEF FromEnd
    <3> QED
      BY <1>5, <3>1, <3>2
  <2> QED
    BY <1>3, <2>1, <2>2
<1> QED
  BY <1>4, <1>5

\* What an edge becomes stands for what it stood for, and is past the subgraph.
LEMMA BecomesSame ==
  ASSUME NEW l \in Libraries, NEW x \in GraphsBelow(l), NEW e \in BuiltEdge, NEW f \in BuiltEdge,
         NEW g, g = GraphOf(l, x), Becomes(e, f, x.name, g)
  PROVE  /\ Same(l, e, f)
         /\ \/ ToEnd(f) = ToEnd(e) /\ NoInput(l, {x}, ToEnd(e))
            \/ \E n \in STRING : f.in_comp = Append(x.name, n)
         /\ \/ FromEnd(f) = FromEnd(e) /\ NoOutput(l, {x}, FromEnd(e))
            \/ \E n \in STRING : f.out_comp = Append(x.name, n)
<1>1. PICK d \in BuiltEdge : /\ MovedIn(e, d, x.name, g.ext_in, Len(g.ext_in))
                            /\ MovedOut(d, f, x.name, g.ext_out, Len(g.ext_out))
  BY DEF Becomes
<1>2. /\ Inside(l, ToEnd(d)) = Inside(l, ToEnd(e)) /\ FromEnd(d) = FromEnd(e)
      /\ \/ ToEnd(d) = ToEnd(e) /\ NoInput(l, {x}, ToEnd(e))
         \/ \E n \in STRING : d.in_comp = Append(x.name, n)
  BY <1>1, MovedInSame
<1>3. /\ Outside(l, FromEnd(f)) = Outside(l, FromEnd(d)) /\ ToEnd(f) = ToEnd(d)
      /\ \/ FromEnd(f) = FromEnd(d) /\ NoOutput(l, {x}, FromEnd(d))
         \/ \E n \in STRING : f.out_comp = Append(x.name, n)
  BY <1>1, MovedOutSame
<1>4. f.in_comp = d.in_comp
  BY <1>3 DEF ToEnd
<1> QED
  BY <1>2, <1>3, <1>4 DEF Same

\* With one graph more, the edges stand for the flows of that one too.
LEMMA JoinedGrows ==
  ASSUME NEW l \in Libraries, NEW G, G \subseteq GraphsBelow(l), Joined(l, G, graph.edges),
         NEW x \in GraphsBelow(l), Fresh(G, x)
  PROVE  Joined(l, G \cup {x}, Merged(GraphOf(l, x), x.name).edges)
<1> DEFINE g == GraphOf(l, x)
           fs == Merged(g, x.name).edges
           H == G \cup {x}
           Old(e) == \E y \in H : \E k \in ToSet(GraphOf(l, y).edges) : Same(l, NamedEdge(y.name, k), e)
<1>1. IsClear(g) /\ x.name \in Seq(STRING)
  BY GraphsClear, BelowGoesOn DEF GraphsBelow, Place
<1>2. graph.edges \in Seq(BuiltEdge)
  BY DEF Joined
<1>3. /\ fs \in Seq(BuiltEdge)
      /\ \A e \in EdgesWith(x.name, g) :
           e \in BuiltEdge /\ \E f \in ToSet(fs) : Becomes(e, f, x.name, g)
      /\ \A f \in ToSet(fs) :
           f \in BuiltEdge /\ \E e \in EdgesWith(x.name, g) : Becomes(e, f, x.name, g)
  BY <1>1, <1>2, MergedEdges
<1>4. \A k \in ToSet(g.edges) : k.in_comp \in STRING /\ k.out_comp \in STRING
                              /\ NamedEdge(x.name, k).in_comp = Append(x.name, k.in_comp)
                              /\ NamedEdge(x.name, k).out_comp = Append(x.name, k.out_comp)
  <2>1. g.edges \in Seq(Edge)
    BY <1>1, PartsAre
  <2>2. \A k \in ToSet(g.edges) : k \in Edge
    BY <2>1, ToSetIs
  <2> HIDE DEF g
  <2> QED
    BY <2>2 DEF Edge, NamedEdge
<1>5. ASSUME NEW e \in EdgesWith(x.name, g)
      PROVE  /\ Old(e)
             /\ NoInput(l, G, ToEnd(e)) /\ NoOutput(l, G, FromEnd(e))
  <2>1. CASE e \in ToSet(graph.edges)
    BY <2>1 DEF Joined
  <2>2. CASE \E k \in ToSet(g.edges) : e = NamedEdge(x.name, k)
    <3>1. PICK k \in ToSet(g.edges) : e = NamedEdge(x.name, k)
      BY <2>2
    <3>2. Old(e)
      BY <3>1 DEF Same
    <3>3. NoInput(l, G, ToEnd(e)) /\ NoOutput(l, G, FromEnd(e))
      BY <1>4, <3>1 DEF Fresh, NoInput, NoOutput, ToEnd, FromEnd
    <3> QED
      BY <3>2, <3>3
  <2> QED
    BY <2>1, <2>2 DEF EdgesWith
<1>6. \A n \in STRING : \A y \in H : y.name # Append(x.name, n)
  <2>1. \A n \in STRING : x.name # Append(x.name, n)
    BY <1>1, AppendIs
  <2> QED
    BY <2>1 DEF Fresh
<1>7. ASSUME NEW f \in ToSet(fs)
      PROVE  NoInput(l, H, ToEnd(f)) /\ NoOutput(l, H, FromEnd(f)) /\ Old(f)
  <2>1. PICK e \in EdgesWith(x.name, g) : Becomes(e, f, x.name, g)
    BY <1>3
  <2>2. e \in BuiltEdge /\ f \in BuiltEdge
    BY <1>3
  <2>3. /\ Same(l, e, f)
        /\ \/ ToEnd(f) = ToEnd(e) /\ NoInput(l, {x}, ToEnd(e))
           \/ \E n \in STRING : f.in_comp = Append(x.name, n)
        /\ \/ FromEnd(f) = FromEnd(e) /\ NoOutput(l, {x}, FromEnd(e))
           \/ \E n \in STRING : f.out_comp = Append(x.name, n)
    <3> HIDE DEF g
    <3> QED
      BY <2>1, <2>2, BecomesSame DEF g
  <2>4. Old(e) /\ NoInput(l, G, ToEnd(e)) /\ NoOutput(l, G, FromEnd(e))
    BY <1>5
  <2>5. NoInput(l, H, ToEnd(f))
    BY <1>6, <2>3, <2>4 DEF NoInput, ToEnd
  <2>6. NoOutput(l, H, FromEnd(f))
    BY <1>6, <2>3, <2>4 DEF NoOutput, FromEnd
  <2>7. Old(f)
    <3>1. PICK y \in H : \E k \in ToSet(GraphOf(l, y).edges) : Same(l, NamedEdge(y.name, k), e)
      BY <2>4
    <3>2. PICK k \in ToSet(GraphOf(l, y).edges) : Same(l, NamedEdge(y.name, k), e)
      BY <3>1
    <3>3. Same(l, NamedEdge(y.name, k), f)
      BY <2>3, <3>2 DEF Same
    <3> QED
      BY <3>2, <3>3
  <2> QED
    BY <2>5, <2>6, <2>7
<1>8. ASSUME NEW y \in H, NEW k \in ToSet(GraphOf(l, y).edges)
      PROVE  \E f \in ToSet(fs) : Same(l, NamedEdge(y.name, k), f)
  <2>1. PICK e \in EdgesWith(x.name, g) : Same(l, NamedEdge(y.name, k), e)
    <3>1. CASE y \in G
      BY <3>1 DEF Joined, EdgesWith
    <3>2. CASE y = x
      BY <3>2 DEF Same, EdgesWith
    <3> QED
      BY <3>1, <3>2
  <2>2. PICK f \in ToSet(fs) : Becomes(e, f, x.name, g)
    BY <1>3
  <2>3. e \in BuiltEdge /\ f \in BuiltEdge
    BY <1>3
  <2>4. Same(l, e, f)
    <3> HIDE DEF g
    <3> QED
      BY <2>2, <2>3, BecomesSame DEF g
  <2> QED
    BY <2>1, <2>4 DEF Same
<1> HIDE DEF fs
<1>9. Joined(l, H, fs)
  BY <1>3, <1>7, <1>8 DEF Joined
<1> QED
  BY <1>9 DEF fs

\* When all graphs were met, the edges are the flows.
LEMMA JoinedFlows ==
  ASSUME NEW l \in Libraries, Joined(l, GraphsBelow(l), graph.edges)
  PROVE  FlowsBuilt = Flows(l)
<1>1. ASSUME NEW e \in ToSet(graph.edges)
      PROVE  Inside(l, ToEnd(e)) = ToEnd(e) /\ Outside(l, FromEnd(e)) = FromEnd(e)
  <2>1. e \in BuiltEdge
    BY ToSetIs DEF Joined
  <2>2. ToEnd(e) \in End /\ FromEnd(e) \in End
    BY <2>1, EndsAre
  <2>3. NoInput(l, GraphsBelow(l), ToEnd(e)) /\ NoOutput(l, GraphsBelow(l), FromEnd(e))
    BY DEF Joined
  <2>4. Enter(l)[ToEnd(e)] = ToEnd(e)
    BY <2>2, <2>3, EnterStays DEF NoInput
  <2>5. Leave(l)[FromEnd(e)] = FromEnd(e)
    BY <2>2, <2>3, LeaveStays DEF NoOutput
  <2> QED
    BY <2>2, <2>4, <2>5, InsideKept
<1>2. ASSUME NEW x \in GraphsBelow(l), NEW k \in ToSet(GraphOf(l, x).edges)
      PROVE  ToEnd(NamedEdge(x.name, k)) = InEnd(x.name, k) /\ FromEnd(NamedEdge(x.name, k)) = OutEnd(x.name, k)
  <2>1. k \in Edge
    <3>1. GraphOf(l, x).edges \in Seq(Edge)
      BY GraphsClear, PartsAre DEF GraphsBelow
    <3> QED
      BY <3>1, ToSetIs
  <2> QED
    BY <2>1 DEF Edge, NamedEdge, ToEnd, FromEnd, InEnd, OutEnd
<1>3. FlowsBuilt = {<<FromEnd(e), ToEnd(e)>> : e \in ToSet(graph.edges)}
  BY DEF FlowsBuilt, FromEnd, ToEnd
<1>4. ASSUME NEW e \in ToSet(graph.edges)
      PROVE  <<FromEnd(e), ToEnd(e)>> \in Flows(l)
  <2>1. PICK x \in GraphsBelow(l) : \E k \in ToSet(GraphOf(l, x).edges) : Same(l, NamedEdge(x.name, k), e)
    BY DEF Joined
  <2>2. PICK k \in ToSet(GraphOf(l, x).edges) : Same(l, NamedEdge(x.name, k), e)
    BY <2>1
  <2>3. <<FromEnd(e), ToEnd(e)>> = <<Outside(l, OutEnd(x.name, k)), Inside(l, InEnd(x.name, k))>>
    BY <1>1, <1>2, <2>2 DEF Same
  <2> QED
    BY <2>3 DEF Flows
<1>5. ASSUME NEW x \in GraphsBelow(l), NEW k \in ToSet(GraphOf(l, x).edges)
      PROVE  <<Outside(l, OutEnd(x.name, k)), Inside(l, InEnd(x.name, k))>> \in FlowsBuilt
  <2>1. PICK e \in ToSet(graph.edges) : Same(l, NamedEdge(x.name, k), e)
    BY DEF Joined
  <2>2. <<FromEnd(e), ToEnd(e)>> = <<Outside(l, OutEnd(x.name, k)), Inside(l, InEnd(x.name, k))>>
    BY <1>1, <1>2, <2>1 DEF Same
  <2> QED
    BY <1>3, <2>2
<1>6. \A f \in Flows(l) : f \in FlowsBuilt
  BY <1>5 DEF Flows
<1> QED
  BY <1>3, <1>4, <1>6

-----------------------------------------------------------------------------
(* The calls of add_graph: the nodes that are still to come.                *)

\* The nodes of a graph that is read, and the calls for them.
CoreNode == [name : STRING, sort : STRING]
CallType == [name : Seq(STRING), nodes : Seq(CoreNode)]

\* The places of the nodes that a call has left, and those of all calls.
PlaceOf(name, n) == [name |-> Append(name, n.name), sort |-> n.sort]
Left(c) == {PlaceOf(c.name, n) : n \in ToSet(c.nodes)}
Pending(ts) == UNION {Left(ts[i]) : i \in DOMAIN ts}

\* No two nodes of a call have the same name.
Distinct(ns) == \A a, b \in DOMAIN ns : ns[a].name = ns[b].name => a = b

\* Each call is for a graph of G, has nodes of it left, and each of them once.
Calls(l, G, ts) ==
  /\ ts \in Seq(CallType)
  /\ \A i \in DOMAIN ts : \E x \in G : ts[i].name = x.name /\ Left(ts[i]) \subseteq NodesOf(l, x)
  /\ \A i, j \in DOMAIN ts : ts[i].name = ts[j].name => i = j
  /\ \A i \in DOMAIN ts : Distinct(ts[i].nodes)

\* Without its first node, a call has that node less.
LEMMA LeftTail ==
  ASSUME NEW c \in CallType, c.nodes # <<>>,
         Distinct(c.nodes),
         NEW d, d = [c EXCEPT !.nodes = Tail(c.nodes)],
         NEW r, r = PlaceOf(c.name, c.nodes[1])
  PROVE  /\ d \in CallType /\ d.name = c.name /\ Distinct(d.nodes)
         /\ r \in Left(c) /\ Left(d) = Left(c) \ {r}
<1>1. c.name \in Seq(STRING) /\ c.nodes \in Seq(CoreNode)
  BY DEF CallType
<1> DEFINE ns == c.nodes
           ms == Tail(ns)
<1>2. /\ ms \in Seq(CoreNode) /\ Len(ms) = Len(ns) - 1 /\ Len(ns) \in Nat /\ Len(ns) >= 1
      /\ \A i \in 1..Len(ms) : ms[i] = ns[i + 1]
      /\ DOMAIN ns = 1..Len(ns) /\ DOMAIN ms = 1..Len(ms)
  <2> HIDE DEF CoreNode
  <2> QED
    BY <1>1
<1>3. d \in CallType /\ d.name = c.name /\ d.nodes = ms
  <2> HIDE DEF ms
  <2> QED
    BY <1>1, <1>2 DEF CallType, ms
<1> HIDE DEF ms
<1>4. Distinct(ms)
  <2> SUFFICES ASSUME NEW a \in 1..Len(ms), NEW b \in 1..Len(ms), ms[a].name = ms[b].name
               PROVE  a = b
    BY <1>2 DEF Distinct
  <2>1. a + 1 \in 1..Len(ns) /\ b + 1 \in 1..Len(ns)
    BY <1>2
  <2>2. ns[a + 1].name = ns[b + 1].name
    BY <1>2
  <2>3. a + 1 = b + 1
    BY <1>2, <2>1, <2>2 DEF Distinct
  <2> QED
    BY <2>3
<1>5. 1 \in 1..Len(ns) /\ \A i \in 1..Len(ns) : ns[i].name \in STRING
  <2>1. \A i \in 1..Len(ns) : ns[i] \in CoreNode
    BY <1>1, <1>2
  <2> QED
    BY <1>2, <2>1 DEF CoreNode
<1>6. r \in Left(c)
  <2>1. ns[1] \in ToSet(ns)
    BY <1>2, <1>5 DEF ToSet
  <2> QED
    BY <2>1 DEF Left
<1>7. \A n \in ToSet(ms) : n \in ToSet(ns) /\ PlaceOf(c.name, n) # r
  <2> TAKE n \in ToSet(ms)
  <2>1. PICK i \in 1..Len(ms) : n = ms[i]
    BY <1>2, ToSetIs
  <2>2. i + 1 \in 1..Len(ns) /\ n = ns[i + 1] /\ i + 1 # 1
    BY <1>2, <2>1
  <2>3. n.name # ns[1].name /\ n.name \in STRING /\ ns[1].name \in STRING
    BY <1>2, <1>5, <2>2 DEF Distinct
  <2>4. Append(c.name, n.name) # Append(c.name, ns[1].name)
    BY ONLY <1>1, <2>3, AppendSplits
  <2>5. n \in ToSet(ns)
    BY <1>2, <2>2 DEF ToSet
  <2> QED
    BY <2>4, <2>5 DEF PlaceOf
<1>8. \A n \in ToSet(ns) : PlaceOf(c.name, n) # r => n \in ToSet(ms)
  <2> SUFFICES ASSUME NEW n \in ToSet(ns), PlaceOf(c.name, n) # r
               PROVE  n \in ToSet(ms)
    OBVIOUS
  <2>1. PICK i \in 1..Len(ns) : n = ns[i]
    BY <1>1, ToSetIs
  <2>2. i # 1
    BY <2>1
  <2>3. i - 1 \in 1..Len(ms) /\ (i - 1) + 1 = i
    BY <1>2, <2>1, <2>2
  <2>4. n = ms[i - 1]
    BY <1>2, <2>1, <2>3
  <2> QED
    BY <1>2, <2>3, <2>4 DEF ToSet
<1> HIDE DEF ns
<1>9. Left(d) = {PlaceOf(c.name, n) : n \in ToSet(ms)} /\ Left(c) = {PlaceOf(c.name, n) : n \in ToSet(ns)}
  BY <1>3 DEF Left, ns
<1>10. Left(d) = Left(c) \ {r}
  BY <1>7, <1>8, <1>9
<1> QED
  BY <1>3, <1>4, <1>6, <1>10

\* Going on, the vm has the node it was at less.
LEMMA GoneOnIs ==
  ASSUME NEW l, NEW G, Calls(l, G, todo), AtNode,
         NEW r, r = [name |-> NodeName, sort |-> Node.sort]
  PROVE  /\ Calls(l, G, GoneOn)
         /\ r \in Pending(todo) /\ Pending(GoneOn) = Pending(todo) \ {r}
         /\ \E x \in G : r \in NodesOf(l, x)
<1> DEFINE n == Len(todo)
           c == todo[n]
           d == [c EXCEPT !.nodes = Tail(c.nodes)]
           ts == GoneOn
<1>1. todo \in Seq(CallType) /\ n \in Nat /\ n \in 1..n /\ DOMAIN todo = 1..n
  <2>1. todo \in Seq(CallType) /\ todo # <<>>
    BY DEF Calls, AtNode
  <2> HIDE DEF CallType
  <2> QED
    BY <2>1
<1>2. \A i \in 1..n : todo[i] \in CallType
  BY <1>1
<1>3. c \in CallType /\ c.nodes # <<>>
  BY <1>1, <1>2 DEF AtNode, Call
<1>4. r = PlaceOf(c.name, c.nodes[1])
  BY DEF PlaceOf, NodeName, Node, Call
<1>5. Distinct(c.nodes)
  BY <1>1 DEF Calls
<1>6. /\ d \in CallType /\ d.name = c.name /\ Distinct(d.nodes)
      /\ r \in Left(c) /\ Left(d) = Left(c) \ {r}
  <2> HIDE DEF c, d
  <2> QED
    BY <1>3, <1>4, <1>5, LeftTail DEF d
<1>7. ts = [todo EXCEPT ![n] = d]
  BY <1>1 DEF GoneOn
<1> HIDE DEF d, ts
<1>8. /\ ts \in Seq(CallType) /\ Len(ts) = n /\ DOMAIN ts = 1..n
      /\ ts[n] = d /\ \A i \in 1..n : i # n => ts[i] = todo[i]
  <2> HIDE DEF CallType
  <2> QED
    BY <1>1, <1>6, <1>7
<1>9. \A i \in 1..n : ts[i].name = todo[i].name /\ Left(ts[i]) \subseteq Left(todo[i])
  BY <1>6, <1>8
<1>10. Calls(l, G, ts)
  <2>1. \A i \in 1..n : \E x \in G : ts[i].name = x.name /\ Left(ts[i]) \subseteq NodesOf(l, x)
    <3> TAKE i \in 1..n
    <3>1. PICK x \in G : todo[i].name = x.name /\ Left(todo[i]) \subseteq NodesOf(l, x)
      BY <1>1 DEF Calls
    <3> QED
      BY <1>9, <3>1
  <2>2. \A i, j \in 1..n : ts[i].name = ts[j].name => i = j
    BY <1>1, <1>9 DEF Calls
  <2>3. \A i \in 1..n : Distinct(ts[i].nodes)
    <3> TAKE i \in 1..n
    <3>1. CASE i = n
      BY <1>6, <1>8, <3>1
    <3>2. CASE i # n
      BY <1>1, <1>8, <3>2 DEF Calls
    <3> QED
      BY <3>1, <3>2
  <2> QED
    BY <1>8, <2>1, <2>2, <2>3 DEF Calls
<1>11. \A i \in 1..n : i # n => r \notin Left(todo[i])
  <2> SUFFICES ASSUME NEW i \in 1..n, i # n, r \in Left(todo[i])
               PROVE  FALSE
    OBVIOUS
  <2>1. PICK m \in ToSet(todo[i].nodes) : r = PlaceOf(todo[i].name, m)
    BY DEF Left
  <2>2. todo[i].name \in Seq(STRING) /\ m.name \in STRING
    <3>1. todo[i].name \in Seq(STRING) /\ todo[i].nodes \in Seq(CoreNode)
      BY <1>2 DEF CallType
    <3>2. m \in CoreNode
      BY <2>1, <3>1, ToSetIs
    <3> QED
      BY <3>1, <3>2 DEF CoreNode
  <2>3. c.name \in Seq(STRING) /\ c.nodes[1].name \in STRING
    <3>1. c.name \in Seq(STRING) /\ c.nodes \in Seq(CoreNode)
      BY <1>3 DEF CallType
    <3>2. c.nodes[1] \in CoreNode
      <4> HIDE DEF c
      <4> QED
        BY <1>3, <3>1
    <3> QED
      BY <3>1, <3>2 DEF CoreNode
  <2>4. Append(todo[i].name, m.name) = Append(c.name, c.nodes[1].name)
    BY <1>4, <2>1 DEF PlaceOf
  <2>5. todo[i].name = c.name
    <3> HIDE DEF c
    <3> QED
      BY ONLY <2>2, <2>3, <2>4, AppendSplits
  <2> QED
    BY <1>1, <2>5 DEF Calls
<1> HIDE DEF c
<1>12. r \in Pending(todo)
  BY <1>1, <1>6 DEF Pending, c
<1>13. Pending(ts) = Pending(todo) \ {r}
  <2>1. ASSUME NEW y \in Pending(ts)
        PROVE  y \in Pending(todo) /\ y # r
    <3>1. PICK i \in 1..n : y \in Left(ts[i])
      BY <1>8 DEF Pending
    <3>2. y \in Left(todo[i])
      BY <1>9, <3>1
    <3>3. y # r
      BY <1>6, <1>8, <1>11, <3>1, <3>2
    <3> QED
      BY <1>1, <3>2, <3>3 DEF Pending
  <2>2. ASSUME NEW y \in Pending(todo), y # r
        PROVE  y \in Pending(ts)
    <3>1. PICK i \in 1..n : y \in Left(todo[i])
      BY <1>1 DEF Pending
    <3>2. y \in Left(ts[i])
      BY <1>6, <1>8, <2>2, <3>1 DEF c
    <3> QED
      BY <1>8, <3>2 DEF Pending
  <2> QED
    BY <2>1, <2>2
<1>14. \E x \in G : r \in NodesOf(l, x)
  BY <1>1, <1>6 DEF Calls, c
<1> QED
  BY <1>10, <1>12, <1>13, <1>14 DEF ts

\* The call for a graph.
CallFor(l, x) == [name |-> x.name, nodes |-> GraphOf(l, x).nodes]

\* A new call has the nodes of its graph to come.
LEMMA AppendCall ==
  ASSUME NEW l \in Libraries, NEW G, NEW ts, Calls(l, G, ts), NEW x \in GraphsBelow(l),
         Fresh(G, x),
         NEW us, us = Append(ts, CallFor(l, x))
  PROVE  /\ Calls(l, G \cup {x}, us)
         /\ \A y : y \in Pending(us) <=> y \in Pending(ts) \/ y \in NodesOf(l, x)
<1> DEFINE c == [name |-> x.name, nodes |-> GraphOf(l, x).nodes]
           n == Len(ts)
<1>1. ts \in Seq(CallType)
  BY DEF Calls
<1>2. IsClear(GraphOf(l, x)) /\ x.name \in Seq(STRING)
  BY GraphsClear, BelowGoesOn DEF GraphsBelow, Place
<1>3. c \in CallType
  <2>1. GraphOf(l, x).nodes \in Seq(CoreNode)
    BY <1>2, PartsAre DEF CoreNode
  <2> QED
    BY <1>2, <2>1 DEF CallType
<1>4. Left(c) = NodesOf(l, x)
  BY DEF Left, NodesOf, PlaceOf
<1>5. Distinct(c.nodes)
  BY <1>2 DEF IsClear, Distinct
<1>6. c.name = x.name /\ us = Append(ts, c)
  BY DEF CallFor
<1> HIDE DEF c
<1>7. /\ us \in Seq(CallType) /\ n \in Nat /\ DOMAIN ts = 1..n /\ DOMAIN us = 1..(n + 1)
      /\ us[n + 1] = c /\ \A i \in 1..n : us[i] = ts[i]
  <2> HIDE DEF CallType
  <2> QED
    BY ONLY <1>1, <1>3, <1>6
<1>8. \A i \in 1..(n + 1) : i = n + 1 \/ i \in 1..n
  BY <1>7
<1>9. \A i \in 1..n : i \in 1..(n + 1) /\ \E y \in G : ts[i].name = y.name /\ Left(ts[i]) \subseteq NodesOf(l, y)
  BY <1>7 DEF Calls
<1>10. Calls(l, G \cup {x}, us)
  <2>1. \A i \in 1..(n + 1) : \E y \in G \cup {x} : us[i].name = y.name /\ Left(us[i]) \subseteq NodesOf(l, y)
    BY <1>4, <1>6, <1>7, <1>8, <1>9
  <2>2. \A i, j \in 1..(n + 1) : us[i].name = us[j].name => i = j
    <3>1. \A i, j \in 1..n : ts[i].name = ts[j].name => i = j
      BY <1>7 DEF Calls
    <3>2. \A i \in 1..n : ts[i].name # c.name
      BY <1>6, <1>9 DEF Fresh
    <3> QED
      BY <1>7, <1>8, <3>1, <3>2
  <2>3. \A i \in 1..(n + 1) : Distinct(us[i].nodes)
    <3> TAKE i \in 1..(n + 1)
    <3>1. CASE i = n + 1
      BY <1>5, <1>7, <3>1
    <3>2. CASE i \in 1..n
      BY <1>7, <3>2 DEF Calls
    <3> QED
      BY <1>8, <3>1, <3>2
  <2> QED
    BY <1>7, <2>1, <2>2, <2>3 DEF Calls
<1>11. \A y : y \in Pending(us) <=> y \in Pending(ts) \/ y \in NodesOf(l, x)
  <2>1. n + 1 \in 1..(n + 1)
    BY <1>7
  <2>2. \A y \in Pending(us) : y \in Pending(ts) \/ y \in NodesOf(l, x)
    BY <1>4, <1>7, <1>8 DEF Pending
  <2>3. \A y \in Pending(ts) : y \in Pending(us)
    BY <1>7, <1>9 DEF Pending
  <2>4. \A y \in NodesOf(l, x) : y \in Pending(us)
    BY <1>4, <1>7, <2>1 DEF Pending
  <2> QED
    BY <2>2, <2>3, <2>4
<1> QED
  BY <1>10, <1>11

\* A call that returns had nothing left.
LEMMA FrontCall ==
  ASSUME NEW l, NEW G, Calls(l, G, todo), todo # <<>>, Call.nodes = <<>>
  PROVE  Calls(l, G, Front(todo)) /\ Pending(Front(todo)) = Pending(todo)
<1> DEFINE n == Len(todo)
           us == Front(todo)
<1>1. todo \in Seq(CallType)
  BY DEF Calls
<1>2. n \in Nat /\ n >= 1 /\ DOMAIN todo = 1..n
  BY <1>1
<1>3. /\ us \in Seq(CallType) /\ DOMAIN us = 1..(n - 1)
      /\ \A i \in 1..(n - 1) : us[i] = todo[i]
  <2> HIDE DEF CallType
  <2> QED
    BY <1>1, <1>2 DEF Front
<1> HIDE DEF us
<1>4. (\A i \in 1..n : i = n \/ i \in 1..(n - 1)) /\ \A i \in 1..(n - 1) : i \in 1..n
  <2> HIDE DEF n
  <2> QED
    BY ONLY <1>2
<1>5. \A i \in 1..(n - 1) : i \in 1..n
  BY <1>4
<1>6. Calls(l, G, us)
  <2>1. \A i \in 1..(n - 1) : Distinct(us[i].nodes)
    BY <1>2, <1>3, <1>5 DEF Calls
  <2>2. \A i \in 1..(n - 1) : \E x \in G : us[i].name = x.name /\ Left(us[i]) \subseteq NodesOf(l, x)
    BY <1>2, <1>3, <1>5 DEF Calls
  <2>3. \A i, j \in 1..(n - 1) : us[i].name = us[j].name => i = j
    BY <1>2, <1>3, <1>5 DEF Calls
  <2> QED
    BY <1>3, <2>1, <2>2, <2>3 DEF Calls
<1>7. Left(todo[n]) = {}
  <2>1. ToSet(<<>>) = {}
    BY DEF ToSet
  <2> QED
    BY <2>1 DEF Left, Call
<1>8. Pending(us) = Pending(todo)
  BY <1>2, <1>3, <1>4, <1>5, <1>7 DEF Pending
<1> QED
  BY <1>6, <1>8 DEF us

-----------------------------------------------------------------------------
(* The places that were met.                                                *)

\* The graphs G and the agents A were met, each from a graph of G, and of the
\* nodes of G only the places P were not.
Walked(l, G, A, P) ==
  /\ Root \in G /\ G \subseteq GraphsBelow(l) /\ A \subseteq AgentsBelow(l)
  /\ \A x \in G : NodesOf(l, x) \subseteq G \cup A \cup P
  /\ P \cap (G \cup A) = {}
  /\ \A y \in G \cup A : y # Root => \E x \in G : y \in NodesOf(l, x)

\* The nodes of a graph are named after it.
LEMMA NodesNamed ==
  ASSUME NEW l \in Libraries, NEW x \in GraphsBelow(l), NEW y \in NodesOf(l, x)
  PROVE  /\ x.name \in Seq(STRING) /\ x \in Below(l) /\ y \in Below(l)
         /\ \E n \in STRING : y.name = Append(x.name, n)
         /\ y.name # <<>> /\ y # Root /\ y.name # x.name
<1>1. x \in Below(l) /\ x \in Place /\ IsGraph(l, x) /\ y \in Below(l)
  BY BelowGoesOn DEF GraphsBelow
<1>2. GraphOf(l, x).nodes \in Seq(CoreNode)
  BY <1>1, GraphsClear, PartsAre DEF CoreNode
<1>3. PICK k \in ToSet(GraphOf(l, x).nodes) : y = [name |-> Append(x.name, k.name), sort |-> k.sort]
  BY DEF NodesOf
<1>4. k.name \in STRING
  <2>1. k \in CoreNode
    BY <1>2, <1>3, ToSetIs
  <2> QED
    BY <2>1 DEF CoreNode
<1>5. x.name \in Seq(STRING) /\ y.name = Append(x.name, k.name)
  BY <1>1, <1>3 DEF Place
<1>6. y.name # <<>> /\ y.name # x.name
  <2>1. Len(y.name) = Len(x.name) + 1 /\ Len(x.name) \in Nat
    BY <1>4, <1>5, AppendIs
  <2> QED
    BY <2>1
<1>7. y # Root
  BY <1>6 DEF Root
<1> QED
  BY <1>1, <1>4, <1>5, <1>6, <1>7

\* A place is a node of one graph.
LEMMA OneParent ==
  ASSUME NEW l \in Libraries, NEW x \in GraphsBelow(l), NEW z \in GraphsBelow(l),
         NEW y \in NodesOf(l, x), NEW n \in STRING, y.name = Append(z.name, n)
  PROVE  x = z
<1>1. PICK k \in STRING : y.name = Append(x.name, k)
  BY NodesNamed
<1>2. x.name \in Seq(STRING) /\ z.name \in Seq(STRING) /\ x \in Below(l) /\ z \in Below(l)
  BY BelowGoesOn DEF GraphsBelow, Place
<1>3. x.name = z.name
  <2> DEFINE a == x.name
             b == z.name
  <2>1. a \in Seq(STRING) /\ b \in Seq(STRING) /\ Append(a, k) = Append(b, n)
    BY <1>1, <1>2
  <2> HIDE DEF a, b
  <2>2. a = b
    BY <2>1, AppendSplits
  <2> QED
    BY <2>2 DEF a, b
<1> QED
  BY <1>2, <1>3, NamedOnce

\* An agent is met.
LEMMA WalkedAgent ==
  ASSUME NEW l \in Libraries, NEW G, NEW A, NEW P, Walked(l, G, A, P),
         NEW r \in P, ~IsGraph(l, r), \E x \in G : r \in NodesOf(l, x)
  PROVE  Walked(l, G, A \cup {r}, P \ {r}) /\ r \notin A
<1>1. r \in AgentsBelow(l)
  BY BelowGoesOn DEF Walked, AgentsBelow
<1> QED
  BY <1>1 DEF Walked

\* A subgraph is met.
LEMMA WalkedGraph ==
  ASSUME NEW l \in Libraries, NEW G, NEW A, NEW P, Walked(l, G, A, P),
         NEW r \in P, IsGraph(l, r), \E x \in G : r \in NodesOf(l, x)
  PROVE  /\ Walked(l, G \cup {r}, A, (P \ {r}) \cup NodesOf(l, r))
         /\ r \in GraphsBelow(l) /\ Fresh(G, r)
<1>1. r \in GraphsBelow(l)
  BY BelowGoesOn DEF Walked, GraphsBelow
<1>2. r \notin G /\ G \subseteq GraphsBelow(l)
  BY DEF Walked
<1>3. ASSUME NEW y \in G \cup A, NEW n \in STRING, y.name = Append(r.name, n)
      PROVE  FALSE
  <2>1. r.name \in Seq(STRING)
    BY <1>1, BelowGoesOn DEF GraphsBelow, Place
  <2>2. y.name # <<>>
    <3>1. Len(y.name) = Len(r.name) + 1 /\ Len(r.name) \in Nat
      BY <1>3, <2>1, AppendIs
    <3> QED
      BY <3>1
  <2>3. y # Root
    BY <2>2 DEF Root
  <2>4. PICK x \in G : y \in NodesOf(l, x)
    BY <2>3 DEF Walked
  <2>5. x = r
    BY <1>1, <1>2, <1>3, <2>4, OneParent
  <2> QED
    BY <1>2, <2>5
<1>4. Fresh(G, r)
  <2>1. \A y \in G : y.name # r.name
    BY <1>1, <1>2, NamedOnce DEF GraphsBelow
  <2> QED
    BY <1>3, <2>1 DEF Fresh
<1>5. NodesOf(l, r) \cap (G \cup A) = {} /\ r \notin NodesOf(l, r)
  BY <1>1, <1>3, NodesNamed
<1>6. Walked(l, G \cup {r}, A, (P \ {r}) \cup NodesOf(l, r))
  BY <1>1, <1>5 DEF Walked
<1> QED
  BY <1>1, <1>4, <1>6

\* When nothing is left, all that is below was met.
LEMMA WalkedAll ==
  ASSUME NEW l \in Libraries, NEW G, NEW A, Walked(l, G, A, {})
  PROVE  G = GraphsBelow(l) /\ A = AgentsBelow(l)
<1>1. Root \in G \cup A /\ \A x \in G \cup A : IsGraph(l, x) => NodesOf(l, x) \subseteq G \cup A
  BY DEF Walked, AgentsBelow
<1>2. Below(l) \subseteq G \cup A
  BY <1>1, ClosedIsAll
<1> QED
  BY <1>2 DEF Walked, GraphsBelow, AgentsBelow

\* The messages that join the graph.
Messages(l, G, ms) ==
  /\ ms \in Seq(BuiltMsg)
  /\ \A x \in G : \A m \in ToSet(GraphOf(l, x).imsgs) :
       \/ \E y \in GraphsBelow(l) : y.name = Append(x.name, m.comp)
       \/ NamedIMsg(x.name, m) \in ToSet(ms)

\* With one graph more, its messages are there and those for agents stayed.
LEMMA MessagesGrow ==
  ASSUME NEW l \in Libraries, NEW G, G \subseteq GraphsBelow(l), Messages(l, G, graph.imsgs),
         NEW x \in GraphsBelow(l)
  PROVE  Messages(l, G \cup {x}, Merged(GraphOf(l, x), x.name).imsgs)
<1> DEFINE ns == Merged(GraphOf(l, x), x.name).imsgs
<1>1. IsClear(GraphOf(l, x)) /\ x.name \in Seq(STRING)
  BY GraphsClear, BelowGoesOn DEF GraphsBelow, Place
<1>2. /\ ns \in Seq(BuiltMsg)
      /\ \A m \in ToSet(graph.imsgs) : m.comp # x.name => m \in ToSet(ns)
      /\ \A m \in ToSet(GraphOf(l, x).imsgs) : NamedIMsg(x.name, m) \in ToSet(ns)
  BY <1>1, MergedIMsgs DEF Messages
<1> HIDE DEF ns
<1>3. ASSUME NEW y \in G, NEW m \in ToSet(GraphOf(l, y).imsgs),
             NamedIMsg(y.name, m) \in ToSet(graph.imsgs)
      PROVE  \/ \E z \in GraphsBelow(l) : z.name = Append(y.name, m.comp)
             \/ NamedIMsg(y.name, m) \in ToSet(ns)
  <2>1. m \in IMsg
    <3>1. GraphOf(l, y).imsgs \in Seq(IMsg)
      BY GraphsClear, PartsAre DEF GraphsBelow
    <3> QED
      BY <3>1, ToSetIs
  <2>2. NamedIMsg(y.name, m).comp = Append(y.name, m.comp)
    BY <2>1 DEF NamedIMsg, IMsg
  <2> QED
    BY <1>2, <1>3, <2>2
<1> QED
  BY <1>2, <1>3 DEF Messages, ns

-----------------------------------------------------------------------------
(* The invariant.                                                           *)

\* The graphs G were met, and the graph that is built has what is theirs.
Met(G) ==
  /\ Calls(library, G, todo)
  /\ Walked(library, G, ToSet(graph.nodes), Pending(todo))
  /\ Joined(library, G, graph.edges)
  /\ Messages(library, G, graph.imsgs)
  /\ \A x \in G : GraphOf(library, x).path = "error" => errors

\* Each agent is in the graph once.
NodesOnce ==
  /\ graph.nodes \in Seq(Place)
  /\ IsFiniteSet(ToSet(graph.nodes)) /\ Len(graph.nodes) = Cardinality(ToSet(graph.nodes))

\* The vm did not yet receive the graph; or it did, and is at work as long as
\* it has not sent anything.
Waits == graph = EmptyGraph /\ errors = FALSE /\ todo = <<>> /\ sent = "none"
Works ==
  /\ sent = "none" <=> todo # <<>>
  /\ graph = [path |-> graph.path, nodes |-> graph.nodes, edges |-> graph.edges,
              imsgs |-> graph.imsgs, ext_in |-> graph.ext_in, ext_out |-> graph.ext_out]
  /\ NodesOnce
  /\ \E G \in SUBSET GraphsBelow(library) : Met(G)

\* The inductive invariant.
VmInv ==
  /\ library \in Libraries /\ errors \in BOOLEAN
  /\ sent = "graph" => ~errors
  /\ Waits \/ Works

\* A graph has its parts and no more.
LEMMA MergedHasParts ==
  ASSUME NEW g, NEW name, NEW h, h = Merged(g, name)
  PROVE  h = [path |-> h.path, nodes |-> h.nodes, edges |-> h.edges,
              imsgs |-> h.imsgs, ext_in |-> h.ext_in, ext_out |-> h.ext_out]
BY Zenon DEF Merged

\* The graph there is before the first is met.
LEMMA EmptyGraphIs ==
  ASSUME NEW g, g = EmptyGraph
  PROVE  g.nodes = <<>> /\ g.edges = <<>> /\ g.imsgs = <<>>
<1>1. g.nodes = <<>>
  BY DEF EmptyGraph
<1>2. g.edges = <<>>
  BY DEF EmptyGraph
<1>3. g.imsgs = <<>>
  BY DEF EmptyGraph
<1> QED
  BY <1>1, <1>2, <1>3

\* The calls of an empty stack.
LEMMA NoCalls ==
  ASSUME NEW l, NEW G
  PROVE  Calls(l, G, <<>>) /\ Pending(<<>>) = {}
<1>1. <<>> \in Seq(CallType) /\ DOMAIN <<>> = {}
  OBVIOUS
<1> QED
  BY <1>1 DEF Calls, Pending

\* The nodes with one more that was not there.
LEMMA NodesMore ==
  ASSUME NodesOnce, NEW r \in Place, r \notin ToSet(graph.nodes),
         NEW ns, ns = Append(graph.nodes, r)
  PROVE  /\ ns \in Seq(Place) /\ ToSet(ns) = ToSet(graph.nodes) \cup {r}
         /\ IsFiniteSet(ToSet(ns)) /\ Len(ns) = Cardinality(ToSet(ns))
<1> DEFINE ms == graph.nodes
           n == Len(ms)
<1>1. ms \in Seq(Place) /\ IsFiniteSet(ToSet(ms)) /\ n = Cardinality(ToSet(ms))
  BY DEF NodesOnce
<1>2. /\ ns \in Seq(Place) /\ n \in Nat /\ Len(ns) = n + 1
      /\ DOMAIN ms = 1..n /\ DOMAIN ns = 1..(n + 1)
      /\ ns[n + 1] = r /\ \A i \in 1..n : ns[i] = ms[i]
  <2> HIDE DEF Place
  <2> QED
    BY <1>1
<1>3. (\A i \in 1..(n + 1) : i = n + 1 \/ i \in 1..n) /\ (\A i \in 1..n : i \in 1..(n + 1)) /\ n + 1 \in 1..(n + 1)
  BY <1>2
<1>4. ToSet(ns) = ToSet(ms) \cup {r}
  <2>1. \A x \in ToSet(ns) : x \in ToSet(ms) \/ x = r
    BY <1>2, <1>3 DEF ToSet
  <2>2. \A x \in ToSet(ms) : x \in ToSet(ns)
    BY <1>2, <1>3 DEF ToSet
  <2>3. r \in ToSet(ns)
    BY <1>2, <1>3 DEF ToSet
  <2> QED
    BY <2>1, <2>2, <2>3
<1>5. IsFiniteSet(ToSet(ns)) /\ Cardinality(ToSet(ns)) = n + 1
  BY <1>1, <1>4, FS_AddElement
<1> QED
  BY <1>2, <1>4, <1>5

\* The vm begins with the first graph.
LEMMA ReceiveKeeps ==
  ASSUME VmInv, Receive
  PROVE  VmInv'
<1> DEFINE l == library
           x == Root
<1>1. /\ l \in Libraries /\ errors \in BOOLEAN /\ sent = "none" /\ todo = <<>>
      /\ library' = l /\ sent' = sent
      /\ errors' = (errors \/ Top.path = "error")
      /\ graph' = Merged(Top, <<>>)
      /\ todo' = Append(<<>>, [name |-> <<>>, nodes |-> Top.nodes])
  BY DEF VmInv, Receive, AddGraph
<1>2. graph = EmptyGraph
  BY <1>1 DEF VmInv, Waits, Works
<1>3. graph.nodes = <<>> /\ graph.edges = <<>> /\ graph.imsgs = <<>>
  BY <1>2, EmptyGraphIs
<1>4. x \in GraphsBelow(l) /\ x.name = <<>> /\ GraphOf(l, x) = Top
  BY <1>1, BelowGoesOn DEF Root, GraphOf
<1>5. Calls(l, {} \cup {x}, todo') /\ Pending(todo') = {} \cup NodesOf(l, x)
  <2>1. Calls(l, {}, <<>>) /\ Pending(<<>>) = {}
    BY NoCalls
  <2>2. todo' = Append(<<>>, CallFor(l, x))
    BY <1>1, <1>4 DEF CallFor
  <2> DEFINE O == {}
             e == <<>>
             us == todo'
  <2>3. /\ Calls(l, O, e) /\ Pending(e) = {} /\ us = Append(e, CallFor(l, x))
        /\ Fresh(O, x)
    BY <2>1, <2>2 DEF Fresh
  <2> HIDE DEF l, x, O, e, us
  <2>4. Calls(l, O \cup {x}, us) /\ Pending(us) = Pending(e) \cup NodesOf(l, x)
    <3>1. l \in Libraries /\ x \in GraphsBelow(l)
      BY <1>1, <1>4
    <3>2. Fresh(O, x)
      BY <2>3
    <3>3. Calls(l, O, e)
      BY <2>3
    <3>4. us = Append(e, CallFor(l, x))
      BY <2>3
    <3>5. Calls(l, O \cup {x}, us)
      BY ONLY <3>1, <3>2, <3>3, <3>4, AppendCall
    <3>6. \A y : y \in Pending(us) <=> y \in Pending(e) \/ y \in NodesOf(l, x)
      BY ONLY <3>1, <3>2, <3>3, <3>4, AppendCall
    <3> QED
      BY <3>5, <3>6
  <2> QED
    BY <2>3, <2>4 DEF O, e, us
<1>6. Joined(l, {} \cup {x}, graph'.edges)
  <2>1. Joined(l, {}, graph.edges) /\ Fresh({}, x)
    <3>1. <<>> \in Seq(BuiltEdge) /\ ToSet(<<>>) = {}
      BY DEF ToSet
    <3> QED
      BY <1>3, <3>1 DEF Joined, Fresh
  <2>2. {} \subseteq GraphsBelow(l)
    OBVIOUS
  <2>3. Joined(l, {} \cup {x}, Merged(GraphOf(l, x), x.name).edges)
    BY <1>1, <1>4, <2>1, <2>2, JoinedGrows
  <2> QED
    BY <1>1, <1>4, <2>3
<1>7. Messages(l, {} \cup {x}, graph'.imsgs)
  <2>1. Messages(l, {}, graph.imsgs)
    <3>1. <<>> \in Seq(BuiltMsg)
      OBVIOUS
    <3> QED
      BY <1>3, <3>1 DEF Messages
  <2>2. {} \subseteq GraphsBelow(l)
    OBVIOUS
  <2>3. Messages(l, {} \cup {x}, Merged(GraphOf(l, x), x.name).imsgs)
    BY <1>1, <1>4, <2>1, <2>2, MessagesGrow
  <2> QED
    BY <1>1, <1>4, <2>3
<1>8. graph'.nodes = <<>> /\ ToSet(graph'.nodes) = {}
  <2>1. Merged(Top, <<>>).nodes = graph.nodes
    BY DEF Merged
  <2>2. ToSet(<<>>) = {}
    BY DEF ToSet
  <2> QED
    BY <1>1, <1>3, <2>1, <2>2
<1>9. Walked(l, {x}, {}, NodesOf(l, x))
  <2>1. x \notin NodesOf(l, x)
    BY <1>1, <1>4, NodesNamed
  <2> QED
    BY <1>4, <2>1 DEF Walked
<1>10. Met({x})'
  <2>1. \A y \in {x} : GraphOf(l, y).path = "error" => errors'
    BY <1>1, <1>4
  <2>2. {} \cup {x} = {x} /\ {} \cup NodesOf(l, x) = NodesOf(l, x)
    OBVIOUS
  <2>3. Calls(l, {x}, todo') /\ Walked(l, {x}, ToSet(graph'.nodes), Pending(todo'))
    BY <1>5, <1>8, <1>9, <2>2
  <2>4. Joined(l, {x}, graph'.edges) /\ Messages(l, {x}, graph'.imsgs)
    BY <1>6, <1>7, <2>2
  <2> HIDE DEF x
  <2> QED
    BY <1>1, <2>1, <2>3, <2>4 DEF Met
<1>11. NodesOnce'
  <2>1. <<>> \in Seq(Place) /\ Len(<<>>) = 0
    OBVIOUS
  <2> QED
    BY <1>8, <2>1, FS_EmptySet DEF NodesOnce
<1>12. todo' # <<>>
  BY <1>1
<1>13. /\ graph' = [path |-> graph'.path, nodes |-> graph'.nodes, edges |-> graph'.edges,
                   imsgs |-> graph'.imsgs, ext_in |-> graph'.ext_in, ext_out |-> graph'.ext_out]
  BY <1>1, MergedHasParts
<1>14. Works'
  <2>1. {x} \in SUBSET GraphsBelow(library')
    BY <1>1, <1>4
  <2> HIDE DEF x
  <2>2. (\E G \in SUBSET GraphsBelow(library) : Met(G))'
    BY <1>10, <2>1
  <2> QED
    BY <1>1, <1>11, <1>12, <1>13, <2>2 DEF Works
<1> QED
  BY <1>1, <1>14 DEF VmInv

\* A graph at work.
LEMMA WorksIs ==
  ASSUME VmInv, todo # <<>>
  PROVE  /\ library \in Libraries /\ errors \in BOOLEAN /\ sent = "none"
         /\ NodesOnce
         /\ graph = [path |-> graph.path, nodes |-> graph.nodes, edges |-> graph.edges,
                     imsgs |-> graph.imsgs, ext_in |-> graph.ext_in, ext_out |-> graph.ext_out]
         /\ \E G \in SUBSET GraphsBelow(library) : Met(G)
BY DEF VmInv, Waits, Works

\* Only the nodes of a graph are changed.
LEMMA NodesSet ==
  ASSUME NEW g, g = [path |-> g.path, nodes |-> g.nodes, edges |-> g.edges,
                     imsgs |-> g.imsgs, ext_in |-> g.ext_in, ext_out |-> g.ext_out],
         NEW ns, NEW h, h = [g EXCEPT !.nodes = ns]
  PROVE  /\ h.nodes = ns /\ h.edges = g.edges /\ h.imsgs = g.imsgs
         /\ h = [path |-> h.path, nodes |-> h.nodes, edges |-> h.edges,
                 imsgs |-> h.imsgs, ext_in |-> h.ext_in, ext_out |-> h.ext_out]
<1> DEFINE a == g.path
           c == g.edges
           d == g.imsgs
           e == g.ext_in
           f == g.ext_out
<1>1. h = [path |-> a, nodes |-> ns, edges |-> c, imsgs |-> d, ext_in |-> e, ext_out |-> f]
  OBVIOUS
<1> HIDE DEF a, c, d, e, f
<1>2. h.nodes = ns /\ h.edges = c /\ h.imsgs = d
  BY ONLY <1>1
<1>3. h = [path |-> h.path, nodes |-> h.nodes, edges |-> h.edges,
           imsgs |-> h.imsgs, ext_in |-> h.ext_in, ext_out |-> h.ext_out]
  BY ONLY <1>1
<1> QED
  BY <1>2, <1>3 DEF c, d

\* The node the vm is at is not the first graph, and it is a graph if it has a file.
LEMMA NodeIs ==
  ASSUME NEW G \in SUBSET GraphsBelow(library), Met(G), AtNode, library \in Libraries,
         NEW r, r = [name |-> NodeName, sort |-> Node.sort]
  PROVE  /\ r \in Place /\ r.name = NodeName /\ r # Root
         /\ IsGraph(library, r) <=> IsSubgraph(Node.sort)
         /\ IsGraph(library, r) => GraphOf(library, r) = library[Node.sort]
<1>1. PICK x \in G : r \in NodesOf(library, x)
  BY GoneOnIs DEF Met
<1>2. r # Root /\ r \in Below(library)
  BY <1>1, NodesNamed
<1>3. r \in Place
  BY <1>2, BelowGoesOn
<1>4. r.name = NodeName /\ r.sort = Node.sort
  OBVIOUS
<1> QED
  BY <1>2, <1>3, <1>4 DEF IsGraph, GraphOf, IsSubgraph

\* Going on, the vm is still at the same calls.
LEMMA GoneOnStays ==
  ASSUME NEW G, Calls(library, G, todo), AtNode
  PROVE  Len(GoneOn) = Len(todo) /\ Len(todo) \in Nat /\ Len(todo) # 0
<1>1. todo \in Seq(CallType) /\ todo # <<>>
  BY DEF Calls, AtNode
<1> HIDE DEF CallType
<1> QED
  BY <1>1 DEF GoneOn

\* An agent joins the nodes.
LEMMA AddAgentKeeps ==
  ASSUME VmInv, AddAgent
  PROVE  VmInv'
<1> DEFINE r == [name |-> NodeName, sort |-> Node.sort]
<1>1. /\ AtNode /\ ~IsSubgraph(Node.sort) /\ todo # <<>>
      /\ graph' = [graph EXCEPT !.nodes = Append(graph.nodes, r)]
      /\ todo' = GoneOn
      /\ library' = library /\ errors' = errors /\ sent' = sent
  BY DEF AddAgent, AtNode
<1>2. /\ library \in Libraries /\ errors \in BOOLEAN /\ sent = "none" /\ NodesOnce
      /\ graph = [path |-> graph.path, nodes |-> graph.nodes, edges |-> graph.edges,
                  imsgs |-> graph.imsgs, ext_in |-> graph.ext_in, ext_out |-> graph.ext_out]
      /\ \E G \in SUBSET GraphsBelow(library) : Met(G)
  BY <1>1, WorksIs
<1>3. PICK G \in SUBSET GraphsBelow(library) : Met(G)
  BY <1>2
<1>4. r \in Place /\ ~IsGraph(library, r)
  BY <1>1, <1>2, <1>3, NodeIs
<1>5. /\ Calls(library, G, GoneOn)
      /\ r \in Pending(todo) /\ Pending(GoneOn) = Pending(todo) \ {r}
      /\ \E x \in G : r \in NodesOf(library, x)
  BY <1>1, <1>3, GoneOnIs DEF Met
<1> DEFINE ns == Append(graph.nodes, r)
<1>6. /\ graph'.nodes = ns /\ graph'.edges = graph.edges /\ graph'.imsgs = graph.imsgs
      /\ graph' = [path |-> graph'.path, nodes |-> graph'.nodes, edges |-> graph'.edges,
                   imsgs |-> graph'.imsgs, ext_in |-> graph'.ext_in, ext_out |-> graph'.ext_out]
  <2>1. graph' = [graph EXCEPT !.nodes = ns]
    BY <1>1
  <2> HIDE DEF ns
  <2> QED
    BY <1>2, <2>1, NodesSet
<1> HIDE DEF r
<1>7. Walked(library, G, ToSet(graph.nodes) \cup {r}, Pending(todo) \ {r}) /\ r \notin ToSet(graph.nodes)
  BY <1>2, <1>3, <1>4, <1>5, WalkedAgent DEF Met
<1>8. /\ ns \in Seq(Place) /\ ToSet(ns) = ToSet(graph.nodes) \cup {r}
      /\ IsFiniteSet(ToSet(ns)) /\ Len(ns) = Cardinality(ToSet(ns))
  BY <1>2, <1>4, <1>7, NodesMore
<1>9. NodesOnce'
  BY <1>6, <1>8 DEF NodesOnce
<1>10. Met(G)'
  <2>1. Walked(library, G, ToSet(graph'.nodes), Pending(todo'))
    BY <1>1, <1>5, <1>6, <1>7, <1>8
  <2> QED
    BY <1>1, <1>3, <1>5, <1>6, <2>1 DEF Met
<1>11. (\E H \in SUBSET GraphsBelow(library) : Met(H))'
  BY <1>1, <1>10
<1>12. todo' # <<>>
  <2>1. Len(GoneOn) # 0
    BY <1>1, <1>3, GoneOnStays DEF Met
  <2> QED
    BY <1>1, <2>1
<1>13. Works'
  BY <1>1, <1>2, <1>6, <1>9, <1>11, <1>12 DEF Works
<1> QED
  BY <1>1, <1>2, <1>13 DEF VmInv

\* A subgraph is met, and what is in it joins the graph.
LEMMA AddSubgraphKeeps ==
  ASSUME VmInv, AddSubgraph
  PROVE  VmInv'
<1> DEFINE l == library
           r == [name |-> NodeName, sort |-> Node.sort]
           g == library[Node.sort]
<1>1. /\ AtNode /\ IsSubgraph(Node.sort) /\ todo # <<>>
      /\ errors' = (errors \/ g.path = "error")
      /\ graph' = Merged(g, NodeName)
      /\ todo' = Append(GoneOn, [name |-> NodeName, nodes |-> g.nodes])
      /\ library' = l /\ sent' = sent
  BY DEF AddSubgraph, AddGraph, AtNode
<1>2. /\ l \in Libraries /\ errors \in BOOLEAN /\ sent = "none" /\ NodesOnce
      /\ \E G \in SUBSET GraphsBelow(l) : Met(G)
  BY <1>1, WorksIs
<1>3. PICK G \in SUBSET GraphsBelow(l) : Met(G)
  BY <1>2
<1>4. r.name = NodeName /\ IsGraph(l, r) /\ GraphOf(l, r) = g
  BY <1>1, <1>2, <1>3, NodeIs
<1>5. /\ Calls(l, G, GoneOn)
      /\ r \in Pending(todo) /\ Pending(GoneOn) = Pending(todo) \ {r}
      /\ \E x \in G : r \in NodesOf(l, x)
  BY <1>1, <1>3, GoneOnIs DEF Met
<1>6. todo' = Append(GoneOn, CallFor(l, r)) /\ graph' = Merged(GraphOf(l, r), r.name)
  BY <1>1, <1>4 DEF CallFor
<1>7. todo' # <<>>
  <2>1. GoneOn \in Seq(CallType)
    BY <1>5 DEF Calls
  <2> DEFINE ts == GoneOn
             c == [name |-> NodeName, nodes |-> g.nodes]
  <2>2. todo' = Append(ts, c)
    BY <1>1
  <2> HIDE DEF CallType, ts, c
  <2>3. Len(Append(ts, c)) = Len(ts) + 1 /\ Len(ts) \in Nat
    BY <2>1 DEF ts
  <2> QED
    BY <2>2, <2>3
<1> HIDE DEF l, r, g
<1>8. /\ Walked(l, G \cup {r}, ToSet(graph.nodes), (Pending(todo) \ {r}) \cup NodesOf(l, r))
      /\ r \in GraphsBelow(l) /\ Fresh(G, r)
  <2>1. Walked(l, G, ToSet(graph.nodes), Pending(todo))
    BY <1>3 DEF Met, l
  <2> QED
    BY <1>2, <1>4, <1>5, <2>1, WalkedGraph
<1>9. /\ Calls(l, G \cup {r}, todo')
      /\ Pending(todo') = (Pending(todo) \ {r}) \cup NodesOf(l, r)
  <2> DEFINE ts == GoneOn
             us == todo'
  <2>1. Calls(l, G, ts) /\ us = Append(ts, CallFor(l, r))
    BY <1>5, <1>6
  <2>2. Pending(ts) = Pending(todo) \ {r}
    BY <1>5
  <2> HIDE DEF ts, us
  <2>3. Calls(l, G \cup {r}, us)
    BY ONLY <1>2, <1>8, <2>1, AppendCall
  <2>4. \A y : y \in Pending(us) <=> y \in Pending(ts) \/ y \in NodesOf(l, r)
    BY ONLY <1>2, <1>8, <2>1, AppendCall
  <2>5. Pending(us) = (Pending(todo) \ {r}) \cup NodesOf(l, r)
    BY <2>2, <2>4
  <2> QED
    BY <2>3, <2>5 DEF us
<1>10. G \subseteq GraphsBelow(l)
  OBVIOUS
<1>11. Joined(l, G \cup {r}, graph'.edges)
  <2>1. Joined(l, G, graph.edges)
    BY <1>3 DEF Met, l
  <2>2. Joined(l, G \cup {r}, Merged(GraphOf(l, r), r.name).edges)
    BY ONLY <1>2, <1>8, <1>10, <2>1, JoinedGrows
  <2> QED
    BY <1>6, <2>2
<1>12. Messages(l, G \cup {r}, graph'.imsgs)
  <2>1. Messages(l, G, graph.imsgs)
    BY <1>3 DEF Met, l
  <2>2. Messages(l, G \cup {r}, Merged(GraphOf(l, r), r.name).imsgs)
    BY ONLY <1>2, <1>8, <1>10, <2>1, MessagesGrow
  <2> QED
    BY <1>6, <2>2
<1>13. graph'.nodes = graph.nodes
  BY <1>1 DEF Merged
<1>14. \A x \in G \cup {r} : GraphOf(l, x).path = "error" => errors'
  <2>1. \A x \in G : GraphOf(l, x).path = "error" => errors
    BY <1>3 DEF Met, l
  <2>2. GraphOf(l, r).path = "error" => errors'
    BY <1>1, <1>4
  <2> QED
    BY <1>1, <2>1, <2>2
<1>15. PICK H : H = G \cup {r}
  OBVIOUS
<1>16. Met(H)'
  <2>1. Walked(l, H, ToSet(graph'.nodes), Pending(todo'))
    BY <1>8, <1>9, <1>13, <1>15
  <2>2. library' = l
    BY <1>1
  <2>3. Calls(l, H, todo') /\ Joined(l, H, graph'.edges) /\ Messages(l, H, graph'.imsgs)
    BY <1>9, <1>11, <1>12, <1>15
  <2>4. \A x \in H : GraphOf(l, x).path = "error" => errors'
    BY <1>14, <1>15
  <2> QED
    BY <2>1, <2>2, <2>3, <2>4 DEF Met
<1>17. (\E F \in SUBSET GraphsBelow(library) : Met(F))'
  <2>1. H \in SUBSET GraphsBelow(library')
    BY <1>1, <1>8, <1>15
  <2> QED
    BY <1>16, <2>1
<1>18. NodesOnce'
  BY <1>2, <1>13 DEF NodesOnce
<1>19. graph' = [path |-> graph'.path, nodes |-> graph'.nodes, edges |-> graph'.edges,
                 imsgs |-> graph'.imsgs, ext_in |-> graph'.ext_in, ext_out |-> graph'.ext_out]
  BY <1>1, MergedHasParts
<1>20. Works'
  BY <1>1, <1>2, <1>7, <1>17, <1>18, <1>19 DEF Works
<1> QED
  BY <1>1, <1>2, <1>20 DEF VmInv, l

\* What is left without the last.
LEMMA FrontLen ==
  ASSUME NEW T, NEW s \in Seq(T), s # <<>>
  PROVE  Len(s) \in Nat /\ Len(s) >= 1 /\ Len(Front(s)) = Len(s) - 1
<1>1. Len(s) \in Nat /\ Len(s) # 0
  OBVIOUS
<1>2. Len(s) >= 1 /\ Len(s) - 1 \in Nat
  BY <1>1
<1>3. Front(s) = [i \in 1..(Len(s) - 1) |-> s[i]]
  BY DEF Front
<1>4. Front(s) \in Seq(T)
  BY <1>2, <1>3
<1> QED
  BY <1>2, <1>3, <1>4

\* A call returns, and when it was the last the vm sends.
LEMMA ReturnKeeps ==
  ASSUME VmInv, Return
  PROVE  VmInv'
<1>1. /\ todo # <<>> /\ Call.nodes = <<>>
      /\ todo' = Front(todo)
      /\ sent' = IF Len(todo) > 1 THEN sent ELSE IF Sends THEN "graph" ELSE "nothing"
      /\ library' = library /\ graph' = graph /\ errors' = errors
  BY DEF Return
<1>2. /\ library \in Libraries /\ errors \in BOOLEAN /\ sent = "none" /\ NodesOnce
      /\ graph = [path |-> graph.path, nodes |-> graph.nodes, edges |-> graph.edges,
                  imsgs |-> graph.imsgs, ext_in |-> graph.ext_in, ext_out |-> graph.ext_out]
      /\ \E G \in SUBSET GraphsBelow(library) : Met(G)
  BY <1>1, WorksIs
<1>3. PICK G \in SUBSET GraphsBelow(library) : Met(G)
  BY <1>2
<1>4. Calls(library, G, Front(todo)) /\ Pending(Front(todo)) = Pending(todo)
  BY <1>1, <1>3, FrontCall DEF Met
<1>5. Met(G)'
  BY <1>1, <1>3, <1>4 DEF Met
<1>6. (\E H \in SUBSET GraphsBelow(library) : Met(H))'
  BY <1>1, <1>5
<1>7. Len(todo) \in Nat /\ Len(todo) >= 1 /\ Len(todo') = Len(todo) - 1 /\ todo' \in Seq(CallType)
  <2>1. todo \in Seq(CallType)
    BY <1>3 DEF Met, Calls
  <2>2. todo' \in Seq(CallType)
    BY <1>1, <1>4 DEF Calls
  <2> HIDE DEF CallType
  <2> QED
    BY <1>1, <2>1, <2>2, FrontLen
<1>8. todo' # <<>> <=> Len(todo) > 1
  <2> HIDE DEF CallType
  <2> QED
    BY <1>7
<1>9. sent' = "none" <=> todo' # <<>>
  BY <1>1, <1>2, <1>8
<1>10. Works'
  <2>1. NodesOnce'
    BY <1>1, <1>2 DEF NodesOnce
  <2>2. graph' = [path |-> graph'.path, nodes |-> graph'.nodes, edges |-> graph'.edges,
                  imsgs |-> graph'.imsgs, ext_in |-> graph'.ext_in, ext_out |-> graph'.ext_out]
    BY <1>1, <1>2
  <2> QED
    BY <1>6, <1>9, <2>1, <2>2 DEF Works
<1>11. sent' = "graph" => ~errors'
  BY <1>1, <1>2 DEF Sends
<1> QED
  BY <1>1, <1>2, <1>10, <1>11 DEF VmInv

\* The invariant of the vm: it holds of every library.
LEMMA VmInvariant == Spec => []VmInv
<1>1. Init => VmInv
  BY DEF Init, VmInv, Waits
<1>2. ASSUME VmInv, [Next]_vars
      PROVE  VmInv'
  <2>1. CASE Receive
    BY <1>2, <2>1, ReceiveKeeps
  <2>2. CASE AddAgent
    BY <1>2, <2>2, AddAgentKeeps
  <2>3. CASE AddSubgraph
    BY <1>2, <2>3, AddSubgraphKeeps
  <2>4. CASE Return
    BY <1>2, <2>4, ReturnKeeps
  <2>5. CASE UNCHANGED vars
    BY <1>2, <2>5 DEF vars, VmInv, Waits, Works, NodesOnce, Met
  <2> QED
    BY <1>2, <2>1, <2>2, <2>3, <2>4, <2>5 DEF Next
<1> QED
  BY <1>1, <1>2, PTL DEF Spec

\* When a graph was sent, all the graphs were met and nothing is left.
LEMMA BuiltIs ==
  ASSUME VmInv, Built
  PROVE  /\ library \in Libraries /\ NodesOnce /\ ~errors
         /\ ToSet(graph.nodes) = AgentsBelow(library)
         /\ Joined(library, GraphsBelow(library), graph.edges)
         /\ Messages(library, GraphsBelow(library), graph.imsgs)
         /\ \A x \in GraphsBelow(library) : GraphOf(library, x).path = "error" => errors
<1>1. /\ library \in Libraries /\ NodesOnce /\ ~errors /\ todo = <<>>
      /\ \E G \in SUBSET GraphsBelow(library) : Met(G)
  BY DEF VmInv, Built, Waits, Works
<1>2. PICK G \in SUBSET GraphsBelow(library) : Met(G)
  BY <1>1
<1>3. Pending(todo) = {}
  BY <1>1, NoCalls
<1>4. Walked(library, G, ToSet(graph.nodes), {})
  BY <1>2, <1>3 DEF Met
<1>5. G = GraphsBelow(library) /\ ToSet(graph.nodes) = AgentsBelow(library)
  BY <1>1, <1>4, WalkedAll
<1> QED
  BY <1>1, <1>2, <1>5 DEF Met

-----------------------------------------------------------------------------
(* The theorems.                                                            *)

\* Whatever the graphs are and in whatever order their nodes are, the nodes of
\* the graph that the vm sends are the agents below the graph, each once.
THEOREM AgentsKept == Spec => []NodesAreTheAgents
<1>1. VmInv => NodesAreTheAgents
  BY BuiltIs DEF NodesAreTheAgents, NodesOnce
<1> QED
  BY <1>1, VmInvariant, PTL

\* Its edges are the flows between agents: each redirected edge ends where the
\* ports of the subgraphs lead, and none is lost.
THEOREM FlowsKept == Spec => []FlowsMeet
<1>1. VmInv => FlowsMeet
  BY BuiltIs, JoinedFlows DEF FlowsMeet
<1> QED
  BY <1>1, VmInvariant, PTL

\* A message for an agent is not redirected by any subgraph.
THEOREM MessagesKept == Spec => []MessagesStay
<1>1. VmInv => MessagesStay
  BY BuiltIs DEF MessagesStay, Messages, NamedIMsg
<1> QED
  BY <1>1, VmInvariant, PTL

\* A graph with an error below it is never sent.
THEOREM ErrorsStop == Spec => []NoGraphWithErrors
<1>1. VmInv => NoGraphWithErrors
  BY BuiltIs DEF NoGraphWithErrors
<1> QED
  BY <1>1, VmInvariant, PTL
=============================================================================
