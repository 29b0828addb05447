-------------------------- MODULE GraphCheckProofs --------------------------
(***************************************************************************)
(* The proof that the check of a graph is right for every graph: after     *)
(* each step the tables say what was read, and errors says whether it is   *)
(* ill-formed.                                                             *)
(***************************************************************************)
EXTENDS GraphCheck, TLAPS

\* The keys of the edges and of the inputs.
Outs == [k \in DOMAIN graph.edges |-> graph.edges[k].out]
Ins == [k \in DOMAIN graph.ext_in |-> graph.ext_in[k].port]

\* How far each loop has come.
NodesRead == IF pc = "nodes" THEN i - 1 ELSE Len(graph.nodes)
EdgesRead == IF pc = "nodes" THEN 0 ELSE IF pc = "edges" THEN i - 1 ELSE Len(graph.edges)
InputsRead == IF pc \in {"nodes", "edges"} THEN 0
              ELSE IF pc = "ext_in" THEN i - 1 ELSE Len(graph.ext_in)

Twice(ks, n, x) == \E j, k \in 1..n : j < k /\ ks[j] = x /\ ks[k] = x

\* map has the first n keys of ks, and more than 1 for those that occur twice.
Counts(map, ks, n) ==
  /\ \A x : x \in DOMAIN map <=> \E j \in 1..n : ks[j] = x
  /\ \A x \in DOMAIN map : map[x] > 1 <=> Twice(ks, n, x)

\* The nodes table after n nodes.
Declares(n) ==
  /\ \A x : x \in DOMAIN nodes <=> \E j \in 1..n : graph.nodes[j].name = x
  /\ \A x \in DOMAIN nodes :
       nodes[x] # NoSort <=> \E j \in 1..n : graph.nodes[j].name = x /\ graph.nodes[j].sort # NoSort

\* What is wrong with what was read.
TwiceDeclared(n) ==
  \E j, k \in 1..n : /\ j < k /\ graph.nodes[j].name = graph.nodes[k].name
                     /\ graph.nodes[j].sort # NoSort /\ graph.nodes[k].sort # NoSort

IsDangling(e) == \E c \in {e.out.comp, e.inn.comp} :
                   \A j \in 1..Len(graph.nodes) : graph.nodes[j].name # c

Dangles(n) == \E k \in 1..n : IsDangling(graph.edges[k])

Repeats(ks, n) == \E j, k \in 1..n : j < k /\ ks[j] = ks[k]

Wrong == \/ TwiceDeclared(NodesRead) \/ Dangles(EdgesRead)
         \/ Repeats(Outs, EdgesRead) \/ Repeats(Ins, InputsRead)

InBounds ==
  /\ pc = "nodes" => i <= Len(graph.nodes) + 1
  /\ pc = "edges" => i <= Len(graph.edges) + 1
  /\ pc = "ext_in" => i <= Len(graph.ext_in) + 1
  /\ pc # "done" <=> sent = "none"

\* The inductive invariant.
IInv ==
  /\ TypeOK /\ InBounds
  /\ Declares(NodesRead)
  /\ Counts(edges, Outs, EdgesRead)
  /\ Counts(inputs, Ins, InputsRead)
  /\ errors <=> Wrong
  /\ sent = "graph" => ~errors
  /\ sent = "error" => errors

-----------------------------------------------------------------------------
\* What is in a sequence is of its type.
LEMMA Element == ASSUME NEW S, NEW s \in Seq(S), NEW k \in 1..Len(s) PROVE s[k] \in S
OBVIOUS

\* One more receiver for a key keeps the counts right.
LEMMA PushCounts ==
  ASSUME NEW map, NEW ks, NEW n \in Nat, NEW Keys,
         IsTable(map, Keys, Nat \ {0}), Counts(map, ks, n), ks[n + 1] \in Keys
  PROVE  /\ IsTable(Push(map, ks[n + 1]), Keys, Nat \ {0})
         /\ Counts(Push(map, ks[n + 1]), ks, n + 1)
<1> DEFINE k == ks[n + 1]
           new == Push(map, k)
<1>1. DOMAIN new = DOMAIN map \cup {k}
  BY DEF Push, Insert
<1>2. \A x \in DOMAIN map : x # k => new[x] = map[x]
  BY DEF Push, Insert
<1>3. new[k] = CountOf(map, k) + 1
  BY DEF Push, Insert
<1>4. CountOf(map, k) \in Nat /\ (k \in DOMAIN map => CountOf(map, k) >= 1)
      /\ (k \notin DOMAIN map => CountOf(map, k) = 0)
  BY DEF CountOf, IsTable
<1>5. \A x \in DOMAIN map : map[x] \in Nat \ {0}
  BY DEF IsTable
<1>6. \A x : (\E j \in 1..(n + 1) : ks[j] = x) <=> (x = k \/ \E j \in 1..n : ks[j] = x)
  OBVIOUS
<1>7. \A x : x # k => (Twice(ks, n + 1, x) <=> Twice(ks, n, x))
  BY DEF Twice
<1>8. Twice(ks, n + 1, k) <=> \E j \in 1..n : ks[j] = k
  BY DEF Twice
<1>9. IsTable(new, Keys, Nat \ {0})
  <2>1. \A x \in DOMAIN new : new[x] \in Nat \ {0}
    BY <1>1, <1>2, <1>3, <1>4, <1>5
  <2>2. new = [x \in DOMAIN new |-> new[x]]
    BY DEF Push, Insert
  <2> QED
    BY <1>1, <2>1, <2>2 DEF IsTable
<1>10. \A x : x \in DOMAIN new <=> \E j \in 1..(n + 1) : ks[j] = x
  BY <1>1, <1>6 DEF Counts
<1>11. ASSUME NEW x \in DOMAIN new
       PROVE  new[x] > 1 <=> Twice(ks, n + 1, x)
  <2>1. CASE x = k
    <3>1. k \in DOMAIN map <=> \E j \in 1..n : ks[j] = k
      BY DEF Counts
    <3> QED
      BY <2>1, <3>1, <1>3, <1>4, <1>8
  <2>2. CASE x # k
    BY <2>2, <1>1, <1>2, <1>7 DEF Counts
  <2> QED
    BY <2>1, <2>2
<1> QED
  BY <1>9, <1>10, <1>11 DEF Counts

\* The table shows a repetition exactly if there is one.
LEMMA CountsShowRepeats ==
  ASSUME NEW map, NEW ks, NEW n \in Nat, Counts(map, ks, n)
  PROVE  OneToMany(map) <=> Repeats(ks, n)
BY DEF Counts, OneToMany, Repeats, Twice

\* What is read only adds to the repetitions.
LEMMA RepeatsGrow ==
  ASSUME NEW ks, NEW n \in Nat, Repeats(ks, n)
  PROVE  Repeats(ks, n + 1)
BY DEF Repeats

-----------------------------------------------------------------------------
\* Before the first step the tables are empty and nothing was read.
LEMMA InitIInv == Init => IInv
<1> SUFFICES ASSUME Init PROVE IInv
  OBVIOUS
<1>1. DOMAIN NoEntries = {}
  BY DEF NoEntries
<1>2. graph \in CoreGraph
  BY GraphsAssumption DEF Init
<1>3. NodesRead = 0 /\ EdgesRead = 0 /\ InputsRead = 0
  BY DEF Init, NodesRead, EdgesRead, InputsRead
<1>4. /\ IsTable(nodes, Names, Sorts) /\ IsTable(edges, End, Nat \ {0})
      /\ IsTable(inputs, Ports, Nat \ {0})
  BY DEF Init, IsTable, NoEntries
<1>5. TypeOK
  <2>1. i \in Nat \ {0} /\ pc \in {"nodes", "edges", "ext_in", "done"}
        /\ sent \in {"none", "graph", "error"}
    BY DEF Init
  <2>2. errors \in BOOLEAN
    BY DEF Init
  <2> QED
    BY <1>2, <1>4, <2>1, <2>2 DEF TypeOK
<1>6. InBounds
  BY <1>2 DEF Init, InBounds, CoreGraph
<1>7. \A ks : Counts(NoEntries, ks, 0) /\ ~Repeats(ks, 0)
  BY <1>1 DEF Counts, Repeats
<1>8. Declares(0) /\ ~TwiceDeclared(0) /\ ~Dangles(0)
  BY <1>1 DEF Init, Declares, TwiceDeclared, Dangles
<1> QED
  BY <1>3, <1>5, <1>6, <1>7, <1>8 DEF Init, IInv, Wrong

-----------------------------------------------------------------------------
(* The steps.                                                               *)

\* A node more.
LEMMA CheckNodeKeeps == IInv /\ CheckNode => IInv'
<1> SUFFICES ASSUME IInv, CheckNode PROVE IInv'
  OBVIOUS
<1> PICK m \in Nat : i = m + 1
  BY DEF IInv, TypeOK
<1> DEFINE n == graph.nodes[m + 1]
<1>1. /\ pc = "nodes" /\ pc' = "nodes" /\ m + 1 <= Len(graph.nodes)
      /\ i' = m + 2 /\ graph' = graph /\ edges' = edges /\ inputs' = inputs
      /\ sent' = sent /\ sent = "none" /\ graph \in CoreGraph
  BY DEF CheckNode, IInv, TypeOK, InBounds
<1>2. graph.nodes \in Seq([name : Names, sort : Sorts])
  BY <1>1 DEF CoreGraph
<1>2a. n.name \in Names /\ n.sort \in Sorts
  <2>1. m + 1 \in 1..Len(graph.nodes)
    BY <1>1
  <2>2. n \in [name : Names, sort : Sorts]
    BY <1>2, <2>1, Element
  <2> QED
    BY <2>2
<1>3. /\ NodesRead = m /\ NodesRead' = m + 1
      /\ EdgesRead = 0 /\ EdgesRead' = 0 /\ InputsRead = 0 /\ InputsRead' = 0
  BY <1>1 DEF NodesRead, EdgesRead, InputsRead
<1>4. Outs' = Outs /\ Ins' = Ins
  BY <1>1 DEF Outs, Ins
<1>5. Declares(m)
  BY <1>3 DEF IInv
<1>6. nodes' = IF IsFree(n) THEN Insert(nodes, n.name, n.sort) ELSE nodes
  BY DEF CheckNode
<1>7. errors' = (errors \/ (~IsFree(n) /\ n.sort # NoSort))
  BY DEF CheckNode
<1>8. /\ DOMAIN nodes' = DOMAIN nodes \cup {n.name}
      /\ \A x \in DOMAIN nodes : x # n.name => nodes'[x] = nodes[x]
      /\ nodes'[n.name] = IF IsFree(n) THEN n.sort ELSE nodes[n.name]
  BY <1>6 DEF Insert, IsFree
<1>9. IsTable(nodes', Names, Sorts)
  <2>1. CASE IsFree(n)
    BY <2>1, <1>2a, <1>6 DEF IInv, TypeOK, IsTable, Insert
  <2>2. CASE ~IsFree(n)
    BY <2>2, <1>6 DEF IInv, TypeOK
  <2> QED
    BY <2>1, <2>2
<1>10. \A j : j \in 1..(m + 1) <=> j = m + 1 \/ j \in 1..m
  BY <1>1
<1>11. Declares(m + 1)'
  <2>1. \A x : x \in DOMAIN nodes' <=> \E j \in 1..(m + 1) : graph.nodes[j].name = x
    BY <1>5, <1>8, <1>10 DEF Declares
  <2>2. ASSUME NEW x \in DOMAIN nodes'
        PROVE  nodes'[x] # NoSort <=>
                 \E j \in 1..(m + 1) : graph.nodes[j].name = x /\ graph.nodes[j].sort # NoSort
    <3>1. CASE x # n.name
      BY <3>1, <1>5, <1>8, <1>10 DEF Declares
    <3>2. CASE x = n.name /\ x \notin DOMAIN nodes
      <4>1. nodes'[x] = n.sort
        BY <3>2, <1>8 DEF IsFree
      <4>2. ~ \E j \in 1..m : graph.nodes[j].name = x
        BY <3>2, <1>5 DEF Declares
      <4> QED
        BY <4>1, <4>2, <3>2, <1>10
    <3>3. CASE x = n.name /\ x \in DOMAIN nodes
      <4>1. nodes[x] # NoSort <=>
              \E j \in 1..m : graph.nodes[j].name = x /\ graph.nodes[j].sort # NoSort
        BY <3>3, <1>5 DEF Declares
      <4> QED
        BY <4>1, <3>3, <1>8, <1>10 DEF IsFree
    <3> QED
      BY <3>1, <3>2, <3>3
  <2> QED
    BY <2>1, <2>2, <1>1 DEF Declares
<1>12. (~IsFree(n) /\ n.sort # NoSort) <=>
         \E j \in 1..m : /\ graph.nodes[j].name = n.name /\ graph.nodes[j].sort # NoSort
                              /\ n.sort # NoSort
  BY <1>5 DEF IsFree, Declares
<1>13. TwiceDeclared(m + 1)' <=> (TwiceDeclared(m) \/ (~IsFree(n) /\ n.sort # NoSort))
  <2>1. TwiceDeclared(m + 1)' <=> TwiceDeclared(m + 1)
    BY <1>1 DEF TwiceDeclared
  <2>2. TwiceDeclared(m) => TwiceDeclared(m + 1)
    BY <1>10 DEF TwiceDeclared
  <2>3. (~IsFree(n) /\ n.sort # NoSort) => TwiceDeclared(m + 1)
    BY <1>1, <1>12 DEF TwiceDeclared
  <2>4. ASSUME TwiceDeclared(m + 1), ~TwiceDeclared(m)
        PROVE  ~IsFree(n) /\ n.sort # NoSort
    <3>1. PICK j \in 1..(m + 1), k \in 1..(m + 1) :
            /\ j < k /\ graph.nodes[j].name = graph.nodes[k].name
            /\ graph.nodes[j].sort # NoSort /\ graph.nodes[k].sort # NoSort
      BY <2>4 DEF TwiceDeclared
    <3>2. j \in 1..m
      BY <3>1, <1>1
    <3>3. k = m + 1
      BY <3>1, <3>2, <2>4, <1>10 DEF TwiceDeclared
    <3> QED
      BY <3>1, <3>2, <3>3, <1>12
  <2> QED
    BY <2>1, <2>2, <2>3, <2>4
<1>14. ~Dangles(0) /\ ~Dangles(0)' /\ ~Repeats(Outs, 0) /\ ~Repeats(Ins, 0)
  BY DEF Dangles, Repeats
<1>15. errors' <=> Wrong'
  BY <1>3, <1>4, <1>7, <1>13, <1>14 DEF IInv, Wrong
<1>16. TypeOK'
  BY <1>1, <1>7, <1>9 DEF IInv, TypeOK, IsTable
<1>17. InBounds'
  BY <1>1, <1>2 DEF InBounds
<1> QED
  BY <1>1, <1>3, <1>4, <1>11, <1>15, <1>16, <1>17 DEF IInv, Counts, Twice

\* An edge more.
LEMMA CheckEdgeKeeps == IInv /\ CheckEdge => IInv'
<1> SUFFICES ASSUME IInv, CheckEdge PROVE IInv'
  OBVIOUS
<1> PICK m \in Nat : i = m + 1
  BY DEF IInv, TypeOK
<1> DEFINE e == graph.edges[m + 1]
<1>1. /\ pc = "edges" /\ pc' = "edges" /\ m + 1 <= Len(graph.edges)
      /\ i' = m + 2 /\ graph' = graph /\ nodes' = nodes /\ inputs' = inputs
      /\ sent' = sent /\ sent = "none" /\ graph \in CoreGraph
  BY DEF CheckEdge, IInv, TypeOK, InBounds
<1>2. graph.nodes \in Seq([name : Names, sort : Sorts]) /\ graph.edges \in Seq([out : End, inn : End])
  BY <1>1 DEF CoreGraph
<1>3. e.out \in End
  <2>1. m + 1 \in 1..Len(graph.edges)
    BY <1>1
  <2>2. e \in [out : End, inn : End]
    BY <1>2, <2>1, Element
  <2> QED
    BY <2>2
<1>4. /\ NodesRead = Len(graph.nodes) /\ NodesRead' = Len(graph.nodes)
      /\ EdgesRead = m /\ EdgesRead' = m + 1 /\ InputsRead = 0 /\ InputsRead' = 0
  BY <1>1 DEF NodesRead, EdgesRead, InputsRead
<1>5. Outs' = Outs /\ Ins' = Ins
  BY <1>1 DEF Outs, Ins
<1>6. Outs[m + 1] = e.out
  <2>1. m + 1 \in DOMAIN graph.edges
    BY <1>1, <1>2
  <2> QED
    BY <2>1 DEF Outs
<1>7. edges' = Push(edges, Outs[m + 1])
  BY <1>6 DEF CheckEdge
<1>8. IsTable(edges, End, Nat \ {0}) /\ Counts(edges, Outs, m)
  BY <1>4 DEF IInv, TypeOK
<1>9. IsTable(edges', End, Nat \ {0}) /\ Counts(edges', Outs, m + 1)
  BY <1>3, <1>6, <1>7, <1>8, PushCounts
<1>10. OneToMany(edges') <=> Repeats(Outs, m + 1)
  BY <1>9, CountsShowRepeats
<1>11. Repeats(Outs, m) => Repeats(Outs, m + 1)
  BY RepeatsGrow
<1>12. Declares(Len(graph.nodes))
  BY <1>4 DEF IInv
<1>13. Uninstantiated(e) <=> IsDangling(e)
  BY <1>12 DEF Uninstantiated, IsDangling, Declares
<1>14. Dangles(m + 1)' <=> (Dangles(m) \/ IsDangling(e))
  <2>1. \A k : k \in 1..(m + 1) <=> k = m + 1 \/ k \in 1..m
    OBVIOUS
  <2> QED
    BY <1>1, <2>1 DEF Dangles, IsDangling
<1>15. errors' = (errors \/ Uninstantiated(e) \/ OneToMany(edges'))
  BY DEF CheckEdge
<1>16. TwiceDeclared(Len(graph.nodes))' <=> TwiceDeclared(Len(graph.nodes))
  BY <1>1 DEF TwiceDeclared
<1>17. errors' <=> Wrong'
  BY <1>4, <1>5, <1>1, <1>10, <1>11, <1>13, <1>14, <1>15, <1>16 DEF IInv, Wrong
<1>18. TypeOK'
  BY <1>1, <1>9, <1>15 DEF IInv, TypeOK, IsTable
<1>19. InBounds'
  BY <1>1, <1>2 DEF InBounds
<1>20. Declares(NodesRead)'
  BY <1>1, <1>4, <1>12 DEF Declares
<1> QED
  BY <1>1, <1>4, <1>5, <1>9, <1>17, <1>18, <1>19, <1>20 DEF IInv, Counts, Twice

\* An external input more.
LEMMA CheckInputKeeps == IInv /\ CheckInput => IInv'
<1> SUFFICES ASSUME IInv, CheckInput PROVE IInv'
  OBVIOUS
<1> PICK m \in Nat : i = m + 1
  BY DEF IInv, TypeOK
<1> DEFINE x == graph.ext_in[m + 1]
<1>1. /\ pc = "ext_in" /\ pc' = "ext_in" /\ m + 1 <= Len(graph.ext_in)
      /\ i' = m + 2 /\ graph' = graph /\ nodes' = nodes /\ edges' = edges
      /\ sent' = sent /\ sent = "none" /\ graph \in CoreGraph
  BY DEF CheckInput, IInv, TypeOK, InBounds
<1>2. graph.ext_in \in Seq([port : Ports, to : End])
  BY <1>1 DEF CoreGraph
<1>3. x.port \in Ports
  <2>1. m + 1 \in 1..Len(graph.ext_in)
    BY <1>1
  <2>2. x \in [port : Ports, to : End]
    BY <1>2, <2>1, Element
  <2> QED
    BY <2>2
<1>4. /\ NodesRead' = NodesRead /\ EdgesRead' = EdgesRead
      /\ InputsRead = m /\ InputsRead' = m + 1
  BY <1>1 DEF NodesRead, EdgesRead, InputsRead
<1>5. Outs' = Outs /\ Ins' = Ins
  BY <1>1 DEF Outs, Ins
<1>6. Ins[m + 1] = x.port
  <2>1. m + 1 \in DOMAIN graph.ext_in
    BY <1>1, <1>2
  <2> QED
    BY <2>1 DEF Ins
<1>7. inputs' = Push(inputs, Ins[m + 1])
  BY <1>6 DEF CheckInput
<1>8. IsTable(inputs, Ports, Nat \ {0}) /\ Counts(inputs, Ins, m)
  BY <1>4 DEF IInv, TypeOK
<1>9. IsTable(inputs', Ports, Nat \ {0}) /\ Counts(inputs', Ins, m + 1)
  BY <1>3, <1>6, <1>7, <1>8, PushCounts
<1>10. OneToMany(inputs') <=> Repeats(Ins, m + 1)
  BY <1>9, CountsShowRepeats
<1>11. Repeats(Ins, m) => Repeats(Ins, m + 1)
  BY RepeatsGrow
<1>12. errors' = (errors \/ OneToMany(inputs'))
  BY DEF CheckInput
<1>13. /\ TwiceDeclared(NodesRead)' <=> TwiceDeclared(NodesRead)
       /\ Dangles(EdgesRead)' <=> Dangles(EdgesRead)
  BY <1>1, <1>4 DEF TwiceDeclared, Dangles, IsDangling
<1>14. errors' <=> Wrong'
  BY <1>4, <1>5, <1>10, <1>11, <1>12, <1>13 DEF IInv, Wrong
<1>15. TypeOK'
  BY <1>1, <1>9, <1>12 DEF IInv, TypeOK, IsTable
<1>16. InBounds'
  BY <1>1, <1>2 DEF InBounds
<1>17. Declares(NodesRead)' /\ Counts(edges, Outs, EdgesRead)'
  BY <1>1, <1>4, <1>5 DEF IInv, Declares, Counts, Twice
<1> QED
  BY <1>1, <1>4, <1>5, <1>9, <1>14, <1>15, <1>16, <1>17 DEF IInv, Counts, Twice

\* Between the loops and at the end, what was read stays the same.
LEMMA OthersKeep == IInv /\ (NextLoop \/ Answer \/ UNCHANGED vars) => IInv'
<1> SUFFICES ASSUME IInv, NextLoop \/ Answer \/ UNCHANGED vars PROVE IInv'
  OBVIOUS
<1>1. graph \in CoreGraph
  BY DEF IInv, TypeOK
<1>2. /\ graph' = graph /\ nodes' = nodes /\ edges' = edges /\ inputs' = inputs
      /\ errors' = errors
  BY DEF NextLoop, Answer, vars
<1>3. Len(graph.nodes) \in Nat /\ Len(graph.edges) \in Nat /\ Len(graph.ext_in) \in Nat
  BY <1>1 DEF CoreGraph
<1>4. NodesRead' = NodesRead /\ EdgesRead' = EdgesRead /\ InputsRead' = InputsRead
  BY <1>2, <1>3 DEF IInv, TypeOK, InBounds, NextLoop, Answer, vars, NodesRead, EdgesRead, InputsRead
<1>5. Outs' = Outs /\ Ins' = Ins
  BY <1>2 DEF Outs, Ins
<1>6. TypeOK'
  <2>1. i' \in Nat \ {0} /\ pc' \in {"nodes", "edges", "ext_in", "done"}
        /\ sent' \in {"none", "graph", "error"}
    BY DEF IInv, TypeOK, NextLoop, Answer, vars
  <2> QED
    BY <1>2, <2>1 DEF IInv, TypeOK, IsTable
<1>7. InBounds'
  BY <1>2, <1>3 DEF IInv, TypeOK, InBounds, NextLoop, Answer, vars
<1>8. Declares(NodesRead)' /\ Counts(edges, Outs, EdgesRead)' /\ Counts(inputs, Ins, InputsRead)'
  BY <1>2, <1>4, <1>5 DEF IInv, Declares, Counts, Twice
<1>9. Wrong' <=> Wrong
  BY <1>2, <1>4, <1>5 DEF Wrong, TwiceDeclared, Dangles, IsDangling, Repeats
<1>10. (sent' = "graph" => ~errors') /\ (sent' = "error" => errors')
  <2>1. CASE Answer
    BY <2>1, <1>2 DEF Answer
  <2>2. CASE NextLoop \/ UNCHANGED vars
    BY <2>2 DEF IInv, NextLoop, vars
  <2> QED
    BY <2>1, <2>2
<1> QED
  BY <1>2, <1>6, <1>7, <1>8, <1>9, <1>10 DEF IInv

-----------------------------------------------------------------------------
\* The invariant holds in every state of every check.
THEOREM Invariance == Spec => []IInv
<1>1. IInv /\ [Next]_vars => IInv'
  BY CheckNodeKeeps, CheckEdgeKeeps, CheckInputKeeps, OthersKeep DEF Next
<1> QED
  BY InitIInv, <1>1, PTL DEF Spec

\* Every table keeps its type, for graphs of any size.
THEOREM TypeCorrect == Spec => []TypeOK
<1>1. IInv => TypeOK
  BY DEF IInv
<1> QED
  BY Invariance, <1>1, PTL

\* A graph is passed on to the vm exactly if it is well-formed: of every graph,
\* whatever its size.
THEOREM VerdictHolds == Spec => []Verdict
<1>1. IInv => Verdict
  <2> SUFFICES ASSUME IInv, sent # "none" PROVE errors <=> IllFormed(graph)
    BY DEF IInv, Verdict, TypeOK
  <2>1. graph \in CoreGraph /\ pc = "done"
    BY DEF IInv, TypeOK, InBounds
  <2>2. /\ graph.nodes \in Seq([name : Names, sort : Sorts])
        /\ graph.edges \in Seq([out : End, inn : End])
        /\ graph.ext_in \in Seq([port : Ports, to : End])
    BY <2>1 DEF CoreGraph
  <2>3. /\ DOMAIN graph.nodes = 1..Len(graph.nodes)
        /\ DOMAIN graph.edges = 1..Len(graph.edges)
        /\ DOMAIN graph.ext_in = 1..Len(graph.ext_in)
    BY <2>2
  <2>4. /\ NodesRead = Len(graph.nodes) /\ EdgesRead = Len(graph.edges)
        /\ InputsRead = Len(graph.ext_in)
    BY <2>1 DEF NodesRead, EdgesRead, InputsRead
  <2>5. TwiceDeclared(NodesRead) <=> DeclaredTwice(graph)
    BY <2>3, <2>4 DEF TwiceDeclared, DeclaredTwice
  <2>6. Dangles(EdgesRead) <=> Dangling(graph)
    BY <2>3, <2>4 DEF Dangles, IsDangling, Dangling
  <2>7. Repeats(Outs, EdgesRead) \/ Repeats(Ins, InputsRead) <=> Splits(graph)
    <3>1. Repeats(Outs, EdgesRead)
            <=> \E j, k \in DOMAIN graph.edges : j < k /\ graph.edges[j].out = graph.edges[k].out
      BY <2>3, <2>4 DEF Repeats, Outs
    <3>2. Repeats(Ins, InputsRead)
            <=> \E j, k \in DOMAIN graph.ext_in : j < k /\ graph.ext_in[j].port = graph.ext_in[k].port
      BY <2>3, <2>4 DEF Repeats, Ins
    <3> QED
      BY <3>1, <3>2 DEF Splits
  <2> QED
    BY <2>5, <2>6, <2>7 DEF IInv, Wrong, IllFormed
<1> QED
  BY Invariance, <1>1, PTL
=============================================================================
