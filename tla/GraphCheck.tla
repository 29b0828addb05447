----------------------------- MODULE GraphCheck -----------------------------
(***************************************************************************)
(* The agent that checks a graph before the vm gets it                     *)
(* (nodes/fvm/rs/parser/graph/check): it goes over the nodes, the edges    *)
(* and the external inputs, one after the other, and keeps three tables.   *)
(*                                                                         *)
(* An end of an edge is a component and a port, with its element if it has *)
(* one; the code writes it as a string, "c() p[e]", of which no two ends   *)
(* have the same.                                                          *)
(***************************************************************************)
EXTENDS Naturals, Sequences

CONSTANTS
  Names, Ports, Sorts,
  NoSort,   \* the sort "" of a component that is only named
  Graphs    \* the graphs to check

End == [comp : Names, port : Ports]

\* The struct CoreGraph, without the path and the messages, which are not read.
CoreGraph ==
  [nodes : Seq([name : Names, sort : Sorts]), edges : Seq([out : End, inn : End]),
   ext_in : Seq([port : Ports, to : End]), ext_out : Seq([port : Ports, from : End])]

ASSUME GraphsAssumption == Graphs \subseteq CoreGraph

VARIABLES
  graph,
  pc,        \* the loop the agent is in, or "done"
  i,         \* its next element
  nodes,     \* HashMap: the sort kept for each name
  edges,     \* HashMap: the number of receivers of each sender
  inputs,    \* HashMap: the number of receivers of each external input
  errors,    \* errors.len() > 0
  sent       \* what is sent: "none", "graph" to the vm, "error" to the errors agent

vars == <<graph, pc, i, nodes, edges, inputs, errors, sent>>

NoEntries == [k \in {} |-> 0]

Init ==
  /\ graph \in Graphs
  /\ pc = "nodes" /\ i = 1
  /\ nodes = NoEntries /\ edges = NoEntries /\ inputs = NoEntries
  /\ errors = FALSE /\ sent = "none"

\* HashMap::insert; and a receiver more for k.
Insert(map, k, v) == [x \in DOMAIN map \cup {k} |-> IF x = k THEN v ELSE map[x]]
CountOf(map, k) == IF k \in DOMAIN map THEN map[k] ELSE 0
Push_mut(map, k) == Insert(map, k, CountOf(map, k))
Push(map, k) == Insert(map, k, CountOf(map, k) + 1)

\* A sender, or an input, with more than one receiver.
OneToMany(map) == \E k \in DOMAIN map : map[k] > 1

\* The first sort that is not "" stays.
IsFree(n) == n.name \in DOMAIN nodes => nodes[n.name] = NoSort

CheckNode ==
  /\ pc = "nodes" /\ i <= Len(graph.nodes)
  /\ LET n == graph.nodes[i] IN
     /\ nodes' = IF IsFree(n) THEN Insert(nodes, n.name, n.sort) ELSE nodes
     /\ errors' = (errors \/ (~IsFree(n) /\ n.sort # NoSort))
  /\ i' = i + 1
  /\ UNCHANGED <<graph, pc, edges, inputs, sent>>

Uninstantiated_mut(e) == e.out.comp \notin DOMAIN nodes
Uninstantiated(e) == e.out.comp \notin DOMAIN nodes \/ e.inn.comp \notin DOMAIN nodes

CheckEdge ==
  /\ pc = "edges" /\ i <= Len(graph.edges)
  /\ LET e == graph.edges[i] IN
     /\ edges' = Push(edges, e.out)
     /\ errors' = (errors \/ Uninstantiated(e) \/ OneToMany(edges'))
  /\ i' = i + 1
  /\ UNCHANGED <<graph, pc, nodes, inputs, sent>>

CheckInput ==
  /\ pc = "ext_in" /\ i <= Len(graph.ext_in)
  /\ inputs' = Push(inputs, graph.ext_in[i].port)
  /\ errors' = (errors \/ OneToMany(inputs'))
  /\ i' = i + 1
  /\ UNCHANGED <<graph, pc, nodes, edges, sent>>

NextLoop ==
  /\ \/ pc = "nodes" /\ i > Len(graph.nodes) /\ pc' = "edges"
     \/ pc = "edges" /\ i > Len(graph.edges) /\ pc' = "ext_in"
  /\ i' = 1
  /\ UNCHANGED <<graph, nodes, edges, inputs, errors, sent>>

Answer ==
  /\ pc = "ext_in" /\ i > Len(graph.ext_in)
  /\ pc' = "done" /\ sent' = IF errors THEN "error" ELSE "graph"
  /\ UNCHANGED <<graph, i, nodes, edges, inputs, errors>>

Next == CheckNode \/ CheckEdge \/ CheckInput \/ NextLoop \/ Answer

Spec == Init /\ [][Next]_vars
-----------------------------------------------------------------------------
(* What the checks are for.                                                 *)

\* The type invariant.
IsTable(map, keys, values) ==
  map \in [DOMAIN map -> values] /\ DOMAIN map \subseteq keys

TypeOK ==
  /\ graph \in CoreGraph
  /\ pc \in {"nodes", "edges", "ext_in", "done"}
  /\ i \in Nat \ {0}
  /\ IsTable(nodes, Names, Sorts)
  /\ IsTable(edges, End, Nat \ {0})
  /\ IsTable(inputs, Ports, Nat \ {0})
  /\ errors \in BOOLEAN
  /\ sent \in {"none", "graph", "error"}

\* A name is given a sort twice.
DeclaredTwice(g) ==
  \E j, k \in DOMAIN g.nodes :
    /\ j < k /\ g.nodes[j].name = g.nodes[k].name
    /\ g.nodes[j].sort # NoSort /\ g.nodes[k].sort # NoSort

\* An edge joins a component that is not a node.
Dangling(g) ==
  \E k \in DOMAIN g.edges : \E c \in {g.edges[k].out.comp, g.edges[k].inn.comp} :
    \A j \in DOMAIN g.nodes : g.nodes[j].name # c

\* Two edges leave the same port, or two inputs have the same name.
Splits(g) ==
  \/ \E j, k \in DOMAIN g.edges : j < k /\ g.edges[j].out = g.edges[k].out
  \/ \E j, k \in DOMAIN g.ext_in : j < k /\ g.ext_in[j].port = g.ext_in[k].port

IllFormed(g) == DeclaredTwice(g) \/ Dangling(g) \/ Splits(g)

\* A graph is passed on exactly if no name is declared twice, no edge dangles
\* and no port sends to two receivers: the tables, kept on the way, miss nothing
\* and report nothing else, in whatever order the statements come.
Verdict == /\ sent = "graph" => ~IllFormed(graph)
           /\ sent = "error" => IllFormed(graph)
=============================================================================
