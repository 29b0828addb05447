------------------------------- MODULE Flatten -------------------------------
(***************************************************************************)
(* The vm of the Rust fvm (nodes/fvm/rs/vm): it replaces the subgraphs of  *)
(* a graph by what they are made of, until only agents are left.           *)
(*                                                                         *)
(* The code recurses over the nodes of a graph and asks other agents for   *)
(* the path of each node and for the graph of each subgraph.  Here the     *)
(* recursion is the stack todo, and the answers are those of a library     *)
(* that has one to every question; module Fvm has the agents that answer,  *)
(* and the vm that waits for them.                                         *)
(*                                                                         *)
(* The code joins the names on the way to a node with "-".  Here the name  *)
(* is the sequence of these names: it is the same thing as long as no name *)
(* has a "-" in it.                                                        *)
(***************************************************************************)
EXTENDS Naturals, Sequences, SequencesExt

CONSTANTS
  Libraries,   \* the libraries to check: each gives the graphs of some sorts
  Top          \* the graph that is asked for

VARIABLES
  library,     \* the graphs of the sorts that are subgraphs; the others are agents
  todo,        \* the calls of add_graph: the name of each and its nodes left
  graph,       \* the graph that is built
  errors,
  sent         \* what the vm sent: "none", "graph", or "nothing" when it is done

vars == <<library, todo, graph, errors, sent>>

NoElem == "no element"

\* CoreGraph::new().
EmptyGraph ==
  [path |-> "", nodes |-> <<>>, edges |-> <<>>, imsgs |-> <<>>, ext_in |-> <<>>, ext_out |-> <<>>]

\* The graph that the errors agent sends.
ErrorGraph == [EmptyGraph EXCEPT !.path = "error"]

IsSubgraph(sort) == sort \in DOMAIN library

-----------------------------------------------------------------------------
Each(F(_), s) == [i \in DOMAIN s |-> F(s[i])]

Prefixed(name, s, field) == Each(LAMBDA x : [x EXCEPT ![field] = Append(name, @)], s)

\* The edges to port x.port of the subgraph go where x says, and those from it
\* come from there; their elements stay as they are.
RedirectIn_mut(name, edges, x) ==
  Each(LAMBDA e : IF e.in_comp = name /\ e.in_port = x.in_port
                  THEN [e EXCEPT !.in_comp = Append(name, x.in_comp), !.in_port = x.in_port]
                  ELSE e, edges)
RedirectIn(name, edges, x) ==
  Each(LAMBDA e : IF e.in_comp = name /\ e.in_port = x.port
                  THEN [e EXCEPT !.in_comp = Append(name, x.in_comp), !.in_port = x.in_port]
                  ELSE e, edges)

RedirectOut(name, edges, x) ==
  Each(LAMBDA e : IF e.out_comp = name /\ e.out_port = x.port
                  THEN [e EXCEPT !.out_comp = Append(name, x.out_comp), !.out_port = x.out_port]
                  ELSE e, edges)

\* The initial messages are compared with the port inside.
RedirectIMsg_mut(name, imsgs, x) ==
  Each(LAMBDA m : IF m.port = x.in_port
                  THEN [m EXCEPT !.comp = Append(name, x.in_comp), !.port = x.in_port,
                                 !.elem = x.in_elem]
                  ELSE m, imsgs)
RedirectIMsg(name, imsgs, x) ==
  Each(LAMBDA m : IF m.comp = name /\ m.port = x.in_port
                  THEN [m EXCEPT !.comp = Append(name, x.in_comp), !.port = x.in_port,
                                 !.elem = x.in_elem]
                  ELSE m, imsgs)

IsMain == Len(graph.nodes) < 1

\* add_graph up to its nodes: what is in the graph g of the subgraph name joins
\* the graph, and what went to the subgraph goes to its insides.
Merged(g, name) ==
  [path |-> graph.path,
   nodes |-> graph.nodes,
   edges |->
     LET all == graph.edges \o Prefixed(name, Prefixed(name, g.edges, "out_comp"), "in_comp")
     IN FoldLeft(LAMBDA es, x : RedirectOut(name, es, x),
                 FoldLeft(LAMBDA es, x : RedirectIn(name, es, x), all, g.ext_in), g.ext_out),
   imsgs |->
     FoldLeft(LAMBDA ms, x : RedirectIMsg(name, ms, x),
              graph.imsgs \o Prefixed(name, g.imsgs, "comp"), g.ext_in),
   ext_in |->
     graph.ext_in \o (IF IsMain THEN Prefixed(name, g.ext_in, "in_comp") ELSE <<>>),
   ext_out |->
     graph.ext_out \o (IF IsMain THEN Prefixed(name, g.ext_out, "out_comp") ELSE <<>>)]

AddGraph_mut(g, name, rest) ==
  /\ errors' = (g.path = "error")
  /\ graph' = Merged(g, name)
  /\ todo' = Append(rest, [name |-> name, nodes |-> g.nodes])
AddGraph(g, name, rest) ==
  /\ errors' = (errors \/ g.path = "error")
  /\ graph' = Merged(g, name)
  /\ todo' = Append(rest, [name |-> name, nodes |-> g.nodes])

-----------------------------------------------------------------------------
Init ==
  /\ library \in Libraries
  /\ todo = <<>> /\ graph = EmptyGraph /\ errors = FALSE /\ sent = "none"

\* The vm is run with the graph that was asked for.
Receive ==
  /\ sent = "none" /\ todo = <<>>
  /\ AddGraph(Top, <<>>, <<>>)
  /\ UNCHANGED <<library, sent>>

\* The innermost call, the node it is at, and the calls once it has gone on.  A node
\* is an agent or a subgraph: the agent find answers every question with a path, and
\* what the vm does without one, clear the errors and go on, is never done.
Call == todo[Len(todo)]
Node == Call.nodes[1]
NodeName_mut == <<Node.name>>
NodeName == Append(Call.name, Node.name)
GoneOn == [todo EXCEPT ![Len(todo)].nodes = Tail(@)]
AtNode == todo # <<>> /\ Call.nodes # <<>>

AddAgent ==
  /\ AtNode /\ ~IsSubgraph(Node.sort)
  /\ graph' = [graph EXCEPT !.nodes = Append(@, [name |-> NodeName, sort |-> Node.sort])]
  /\ todo' = GoneOn
  /\ UNCHANGED <<library, errors, sent>>

AddSubgraph ==
  /\ AtNode /\ IsSubgraph(Node.sort)
  /\ AddGraph(library[Node.sort], NodeName, GoneOn)
  /\ UNCHANGED <<library, sent>>

\* add_graph returns, and the outermost call sends what it has.
Sends == ~errors

Return ==
  /\ todo # <<>> /\ Call.nodes = <<>>
  /\ todo' = Front(todo)
  /\ sent' = IF Len(todo) > 1 THEN sent ELSE IF Sends THEN "graph" ELSE "nothing"
  /\ UNCHANGED <<library, graph, errors>>

Next == Receive \/ AddAgent \/ AddSubgraph \/ Return

Spec == Init /\ [][Next]_vars
=============================================================================
