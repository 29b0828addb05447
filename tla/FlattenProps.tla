---------------------------- MODULE FlattenProps ----------------------------
(***************************************************************************)
(* What a graph of graphs means, and what module Flatten makes of it.      *)
(***************************************************************************)
EXTENDS Flatten, FiniteSets

CONSTANT Depth   \* graphs are in graphs at most so deep

\* The graphs that are read from files.
CoreGraph ==
  [path : STRING,
   nodes : Seq([name : STRING, sort : STRING]),
   edges : Seq([out_comp : STRING, out_port : STRING, out_elem : STRING,
                in_port : STRING, in_elem : STRING, in_comp : STRING]),
   imsgs : Seq([msg : STRING, port : STRING, elem : STRING, comp : STRING]),
   ext_in : Seq([port : STRING, in_port : STRING, in_elem : STRING, in_comp : STRING]),
   ext_out : Seq([port : STRING, out_port : STRING, out_elem : STRING, out_comp : STRING])]

\* A graph gives a name and a port one meaning.  The check of a graph sees to
\* the names and the inputs (GraphCheck.IllFormed); it does not read the outputs,
\* and of two with one name the second would get nothing.
IsClear(g) ==
  /\ g \in CoreGraph
  /\ \A i, j \in DOMAIN g.nodes : g.nodes[i].name = g.nodes[j].name => i = j
  /\ \A i, j \in DOMAIN g.ext_in : g.ext_in[i].port = g.ext_in[j].port => i = j
  /\ \A i, j \in DOMAIN g.ext_out : g.ext_out[i].port = g.ext_out[j].port => i = j

ASSUME GraphsAssumption == IsClear(Top) /\ \A l \in Libraries : \A s \in DOMAIN l : IsClear(l[s])

-----------------------------------------------------------------------------
(* The meaning of the graph Top with the graphs of a library l.             *)

\* x, step[x], step[step[x]] and so on.
Repeat(step, x) == LET f[k \in Nat] == IF k = 0 THEN x ELSE step[f[k - 1]] IN f

\* A place is a node of a graph, of a graph of that one, ...: the names on the
\* way to it, and its sort.
Place == [name : Seq(STRING), sort : STRING]
Root == [name |-> <<>>, sort |-> Top.path]

IsGraph(l, x) == x = Root \/ x.sort \in DOMAIN l
GraphOf(l, x) == IF x = Root THEN Top ELSE l[x.sort]

NodesOf(l, x) ==
  {[name |-> Append(x.name, n.name), sort |-> n.sort] : n \in ToSet(GraphOf(l, x).nodes)}

\* Level(l)[k] are the places k levels deep.
Deeper(l) == [xs \in SUBSET Place |-> UNION {NodesOf(l, x) : x \in {y \in xs : IsGraph(l, y)}}]
Level(l) == Repeat(Deeper(l), {Root})

\* No graph is in itself, on whatever way.
ASSUME DepthAssumption ==
  Depth \in Nat /\ \A l \in Libraries : \A x \in Level(l)[Depth] : ~IsGraph(l, x)

Below(l) == UNION {Level(l)[k] : k \in 0..Depth}
AgentsBelow(l) == {x \in Below(l) : ~IsGraph(l, x)}
GraphsBelow(l) == {x \in Below(l) : IsGraph(l, x)}

\* A port of a place.
End == [comp : Seq(STRING), port : STRING]

\* What a port of a subgraph stands for, in that subgraph: the port of a node.
Inputs(l, end) ==
  UNION {{[comp |-> Append(x.name, p.in_comp), port |-> p.in_port] :
            p \in {q \in ToSet(GraphOf(l, x).ext_in) : q.port = end.port}} :
         x \in {y \in GraphsBelow(l) : y.name = end.comp}}
Outputs(l, end) ==
  UNION {{[comp |-> Append(x.name, p.out_comp), port |-> p.out_port] :
            p \in {q \in ToSet(GraphOf(l, x).ext_out) : q.port = end.port}} :
         x \in {y \in GraphsBelow(l) : y.name = end.comp}}

Through(ends, end) == IF ends = {} THEN end ELSE CHOOSE e \in ends : TRUE
Enter(l) == [end \in End |-> Through(Inputs(l, end), end)]
Leave(l) == [end \in End |-> Through(Outputs(l, end), end)]

\* The port of an agent that a port of a node stands for.
Inside(l, end) == Repeat(Enter(l), end)[Depth]
Outside(l, end) == Repeat(Leave(l), end)[Depth]

OutEnd(name, e) == [comp |-> Append(name, e.out_comp), port |-> e.out_port]
InEnd(name, e) == [comp |-> Append(name, e.in_comp), port |-> e.in_port]

\* The flows between agents.
Flows(l) ==
  UNION {{<<Outside(l, OutEnd(x.name, e)), Inside(l, InEnd(x.name, e))>> :
            e \in ToSet(GraphOf(l, x).edges)} : x \in GraphsBelow(l)}

\* The initial messages and the agents' ports they are for.
Initial(l) ==
  UNION {{<<m.msg, Inside(l, [comp |-> Append(x.name, m.comp), port |-> m.port])>> :
            m \in ToSet(GraphOf(l, x).imsgs)} : x \in GraphsBelow(l)}

\* The same of the graph that was built.
FlowsBuilt ==
  {<<[comp |-> e.out_comp, port |-> e.out_port], [comp |-> e.in_comp, port |-> e.in_port]>> :
     e \in ToSet(graph.edges)}

InitialBuilt ==
  {<<m.msg, [comp |-> m.comp, port |-> m.port]>> : m \in ToSet(graph.imsgs)}

Built == sent = "graph"

-----------------------------------------------------------------------------
\* The nodes of the graph that is sent are the agents of all the subgraphs,
\* each once, with its own sort.
NodesAreTheAgents ==
  Built => /\ ToSet(graph.nodes) = AgentsBelow(library)
           /\ Len(graph.nodes) = Cardinality(AgentsBelow(library))

\* The edges of the graph that is sent join the agents that the edges of the
\* graphs join, through however many subgraphs, in whatever order they were met.
FlowsMeet == Built => FlowsBuilt = Flows(library)

\* A message for an agent stays with that agent.
MessagesStay ==
  Built => \A x \in GraphsBelow(library) : \A m \in ToSet(GraphOf(library, x).imsgs) :
             LET name == Append(x.name, m.comp) IN
             \/ \E y \in GraphsBelow(library) : y.name = name
             \/ [m EXCEPT !.comp = name] \in ToSet(graph.imsgs)

\* A graph is sent only if every subgraph of it was found and right.
NoGraphWithErrors ==
  Built => \A x \in GraphsBelow(library) : GraphOf(library, x).path # "error"

\* A message for a subgraph gets to the agent inside.
MessagesEnter == Built => InitialBuilt = Initial(library)
=============================================================================
