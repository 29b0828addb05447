-------------------------------- MODULE Loader --------------------------------
(***************************************************************************)
(* The agent core_scheduler of the Rust fvm (nodes/fvm/rs/scheduler): it   *)
(* makes a flat graph into agents with the calls of an exterior scheduler  *)
(* that it keeps in its accumulator, while these agents run already, and   *)
(* waits for their end when it is told to halt.                            *)
(*                                                                         *)
(* An end of an edge is its component, port and element; no element is     *)
(* Exterior's Simple, for which the code has calls of their own.           *)
(***************************************************************************)
EXTENDS Exterior

CONSTANTS
  Graphs,   \* the graphs that the vm may send
  MaxMail   \* bound: messages to the interior scheduler at a time

\* The end of an edge; what it names are strings.
End == [comp : STRING, port : STRING, elem : STRING]

ASSUME GraphsAssumption == \A g \in Graphs : g.edges \in Seq([out : End, in : End])

VARIABLES
  graph,    \* received on the port graph
  pc,       \* where the agent is
  at,       \* the next element of the loop it is in
  subnets,  \* of the accumulator: what was loaded
  dropped   \* a run failed: its accumulator, and the exterior scheduler, are gone

loader == <<graph, pc, at, subnets, dropped>>
loaderVars == <<vars, loader>>

LoaderInit ==
  /\ Init
  /\ graph \in Graphs /\ pc = "nodes" /\ at = 1 /\ subnets = Empty /\ dropped = FALSE

-----------------------------------------------------------------------------
(* add_graph.                                                               *)

Phases_mut == <<"nodes", "imsgs", "edges", "start">>
Phases == <<"nodes", "edges", "imsgs", "start">>

Items == [nodes |-> graph.nodes, edges |-> graph.edges, imsgs |-> graph.imsgs,
          start |-> graph.nodes]

InLoop(phase) == client = "up" /\ pc = phase /\ at <= Len(Items[phase])
Item == Items[pc][at]

\* `?`: an Error ends the run, and drops what the run took from the accumulator.
OrReturn ==
  IF answer' = "Ok"
  THEN at' = at + 1 /\ UNCHANGED <<graph, pc, subnets, dropped>>
  ELSE pc' = "idle" /\ dropped' = TRUE /\ subnets' = Empty /\ UNCHANGED <<graph, at>>

\* The Result of add_node is not looked at.
LoadNode ==
  /\ InLoop("nodes") /\ AddNode(Item.name, Item.sort)
  /\ at' = at + 1 /\ UNCHANGED <<graph, pc, subnets, dropped>>

LoadEdge == InLoop("edges") /\ Connect(Item.out, Item.in) /\ OrReturn

LoadMessage == InLoop("imsgs") /\ Send(Item.comp, Item.port, Item.elem) /\ OrReturn

StartNode == InLoop("start") /\ StartIfNeeded(Item.name) /\ OrReturn

\* From one loop to the next.
NextPhase ==
  /\ client = "up"
  /\ \E k \in 1..(Len(Phases) - 1) :
       pc = Phases[k] /\ at > Len(Items[pc]) /\ pc' = Phases[k + 1]
  /\ at' = 1
  /\ UNCHANGED <<vars, graph, subnets, dropped>>

\* The subnet is remembered, and the accumulator sent for the next run.
Remember_mut ==
  /\ client = "up" /\ pc = Phases[Len(Phases)] /\ at >= Len(Items[pc])
  /\ subnets' = Extend(subnets, "main",
       [nodes |-> {n.name : n \in ToSet(graph.nodes)}, ext_in |-> graph.ext_in,
        ext_out |-> graph.ext_out])
  /\ pc' = "idle"
  /\ UNCHANGED <<vars, graph, at, dropped>>
Remember ==
  /\ client = "up" /\ pc = Phases[Len(Phases)] /\ at > Len(Items[pc])
  /\ subnets' = Extend(subnets, "main",
       [nodes |-> {n.name : n \in ToSet(graph.nodes)}, ext_in |-> graph.ext_in,
        ext_out |-> graph.ext_out])
  /\ pc' = "idle"
  /\ UNCHANGED <<vars, graph, at, dropped>>

-----------------------------------------------------------------------------
(* The action Halt.                                                         *)

Halt == pc = "idle" /\ pc' = "joining" /\ UNCHANGED <<vars, graph, at, subnets, dropped>>

\* join of the exterior scheduler: it waits for all agents.  After a run that
\* failed there is a new one that has none.
Quiet == mailbox = <<>> /\ \A i \in DOMAIN boxes : ~boxes[i].busy

Joined ==
  /\ pc = "joining" /\ (Quiet \/ dropped)
  /\ pc' = "ended"
  /\ UNCHANGED <<vars, graph, at, subnets, dropped>>

-----------------------------------------------------------------------------
(* The agents, which send to one another as soon as they run.               *)

Emit(i) ==
  /\ i \in DOMAIN boxes /\ boxes[i].busy /\ Len(mailbox) < MaxMail
  /\ \E o \in DOMAIN boxes[i].outs : Post([type |-> "Inc", id |-> boxes[i].outs[o].id])
  /\ UNCHANGED <<agents, id, made, client, answer, boxes, loader>>

Load == LoadNode \/ LoadEdge \/ LoadMessage \/ StartNode \/ NextPhase \/ Remember

Agents == (Interior /\ UNCHANGED loader) \/ \E i \in DOMAIN boxes : Emit(i)

LoaderNext == Load \/ Halt \/ Joined \/ Agents

Fairness ==
  /\ WF_loaderVars(Load)
  /\ WF_loaderVars(Receive /\ UNCHANGED loader)

LoaderSpec == LoaderInit /\ [][LoaderNext]_loaderVars /\ Fairness
-----------------------------------------------------------------------------
\* No agent of the graph is ever run before every edge of the graph is in place,
\* and none is if an edge could not be made: the calls come in in the order in
\* which add_graph makes them, and the first messages after the last edge.
AllOrNothing ==
  (\E i \in DOMAIN boxes : boxes[i].ran) =>
    \A k \in DOMAIN graph.edges :
      LET e == graph.edges[k]
          out == agents[e.out.comp].id
          key == <<e.out.port, e.out.elem>>
      IN /\ out \in DOMAIN boxes /\ key \in DOMAIN boxes[out].outs
         /\ \E j \in DOMAIN graph.edges :
              /\ graph.edges[j].out = e.out
              /\ boxes[out].outs[key].id = agents[graph.edges[j].in.comp].id

\* When a graph is loaded, the agents that are sent a message by it and the
\* agents that have no input are run.
Starting(n) ==
  ~IsInputPorts(n.sort) \/ \E m \in ToSet(graph.imsgs) : m.comp = n.name /\ m.port \notin Silent

LoadedRuns ==
  (subnets # Empty) ~>
    \A n \in ToSet(graph.nodes) : Starting(n) =>
      /\ n.name \in DOMAIN agents /\ agents[n.name].id \in DOMAIN boxes
      /\ boxes[agents[n.name].id].ran
=============================================================================
