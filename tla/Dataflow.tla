------------------------------ MODULE Dataflow ------------------------------
(***************************************************************************)
(* What a scheduler of agents promises, with no scheduler in it: messages  *)
(* wait in bounded inboxes, an agent is active or not, it becomes active   *)
(* because a message waits for it or because it was asked to start, only   *)
(* an active agent reads, and the whole stops only when it is quiet.       *)
(***************************************************************************)
EXTENDS Integers

CONSTANTS Agents, InPorts, Owner,
          Silent,     \* ports whose messages do not activate their agent
          Capacity

VARIABLES inbox,      \* messages that wait at each port
          active,     \* the agents that may read and send
          asked,      \* the agents asked to start
          over

vars == <<inbox, active, asked, over>>

Init == /\ inbox = [p \in InPorts |-> 0]
        /\ active = {} /\ asked = {} /\ over = FALSE

HasWork(a) == \E p \in InPorts \ Silent : Owner[p] = a /\ inbox[p] > 0

Deliver(p) == /\ inbox[p] < Capacity
              /\ inbox' = [inbox EXCEPT ![p] = @ + 1]
              /\ UNCHANGED <<active, asked, over>>

Read(p) == /\ Owner[p] \in active /\ inbox[p] > 0
           /\ inbox' = [inbox EXCEPT ![p] = @ - 1]
           /\ UNCHANGED <<active, asked, over>>

Ask(A) == /\ asked' = asked \cup A
          /\ UNCHANGED <<inbox, active, over>>

\* Several requests may be under way: one of them is used up.
Activate(a) == /\ ~over /\ a \notin active
               /\ a \in asked \/ HasWork(a)
               /\ active' = active \cup {a}
               /\ asked' \in {asked, asked \ {a}}
               /\ UNCHANGED <<inbox, over>>

\* A request to start an agent that is active has no effect.
Ignore(a) == /\ a \in active
             /\ asked' = asked \ {a}
             /\ UNCHANGED <<inbox, active, over>>

\* A run is over; messages may already wait for the next one.
Rest(a) == /\ active' = active \ {a}
           /\ UNCHANGED <<inbox, asked, over>>

Quiet == active = {} /\ asked = {} /\ \A a \in Agents : ~HasWork(a)

Finish == /\ ~over /\ Quiet /\ over' = TRUE
          /\ UNCHANGED <<inbox, active, asked>>

Next == \/ \E p \in InPorts : Deliver(p) \/ Read(p)
        \/ \E A \in SUBSET Agents : Ask(A)
        \/ \E a \in Agents : Activate(a) \/ Ignore(a) \/ Rest(a)
        \/ Finish

\* An agent that has work becomes active.
Spec == /\ Init /\ [][Next]_vars
        /\ \A a \in Agents : WF_vars(Activate(a) /\ HasWork(a))
=============================================================================
