---------------------------- MODULE RustfbpProps ----------------------------
(***************************************************************************)
(* What the runtime of module Rustfbp promises.                            *)
(***************************************************************************)
EXTENDS Rustfbp

StateType ==
  /\ agents \subseteq Agents /\ home \subseteq agents
  /\ is_run \subseteq agents /\ can_run \subseteq Agents
  /\ ips \in [Agents -> Int]
  /\ edit_msgs \in [Agents -> Seq(EditCmp)]
  /\ running \in Nat /\ can_halt \in BOOLEAN

QueueType ==
  /\ sched \in {"up", "halted", "panicked"}
  /\ mailbox \in Seq(CompMsg)
  /\ pool \in Seq(Agents)

\* What a thread may do: an agent reads its own input ports and sends on its
\* own output ports.
OpsOf(t) ==
  IF t \in Agents
  THEN {o \in AgentOp : IF o.op = "send" THEN From[o.port] = t ELSE Owner[o.port] = t}
  ELSE ClientOp

RunType ==
  /\ pc \in [Threads -> {"idle", "queued", "run", "joining", "joined", "panicked"}]
  /\ DOMAIN todo = Threads
  /\ \A t \in Threads : todo[t] \in Seq(OpsOf(t))
  /\ res \in [Threads -> Results]
  /\ owes \in [Threads -> Notice \cup {None}]

PortType ==
  /\ chan \in [InPorts -> 0..Capacity]
  /\ conn \in [OutPorts -> InPorts \cup {None}]
  /\ attached \subseteq InPorts /\ dropped \subseteq InPorts
  /\ senders \subseteq InPorts /\ unlisted \subseteq InPorts
  /\ known \subseteq Agents /\ lost \subseteq Agents

\* The type invariant.
TypeOK == StateType /\ QueueType /\ RunType /\ PortType

-----------------------------------------------------------------------------
(* Counting.  A message is counted twice, by the channel that holds it and  *)
(* by ips, and the two accounts meet only through the Inc and Dec notices.  *)
(* A message that is thrown away with the receiver of its channel, when     *)
(* another replaces it, leaves the channel but is never taken off ips:      *)
(* chan goes on counting it.                                                *)

\* The threads that owe the scheduler the notice m.
Owing(m) == {t \in Threads : owes[t] = m}

\* How many times the notice m is under way.
Pending(m) == Count(mailbox, m) + Cardinality(Owing(m))

\* The ports of agent a whose messages schedule it.
Scheduling(a) == {p \in InPorts \ Silent : Owner[p] = a}

\* The messages that wait in those.
Queued(a) == Cardinality(Places(chan, Scheduling(a), Capacity))

\* The account of agent a balances: ips is the number of messages in its
\* channels and of those thrown away with a replaced receiver, once every Inc
\* and every Dec under way is settled.
Balance(a) == ips[a] + Pending(Inc(a)) = Queued(a) + Pending(Dec(a))

\* No notice is lost, doubled or misdirected, whatever the order in which the
\* two threads of a transfer send theirs, and what is thrown away with a
\* receiver stays on the account for ever: every account balances.
Conservation == sched = "up" => \A a \in Agents \ lost : Balance(a)

\* No lost wakeup: every message in a channel of an agent that does not run
\* is announced by an Inc that the scheduler is still to take.  An agent that
\* lost messages with a receiver does not come to rest once it was told of them.
NoLostWakeup ==
  sched = "up" => \A a \in home : Queued(a) <= Pending(Inc(a))

\* The box of an agent is in one place: with the scheduler, in a job, in a
\* RunEnd, in the NewAgent that brings it, or dropped.
OneBox ==
  sched = "up" => \A a \in known :
    Count(mailbox, NewAgent(a))
      + Cardinality({i \in 1..Len(mailbox) :
                       mailbox[i].type = "RunEnd" /\ mailbox[i].id = a})
      + Count(pool, a)
      + (IF pc[a] = "run" THEN 1 ELSE 0)
      + (IF a \in home THEN 1 ELSE 0)
      + (IF a \in lost THEN 1 ELSE 0) = 1

\* running counts the agents that is_run marks, and no agent is away from the
\* scheduler unmarked: running cannot reach 0 while a job is under way.
RunningCounts ==
  sched = "up" => /\ running = Cardinality(is_run)
                  /\ agents \ home \subseteq is_run

-----------------------------------------------------------------------------
(* The inductive invariant behind Conservation and NoLostWakeup.            *)

Holds(i, m) == i \in 1..Len(mailbox) /\ mailbox[i] = m

EndsAt(i, a) == /\ i \in 1..Len(mailbox)
                /\ mailbox[i].type = "RunEnd" /\ mailbox[i].id = a

\* running is the number of agents marked is_run.
RunningIsCount == running = Cardinality(is_run)

\* The owner's table runs ahead of the scheduler's by the NewAgents under way.
KnownInv ==
  /\ agents \subseteq known
  /\ \A a \in known \ agents : \E i \in 1..Len(mailbox) : Holds(i, NewAgent(a))
  /\ \A a \in Agents, i \in 1..Len(mailbox) :
       Holds(i, NewAgent(a)) =>
         /\ a \in known \ agents
         /\ \A j \in 1..Len(mailbox) : Holds(j, NewAgent(a)) => j = i
  /\ \A a \in Agents \ agents : ips[a] = 0

\* A box away from the scheduler is in one job or in one RunEnd.
AwayInv ==
  /\ lost \subseteq agents \ home
  /\ \A a \in Agents : pc[a] \in {"idle", "queued", "run"}
  /\ \A a \in Agents : pc[a] # "idle" => a \in agents \ (home \cup lost)

PoolInv ==
  \A i \in 1..Len(pool) : /\ pc[pool[i]] = "queued"
                          /\ \A j \in 1..Len(pool) : pool[j] = pool[i] => j = i

RunEndInv ==
  \A a \in Agents, i \in 1..Len(mailbox) :
    EndsAt(i, a) => /\ a \in agents \ (home \cup lost) /\ pc[a] = "idle"
                    /\ \A j \in 1..Len(mailbox) : EndsAt(j, a) => j = i

BoxInv == AwayInv /\ PoolInv /\ RunEndInv

\* A Dec is owed by the agent it names, during its run.
OwesDecInv == \A t \in Threads, a \in Agents : owes[t] = Dec(a) => t = a /\ pc[a] = "run"

\* The scheduler takes a Dec before the RunEnd of the run that sent it.
SentDecInv ==
  \A a \in Agents \ lost, i \in 1..Len(mailbox) :
    Holds(i, Dec(a)) => \/ pc[a] = "run"
                        \/ \E j \in (i + 1)..Len(mailbox) : EndsAt(j, a)

DecInv == OwesDecInv /\ SentDecInv

\* Every sender comes from an agent that the owner added.
SenderInv ==
  /\ \A p \in senders : Owner[p] \in known
  /\ \A o \in OutPorts : conn[o] \in senders \cup Silent \cup {None}
  /\ \A a \in Agents : \A i \in 1..Len(edit_msgs[a]) :
       edit_msgs[a][i].kind = "connect" => edit_msgs[a][i].to \in senders
  /\ \A i \in 1..Len(mailbox) :
       mailbox[i].type = "Edit" /\ mailbox[i].edit.kind = "connect"
         => mailbox[i].edit.to \in senders

\* The agent of the message at i is in the scheduler's table when that
\* message is taken.
Addressed(i) ==
  mailbox[i].type \in {"Inc", "Dec", "Start", "Edit", "RunEnd"} =>
    \/ mailbox[i].id \in agents
    \/ \E j \in 1..(i - 1) : Holds(j, NewAgent(mailbox[i].id))

\* Whoever can send to an agent learned of it after add_node: its messages are
\* behind the NewAgent that makes it known to the scheduler.
AddressInv ==
  /\ \A t \in Threads : owes[t] # None => owes[t].id \in known
  /\ \A i \in 1..Len(mailbox) : Addressed(i)

\* An agent whose box is here has been woken for all it was told of.
RestInv == \A a \in home : ips[a] <= 0

IInv ==
  /\ TypeOK
  /\ RunningIsCount
  /\ sched = "up" => KnownInv /\ BoxInv /\ SenderInv /\ AddressInv /\ DecInv /\ RestInv
  /\ Conservation

-----------------------------------------------------------------------------
(* Steps.                                                                   *)

\* A message waits on a port of agent a, whose receiver the agent has.
Waits(a) == \E p \in attached \ (Silent \cup dropped) : Owner[p] = a /\ chan[p] > 0

\* A message to agent a was thrown away when its receiver was replaced.
Spoiled(a) == \E p \in dropped \ Silent : Owner[p] = a /\ chan[p] > 0

\* An agent that no Start asked for is given to the pool only when a message
\* waits on a port whose receiver it has: no run for nothing, and no run for
\* an array element that the agent was not handed yet.  The exception is an
\* agent one of whose elements was replaced with messages in it.
RunsForMessage ==
  [][\A a \in Agents :
       pc[a] = "idle" /\ pc'[a] = "queued" /\ Head(mailbox) # Start(a)
         => Waits(a)' \/ Spoiled(a)']_vars

\* When join ends the scheduler's thread, no agent runs or waits for a worker,
\* no message is left in a channel that schedules, and no message of the
\* mailbox is thrown away.
HaltsQuiescent ==
  [][sched = "up" /\ sched' = "halted" =>
       /\ \A a \in Agents : pc[a] = "idle" /\ Queued(a) = 0
       /\ Len(mailbox) = 1]_vars

\* The wiring of an agent changes only between its runs.
WiringIsStable ==
  [][\A o \in OutPorts : conn'[o] # conn[o] => pc[From[o]] = "idle"]_vars

-----------------------------------------------------------------------------
(* Liveness.                                                                *)

\* The messages in a channel that schedules are read.  An agent that goes over the
\* elements of an array may end its run at the first that is empty: an element
\* is read for certain only if its turn comes, which is up to the agent.
Drained == \A p \in InPorts \ (Silent \cup Elements) : chan[p] > 0 ~> chan[p] = 0

\* join returns.
JoinReturns == \A c \in Clients : pc[c] = "joining" ~> pc[c] = "joined"

\* The scheduler's thread does not panic.
SchedulerSurvives == sched # "panicked"

-----------------------------------------------------------------------------
(* The abstract scheduler.  An agent is active from the moment its box      *)
(* leaves the scheduler until it is back.                                   *)

AbstractActive == IF sched = "up" THEN agents \ home ELSE {}

AbstractAsked == {a \in Agents : Positions(mailbox, Start(a)) # {}}

Abstract == INSTANCE Dataflow WITH
  inbox <- chan, active <- AbstractActive, asked <- AbstractAsked,
  over <- (sched # "up")

\* The runtime implements the abstract scheduler, for graphs whose agents do
\* not fail and whose channels nothing feeds from outside once join is called.
ImplementsDataflow == Abstract!Spec
=============================================================================
