---------------------------- MODULE RktfbpProps ----------------------------
(***************************************************************************)
(* What the Racket runtime of module Rktfbp promises.                      *)
(***************************************************************************)
EXTENDS Rktfbp, Counting

\* How many times the notice m is under way.
Pending(m) == Count(mail_box, m) + Cardinality({t \in DOMAIN owes : owes[t] = m})

\* The messages that wait in the sync channels of agent a, those of elements
\* that were removed included.
Length == [c \in Channels |-> Len(chan[c])]
Queued(a) == Cardinality(Places(Length, {c \in Channels : Sync(c) /\ Owner[c[1]] = a}, Capacity))

\* The agent told that it reads a message, and has not got it yet.
Announced(a) == IF todo[a] # <<>> /\ Op(a).op = "get" /\ Sync(In(a)) THEN 1 ELSE 0

\* number-ips is what waits in the channels once the notices under way are
\* settled, although recv announces a message before it has it (port.rkt:25) and
\* may be early or late.  The messages #f that try-recv took stay counted, and so
\* does what an agent took of the notices of an earlier one of its name: a
\* msg-inc-ip for an earlier one's channel, a msg-dec-ip of its thread.
Conservation ==
  sched # "dead" => \A a \in agents :
    number_ips[a] + Pending(Inc(a)) + Announced(a)
      = Queued(a) + missed[a] + strays[a] + Pending(Dec(a))

\* No lost wakeup: a message for an agent that does not run is announced by a
\* msg-inc-ip that the scheduler has not taken yet.  Only an agent that took a
\* notice of an earlier one of its name can sleep over a message, or the earlier one.
NoLostWakeup ==
  sched # "dead" => \A a \in agents \ (is_running \cup strayed) : Queued(a) <= Pending(Inc(a))

\* The outputs connected to the element e.
Users(e) == {o \in OutPorts : outport[o] # None /\ outport[o][1] = e}

\* The count of an element is that of the outputs connected to it, and no output
\* is left with a removed element, whatever the order in which several outputs
\* are connected and disconnected, as long as only what is connected is
\* disconnected and an agent is not connected to itself.
RefCounts ==
  \A e \in Elements :
    /\ in_array[e].nbr = Cardinality(Users(e))
    /\ \A o \in Users(e) : outport[o] = in_array[e].port

\* The edit that comes next disconnects an output from the element that it is
\* connected to, or does not touch an output that is connected to an element,
\* and connects no agent to itself.
WellUsed ==
  sched = "up" /\ mail_box # <<>> =>
    /\ Msg.type \in {"connect", "raw-connect", "disconnect", "connect-to-array"} =>
         \A e \in Elements : Msg.out \notin Users(e)
    /\ Msg.type \in {"connect-to-array", "disconnect-to-array"} => Owner[Msg.in] # From[Msg.out]
    /\ Msg.type = "disconnect-to-array" =>
         in_array[Msg.in] = Gone \/ Msg.out \in Users(Msg.in)

\* An option holds a value, or the run of its agent has it in hand.
Kept(p) ==
  LET c == Simple(p)
      a == Owner[p] IN
  \/ \E i \in 1..Len(chan[c]) : chan[c][i] # False
  \/ /\ todo[a] # <<>> /\ Op(a).port = p
     /\ Op(a).op \in {"drain", "put back"} /\ acc[a] # False

\* Once an option was given, reading it does not use it up.
OptionKept == [][\A p \in Options : Kept(p) => Kept(p)']_vars

-----------------------------------------------------------------------------
(* What msg-stop waits for.                                                 *)

\* A run waits for a message, as the halter does to keep the scheduler alive, or
\* for room in a channel.
Waiting ==
  \E a \in Agents :
    /\ pc[a] = "run" /\ owes[a] = None /\ todo[a] # <<>>
    /\ \/ Op(a).op = "get" /\ ~Holds(a)
       \/ Op(a).op = "recv" /\ Op(a).port \in Options /\ ~Holds(a)
       \/ /\ Op(a).op = "send"
          /\ LET c == input[a].outport[Op(a).port] IN c # None /\ Len(chan[c]) = Capacity

\* The scheduler's own thread waits for room in a channel (port.rkt:14).
Clogged ==
  /\ sched = "up" /\ mail_box # <<>> /\ Head(mail_box).type = "mesg"
  /\ Len(chan[Simple(Head(mail_box).in)]) = Capacity

\* An agent is run again and again for messages that it cannot get: #f that it took,
\* those in an element that was removed, or those of an earlier agent of its name.
Missed == \E a \in Agents : missed[a] > 0
Stranded ==
  \E c \in Channels : /\ c[1] \in Elements /\ chan[c] # <<>>
                      /\ in_array[c[1]].port # c
Strayed == strayed # {}

\* msg-stop returns, or for ever there is something that it has to wait for: a run
\* that is never over, or an agent that is always run again.  No run that has ended,
\* by an exception too, is waited for, and an agent with messages left is not left.
StopReturns ==
  client = "waits" ~> client = "returned" \/ [](Waiting \/ Clogged \/ Missed \/ Stranded \/ Strayed)

-----
(* The abstract scheduler.                                                  *)

CONSTANT MaxMade   \* bound: an element is made at most so often

ASSUME MaxMadeAssumption == MaxMade \in Nat

Places0 == {Simple(p) : p \in InPorts \ Elements} \cup (Elements \X (1..MaxMade))

\* Agent a will be in the table when the scheduler comes to the message at i.
ThereAt(a, i) ==
  LET adds(j) == AddsAt(mail_box, j, a)
      removes(j) == /\ mail_box[j].type \in {"add-agent", "remove-agent"} /\ ~adds(j)
                    /\ Name[mail_box[j].agt] = Name[a] IN
  \/ a \in agents /\ \A j \in 1..(i - 1) : ~removes(j)
  \/ \E j \in 1..(i - 1) : adds(j) /\ \A k \in j..(i - 1) : ~removes(k)

\* The agents that the msg-start at i is going to start.
StartedAt(i) == {a \in NoInput : ThereAt(a, i)}

AbstractAsked ==
  starting
    \cup {a \in Agents : Positions(mail_box, [type |-> "start-agent", agt |-> a]) # {}}
    \cup UNION {StartedAt(i) : i \in Positions(mail_box, [type |-> "start"])}

AbstractOwner == [c \in Places0 |-> Owner[c[1]]]
AbstractSilent == {c \in Places0 : ~Sync(c)}
Inbox == [c \in Places0 |-> IF c \in Channels THEN Len(chan[c]) ELSE 0]

Abstract == INSTANCE Dataflow WITH
  InPorts <- Places0, Owner <- AbstractOwner, Silent <- AbstractSilent,
  inbox <- Inbox, active <- is_running, asked <- AbstractAsked, over <- (sched = "stopped")

\* An agent that is to be started is in the table by then.
StartsKnown == sched = "up" /\ mail_box # <<>> /\ Msg.type = "start-agent" => Msg.agt \in agents

\* The bound is kept.
MadeWithin == \A e \in Elements : made[e] <= MaxMade

\* Every step is one of the abstract scheduler, until try-recv takes a message #f,
\* and an agent is run for nothing, or an agent takes a notice of an earlier one of
\* its name: its count is wrong then, or its mark is taken while it runs.
StepsAreDataflow == Abstract!Init /\ [][Abstract!Next \/ Missed' \/ Strayed']_Abstract!vars
=============================================================================
