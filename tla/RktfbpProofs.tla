---------------------------- MODULE RktfbpProofs ----------------------------
(***************************************************************************)
(* Proofs about module Rktfbp, for every set of agents, every wiring,      *)
(* every capacity, every behaviour of the agents and every script: the     *)
(* counts of messages and of connections, the options, and the refinement  *)
(* of Dataflow.                                                            *)
(***************************************************************************)
EXTENDS RktfbpProps, CountingProofs

-----------------------------------------------------------------------------
(* The inductive invariant, as long as the scheduler's thread lives.        *)

TableType ==
  /\ agents \subseteq Agents /\ is_running \subseteq Agents /\ starting \subseteq Agents
  /\ number_ips \in [Agents -> Int] /\ missed \in [Agents -> Nat]
  /\ strays \in [Agents -> Int] /\ strayed \subseteq Agents

SchedMsg == ClientMsg \cup Notice \cup [type : {"run-end"}, agt : Agents]

QueueType ==
  /\ mail_box \in Seq(SchedMsg) /\ script \in Seq(ClientMsg)
  /\ owes \in [Agents \cup {"sched"} -> Notice \cup {None}]

\* The channels of the simple ports are there, and those of elements are made
\* one after the other.
ChanType ==
  /\ IsFiniteSet(Channels) /\ Channels \subseteq InPorts \X Nat
  /\ {Simple(p) : p \in InPorts \ Elements} \subseteq Channels
  /\ \A c \in Channels : chan[c] \in Seq(Messages) /\ Len(chan[c]) <= Capacity
  /\ made \in [Elements -> Nat]
  /\ \A c \in Channels : c[1] \in Elements => c[2] <= made[c[1]]

ChannelsOf(e) == {c \in Channels : c[1] = e}

WireType ==
  /\ outport \in [OutPorts -> Channels \cup {None}]
  /\ DOMAIN in_array = Elements
  /\ \A e \in Elements : \/ in_array[e] = Gone
                         \/ in_array[e] \in [nbr : Nat \ {0}, port : ChannelsOf(e)]

\* An operation of which a part is done.
Half(a) ==
  [op : {"get"}, port : {p \in InPorts \ Options : Owner[p] = a}]
    \cup [op : {"drain", "put back"}, port : {p \in Options : Owner[p] = a}]

\* The snapshot that a run works with names channels that are there.
SnapshotType(a) ==
  /\ \A o \in OutPorts : From[o] = a => input[a].outport[o] \in Channels \cup {None}
  /\ \A e \in Elements : Owner[e] = a => input[a].in_array[e] \in ChannelsOf(e) \cup {None}

\* Only the first operation of a run is half done, and it has its channel.
TodoType(a) ==
  /\ todo[a] \in Seq(AgentOp(a) \cup Half(a))
  /\ todo[a] # <<>> => Tail(todo[a]) \in Seq(AgentOp(a))
  /\ todo[a] # <<>> /\ Op(a) \in Half(a) => In(a) # None

RunType ==
  /\ pc \in [Agents -> {"idle", "run"}] /\ acc \in [Agents -> Messages]
  /\ DOMAIN todo = Agents /\ DOMAIN input = Agents
  /\ \A a \in Agents : /\ pc[a] = "idle" => todo[a] = <<>>
                       /\ pc[a] = "run" => SnapshotType(a) /\ TodoType(a)

Types == TableType /\ QueueType /\ ChanType /\ WireType /\ RunType

\* An agent that runs has a thread or a msg-run-end on its way, and only one, if no
\* other of its name took its notices or left it some.
RunsOnce ==
  \A a \in Agents \ strayed :
    Count(mail_box, RunEnd(a)) + (IF pc[a] = "run" THEN 1 ELSE 0)
      = IF a \in is_running THEN 1 ELSE 0

Adds(a) == [type |-> "add-agent", agt |-> a]

\* An agent is made by one msg-add-agent, and nothing is counted for it before.
AddedOnce ==
  \A a \in Agents :
    /\ Count(mail_box, Adds(a)) + Count(script, Adds(a)) + (IF a \in agents THEN 1 ELSE 0) <= 1
    /\ Count(mail_box, Adds(a)) + Count(script, Adds(a)) = 1 => number_ips[a] = 0

\* How many threads are about to post the notice m.
Owed(m) == Cardinality({t \in DOMAIN owes : owes[t] = m})

Balance(a) ==
  number_ips[a] + Count(mail_box, Inc(a)) + Owed(Inc(a)) + Announced(a)
    = Queued(a) + missed[a] + strays[a] + Count(mail_box, Dec(a)) + Owed(Dec(a))

Balanced == \A a \in Agents : Balance(a)

\* An agent that does not run has no message that the scheduler knows of.
Rested == \A a \in Agents \ (is_running \cup strayed) : number_ips[a] <= 0

\* What an agent took of the notices of others is counted from the first on.
Strangers == \A a \in Agents \ strayed : strays[a] = 0

Inv == Types /\ RunsOnce /\ AddedOnce /\ Balanced /\ Rested /\ Strangers

IInv == sched # "dead" => Inv

-----------------------------------------------------------------------------
(* Type correctness: the pieces.                                            *)

\* The first message of the mailbox is one of those that are posted.
LEMMA MsgType ==
  ASSUME QueueType, mail_box # <<>>
  PROVE  Msg \in SchedMsg /\ Tail(mail_box) \in Seq(SchedMsg)
  BY DEF QueueType, Msg

\* What a message names, by its type.
LEMMA MsgFields ==
  ASSUME Msg \in SchedMsg
  PROVE  /\ Msg.type \in {"add-agent", "remove-agent", "start-agent", "inc-ip", "dec-ip", "run-end"}
              => Msg.agt \in Agents
         /\ Msg.type \in {"connect", "raw-connect"}
              => Msg.out \in OutPorts /\ Msg.in \in InPorts \ Elements
         /\ Msg.type = "disconnect" => Msg.out \in OutPorts
         /\ Msg.type \in {"connect-to-array", "disconnect-to-array"}
              => Msg.out \in OutPorts /\ Msg.in \in Elements
         /\ Msg.type = "mesg" => Msg.in \in InPorts \ Elements /\ Msg.msg \in Messages
  BY DEF SchedMsg, ClientMsg, Notice

\* A notice is told by its type and its agent.
LEMMA MsgNotice ==
  ASSUME Msg \in SchedMsg
  PROVE  /\ Msg.type = "inc-ip" => Msg = Inc(Msg.agt)
         /\ Msg.type = "dec-ip" => Msg = Dec(Msg.agt)
         /\ Msg.type = "run-end" => Msg = RunEnd(Msg.agt)
         /\ Msg.type = "add-agent" => Msg = Adds(Msg.agt)
  BY DEF SchedMsg, ClientMsg, Notice, Inc, Dec, RunEnd, Adds

\* A message more in a channel.
LEMMA ChanPut ==
  ASSUME ChanType, NEW c \in Channels, NEW m \in Messages, Len(chan[c]) < Capacity,
         chan' = [chan EXCEPT ![c] = Append(@, m)], made' = made
  PROVE  ChanType' /\ Channels' = Channels
<1>1. Channels' = Channels
  BY DEF Channels
<1>2. ASSUME NEW d \in Channels
      PROVE  chan'[d] \in Seq(Messages) /\ Len(chan'[d]) <= Capacity
  <2>1. chan[d] \in Seq(Messages) /\ Len(chan[d]) <= Capacity
    BY DEF ChanType
  <2>2. CASE d = c
    <3>1. chan'[d] = Append(chan[c], m)
      BY <2>2 DEF Channels
    <3>2. chan[c] \in Seq(Messages)
      BY DEF ChanType
    <3> QED
      BY <3>1, <3>2, <2>2, PortsAssumption
  <2>3. CASE d # c
    BY <2>1, <2>3 DEF Channels
  <2> QED
    BY <2>2, <2>3
<1> QED
  BY <1>1, <1>2 DEF ChanType

\* A message less in a channel.
LEMMA ChanTake ==
  ASSUME ChanType, NEW c \in Channels, chan[c] # <<>>,
         chan' = [chan EXCEPT ![c] = Tail(@)], made' = made
  PROVE  /\ ChanType' /\ Channels' = Channels /\ Head(chan[c]) \in Messages
         /\ Len(chan'[c]) = Len(chan[c]) - 1
<1>1. Channels' = Channels
  BY DEF Channels
<1>2. chan[c] \in Seq(Messages) /\ Len(chan[c]) <= Capacity /\ chan'[c] = Tail(chan[c])
  BY DEF ChanType, Channels
<1>3. ASSUME NEW d \in Channels
      PROVE  chan'[d] \in Seq(Messages) /\ Len(chan'[d]) <= Capacity
  <2>1. chan[d] \in Seq(Messages) /\ Len(chan[d]) <= Capacity
    BY DEF ChanType
  <2>2. CASE d = c
    BY <1>2, <2>2, PortsAssumption
  <2>3. CASE d # c
    BY <2>1, <2>3 DEF Channels
  <2> QED
    BY <2>2, <2>3
<1>4. Head(chan[c]) \in Messages /\ Len(chan'[c]) = Len(chan[c]) - 1
  <2> PICK s \in Seq(Messages) : s = chan[c] /\ s # <<>>
    BY <1>2
  <2>1. Head(s) \in Messages /\ Len(Tail(s)) = Len(s) - 1
    OBVIOUS
  <2> QED
    BY <1>2, <2>1
<1> QED
  BY <1>1, <1>3, <1>4 DEF ChanType

\* The wires are what they were as long as the channels are.
LEMMA WireSame ==
  ASSUME WireType, UNCHANGED <<outport, in_array>>, Channels' = Channels
  PROVE  WireType'
  BY DEF WireType, ChannelsOf

\* The channel that an operation of a run reads is one of its agent's.
LEMMA InType ==
  ASSUME Types, NEW a \in Agents, pc[a] = "run", todo[a] # <<>>, Op(a).op # "send",
         In(a) # None
  PROVE  In(a) \in Channels /\ In(a)[1] = Op(a).port /\ Owner[In(a)[1]] = a
<1>1. Op(a) \in AgentOp(a) \cup Half(a)
  <2>1. todo[a] \in Seq(AgentOp(a) \cup Half(a))
    BY DEF Types, RunType, TodoType
  <2> QED
    BY <2>1 DEF Op
<1>2. Op(a).port \in InPorts /\ Owner[Op(a).port] = a
  BY <1>1, PortsAssumption DEF AgentOp, Half
<1>3. CASE Op(a).port \in Elements
  <2>1. In(a) \in ChannelsOf(Op(a).port)
    BY <1>2, <1>3 DEF Types, RunType, SnapshotType, In
  <2> QED
    BY <1>2, <2>1 DEF ChannelsOf
<1>4. CASE Op(a).port \notin Elements
  <2>1. In(a) = Simple(Op(a).port)
    BY <1>4 DEF In
  <2>2. Simple(Op(a).port) \in Channels
    BY <1>2, <1>4 DEF Types, ChanType
  <2> QED
    BY <1>2, <2>1, <2>2 DEF Simple
<1> QED
  BY <1>3, <1>4

\* The rest of a run after an operation.
LEMMA DoneType ==
  ASSUME RunType, NEW a \in Agents, pc[a] = "run", todo[a] # <<>>, Done(a)
  PROVE  /\ DOMAIN todo' = Agents /\ TodoType(a)'
         /\ \A b \in Agents : b # a => todo'[b] = todo[b]
         /\ todo'[a] # <<>> => Op(a)' \in AgentOp(a)
<1>1. todo'[a] = Tail(todo[a]) /\ Tail(todo[a]) \in Seq(AgentOp(a))
  BY DEF RunType, TodoType, Done
<1>2. DOMAIN todo' = Agents /\ \A b \in Agents : b # a => todo'[b] = todo[b]
  BY DEF RunType, Done
<1>3. todo'[a] # <<>> => Op(a)' \in AgentOp(a) /\ Tail(todo'[a]) \in Seq(AgentOp(a))
  BY <1>1 DEF Op
<1>4. \A op \in AgentOp(a) : op \notin Half(a)
  BY DEF AgentOp, Half
<1>5. todo'[a] \in Seq(AgentOp(a) \cup Half(a))
  BY <1>1
<1>6. TodoType(a)'
  <2>1. todo'[a] # <<>> => Op(a)' \notin Half(a)
    BY <1>3, <1>4
  <2> QED
    BY <1>3, <1>5, <2>1 DEF TodoType, AgentOp, Half
<1> QED
  BY <1>2, <1>3, <1>6

\* The rest of a run after the first part of an operation.
LEMMA GoesOnType ==
  ASSUME RunType, NEW a \in Agents, pc[a] = "run", todo[a] # <<>>, NEW op, GoesOn(a, op),
         input' = input, In(a) # None, [op |-> op, port |-> Op(a).port] \in Half(a)
  PROVE  /\ DOMAIN todo' = Agents /\ TodoType(a)'
         /\ \A b \in Agents : b # a => todo'[b] = todo[b]
         /\ todo'[a] # <<>> /\ Op(a)' = [op |-> op, port |-> Op(a).port] /\ In(a)' = In(a)
<1> DEFINE h == [op |-> op, port |-> Op(a).port]
<1>1. todo'[a] = <<h>> \o Tail(todo[a]) /\ Tail(todo[a]) \in Seq(AgentOp(a))
  BY DEF RunType, TodoType, GoesOn
<1>2. DOMAIN todo' = Agents /\ \A b \in Agents : b # a => todo'[b] = todo[b]
  BY DEF RunType, GoesOn
<1>3. /\ todo'[a] \in Seq(AgentOp(a) \cup Half(a)) /\ todo'[a] # <<>>
      /\ Head(todo'[a]) = h /\ Tail(todo'[a]) = Tail(todo[a])
  <2> HIDE DEF h
  <2>1. h \in AgentOp(a) \cup Half(a)
    BY DEF h
  <2> QED
    BY <1>1, <2>1
<1>4. Op(a)' = h
  BY <1>3 DEF Op
<1>5. In(a)' = In(a)
  BY <1>4 DEF In
<1>6. TodoType(a)'
  BY <1>1, <1>3, <1>4, <1>5 DEF TodoType, AgentOp, Half
<1> QED
  BY <1>2, <1>3, <1>4, <1>5, <1>6

\* Only the run of agent a went on.
LEMMA RunGoesOn ==
  ASSUME RunType, NEW a \in Agents, pc[a] = "run", UNCHANGED <<pc, input>>,
         acc' \in [Agents -> Messages], Channels' = Channels,
         DOMAIN todo' = Agents, TodoType(a)', \A b \in Agents : b # a => todo'[b] = todo[b]
  PROVE  RunType'
<1>1. ASSUME NEW b \in Agents
      PROVE  /\ pc'[b] = "idle" => todo'[b] = <<>>
             /\ pc'[b] = "run" => SnapshotType(b)' /\ TodoType(b)'
  <2>1. SnapshotType(b)' <=> SnapshotType(b)
    BY DEF SnapshotType, ChannelsOf
  <2>2. CASE b = a
    BY <2>1, <2>2 DEF RunType
  <2>3. CASE b # a
    <3>1. TodoType(b) => TodoType(b)'
      BY <2>3 DEF TodoType, Op, In, AgentOp, Half
    <3> QED
      BY <2>1, <2>3, <3>1 DEF RunType
  <2> QED
    BY <2>2, <2>3
<1> QED
  BY <1>1 DEF RunType

-----------------------------------------------------------------------------
(* Type correctness: the threads of the runs.                               *)

\* What a thread's step leaves alone.
LEMMA ThreadSame ==
  ASSUME Types, ThreadFrame, missed' \in [Agents -> Nat]
  PROVE  /\ TableType' /\ UNCHANGED <<outport, in_array, made, pc, input, script>>
         /\ (Channels' = Channels => WireType')
  BY WireSame DEF ThreadFrame, table, Types, TableType

\* The queues when nothing is posted or owed.
LEMMA QueueSame ==
  ASSUME QueueType, UNCHANGED <<mail_box, script, owes>>
  PROVE  QueueType'
  BY DEF QueueType

\* The queues when a message is posted.
LEMMA QueuePost ==
  ASSUME QueueType, NEW m \in SchedMsg, Post(m), UNCHANGED script,
         owes' \in [Agents \cup {"sched"} -> Notice \cup {None}]
  PROVE  QueueType'
<1>1. mail_box' \in Seq(SchedMsg)
  BY DEF QueueType, Post
<1> QED
  BY <1>1 DEF QueueType

LEMMA SendType ==
  ASSUME Types, NEW a \in Agents, Send(a)
  PROVE  Types'
<1> DEFINE c == input[a].outport[Op(a).port]
<1>1. pc[a] = "run" /\ todo[a] # <<>> /\ Op(a) \in AgentOp(a) /\ Op(a).op = "send"
  <2>1. pc[a] = "run" /\ todo[a] # <<>> /\ Op(a).op = "send"
    BY DEF Send, May
  <2>2. todo[a] \in Seq(AgentOp(a) \cup Half(a))
    BY <2>1 DEF Types, RunType, TodoType
  <2>3. Op(a) \in AgentOp(a) \cup Half(a)
    BY <2>1, <2>2 DEF Op
  <2> QED
    BY <2>1, <2>3 DEF Half
<1>2. Op(a).port \in OutPorts /\ From[Op(a).port] = a /\ Op(a).msg \in Messages
  BY <1>1 DEF AgentOp
<1>3. c \in Channels \cup {None}
  BY <1>1, <1>2 DEF Types, RunType, SnapshotType
<1>4. TableType' /\ UNCHANGED <<outport, in_array, made, pc, input, script>>
      /\ (Channels' = Channels => WireType')
  BY ThreadSame DEF Send, Types, TableType
<1>5. ChanType' /\ Channels' = Channels
  <2>1. CASE UNCHANGED chan
    BY <1>4, <2>1 DEF Types, ChanType, Channels
  <2>2. CASE c # None /\ Len(chan[c]) < Capacity /\ chan' = [chan EXCEPT ![c] = Append(@, Op(a).msg)]
    BY <1>2, <1>3, <1>4, <2>2, ChanPut DEF Types
  <2> QED
    BY <2>1, <2>2 DEF Send
<1>6. QueueType'
  <2>1. c # None => c[1] \in InPorts
    BY <1>3 DEF Types, ChanType
  <2>2. c # None => Inc(Owner[c[1]]) \in Notice
    BY <2>1, PortsAssumption DEF Inc, Notice
  <2>3. owes' \in [Agents \cup {"sched"} -> Notice \cup {None}]
    BY <2>2 DEF Send, Types, QueueType
  <2> QED
    BY <1>4, <2>3 DEF Send, Types, QueueType
<1>7. RunType'
  BY <1>1, <1>4, <1>5, DoneType, RunGoesOn DEF Send, Types, RunType
<1> QED
  BY <1>4, <1>5, <1>6, <1>7 DEF Types

\* The steps that read a channel: what they have in common.
LEMMA Reading ==
  ASSUME Types, NEW a \in Agents, NEW op, May(a, op), op # "send"
  PROVE  /\ pc[a] = "run" /\ todo[a] # <<>> /\ owes[a] = None /\ Op(a).op = op
         /\ Op(a) \in AgentOp(a) \cup Half(a)
         /\ Op(a).port \in InPorts /\ Owner[Op(a).port] = a
         /\ In(a) # None => In(a) \in Channels /\ In(a)[1] = Op(a).port /\ Owner[In(a)[1]] = a
<1>1. pc[a] = "run" /\ todo[a] # <<>> /\ owes[a] = None /\ Op(a).op = op
  BY DEF May
<1>2. todo[a] \in Seq(AgentOp(a) \cup Half(a))
  BY <1>1 DEF Types, RunType, TodoType
<1>3. Op(a) \in AgentOp(a) \cup Half(a)
  BY <1>1, <1>2 DEF Op
<1>4. Op(a).port \in InPorts /\ Owner[Op(a).port] = a
  BY <1>1, <1>3, PortsAssumption DEF AgentOp, Half
<1> QED
  BY <1>1, <1>3, <1>4, InType

LEMMA RecvType ==
  ASSUME Types, NEW a \in Agents, Recv(a)
  PROVE  Types'
<1>1. /\ pc[a] = "run" /\ todo[a] # <<>> /\ Op(a).port \in InPorts /\ Owner[Op(a).port] = a
      /\ In(a) # None /\ Op(a).port \notin Options
  BY Reading DEF Recv
<1>2. TableType' /\ UNCHANGED <<outport, in_array, made, pc, input, script>>
      /\ (Channels' = Channels => WireType')
  BY ThreadSame DEF Recv, Types, TableType
<1>3. ChanType' /\ Channels' = Channels
  BY <1>2 DEF Recv, Types, ChanType, Channels
<1>4. QueueType'
  <2>1. Dec(a) \in SchedMsg
    BY DEF Dec, SchedMsg, Notice
  <2>2. owes' \in [Agents \cup {"sched"} -> Notice \cup {None}]
    BY DEF Recv, Types, QueueType
  <2> QED
    BY <1>2, <2>1, <2>2, QueuePost, QueueSame DEF Recv, Types
<1>5. RunType'
  <2>1. [op |-> "get", port |-> Op(a).port] \in Half(a)
    BY <1>1 DEF Half
  <2> QED
    BY <1>1, <1>2, <1>3, <2>1, GoesOnType, RunGoesOn DEF Recv, Types, RunType
<1> QED
  BY <1>2, <1>3, <1>4, <1>5 DEF Types

LEMMA GetType ==
  ASSUME Types, NEW a \in Agents, Get(a)
  PROVE  Types'
<1>1. pc[a] = "run" /\ todo[a] # <<>> /\ In(a) \in Channels /\ chan[In(a)] # <<>>
  BY Reading DEF Get, Holds
<1>2. TableType' /\ UNCHANGED <<outport, in_array, made, pc, input, script>>
      /\ (Channels' = Channels => WireType')
  BY ThreadSame DEF Get, Types, TableType
<1>3. ChanType' /\ Channels' = Channels
  BY <1>1, <1>2, ChanTake DEF Get, Taken, Types
<1>4. QueueType'
  BY <1>2, QueueSame DEF Get, Types
<1>5. RunType'
  BY <1>1, <1>2, <1>3, DoneType, RunGoesOn DEF Get, Types, RunType
<1> QED
  BY <1>2, <1>3, <1>4, <1>5 DEF Types

LEMMA TryRecvType ==
  ASSUME Types, NEW a \in Agents, TryRecv(a)
  PROVE  Types'
<1>1. pc[a] = "run" /\ todo[a] # <<>> /\ In(a) \in Channels
  BY Reading DEF TryRecv
<1>2. missed' \in [Agents -> Nat]
  BY DEF TryRecv, Types, TableType
<1>3. TableType' /\ UNCHANGED <<outport, in_array, made, pc, input, script>>
      /\ (Channels' = Channels => WireType')
  BY <1>2, ThreadSame DEF TryRecv
<1>4. ChanType' /\ Channels' = Channels
  <2>1. CASE UNCHANGED chan
    BY <1>3, <2>1 DEF Types, ChanType, Channels
  <2>2. CASE Holds(a) /\ Taken(a)
    BY <1>1, <1>3, <2>2, ChanTake DEF Holds, Taken, Types
  <2> QED
    BY <2>1, <2>2 DEF TryRecv
<1>5. QueueType'
  <2>1. Dec(a) \in Notice
    BY DEF Dec, Notice
  <2>2. owes' \in [Agents \cup {"sched"} -> Notice \cup {None}]
    BY <2>1 DEF TryRecv, Types, QueueType
  <2> QED
    BY <1>3, <2>2 DEF TryRecv, Types, QueueType
<1>6. RunType'
  BY <1>1, <1>3, <1>4, DoneType, RunGoesOn DEF TryRecv, Types, RunType
<1> QED
  BY <1>3, <1>4, <1>5, <1>6 DEF Types

LEMMA NoElementType ==
  ASSUME Types, NEW a \in Agents, NoElement(a)
  PROVE  Types'
<1>1. pc[a] = "run" /\ todo[a] # <<>>
  BY DEF NoElement, May
<1>2. TableType' /\ UNCHANGED <<outport, in_array, made, pc, input, script>>
      /\ (Channels' = Channels => WireType')
  BY ThreadSame DEF NoElement, Types, TableType
<1>3. ChanType' /\ Channels' = Channels
  BY <1>2 DEF NoElement, Types, ChanType, Channels
<1>4. QueueType'
  BY <1>2, QueueSame DEF NoElement, Types
<1>5. RunType'
  <2>1. CASE Done(a)
    BY <1>1, <1>2, <1>3, <2>1, DoneType, RunGoesOn DEF NoElement, Types, RunType
  <2>2. CASE todo' = [todo EXCEPT ![a] = <<>>]
    <3>1. todo'[a] = <<>> /\ DOMAIN todo' = Agents /\ \A b \in Agents : b # a => todo'[b] = todo[b]
      BY <2>2 DEF Types, RunType
    <3>2. TodoType(a)'
      BY <3>1 DEF TodoType
    <3> QED
      BY <1>1, <1>2, <1>3, <3>1, <3>2, RunGoesOn DEF NoElement, Types, RunType
  <2> QED
    BY <2>1, <2>2 DEF NoElement
<1> QED
  BY <1>2, <1>3, <1>4, <1>5 DEF Types

LEMMA RecvOptionType ==
  ASSUME Types, NEW a \in Agents, RecvOption(a)
  PROVE  Types'
<1>1. /\ pc[a] = "run" /\ todo[a] # <<>> /\ Op(a).port \in Options
      /\ In(a) # None => In(a) \in Channels
      /\ Owner[Op(a).port] = a
  BY Reading DEF RecvOption
<1>2. TableType' /\ UNCHANGED <<outport, in_array, made, pc, input, script>>
      /\ (Channels' = Channels => WireType')
  BY ThreadSame DEF RecvOption, Types, TableType
<1>3. QueueType'
  BY <1>2, QueueSame DEF RecvOption, Types
<1>4. CASE UNCHANGED <<chan, acc>> /\ Done(a)
  <2>1. ChanType' /\ Channels' = Channels
    BY <1>2, <1>4 DEF Types, ChanType, Channels
  <2>2. RunType'
    BY <1>1, <1>2, <1>4, <2>1, DoneType, RunGoesOn DEF Types, RunType
  <2> QED
    BY <1>2, <1>3, <2>1, <2>2 DEF Types
<1>5. CASE Holds(a) /\ Taken(a) /\ acc' = [acc EXCEPT ![a] = First(a)]
           /\ (Done(a) \/ GoesOn(a, "drain"))
  <2>1. ChanType' /\ Channels' = Channels /\ First(a) \in Messages
    BY <1>1, <1>2, <1>5, ChanTake DEF Holds, Taken, First, Types
  <2>2. acc' \in [Agents -> Messages]
    BY <1>5, <2>1 DEF Types, RunType
  <2>3. [op |-> "drain", port |-> Op(a).port] \in Half(a)
    BY <1>1 DEF Half
  <2>4. RunType'
    BY <1>1, <1>2, <1>5, <2>1, <2>2, <2>3, DoneType, GoesOnType, RunGoesOn
       DEF Types, Holds
  <2> QED
    BY <1>2, <1>3, <2>1, <2>4 DEF Types
<1> QED
  BY <1>4, <1>5 DEF RecvOption

LEMMA DrainType ==
  ASSUME Types, NEW a \in Agents, Drain(a)
  PROVE  Types'
<1>1. /\ pc[a] = "run" /\ todo[a] # <<>> /\ Op(a).port \in Options /\ Owner[Op(a).port] = a
      /\ In(a) # None /\ In(a) \in Channels
  <2>1. /\ pc[a] = "run" /\ todo[a] # <<>> /\ Op(a).op = "drain" /\ Owner[Op(a).port] = a
        /\ Op(a) \in AgentOp(a) \cup Half(a)
        /\ In(a) # None => In(a) \in Channels
    BY Reading DEF Drain
  <2>2. Op(a) \in Half(a) /\ Op(a).port \in Options
    BY <2>1 DEF AgentOp, Half
  <2>3. In(a) # None
    BY <2>1, <2>2 DEF Types, RunType, TodoType
  <2> QED
    BY <2>1, <2>2, <2>3
<1>2. TableType' /\ UNCHANGED <<outport, in_array, made, pc, input, script>>
      /\ (Channels' = Channels => WireType')
  BY ThreadSame DEF Drain, Types, TableType
<1>3. QueueType'
  BY <1>2, QueueSame DEF Drain, Types
<1>4. ChanType' /\ Channels' = Channels /\ acc' \in [Agents -> Messages]
  <2>1. CASE UNCHANGED <<chan, acc>>
    BY <1>2, <2>1 DEF Types, ChanType, Channels, RunType
  <2>2. CASE Holds(a) /\ Taken(a) /\ (UNCHANGED acc \/ acc' = [acc EXCEPT ![a] = First(a)])
    <3>1. ChanType' /\ Channels' = Channels /\ First(a) \in Messages
      BY <1>1, <1>2, <2>2, ChanTake DEF Holds, Taken, First, Types
    <3> QED
      BY <2>2, <3>1 DEF Types, RunType
  <2> QED
    BY <2>1, <2>2 DEF Drain
<1>5. RunType'
  <2>1. CASE UNCHANGED todo
    <3>1. TodoType(a) /\ DOMAIN todo = Agents
      BY <1>1 DEF Types, RunType
    <3>2. TodoType(a)'
      BY <1>2, <2>1, <3>1 DEF TodoType, Op, In, AgentOp, Half
    <3> QED
      BY <1>1, <1>2, <1>4, <2>1, <3>1, <3>2, RunGoesOn DEF Types
  <2>2. CASE GoesOn(a, "put back")
    <3>1. [op |-> "put back", port |-> Op(a).port] \in Half(a)
      BY <1>1 DEF Half
    <3> QED
      BY <1>1, <1>2, <1>4, <2>2, <3>1, GoesOnType, RunGoesOn DEF Types
  <2> QED
    BY <2>1, <2>2 DEF Drain
<1> QED
  BY <1>2, <1>3, <1>4, <1>5 DEF Types

LEMMA PutBackType ==
  ASSUME Types, NEW a \in Agents, PutBack(a)
  PROVE  Types'
<1>1. /\ pc[a] = "run" /\ todo[a] # <<>> /\ In(a) \in Channels
  <2>1. /\ pc[a] = "run" /\ todo[a] # <<>> /\ Op(a).op = "put back"
        /\ Op(a) \in AgentOp(a) \cup Half(a)
        /\ In(a) # None => In(a) \in Channels
    BY Reading DEF PutBack
  <2>2. Op(a) \in Half(a)
    BY <2>1 DEF AgentOp
  <2>3. In(a) # None
    BY <2>1, <2>2 DEF Types, RunType, TodoType
  <2> QED
    BY <2>1, <2>3
<1>2. TableType' /\ UNCHANGED <<outport, in_array, made, pc, input, script>>
      /\ (Channels' = Channels => WireType')
  BY ThreadSame DEF PutBack, Types, TableType
<1>3. QueueType'
  BY <1>2, QueueSame DEF PutBack, Types
<1>4. ChanType' /\ Channels' = Channels
  BY <1>1, <1>2, ChanPut DEF PutBack, Types, RunType
<1>5. RunType'
  BY <1>1, <1>2, <1>4, DoneType, RunGoesOn DEF PutBack, Types, RunType
<1> QED
  BY <1>2, <1>3, <1>4, <1>5 DEF Types

LEMMA NotifyType ==
  ASSUME Types, NEW t \in Agents \cup {"sched"}, Notify(t)
  PROVE  Types'
<1>1. owes[t] \in SchedMsg
  BY DEF Notify, Types, QueueType, SchedMsg
<1>2. owes' \in [Agents \cup {"sched"} -> Notice \cup {None}]
  BY DEF Notify, Types, QueueType
<1>3. QueueType'
  BY <1>1, <1>2, QueuePost DEF Notify, Types
<1>4. TableType' /\ WireType'
  BY WireSame DEF Notify, table, Types, TableType, Channels
<1>5. ChanType'
  BY DEF Notify, table, Types, ChanType, Channels
<1>6. RunType'
  BY DEF Notify, runs, Types, RunType, SnapshotType, TodoType, ChannelsOf, Channels, Op, In, AgentOp, Half
<1> QED
  BY <1>3, <1>4, <1>5, <1>6 DEF Types

LEMMA EndRunType ==
  ASSUME Types, NEW a \in Agents, EndRun(a)
  PROVE  Types'
<1>1. RunEnd(a) \in SchedMsg
  BY DEF RunEnd, SchedMsg
<1>2. QueueType'
  BY <1>1, QueuePost DEF EndRun, Types, QueueType
<1>3. TableType' /\ WireType'
  BY WireSame DEF EndRun, table, Types, TableType, Channels
<1>4. ChanType'
  BY DEF EndRun, table, Types, ChanType, Channels
<1>5. RunType'
  BY DEF EndRun, Types, RunType, SnapshotType, TodoType, ChannelsOf, Channels, Op, In, AgentOp, Half
<1> QED
  BY <1>2, <1>3, <1>4, <1>5 DEF Types

\* A step of a run keeps every type.
LEMMA ThreadType ==
  ASSUME Types, NEW a \in Agents, Thread(a)
  PROVE  Types'
  BY SendType, RecvType, GetType, TryRecvType, NoElementType, RecvOptionType, DrainType,
     PutBackType, NotifyType, EndRunType DEF Thread

-----------------------------------------------------------------------------
(* Type correctness: the scheduler and its holder.                          *)

\* The runs keep their types when channels are added.
LEMMA RunSame ==
  ASSUME RunType, UNCHANGED runs, Channels \subseteq Channels'
  PROVE  RunType'
<1>1. ASSUME NEW a \in Agents
      PROVE  /\ pc'[a] = "idle" => todo'[a] = <<>>
             /\ pc'[a] = "run" => SnapshotType(a)' /\ TodoType(a)'
  <2>1. SnapshotType(a) => SnapshotType(a)'
    BY DEF SnapshotType, ChannelsOf, runs
  <2>2. TodoType(a) => TodoType(a)'
    BY DEF TodoType, Op, In, AgentOp, Half, runs
  <2> QED
    BY <2>1, <2>2 DEF RunType, runs
<1> QED
  BY <1>1 DEF RunType, runs

\* The queues when a message is taken and nothing is owed for it.
LEMMA QueueTake ==
  ASSUME QueueType, mail_box # <<>>, mail_box' = Tail(mail_box), UNCHANGED script,
         owes' \in [Agents \cup {"sched"} -> Notice \cup {None}]
  PROVE  QueueType'
<1>1. mail_box' \in Seq(SchedMsg)
  BY MsgType
<1> QED
  BY <1>1 DEF QueueType

\* A run that begins has the procedure's operations and the agent as it is.
LEMMA ExecType ==
  ASSUME Types, NEW a \in Agents, NEW ran, ran \subseteq Agents, NEW count, NEW ips,
         NEW force, Exec(a, ran, count, ips, force), UNCHANGED chan
  PROVE  RunType' /\ is_running' \subseteq Agents
<1>1. Channels' = Channels
  BY DEF Channels
<1>2. CASE UNCHANGED runs /\ is_running' = ran
  BY <1>1, <1>2, RunSame DEF Types
<1>3. CASE Starts(a, ran, ips, force)
  <2>1. /\ is_running' = ran \cup {a} /\ pc' = [pc EXCEPT ![a] = "run"] /\ acc' = acc
        /\ input' = [input EXCEPT ![a] = Snapshot(a)]
    BY <1>3 DEF Exec
  <2>2. PICK body \in Bodies[a] : todo' = [todo EXCEPT ![a] = body]
    BY <1>3 DEF Exec
  <2>3. /\ pc' \in [Agents -> {"idle", "run"}] /\ acc' \in [Agents -> Messages]
        /\ DOMAIN todo' = Agents /\ DOMAIN input' = Agents
        /\ todo'[a] = body /\ input'[a] = Snapshot(a) /\ pc'[a] = "run"
        /\ \A b \in Agents \ {a} : todo'[b] = todo[b] /\ input'[b] = input[b] /\ pc'[b] = pc[b]
    BY <2>1, <2>2 DEF Types, RunType
  <2>4. TodoType(a)'
    <3>1. body \in Seq(AgentOp(a))
      BY <2>2, ProgramAssumption
    <3>2. todo'[a] \in Seq(AgentOp(a) \cup Half(a))
      BY <2>3, <3>1
    <3>3. todo'[a] # <<>> => Tail(todo'[a]) \in Seq(AgentOp(a)) /\ Op(a)' \in AgentOp(a)
      BY <2>3, <3>1 DEF Op
    <3>4. \A op \in AgentOp(a) : op \notin Half(a)
      BY DEF AgentOp, Half
    <3>5. todo'[a] # <<>> => Op(a)' \notin Half(a)
      BY <3>3, <3>4
    <3> QED
      BY <3>2, <3>3, <3>5 DEF TodoType, AgentOp, Half
  <2>5. SnapshotType(a)'
    <3>1. ASSUME NEW o \in OutPorts, From[o] = a
          PROVE  input'[a].outport[o] \in Channels \cup {None}
      BY <2>3, <3>1 DEF Snapshot, Types, WireType
    <3>2. ASSUME NEW e \in Elements, Owner[e] = a
          PROVE  input'[a].in_array[e] \in ChannelsOf(e) \cup {None}
      <4>1. input'[a].in_array[e] = in_array[e].port
        BY <2>3, <3>2 DEF Snapshot
      <4>2. in_array[e].port \in ChannelsOf(e) \cup {None}
        BY DEF Types, WireType, Gone
      <4> QED
        BY <4>1, <4>2
    <3> QED
      BY <1>1, <3>1, <3>2 DEF SnapshotType, ChannelsOf
  <2>6. ASSUME NEW b \in Agents, b # a
        PROVE  /\ pc'[b] = "idle" => todo'[b] = <<>>
               /\ pc'[b] = "run" => SnapshotType(b)' /\ TodoType(b)'
    <3>1. UNCHANGED <<pc[b], todo[b], input[b]>>
      BY <2>3, <2>6
    <3>2. SnapshotType(b) => SnapshotType(b)'
      BY <1>1, <3>1 DEF SnapshotType, ChannelsOf
    <3>3. TodoType(b) => TodoType(b)'
      BY <3>1 DEF TodoType, Op, In, AgentOp, Half
    <3> QED
      BY <3>1, <3>2, <3>3 DEF Types, RunType
  <2>7. RunType'
    BY <2>3, <2>4, <2>5, <2>6 DEF RunType
  <2> QED
    BY <2>1, <2>7
<1> QED
  BY <1>2, <1>3 DEF Exec

\* What a notice leaves alone: it is the first message, and its agent is known.
LEMMA NoticeTaken ==
  ASSUME Types, IncIp \/ DecIp \/ HandleRunEnd
  PROVE  /\ mail_box # <<>> /\ mail_box' = Tail(mail_box) /\ starting = {} /\ sched = "up"
         /\ Msg \in SchedMsg /\ Msg.agt \in Agents
         /\ UNCHANGED <<sched, chan, owes, script, client, missed, starting, agents, outport, in_array,
                       will_stop, made>>
         /\ IncIp => Msg.type = "inc-ip"
         /\ DecIp => Msg.type = "dec-ip"
         /\ HandleRunEnd => Msg.type = "run-end"
<1>1. \E a \in agents : Meets(a, "inc-ip") \/ Meets(a, "dec-ip") \/ Meets(a, "run-end")
  BY DEF IncIp, DecIp, HandleRunEnd, RunEnds
<1>2. /\ mail_box # <<>> /\ mail_box' = Tail(mail_box) /\ starting = {} /\ sched = "up"
      /\ Msg.type \in {"inc-ip", "dec-ip", "run-end"}
  BY <1>1 DEF Meets, Handles, Takes, Msg
<1>3. Msg \in SchedMsg
  BY <1>2, MsgType DEF Types
<1>4. Msg.agt \in Agents
  BY <1>2, <1>3, MsgFields
<1>5. UNCHANGED <<sched, chan, owes, script, client, missed, starting, agents, outport, in_array,
                  will_stop, made>>
  BY DEF IncIp, DecIp, HandleRunEnd, RunEnds, MatchFrame
<1>6. /\ IncIp => Msg.type = "inc-ip"
      /\ DecIp => Msg.type = "dec-ip"
      /\ HandleRunEnd => Msg.type = "run-end"
  BY DEF IncIp, DecIp, HandleRunEnd, RunEnds, Meets, Handles, Takes, Msg
<1> QED
  BY <1>2, <1>3, <1>4, <1>5, <1>6

\* A notice for another agent is recorded with both.
LEMMA StraysType ==
  ASSUME TableType, NEW a \in Agents, NEW of \in Agents, NEW by \in Int, Strays(a, of, by)
  PROVE  /\ strays' \in [Agents -> Int] /\ strayed' \subseteq Agents /\ strayed \subseteq strayed'
         /\ a = of => UNCHANGED <<strays, strayed>>
         /\ a # of => /\ a \in strayed' /\ of \in strayed'
                      /\ strays'[a] = strays[a] + by /\ strays'[of] = strays[of] - by
         /\ \A b \in Agents \ {a, of} : strays'[b] = strays[b]
  BY DEF Strays, TableType

\* Who takes it, and what that does to the agent.
LEMMA NoticeTaker ==
  ASSUME Types, IncIp \/ DecIp \/ HandleRunEnd
  PROVE  \E a \in agents :
           /\ a \in Agents
           /\ a # Msg.agt => a \in strayed' /\ Msg.agt \in strayed'
           /\ strayed \subseteq strayed' /\ (a = Msg.agt => UNCHANGED strayed)
           /\ \A b \in Agents \ strayed' : strays'[b] = strays[b]
           /\ IncIp => /\ number_ips' = [number_ips EXCEPT ![a] = @ + 1]
                       /\ Exec(a, is_running, number_running, number_ips'[a], FALSE)
           /\ DecIp => number_ips' = [number_ips EXCEPT ![a] = @ - 1] /\ UNCHANGED <<is_running, runs>>
           /\ HandleRunEnd =>
                /\ UNCHANGED number_ips
                /\ Exec(a, is_running \ {a, Msg.agt}, number_running - 1, number_ips[a], FALSE)
<1>1. Msg.agt \in Agents /\ TableType /\ agents \subseteq Agents
      /\ (IncIp => Msg.type = "inc-ip") /\ (DecIp => Msg.type = "dec-ip")
      /\ (HandleRunEnd => Msg.type = "run-end")
  BY NoticeTaken DEF Types, TableType
<1>2. PICK a \in agents, by \in {1, -1, 0} :
        /\ Strays(a, Msg.agt, by)
        /\ IncIp => /\ number_ips' = [number_ips EXCEPT ![a] = @ + 1]
                    /\ Exec(a, is_running, number_running, number_ips'[a], FALSE)
        /\ DecIp => number_ips' = [number_ips EXCEPT ![a] = @ - 1] /\ UNCHANGED <<is_running, runs>>
        /\ HandleRunEnd =>
             /\ UNCHANGED number_ips
             /\ Exec(a, is_running \ {a, Msg.agt}, number_running - 1, number_ips[a], FALSE)
  <2>1. CASE IncIp
    <3>1. ~DecIp /\ ~HandleRunEnd
      BY <1>1, <2>1
    <3> QED
      BY <2>1, <3>1 DEF IncIp
  <2>2. CASE DecIp
    <3>1. ~IncIp /\ ~HandleRunEnd
      BY <1>1, <2>2
    <3> QED
      BY <2>2, <3>1 DEF DecIp
  <2>3. CASE HandleRunEnd
    <3>1. ~DecIp /\ ~IncIp
      BY <1>1, <2>3
    <3> QED
      BY <2>3, <3>1 DEF HandleRunEnd, RunEnds
  <2> QED
    BY <2>1, <2>2, <2>3
<1>3. a \in Agents /\ by \in Int
  BY <1>1
<1>4. /\ strayed \subseteq strayed'
      /\ a = Msg.agt => UNCHANGED <<strays, strayed>>
      /\ a # Msg.agt => a \in strayed' /\ Msg.agt \in strayed'
      /\ \A b \in Agents \ {a, Msg.agt} : strays'[b] = strays[b]
  BY ONLY <1>1, <1>2, <1>3, StraysType
<1>5. \A b \in Agents \ strayed' : strays'[b] = strays[b]
  BY <1>4
<1> QED
  BY <1>2, <1>3, <1>4, <1>5

\* The messages that edit the table, and no channel.
LEMMA EditType ==
  ASSUME Types,
         \/ AddAgent \/ RemoveAgent \/ Connect \/ RawConnect \/ Disconnect \/ DisconnectToArray
  PROVE  Types'
<1>1. /\ mail_box # <<>> /\ mail_box' = Tail(mail_box)
      /\ UNCHANGED <<sched, chan, owes, script, missed, starting, runs, is_running, made, strays, strayed>>
  BY DEF AddAgent, RemoveAgent, Connect, RawConnect, Disconnect, DisconnectToArray,
         Handles, Takes, Edits, MatchFrame
<1>2. Msg \in SchedMsg
  BY <1>1, MsgType DEF Types
<1>3. QueueType'
  BY <1>1, QueueTake DEF Types, QueueType
<1>4. ChanType' /\ Channels' = Channels
  BY <1>1 DEF Types, ChanType, Channels
<1>5. RunType'
  BY <1>1, <1>4, RunSame DEF Types
<1>6. TableType'
  <2>1. Msg.type = "add-agent" => Msg.agt \in Agents
    BY <1>2, MsgFields
  <2>2. agents' \subseteq Agents
    BY <2>1 DEF AddAgent, RemoveAgent, Connect, RawConnect, Disconnect, DisconnectToArray,
           Handles, Takes, Msg, Others, Types, TableType
  <2>3. number_ips' \in [Agents -> Int]
    BY DEF AddAgent, RemoveAgent, Connect, RawConnect, Disconnect, DisconnectToArray,
           Types, TableType
  <2> QED
    BY <1>1, <2>2, <2>3 DEF Types, TableType
<1>7. WireType'
  <2>1. CASE AddAgent \/ RemoveAgent
    BY <1>4, <2>1, WireSame DEF AddAgent, RemoveAgent, Types
  <2>2. CASE Connect \/ RawConnect \/ Disconnect
    <3>1. PICK c \in Channels \cup {None} : outport' = [outport EXCEPT ![Msg.out] = c]
      <4>1. CASE Connect \/ RawConnect
        <5>1. Msg.type \in {"connect", "raw-connect"}
          BY <4>1 DEF Connect, RawConnect, Handles, Takes, Msg
        <5>2. Simple(Msg.in) \in Channels
          BY <1>2, <5>1, MsgFields DEF Types, ChanType
        <5> QED
          BY <4>1, <5>2 DEF Connect, RawConnect, AgentConnect
      <4>2. CASE Disconnect
        BY <4>2 DEF Disconnect, AgentDisconnect
      <4> QED
        BY <2>2, <4>1, <4>2
    <3>2. in_array' = in_array
      BY <2>2 DEF Connect, RawConnect, Disconnect
    <3> QED
      BY <1>4, <3>1, <3>2 DEF Types, WireType, ChannelsOf
  <2>3. CASE DisconnectToArray
    <3>1. Msg.out \in OutPorts /\ Msg.in \in Elements
      BY <1>2, <2>3, MsgFields DEF DisconnectToArray, Handles, Takes, Msg
    <3>2. outport' \in [OutPorts -> Channels \cup {None}]
      BY <2>3, <3>1 DEF DisconnectToArray, AgentDisconnect, Types, WireType
    <3>3. Left(in_array[Msg.in]) = Gone \/ Left(in_array[Msg.in]) \in [nbr : Nat \ {0}, port : ChannelsOf(Msg.in)]
      <4>1. in_array[Msg.in] \in [nbr : Nat \ {0}, port : ChannelsOf(Msg.in)]
        BY <2>3, <3>1 DEF DisconnectToArray, Types, WireType
      <4> QED
        BY <4>1 DEF Left
    <3>4. \/ in_array' = in_array
          \/ in_array' = [in_array EXCEPT ![Msg.in] = Left(in_array[Msg.in])]
      BY <2>3 DEF DisconnectToArray, Receives
    <3>5. /\ DOMAIN in_array' = Elements
          /\ \A e \in Elements : \/ in_array'[e] = Gone
                                 \/ in_array'[e] \in [nbr : Nat \ {0}, port : ChannelsOf(e)]
      BY <3>1, <3>3, <3>4 DEF Types, WireType
    <3> QED
      BY <1>4, <3>2, <3>5 DEF WireType, ChannelsOf, Gone
  <2> QED
    BY <2>1, <2>2, <2>3
<1> QED
  BY <1>3, <1>4, <1>5, <1>6, <1>7 DEF Types

\* A new element has a channel of its own.
LEMMA ConnectToArrayType ==
  ASSUME Types, ConnectToArray
  PROVE  Types'
<1> PICK e : e = Msg.in
  OBVIOUS
<1> DEFINE new == Entered(e)
<1>1. /\ mail_box # <<>> /\ mail_box' = Tail(mail_box)
      /\ UNCHANGED <<agents, number_ips, is_running, owes, script, missed, starting, runs, strays, strayed>>
      /\ Msg.type = "connect-to-array"
  BY DEF ConnectToArray, Handles, Takes, Msg
<1>2. Msg.out \in OutPorts /\ e \in Elements /\ e \in InPorts
  BY <1>1, MsgType, MsgFields, PortsAssumption DEF Types
<1>3. QueueType' /\ TableType'
  BY <1>1, QueueTake DEF Types, QueueType, TableType
<1>4. CASE in_array[e] # Gone
  <2>1. ChanType' /\ Channels' = Channels
    BY <1>4 DEF ConnectToArray, Types, ChanType, Channels
  <2>2. new \in [nbr : Nat \ {0}, port : ChannelsOf(e)] /\ new.port \in Channels
    <3>1. in_array[e] \in [nbr : Nat \ {0}, port : ChannelsOf(e)]
      BY <1>2, <1>4 DEF Types, WireType
    <3>2. new = [in_array[e] EXCEPT !.nbr = @ + 1]
      BY <1>4 DEF Entered
    <3> QED
      BY <3>1, <3>2 DEF ChannelsOf
  <2>3. WireType'
    <3>1. outport' = [outport EXCEPT ![Msg.out] = new.port]
      BY DEF ConnectToArray, AgentConnect
    <3>2. in_array' = in_array \/ in_array' = [in_array EXCEPT ![e] = new]
      BY DEF ConnectToArray, Receives
    <3>3. outport' \in [OutPorts -> Channels \cup {None}]
      BY <2>2, <3>1 DEF Types, WireType
    <3>4. /\ DOMAIN in_array' = Elements
          /\ \A f \in Elements : \/ in_array'[f] = Gone
                                 \/ in_array'[f] \in [nbr : Nat \ {0}, port : ChannelsOf(f)]
      <4> HIDE DEF new
      <4> QED
        BY <1>2, <2>2, <3>2 DEF Types, WireType
    <3> QED
      BY <2>1, <3>3, <3>4 DEF WireType, ChannelsOf, Gone
  <2>4. RunType'
    BY <1>1, <2>1, RunSame DEF Types
  <2> QED
    BY <1>3, <2>1, <2>3, <2>4 DEF Types
<1>5. CASE in_array[e] = Gone
  <2> DEFINE c == <<e, made[e] + 1>>
  <2>1. new = [nbr |-> 1, port |-> c] /\ made[e] \in Nat
    BY <1>2, <1>5 DEF Entered, Types, ChanType
  <2>2. /\ made' = [made EXCEPT ![e] = @ + 1]
        /\ chan' = [d \in Channels \cup {c} |-> IF d = c THEN <<>> ELSE chan[d]]
        /\ outport' = [outport EXCEPT ![Msg.out] = c]
        /\ in_array' = in_array \/ in_array' = [in_array EXCEPT ![e] = new]
    BY <1>5, <2>1 DEF ConnectToArray, AgentConnect, Receives
  <2>3. Channels' = Channels \cup {c}
    BY <2>2 DEF Channels
  <2>4. ChanType'
    <3>1. IsFiniteSet(Channels') /\ Channels' \subseteq InPorts \X Nat
      <4>1. IsFiniteSet(Channels) /\ Channels \subseteq InPorts \X Nat
        BY DEF Types, ChanType
      <4>2. IsFiniteSet(Channels \cup {c})
        BY ONLY <4>1, FS_AddElement
      <4>3. c \in InPorts \X Nat
        BY ONLY <1>2, <2>1
      <4> QED
        BY ONLY <2>3, <4>1, <4>2, <4>3
    <3>2. \A d \in Channels' : chan'[d] \in Seq(Messages) /\ Len(chan'[d]) <= Capacity
      <4>1. <<>> \in Seq(Messages) /\ Len(<<>>) <= Capacity
        BY PortsAssumption
      <4>2. \A d \in Channels' : chan'[d] = IF d = c THEN <<>> ELSE chan[d]
        BY <2>2, <2>3
      <4> QED
        BY <2>3, <4>1, <4>2 DEF Types, ChanType
    <3>3. made' \in [Elements -> Nat] /\ made'[e] = made[e] + 1
          /\ \A f \in Elements : f # e => made'[f] = made[f]
      BY <1>2, <2>1, <2>2 DEF Types, ChanType
    <3>4. \A d \in Channels' : d[1] \in Elements => d[2] <= made'[d[1]]
      <4>1. ASSUME NEW d \in Channels, d[1] \in Elements
            PROVE  d[2] <= made'[d[1]]
        <5>1. d[2] <= made[d[1]] /\ d[2] \in Nat /\ made[d[1]] \in Nat
          BY <4>1 DEF Types, ChanType
        <5> QED
          BY <3>3, <4>1, <5>1
      <4>2. c[1] = e /\ c[2] = made[e] + 1
        OBVIOUS
      <4> QED
        BY <2>1, <2>3, <3>3, <4>1, <4>2
    <3> QED
      BY <2>3, <3>1, <3>2, <3>3, <3>4 DEF Types, ChanType
  <2>5. RunType'
    BY <1>1, <2>3, RunSame DEF Types
  <2>6. WireType'
    <3>1. c \in Channels' /\ c[1] = e
      BY <2>3
    <3>2. outport' \in [OutPorts -> Channels' \cup {None}]
      BY <2>2, <2>3 DEF Types, WireType
    <3>3. new \in [nbr : Nat \ {0}, port : ChannelsOf(e)']
      BY <2>1, <3>1 DEF ChannelsOf
    <3>4. \A f \in Elements : ChannelsOf(f) \subseteq ChannelsOf(f)'
      BY <2>3 DEF ChannelsOf
    <3>5. /\ DOMAIN in_array' = Elements
          /\ \A f \in Elements : \/ in_array'[f] = Gone
                                 \/ in_array'[f] \in [nbr : Nat \ {0}, port : ChannelsOf(f)']
      <4>1. /\ DOMAIN in_array = Elements
            /\ \A f \in Elements : \/ in_array[f] = Gone
                                   \/ in_array[f] \in [nbr : Nat \ {0}, port : ChannelsOf(f)']
        BY <3>4 DEF Types, WireType
      <4> HIDE DEF new
      <4> QED
        BY <1>2, <2>2, <3>3, <4>1
    <3> QED
      BY <3>2, <3>5 DEF WireType, ChannelsOf, Gone
  <2> QED
    BY <1>3, <2>4, <2>5, <2>6 DEF Types
<1> QED
  BY <1>4, <1>5

\* The scheduler's thread sends.
LEMMA MesgType ==
  ASSUME Types, Mesg
  PROVE  Types'
<1> DEFINE c == Simple(Msg.in)
<1>1. /\ mail_box # <<>> /\ mail_box' = Tail(mail_box) /\ Msg.type = "mesg"
      /\ UNCHANGED <<table, starting, runs, script, missed>>
  BY DEF Mesg, Handles, Takes, Msg
<1>2. Msg.in \in InPorts \ Elements /\ Msg.msg \in Messages
  BY <1>1, MsgType, MsgFields DEF Types
<1>3. c \in Channels
  BY <1>2 DEF Types, ChanType
<1>4. ChanType' /\ Channels' = Channels
  <2>1. /\ Len(chan[c]) < Capacity /\ chan' = [chan EXCEPT ![c] = Append(@, Msg.msg)]
        /\ made' = made
    BY <1>1 DEF Mesg, table
  <2> HIDE DEF c
  <2> QED
    BY <1>2, <1>3, <2>1, ChanPut DEF Types
<1>5. QueueType'
  <2>1. Inc(Owner[Msg.in]) \in Notice
    BY <1>2, PortsAssumption DEF Inc, Notice
  <2>2. owes' \in [Agents \cup {"sched"} -> Notice \cup {None}]
    BY <2>1 DEF Mesg, Types, QueueType
  <2> QED
    BY <1>1, <2>2, QueueTake DEF Types
<1>6. TableType' /\ WireType' /\ RunType'
  BY <1>1, <1>4, WireSame, RunSame DEF table, Types, TableType
<1> QED
  BY <1>4, <1>5, <1>6 DEF Types

\* A notice, for whichever agent takes it.
LEMMA IpType ==
  ASSUME Types, IncIp \/ DecIp \/ HandleRunEnd
  PROVE  Types'
<1>1. /\ mail_box # <<>> /\ mail_box' = Tail(mail_box) /\ Msg.agt \in Agents
      /\ UNCHANGED <<chan, owes, script, missed, starting, agents, outport, in_array, made>>
  BY NoticeTaken
<1>2. QueueType'
  BY <1>1, QueueTake DEF Types, QueueType
<1>3. Channels' = Channels
  BY <1>1 DEF Channels
<1>4. ChanType' /\ WireType'
  BY <1>1, <1>3, WireSame DEF Types, ChanType
<1>5. PICK a \in agents :
        \/ /\ Strays(a, Msg.agt, 1) /\ number_ips' = [number_ips EXCEPT ![a] = @ + 1]
           /\ Exec(a, is_running, number_running, number_ips'[a], FALSE)
        \/ /\ Strays(a, Msg.agt, -1) /\ number_ips' = [number_ips EXCEPT ![a] = @ - 1]
           /\ UNCHANGED <<runs, is_running>>
        \/ /\ Strays(a, Msg.agt, 0) /\ UNCHANGED number_ips
           /\ Exec(a, is_running \ {a, Msg.agt}, number_running - 1, number_ips[a], FALSE)
  BY DEF IncIp, DecIp, HandleRunEnd, RunEnds
<1>6. a \in Agents /\ is_running \subseteq Agents /\ is_running \ {a, Msg.agt} \subseteq Agents
  BY DEF Types, TableType
<1>7. number_ips' \in [Agents -> Int]
  <2>1. number_ips \in [Agents -> Int] /\ number_ips[a] \in Int
    BY <1>6 DEF Types, TableType
  <2>2. number_ips[a] + 1 \in Int /\ number_ips[a] - 1 \in Int
    BY <2>1
  <2>3. \/ number_ips' = number_ips
        \/ number_ips' = [number_ips EXCEPT ![a] = number_ips[a] + 1]
        \/ number_ips' = [number_ips EXCEPT ![a] = number_ips[a] - 1]
    BY <1>5
  <2> QED
    BY ONLY <1>6, <2>1, <2>2, <2>3
<1>8. strays' \in [Agents -> Int] /\ strayed' \subseteq Agents
  <2>1. Strays(a, Msg.agt, 1) \/ Strays(a, Msg.agt, -1) \/ Strays(a, Msg.agt, 0)
    BY <1>5
  <2>2. TableType /\ 1 \in Int /\ -1 \in Int /\ 0 \in Int
    BY DEF Types
  <2> QED
    BY ONLY <1>1, <1>6, <2>1, <2>2, StraysType
<1>9. RunType' /\ is_running' \subseteq Agents
  <2>1. CASE Exec(a, is_running, number_running, number_ips'[a], FALSE)
    BY <1>1, <1>6, <2>1, ExecType
  <2>2. CASE UNCHANGED <<runs, is_running>>
    BY <1>3, <1>6, <2>2, RunSame DEF Types
  <2>3. CASE Exec(a, is_running \ {a, Msg.agt}, number_running - 1, number_ips[a], FALSE)
    BY <1>1, <1>6, <2>3, ExecType
  <2> QED
    BY <1>5, <2>1, <2>2, <2>3
<1>10. TableType'
  BY <1>1, <1>7, <1>8, <1>9 DEF Types, TableType
<1> QED
  BY <1>2, <1>4, <1>9, <1>10 DEF Types

LEMMA StartAgentType ==
  ASSUME Types, StartAgent
  PROVE  Types'
<1>1. /\ mail_box # <<>> /\ mail_box' = Tail(mail_box) /\ Msg.type = "start-agent"
      /\ Exec(Msg.agt, is_running, number_running, number_ips[Msg.agt], TRUE)
      /\ UNCHANGED <<chan, owes, script, missed, starting, agents, outport, in_array, made, number_ips,
                    strays, strayed>>
  BY DEF StartAgent, Handles, Takes, MatchFrame, Msg
<1>2. Msg.agt \in Agents /\ is_running \subseteq Agents
  BY <1>1, MsgType, MsgFields DEF Types, TableType
<1>3. QueueType'
  BY <1>1, QueueTake DEF Types, QueueType
<1>4. Channels' = Channels
  BY <1>1 DEF Channels
<1>5. ChanType' /\ WireType'
  BY <1>1, <1>4, WireSame DEF Types, ChanType
<1>6. RunType' /\ is_running' \subseteq Agents
  BY <1>1, <1>2, ExecType
<1> QED
  BY <1>1, <1>3, <1>5, <1>6 DEF Types, TableType

LEMMA StartNextType ==
  ASSUME Types, StartNext
  PROVE  Types'
<1> PICK a \in starting : /\ Exec(a, is_running, number_running, number_ips[a], TRUE)
                          /\ starting' = starting \ {a}
  BY DEF StartNext
<1>1. UNCHANGED <<agents, number_ips, outport, in_array, made, mail_box, chan, owes, script, missed,
                  strays, strayed>>
  BY DEF StartNext, MatchFrame
<1>2. a \in Agents /\ is_running \subseteq Agents
  BY DEF Types, TableType
<1>3. RunType' /\ is_running' \subseteq Agents
  BY <1>1, <1>2, ExecType
<1>4. Channels' = Channels
  BY <1>1 DEF Channels
<1>5. ChanType' /\ WireType' /\ QueueType'
  BY <1>1, <1>4, WireSame, QueueSame DEF Types, ChanType
<1> QED
  BY <1>1, <1>3, <1>5 DEF Types, TableType

\* The other messages, the end of the loop, and what its holder does.
LEMMA OtherType ==
  ASSUME Types, Start \/ Stop \/ LoopEnds \/ Client
  PROVE  Types'
<1>1. UNCHANGED <<agents, number_ips, is_running, outport, in_array, made, chan, runs, owes, missed,
                  strays, strayed>>
  BY DEF Start, Stop, LoopEnds, Client, ClientPosts, ClientReturns, MatchFrame, table
<1>2. Channels' = Channels
  BY <1>1 DEF Channels
<1>3. ChanType' /\ WireType' /\ RunType'
  BY <1>1, <1>2, WireSame, RunSame DEF Types, ChanType
<1>4. TableType'
  BY <1>1 DEF Types, TableType, Start, Stop, LoopEnds, Client, ClientPosts, ClientReturns
<1>5. QueueType'
  <2>1. CASE Start \/ Stop
    BY <1>1, <2>1, QueueTake DEF Start, Stop, Handles, Takes, MatchFrame, Types, QueueType
  <2>2. CASE LoopEnds \/ ClientReturns
    BY <2>2, QueueSame DEF LoopEnds, ClientReturns, Types
  <2>3. CASE ClientPosts
    <3>1. script \in Seq(ClientMsg) /\ script # <<>>
      BY <2>3 DEF ClientPosts, Types, QueueType
    <3>2. Head(script) \in SchedMsg /\ Tail(script) \in Seq(ClientMsg)
      BY <3>1 DEF SchedMsg
    <3>3. mail_box' = Append(mail_box, Head(script)) /\ script' = Tail(script)
      BY <2>3 DEF ClientPosts, Post
    <3>4. mail_box' \in Seq(SchedMsg)
      BY <3>2, <3>3 DEF Types, QueueType
    <3> QED
      BY <1>1, <3>2, <3>3, <3>4 DEF Types, QueueType
  <2> QED
    BY <2>1, <2>2, <2>3 DEF Client
<1> QED
  BY <1>3, <1>4, <1>5 DEF Types

\* Every step but an exception of the scheduler's thread keeps the types.
LEMMA StepType ==
  ASSUME Types, Next, sched' # "dead"
  PROVE  Types'
<1>1. ~Raise
  BY DEF Raise
<1>2. CASE Scheduler
  BY <1>1, <1>2, EditType, ConnectToArrayType, MesgType, NotifyType, IpType, StartAgentType,
     StartNextType, OtherType DEF Scheduler
<1> QED
  BY <1>2, OtherType, ThreadType DEF Next

LEMMA InitType == Init => Types
<1> SUFFICES ASSUME Init PROVE Types
  OBVIOUS
<1>1. TableType
  BY DEF Init, TableType
<1>2. QueueType
  <2>1. script \in Seq(ClientMsg) /\ mail_box = <<>>
    BY ProgramAssumption DEF Init
  <2>2. owes \in [Agents \cup {"sched"} -> Notice \cup {None}]
    BY DEF Init
  <2> QED
    BY <2>1, <2>2 DEF QueueType
<1> DEFINE P == InPorts \ Elements
<1>3. Channels = {Simple(p) : p \in P} /\ \A c \in Channels : chan[c] = <<>>
  BY DEF Init, Channels
<1>4. ChanType
  <2>1. IsFiniteSet(Channels)
    <3>1. IsFiniteSet(P)
      BY PortsAssumption, FS_Subset
    <3>2. IsFiniteSet({0}) /\ IsFiniteSet(P \X {0})
      BY <3>1, FS_Singleton, FS_Product
    <3>3. Channels \subseteq P \X {0}
      BY <1>3 DEF Simple
    <3> QED
      BY <3>2, <3>3, FS_Subset
  <2>2. Channels \subseteq InPorts \X Nat
    BY <1>3 DEF Simple
  <2>3. <<>> \in Seq(Messages) /\ Len(<<>>) <= Capacity
    BY PortsAssumption
  <2>4. \A c \in Channels : c[1] \notin Elements
    BY <1>3 DEF Simple
  <2> QED
    BY <1>3, <2>1, <2>2, <2>3, <2>4 DEF Init, ChanType
<1>5. WireType
  <2>1. outport \in [OutPorts -> Channels \cup {None}]
    BY <1>3, PortsAssumption DEF Init
  <2> QED
    BY <2>1 DEF Init, WireType
<1>6. RunType
  BY ValuesAssumption DEF Init, RunType
<1> QED
  BY <1>1, <1>2, <1>4, <1>5, <1>6 DEF Types

-----------------------------------------------------------------------------
(* Counting.                                                                *)

\* The messages that the counts are about differ.
LEMMA Distinct ==
  ASSUME NEW a, NEW b
  PROVE  /\ Inc(a) # Dec(b) /\ Inc(a) # RunEnd(b) /\ Dec(a) # RunEnd(b)
         /\ Inc(a) # Adds(b) /\ Dec(a) # Adds(b) /\ RunEnd(a) # Adds(b)
         /\ (Inc(a) = Inc(b) <=> a = b) /\ (Dec(a) = Dec(b) <=> a = b)
         /\ (RunEnd(a) = RunEnd(b) <=> a = b) /\ (Adds(a) = Adds(b) <=> a = b)
<1>1. Inc(a).type = "inc-ip" /\ Dec(a).type = "dec-ip" /\ RunEnd(a).type = "run-end"
      /\ Inc(a).agt = a /\ Dec(a).agt = a /\ RunEnd(a).agt = a /\ Adds(a).agt = a
      /\ Inc(b).agt = b /\ Dec(b).agt = b /\ RunEnd(b).agt = b /\ Adds(b).agt = b
      /\ Dec(b).type = "dec-ip" /\ RunEnd(b).type = "run-end" /\ Adds(b).type = "add-agent"
  BY DEF Inc, Dec, RunEnd, Adds
<1> QED
  BY <1>1

\* What the holder of the scheduler posts is no notice.
LEMMA ClientDistinct ==
  ASSUME NEW m \in ClientMsg, NEW b
  PROVE  m # Inc(b) /\ m # Dec(b) /\ m # RunEnd(b)
<1>1. m.type \notin {"inc-ip", "dec-ip", "run-end"}
  BY DEF ClientMsg
<1>2. Inc(b).type = "inc-ip" /\ Dec(b).type = "dec-ip" /\ RunEnd(b).type = "run-end"
  BY DEF Inc, Dec, RunEnd
<1> QED
  BY <1>1, <1>2

\* A message that is posted is counted.
LEMMA BoxPost ==
  ASSUME QueueType, NEW m \in SchedMsg, Post(m), NEW x
  PROVE  Count(mail_box', x) = Count(mail_box, x) + (IF m = x THEN 1 ELSE 0)
  BY CountAppend DEF QueueType, Post

\* A message that is taken is no longer counted.
LEMMA BoxTake ==
  ASSUME QueueType, mail_box # <<>>, mail_box' = Tail(mail_box), NEW x
  PROVE  Count(mail_box', x) = Count(mail_box, x) - (IF Msg = x THEN 1 ELSE 0)
  BY CountTail DEF QueueType, Msg

LEMMA OwedFinite ==
  ASSUME QueueType, NEW x
  PROVE  IsFiniteSet({t \in DOMAIN owes : owes[t] = x}) /\ Owed(x) \in Nat
<1>1. IsFiniteSet(Agents \cup {"sched"})
  BY AgentsAssumption, FS_AddElement
<1>2. {t \in DOMAIN owes : owes[t] = x} \subseteq Agents \cup {"sched"}
  BY DEF QueueType
<1>3. IsFiniteSet({t \in DOMAIN owes : owes[t] = x})
  BY <1>1, <1>2, FS_Subset
<1> QED
  BY <1>3, FS_CardinalityType DEF Owed

\* What a thread owes changes from one notice to another, or to none.
LEMMA OwesChange ==
  ASSUME QueueType, NEW t \in Agents \cup {"sched"}, NEW v, owes' = [owes EXCEPT ![t] = v], NEW x
  PROVE  Owed(x)' = Owed(x) + (IF v = x THEN 1 ELSE 0) - (IF owes[t] = x THEN 1 ELSE 0)
<1> DEFINE S == {u \in DOMAIN owes : owes[u] = x}
           T == {u \in DOMAIN owes' : owes'[u] = x}
<1>1. IsFiniteSet(S) /\ Cardinality(S) \in Nat /\ Cardinality(S) = Owed(x)
  BY OwedFinite DEF Owed
<1>2. Owed(x)' = Cardinality(T)
  BY DEF Owed
<1>3. t \in DOMAIN owes /\ DOMAIN owes' = DOMAIN owes /\ owes'[t] = v
      /\ \A u \in DOMAIN owes : u # t => owes'[u] = owes[u]
  BY DEF QueueType
<1>4. IsFiniteSet(S \ {t}) /\ Cardinality(S \ {t}) = Cardinality(S) - (IF owes[t] = x THEN 1 ELSE 0)
  <2>1. t \in S <=> owes[t] = x
    BY <1>3
  <2> QED
    BY <1>1, <2>1, FS_RemoveElement
<1>5. T = IF v = x THEN (S \ {t}) \cup {t} ELSE S \ {t}
  BY <1>3
<1>6. Cardinality(T) = Cardinality(S \ {t}) + (IF v = x THEN 1 ELSE 0)
  <2> PICK R : R = S \ {t}
    OBVIOUS
  <2>1. IsFiniteSet(R) /\ t \notin R
    BY <1>4
  <2>2. Cardinality(R \cup {t}) = Cardinality(R) + 1 /\ Cardinality(R) \in Nat
    BY <2>1, FS_AddElement, FS_CardinalityType
  <2>3. T = IF v = x THEN R \cup {t} ELSE R
    BY <1>5
  <2> HIDE DEF T
  <2> QED
    BY <2>2, <2>3
<1> QED
  BY <1>1, <1>2, <1>4, <1>6, FS_CardinalityType

\* The sync channels of an agent.
SyncOf(a) == {c \in Channels : Sync(c) /\ Owner[c[1]] = a}

LEMMA QueuedFinite ==
  ASSUME ChanType, NEW a
  PROVE  /\ IsFiniteSet(SyncOf(a)) /\ \A c \in SyncOf(a) : Length[c] \in 0..Capacity
         /\ Queued(a) = Cardinality(Places(Length, SyncOf(a), Capacity)) /\ Queued(a) \in Nat
<1>1. IsFiniteSet(SyncOf(a))
  BY FS_Subset DEF ChanType, SyncOf
<1>2. ASSUME NEW c \in Channels PROVE Length[c] = Len(chan[c]) /\ Length[c] \in 0..Capacity
  <2>1. Length[c] = Len(chan[c])
    BY DEF Length
  <2>2. chan[c] \in Seq(Messages) /\ Len(chan[c]) <= Capacity
    BY DEF ChanType
  <2> QED
    BY <2>1, <2>2, PortsAssumption
<1>3. Queued(a) = Cardinality(Places(Length, SyncOf(a), Capacity))
  BY DEF Queued, SyncOf
<1>4. \A c \in SyncOf(a) : Length[c] \in 0..Capacity
  BY <1>2 DEF SyncOf
<1> QED
  BY <1>1, <1>3, <1>4, PlacesFinite, PortsAssumption

\* A message that comes into a sync channel waits for its agent.
LEMMA QueuedPut ==
  ASSUME ChanType, NEW c \in Channels, NEW m \in Messages, Len(chan[c]) < Capacity,
         chan' = [chan EXCEPT ![c] = Append(@, m)], made' = made, NEW a
  PROVE  Queued(a)' = Queued(a) + (IF Sync(c) /\ Owner[c[1]] = a THEN 1 ELSE 0)
<1>1. ChanType' /\ Channels' = Channels
  BY ChanPut
<1>2. /\ IsFiniteSet(SyncOf(a)) /\ \A d \in SyncOf(a) : Length[d] \in 0..Capacity
      /\ Queued(a) = Cardinality(Places(Length, SyncOf(a), Capacity))
  BY QueuedFinite
<1>3. SyncOf(a)' = SyncOf(a)
  BY <1>1 DEF SyncOf, Sync
<1>4. Queued(a)' = Cardinality(Places(Length', SyncOf(a), Capacity))
  BY <1>3 DEF Queued, SyncOf
<1>5. \A d \in Channels : Length[d] = Len(chan[d]) /\ Length'[d] = Len(chan'[d])
  BY <1>1 DEF Length
<1>6. Length[c] < Capacity /\ Length'[c] = Length[c] + 1
  <2>1. chan[c] \in Seq(Messages) /\ chan'[c] = Append(chan[c], m)
    BY DEF ChanType, Channels
  <2> PICK s \in Seq(Messages) : s = chan[c]
    BY <2>1
  <2>2. Len(Append(s, m)) = Len(s) + 1
    OBVIOUS
  <2> QED
    BY <1>5, <2>1, <2>2
<1>7. \A d \in SyncOf(a) \ {c} : Length'[d] = Length[d]
  BY <1>5 DEF SyncOf, Channels
<1> PICK l, after, P : l = Length /\ after = Length' /\ P = SyncOf(a)
  OBVIOUS
<1>8. /\ IsFiniteSet(P) /\ \A d \in P : l[d] \in 0..Capacity
      /\ l[c] < Capacity /\ after[c] = l[c] + 1 /\ \A d \in P \ {c} : after[d] = l[d]
  BY <1>2, <1>6, <1>7
<1>9. Cardinality(Places(after, P, Capacity)) =
        Cardinality(Places(l, P, Capacity)) + (IF c \in P THEN 1 ELSE 0)
  BY <1>8, PlacesPut, PortsAssumption
<1>10. c \in P <=> Sync(c) /\ Owner[c[1]] = a
  BY DEF SyncOf
<1> QED
  BY <1>2, <1>4, <1>9, <1>10

\* A message that leaves a sync channel no longer waits.
LEMMA QueuedTake ==
  ASSUME ChanType, NEW c \in Channels, chan[c] # <<>>,
         chan' = [chan EXCEPT ![c] = Tail(@)], made' = made, NEW a
  PROVE  Queued(a)' = Queued(a) - (IF Sync(c) /\ Owner[c[1]] = a THEN 1 ELSE 0)
<1>1. ChanType' /\ Channels' = Channels /\ Len(chan'[c]) = Len(chan[c]) - 1
  BY ChanTake
<1>2. /\ IsFiniteSet(SyncOf(a)) /\ \A d \in SyncOf(a) : Length[d] \in 0..Capacity
      /\ Queued(a) = Cardinality(Places(Length, SyncOf(a), Capacity))
  BY QueuedFinite
<1>3. SyncOf(a)' = SyncOf(a)
  BY <1>1 DEF SyncOf, Sync
<1>4. Queued(a)' = Cardinality(Places(Length', SyncOf(a), Capacity))
  BY <1>3 DEF Queued, SyncOf
<1>5. \A d \in Channels : Length[d] = Len(chan[d]) /\ Length'[d] = Len(chan'[d])
  BY <1>1 DEF Length
<1>6. Length[c] > 0 /\ Length'[c] = Length[c] - 1
  <2>1. chan[c] \in Seq(Messages)
    BY DEF ChanType
  <2>2. Len(chan[c]) > 0
    BY <2>1
  <2> QED
    BY <1>1, <1>5, <2>2
<1>7. \A d \in SyncOf(a) \ {c} : Length'[d] = Length[d]
  BY <1>5 DEF SyncOf, Channels
<1> PICK l, after, P : l = Length /\ after = Length' /\ P = SyncOf(a)
  OBVIOUS
<1>8. /\ IsFiniteSet(P) /\ \A d \in P : l[d] \in 0..Capacity
      /\ l[c] > 0 /\ after[c] = l[c] - 1 /\ \A d \in P \ {c} : after[d] = l[d]
  BY <1>2, <1>6, <1>7
<1>9. Cardinality(Places(after, P, Capacity)) =
        Cardinality(Places(l, P, Capacity)) - (IF c \in P THEN 1 ELSE 0)
  BY <1>8, PlacesGet, PortsAssumption
<1>10. c \in P <=> Sync(c) /\ Owner[c[1]] = a
  BY DEF SyncOf
<1> QED
  BY <1>2, <1>4, <1>9, <1>10

\* A channel that is made is empty.
LEMMA QueuedNew ==
  ASSUME ChanType, NEW c, c \notin Channels,
         chan' = [d \in Channels \cup {c} |-> IF d = c THEN <<>> ELSE chan[d]], NEW a
  PROVE  Queued(a)' = Queued(a)
<1>1. Channels' = Channels \cup {c}
  BY DEF Channels
<1>2. /\ \A d \in Channels : Length[d] = Len(chan[d]) /\ Length'[d] = Len(chan[d])
      /\ Length'[c] = 0
  BY <1>1 DEF Length
<1>3. \A d \in SyncOf(a)' : d # c => d \in SyncOf(a)
  BY <1>1 DEF SyncOf, Sync
<1>4. SyncOf(a) \subseteq SyncOf(a)' /\ c \notin SyncOf(a)
  BY <1>1 DEF SyncOf, Sync
<1>5. Places(Length', SyncOf(a)', Capacity) = Places(Length, SyncOf(a), Capacity)
  <2>1. ASSUME NEW w \in Places(Length', SyncOf(a)', Capacity)
        PROVE  w \in Places(Length, SyncOf(a), Capacity)
    <3>1. w \in SyncOf(a)' \X (1..Capacity) /\ w[2] <= Length'[w[1]]
      BY <2>1 DEF Places
    <3>2. w[1] # c
      BY <1>2, <3>1, PortsAssumption
    <3> QED
      BY <1>2, <1>3, <3>1, <3>2 DEF Places, SyncOf
  <2>2. ASSUME NEW w \in Places(Length, SyncOf(a), Capacity)
        PROVE  w \in Places(Length', SyncOf(a)', Capacity)
    <3>1. w \in SyncOf(a) \X (1..Capacity) /\ w[2] <= Length[w[1]] /\ w[1] \in Channels
      BY <2>2 DEF Places, SyncOf
    <3> QED
      BY <1>2, <1>4, <3>1 DEF Places
  <2> QED
    BY <2>1, <2>2
<1> QED
  BY <1>5 DEF Queued, SyncOf

\* What waits does not change with what is in no channel.
LEMMA QueuedSame ==
  ASSUME UNCHANGED chan, NEW a
  PROVE  Queued(a)' = Queued(a)
  BY DEF Queued, Length, Channels, Sync

LEMMA AnnouncedSame ==
  ASSUME NEW a, UNCHANGED <<todo[a], input[a]>>
  PROVE  Announced(a)' = Announced(a)
  BY DEF Announced, Op, In, Sync

LEMMA Numbers ==
  ASSUME Types, NEW a \in Agents
  PROVE  /\ number_ips[a] \in Int /\ missed[a] \in Nat /\ strays[a] \in Int
         /\ Announced(a) \in {0, 1} /\ Queued(a) \in Nat
         /\ \A x : Count(mail_box, x) \in Nat /\ Owed(x) \in Nat
<1>1. \A x : Count(mail_box, x) \in Nat /\ Owed(x) \in Nat
  BY PositionsFinite, OwedFinite DEF Types, QueueType
<1> QED
  BY <1>1, QueuedFinite DEF Types, TableType, Announced

LEMMA NumbersOf ==
  ASSUME Types, NEW a \in Agents
  PROVE  /\ number_ips[a] \in Int /\ missed[a] \in Nat /\ strays[a] \in Int
         /\ Announced(a) \in {0, 1} /\ Queued(a) \in Nat
         /\ Count(mail_box, Inc(a)) \in Nat /\ Count(mail_box, Dec(a)) \in Nat
         /\ Owed(Inc(a)) \in Nat /\ Owed(Dec(a)) \in Nat
  BY Numbers

-----------------------------------------------------------------------------
(* The balance: the threads of the runs.                                    *)

\* Only the thread of a changes what a announces.
LEMMA AnnouncedDone ==
  ASSUME RunType, NEW a \in Agents, pc[a] = "run", todo[a] # <<>>, Done(a), input' = input
  PROVE  \A b \in Agents : Announced(b)' = IF b = a THEN 0 ELSE Announced(b)
<1>1. /\ \A b \in Agents : b # a => todo'[b] = todo[b]
      /\ todo'[a] # <<>> => Op(a)' \in AgentOp(a)
  BY DoneType
<1>2. Announced(a)' = 0
  BY <1>1 DEF Announced, AgentOp
<1>3. ASSUME NEW b \in Agents, b # a PROVE Announced(b)' = Announced(b)
  BY <1>1, <1>3, AnnouncedSame
<1> QED
  BY <1>2, <1>3

LEMMA AnnouncedGoesOn ==
  ASSUME RunType, NEW a \in Agents, pc[a] = "run", todo[a] # <<>>, NEW op, GoesOn(a, op),
         input' = input, In(a) # None, [op |-> op, port |-> Op(a).port] \in Half(a)
  PROVE  \A b \in Agents :
           Announced(b)' = IF b = a THEN IF op = "get" /\ Sync(In(a)) THEN 1 ELSE 0
                           ELSE Announced(b)
<1>1. /\ \A b \in Agents : b # a => todo'[b] = todo[b]
      /\ todo'[a] # <<>> /\ Op(a)' = [op |-> op, port |-> Op(a).port] /\ In(a)' = In(a)
  BY GoesOnType
<1>2. Announced(a)' = IF op = "get" /\ Sync(In(a)) THEN 1 ELSE 0
  BY <1>1 DEF Announced, Sync
<1>3. ASSUME NEW b \in Agents, b # a PROVE Announced(b)' = Announced(b)
  BY <1>1, <1>3, AnnouncedSame
<1> QED
  BY <1>2, <1>3

\* A message that is sent waits for its receiver, which is to be told.
LEMMA PutAndOwe ==
  ASSUME Types, NEW t \in Agents \cup {"sched"}, owes[t] = None, NEW c \in Channels,
         NEW m \in Messages, Len(chan[c]) < Capacity,
         chan' = [chan EXCEPT ![c] = Append(@, m)], made' = made,
         owes' = [owes EXCEPT ![t] = IF Sync(c) THEN Inc(Owner[c[1]]) ELSE None],
         NEW b \in Agents
  PROVE  /\ Queued(b)' = Queued(b) + (IF Sync(c) /\ Owner[c[1]] = b THEN 1 ELSE 0)
         /\ Owed(Inc(b))' = Owed(Inc(b)) + (IF Sync(c) /\ Owner[c[1]] = b THEN 1 ELSE 0)
         /\ Owed(Dec(b))' = Owed(Dec(b))
<1>1. Queued(b)' = Queued(b) + (IF Sync(c) /\ Owner[c[1]] = b THEN 1 ELSE 0)
  BY QueuedPut DEF Types
<1> PICK v : v = IF Sync(c) THEN Inc(Owner[c[1]]) ELSE None
  OBVIOUS
<1>2. owes' = [owes EXCEPT ![t] = v] /\ QueueType
  BY DEF Types
<1>6. ASSUME NEW x
      PROVE  Owed(x)' = Owed(x) + (IF v = x THEN 1 ELSE 0) - (IF owes[t] = x THEN 1 ELSE 0)
  BY ONLY t \in Agents \cup {"sched"}, <1>2, OwesChange
<1>3. Inc(b) # None /\ Dec(b) # None /\ v # Dec(b) /\ (v = Inc(b) <=> Sync(c) /\ Owner[c[1]] = b)
  <2>1. Inc(b) # None /\ Dec(b) # None
    BY ValuesAssumption DEF Inc, Dec, Notice
  <2>2. Inc(Owner[c[1]]) # Dec(b) /\ (Inc(Owner[c[1]]) = Inc(b) <=> Owner[c[1]] = b)
    BY Distinct
  <2> QED
    BY <2>1, <2>2
<1>4. Owed(Inc(b))' = Owed(Inc(b)) + (IF Sync(c) /\ Owner[c[1]] = b THEN 1 ELSE 0)
  <2>1. Owed(Inc(b))' = Owed(Inc(b)) + (IF v = Inc(b) THEN 1 ELSE 0) - (IF owes[t] = Inc(b) THEN 1 ELSE 0)
    BY <1>6
  <2> QED
    BY <1>3, <2>1, NumbersOf
<1>5. Owed(Dec(b))' = Owed(Dec(b))
  <2>1. Owed(Dec(b))' = Owed(Dec(b)) + (IF v = Dec(b) THEN 1 ELSE 0) - (IF owes[t] = Dec(b) THEN 1 ELSE 0)
    BY <1>6
  <2> QED
    BY <1>3, <2>1, NumbersOf
<1> QED
  BY <1>1, <1>4, <1>5, NumbersOf

LEMMA OwedSame ==
  ASSUME UNCHANGED owes, NEW x
  PROVE  Owed(x)' = Owed(x)
  BY DEF Owed

LEMMA SendBalance ==
  ASSUME Types, Balanced, NEW a \in Agents, Send(a)
  PROVE  Balanced'
<1> DEFINE c == input[a].outport[Op(a).port]
<1>1. /\ pc[a] = "run" /\ todo[a] # <<>> /\ owes[a] = None /\ Op(a).op = "send" /\ Done(a)
      /\ UNCHANGED <<number_ips, missed, strays, mail_box, input, made>>
  BY DEF Send, May, ThreadFrame, table
<1>2. \A b \in Agents : Announced(b)' = Announced(b)
  <2>1. Announced(a) = 0
    BY <1>1 DEF Announced
  <2>2. \A b \in Agents : Announced(b)' = IF b = a THEN 0 ELSE Announced(b)
    BY <1>1, AnnouncedDone DEF Types
  <2> QED
    BY <2>1, <2>2
<1>3. ASSUME NEW b \in Agents PROVE Balance(b)'
  <2>1. CASE UNCHANGED <<chan, owes>>
    <3>1. Queued(b)' = Queued(b) /\ \A x : Owed(x)' = Owed(x)
      BY <2>1, QueuedSame, OwedSame
    <3>2. Owed(Inc(b))' = Owed(Inc(b)) /\ Owed(Dec(b))' = Owed(Dec(b))
      BY <3>1
    <3> QED
      BY <1>1, <1>2, <3>1, <3>2 DEF Balanced, Balance
  <2>2. CASE /\ c # None /\ Len(chan[c]) < Capacity
             /\ chan' = [chan EXCEPT ![c] = Append(@, Op(a).msg)]
             /\ owes' = [owes EXCEPT ![a] = IF Sync(c) THEN Inc(Owner[c[1]]) ELSE None]
    <3>1. Op(a).port \in OutPorts /\ From[Op(a).port] = a /\ Op(a).msg \in Messages
      <4>1. todo[a] \in Seq(AgentOp(a) \cup Half(a))
        BY <1>1 DEF Types, RunType, TodoType
      <4>2. Op(a) \in AgentOp(a) \cup Half(a)
        BY <1>1, <4>1 DEF Op
      <4> QED
        BY <1>1, <4>2 DEF AgentOp, Half
    <3>2. c \in Channels
      BY <1>1, <2>2, <3>1 DEF Types, RunType, SnapshotType
    <3> PICK d, m : d = c /\ m = Op(a).msg
      OBVIOUS
    <3>3. /\ d \in Channels /\ m \in Messages /\ Len(chan[d]) < Capacity
          /\ chan' = [chan EXCEPT ![d] = Append(@, m)]
          /\ owes' = [owes EXCEPT ![a] = IF Sync(d) THEN Inc(Owner[d[1]]) ELSE None]
      BY <2>2, <3>1, <3>2
    <3>4. /\ Queued(b)' = Queued(b) + (IF Sync(d) /\ Owner[d[1]] = b THEN 1 ELSE 0)
          /\ Owed(Inc(b))' = Owed(Inc(b)) + (IF Sync(d) /\ Owner[d[1]] = b THEN 1 ELSE 0)
          /\ Owed(Dec(b))' = Owed(Dec(b))
      BY <1>1, <3>3, PutAndOwe
    <3>5. /\ Announced(b)' = Announced(b)
          /\ Count(mail_box', Inc(b)) = Count(mail_box, Inc(b))
          /\ Count(mail_box', Dec(b)) = Count(mail_box, Dec(b))
          /\ number_ips'[b] = number_ips[b] /\ missed'[b] = missed[b] /\ strays'[b] = strays[b]
      BY <1>1, <1>2
    <3>6. number_ips[b] + Count(mail_box, Inc(b)) + Owed(Inc(b)) + Announced(b)
            = Queued(b) + missed[b] + strays[b] + Count(mail_box, Dec(b)) + Owed(Dec(b))
      BY DEF Balanced, Balance
    <3>7. number_ips'[b] + Count(mail_box', Inc(b)) + Owed(Inc(b))' + Announced(b)'
            = Queued(b)' + missed'[b] + strays'[b] + Count(mail_box', Dec(b)) + Owed(Dec(b))'
      BY ONLY b \in Agents, Types, <3>4, <3>5, <3>6, NumbersOf
    <3> QED
      BY <3>7 DEF Balance
  <2> QED
    BY <2>1, <2>2 DEF Send
<1> QED
  BY <1>3 DEF Balanced

LEMMA RecvBalance ==
  ASSUME Types, Balanced, NEW a \in Agents, Recv(a)
  PROVE  Balanced'
<1>1. /\ pc[a] = "run" /\ todo[a] # <<>> /\ Op(a).op = "recv" /\ In(a) # None
      /\ Op(a).port \in InPorts /\ Owner[Op(a).port] = a /\ Op(a).port \notin Options
  BY Reading DEF Recv
<1>2. /\ UNCHANGED <<number_ips, missed, strays, input, chan, owes>> /\ GoesOn(a, "get")
      /\ IF Sync(In(a)) THEN Post(Dec(a)) ELSE UNCHANGED mail_box
  BY DEF Recv, ThreadFrame, table
<1>3. [op |-> "get", port |-> Op(a).port] \in Half(a)
  BY <1>1 DEF Half
<1>4. \A b \in Agents : Announced(b)' = IF b = a THEN IF Sync(In(a)) THEN 1 ELSE 0 ELSE Announced(b)
  BY <1>1, <1>2, <1>3, AnnouncedGoesOn DEF Types
<1>5. Announced(a) = 0
  BY <1>1 DEF Announced
<1>6. ASSUME NEW b \in Agents PROVE Balance(b)'
  <2>1. Queued(b)' = Queued(b) /\ Owed(Inc(b))' = Owed(Inc(b)) /\ Owed(Dec(b))' = Owed(Dec(b))
    BY <1>2, QueuedSame, OwedSame
  <2>2. Count(mail_box', Inc(b)) = Count(mail_box, Inc(b))
        /\ Count(mail_box', Dec(b)) = Count(mail_box, Dec(b)) + (IF Sync(In(a)) /\ a = b THEN 1 ELSE 0)
    <3>1. CASE Sync(In(a))
      <4>1. Dec(a) \in SchedMsg
        BY DEF Dec, SchedMsg, Notice
      <4>2. \A x : Count(mail_box', x) = Count(mail_box, x) + (IF Dec(a) = x THEN 1 ELSE 0)
        BY <1>2, <3>1, <4>1, BoxPost DEF Types
      <4>3. Dec(a) # Inc(b) /\ (Dec(a) = Dec(b) <=> a = b)
        BY Distinct
      <4> QED
        BY <3>1, <4>2, <4>3, Numbers
    <3>2. CASE ~Sync(In(a))
      BY <1>2, <3>2, Numbers
    <3> QED
      BY <3>1, <3>2
  <2>3. /\ number_ips'[b] = number_ips[b] /\ missed'[b] = missed[b] /\ strays'[b] = strays[b]
        /\ Announced(b)' = Announced(b) + (IF Sync(In(a)) /\ a = b THEN 1 ELSE 0)
    BY <1>2, <1>4, <1>5, NumbersOf
  <2> QED
    BY <2>1, <2>2, <2>3, NumbersOf DEF Balanced, Balance
<1> QED
  BY <1>6 DEF Balanced

LEMMA GetBalance ==
  ASSUME Types, Balanced, NEW a \in Agents, Get(a)
  PROVE  Balanced'
<1>1. /\ pc[a] = "run" /\ todo[a] # <<>> /\ Op(a).op = "get" /\ In(a) \in Channels
      /\ Owner[In(a)[1]] = a /\ chan[In(a)] # <<>>
  BY Reading DEF Get, Holds
<1>2. UNCHANGED <<number_ips, missed, strays, input, made, owes, mail_box>> /\ Done(a) /\ Taken(a)
  BY DEF Get, ThreadFrame, table
<1>3. \A b \in Agents : Announced(b)' = IF b = a THEN 0 ELSE Announced(b)
  BY <1>1, <1>2, AnnouncedDone DEF Types
<1>4. Announced(a) = IF Sync(In(a)) THEN 1 ELSE 0
  BY <1>1 DEF Announced
<1>5. ASSUME NEW b \in Agents PROVE Balance(b)'
  <2>1. Owed(Inc(b))' = Owed(Inc(b)) /\ Owed(Dec(b))' = Owed(Dec(b))
    BY <1>2, OwedSame
  <2>2. Queued(b)' = Queued(b) - (IF Sync(In(a)) /\ a = b THEN 1 ELSE 0)
    BY <1>1, <1>2, QueuedTake DEF Types, Taken
  <2>3. /\ number_ips'[b] = number_ips[b] /\ missed'[b] = missed[b] /\ strays'[b] = strays[b]
        /\ Announced(b)' = Announced(b) - (IF Sync(In(a)) /\ a = b THEN 1 ELSE 0)
        /\ Count(mail_box', Inc(b)) = Count(mail_box, Inc(b))
        /\ Count(mail_box', Dec(b)) = Count(mail_box, Dec(b))
    BY <1>2, <1>3, <1>4, Numbers
  <2> QED
    BY <2>1, <2>2, <2>3, NumbersOf DEF Balanced, Balance
<1> QED
  BY <1>5 DEF Balanced

LEMMA TryRecvBalance ==
  ASSUME Types, Balanced, NEW a \in Agents, TryRecv(a)
  PROVE  Balanced'
<1>1. /\ pc[a] = "run" /\ todo[a] # <<>> /\ owes[a] = None /\ Op(a).op = "try-recv"
      /\ In(a) \in Channels /\ Owner[In(a)[1]] = a
  BY Reading DEF TryRecv
<1>2. UNCHANGED <<number_ips, strays, input, made, mail_box>> /\ Done(a)
  BY DEF TryRecv, ThreadFrame, table
<1>3. \A b \in Agents : Announced(b)' = Announced(b)
  <2>1. \A b \in Agents : Announced(b)' = IF b = a THEN 0 ELSE Announced(b)
    BY <1>1, <1>2, AnnouncedDone DEF Types
  <2>2. Announced(a) = 0
    BY <1>1 DEF Announced
  <2> QED
    BY <2>1, <2>2
<1>4. ASSUME NEW b \in Agents PROVE Balance(b)'
  <2>1. /\ number_ips'[b] = number_ips[b] /\ Announced(b)' = Announced(b) /\ strays'[b] = strays[b]
        /\ Count(mail_box', Inc(b)) = Count(mail_box, Inc(b))
        /\ Count(mail_box', Dec(b)) = Count(mail_box, Dec(b))
    BY <1>2, <1>3
  <2>2. CASE UNCHANGED <<chan, owes, missed>>
    <3>1. Queued(b)' = Queued(b) /\ Owed(Inc(b))' = Owed(Inc(b)) /\ Owed(Dec(b))' = Owed(Dec(b))
          /\ missed'[b] = missed[b]
      BY <2>2, QueuedSame, OwedSame
    <3> QED
      BY <2>1, <3>1 DEF Balanced, Balance
  <2>3. CASE Holds(a) /\ Taken(a)
             /\ owes' = [owes EXCEPT ![a] = IF First(a) # False /\ Sync(In(a)) THEN Dec(a) ELSE None]
             /\ missed' = IF First(a) = False /\ Sync(In(a)) THEN [missed EXCEPT ![a] = @ + 1] ELSE missed
    <3>1. Queued(b)' = Queued(b) - (IF Sync(In(a)) /\ a = b THEN 1 ELSE 0)
      BY <1>1, <1>2, <2>3, QueuedTake DEF Types, Taken, Holds
    <3> PICK v : v = IF First(a) # False /\ Sync(In(a)) THEN Dec(a) ELSE None
      OBVIOUS
    <3>2. /\ Inc(b) # None /\ Dec(b) # None /\ v # Inc(b)
          /\ (v = Dec(b) <=> First(a) # False /\ Sync(In(a)) /\ a = b)
      <4>1. Inc(b) # None /\ Dec(b) # None
        BY ValuesAssumption DEF Inc, Dec, Notice
      <4>2. Dec(a) # Inc(b) /\ (Dec(a) = Dec(b) <=> a = b)
        BY Distinct
      <4> QED
        BY <4>1, <4>2
    <3>3. ASSUME NEW x
          PROVE  Owed(x)' = Owed(x) + (IF v = x THEN 1 ELSE 0) - (IF None = x THEN 1 ELSE 0)
      <4>1. /\ owes' = [owes EXCEPT ![a] = v] /\ QueueType /\ owes[a] = None
            /\ a \in Agents \cup {"sched"}
        BY <1>1, <2>3 DEF Types
      <4>2. Owed(x)' = Owed(x) + (IF v = x THEN 1 ELSE 0) - (IF owes[a] = x THEN 1 ELSE 0)
        BY ONLY <4>1, OwesChange
      <4> QED
        BY ONLY <4>1, <4>2
    <3>4. Owed(Inc(b))' = Owed(Inc(b))
      <4>1. Owed(Inc(b))' = Owed(Inc(b)) + (IF v = Inc(b) THEN 1 ELSE 0) - (IF None = Inc(b) THEN 1 ELSE 0)
        BY <3>3
      <4> QED
        BY <3>2, <4>1, NumbersOf
    <3>5. Owed(Dec(b))' = Owed(Dec(b)) + (IF First(a) # False /\ Sync(In(a)) /\ a = b THEN 1 ELSE 0)
      <4>1. Owed(Dec(b))' = Owed(Dec(b)) + (IF v = Dec(b) THEN 1 ELSE 0) - (IF None = Dec(b) THEN 1 ELSE 0)
        BY <3>3
      <4> QED
        BY <3>2, <4>1, NumbersOf
    <3>6. missed'[b] = missed[b] + (IF First(a) = False /\ Sync(In(a)) /\ a = b THEN 1 ELSE 0)
      BY <2>3, Numbers DEF Types, TableType
    <3> QED
      BY <2>1, <3>1, <3>4, <3>5, <3>6, NumbersOf DEF Balanced, Balance
  <2> QED
    BY <2>2, <2>3 DEF TryRecv
<1> QED
  BY <1>4 DEF Balanced

\* A step that changes no count keeps the balance.
LEMMA QuietBalance ==
  ASSUME Balanced, UNCHANGED <<missed, owes>>,
         \A b \in Agents : /\ number_ips'[b] = number_ips[b] /\ strays'[b] = strays[b]
                           /\ Count(mail_box', Inc(b)) = Count(mail_box, Inc(b))
                           /\ Count(mail_box', Dec(b)) = Count(mail_box, Dec(b))
                           /\ Queued(b)' = Queued(b) /\ Announced(b)' = Announced(b)
  PROVE  Balanced'
<1>1. ASSUME NEW b \in Agents PROVE Balance(b)'
  <2>1. Owed(Inc(b))' = Owed(Inc(b)) /\ Owed(Dec(b))' = Owed(Dec(b))
    BY OwedSame
  <2> QED
    BY <2>1 DEF Balanced, Balance
<1> QED
  BY <1>1 DEF Balanced

LEMMA NoElementBalance ==
  ASSUME Types, Balanced, NEW a \in Agents, NoElement(a)
  PROVE  Balanced'
<1>1. /\ pc[a] = "run" /\ todo[a] # <<>> /\ Op(a).op \in {"recv", "try-recv"}
      /\ UNCHANGED <<number_ips, missed, strays, mail_box, owes, chan, input>>
      /\ Done(a) \/ todo' = [todo EXCEPT ![a] = <<>>]
  BY DEF NoElement, May, ThreadFrame, table
<1>2. Announced(a) = 0
  BY <1>1 DEF Announced
<1>3. \A b \in Agents : Announced(b)' = Announced(b)
  <2>1. CASE Done(a)
    <3>1. \A b \in Agents : Announced(b)' = IF b = a THEN 0 ELSE Announced(b)
      BY <1>1, <2>1, AnnouncedDone DEF Types
    <3> QED
      BY <1>2, <3>1
  <2>2. CASE todo' = [todo EXCEPT ![a] = <<>>]
    <3>1. todo'[a] = <<>> /\ \A b \in Agents : b # a => todo'[b] = todo[b]
      BY <2>2 DEF Types, RunType
    <3>2. Announced(a)' = 0
      BY <3>1 DEF Announced
    <3>3. ASSUME NEW b \in Agents, b # a PROVE Announced(b)' = Announced(b)
      BY <1>1, <3>1, <3>3, AnnouncedSame
    <3> QED
      BY <1>2, <3>2, <3>3
  <2> QED
    BY <1>1, <2>1, <2>2
<1>4. \A b \in Agents : Queued(b)' = Queued(b)
  BY <1>1, QueuedSame
<1> QED
  BY <1>1, <1>3, <1>4, QuietBalance

\* An option is not sync: what is read of it and put back is not counted.
LEMMA OptionBalance ==
  ASSUME Types, Balanced, NEW a \in Agents, RecvOption(a) \/ Drain(a) \/ PutBack(a)
  PROVE  Balanced'
<1>1. /\ pc[a] = "run" /\ todo[a] # <<>> /\ Op(a).op # "get" /\ Op(a).op # "send"
      /\ UNCHANGED <<number_ips, missed, strays, mail_box, owes, input, made>>
  BY DEF RecvOption, Drain, PutBack, May, ThreadFrame, table
<1>2. Op(a).port \in Options /\ Owner[Op(a).port] = a
  <2>1. CASE RecvOption(a)
    BY <2>1, Reading DEF RecvOption
  <2>2. CASE Drain(a) \/ PutBack(a)
    <3>1. Op(a) \in AgentOp(a) \cup Half(a)
      <4>1. todo[a] \in Seq(AgentOp(a) \cup Half(a))
        BY <1>1 DEF Types, RunType, TodoType
      <4> QED
        BY <1>1, <4>1 DEF Op
    <3>2. Op(a).op \in {"drain", "put back"}
      BY <2>2 DEF Drain, PutBack, May
    <3> QED
      BY <3>1, <3>2 DEF AgentOp, Half
  <2> QED
    BY <2>1, <2>2
<1>3. Op(a).port \in InPorts \ Elements /\ In(a) = Simple(Op(a).port)
  BY <1>2, PortsAssumption DEF In
<1>4. In(a) \in Channels /\ ~Sync(In(a)) /\ In(a) # None
  <2>1. In(a) \in Channels
    BY <1>3 DEF Types, ChanType
  <2>2. In(a) # None
    BY <2>1, ValuesAssumption DEF Types, ChanType
  <2> QED
    BY <1>2, <1>3, <2>1, <2>2, PortsAssumption DEF Sync, Simple
<1>5. \A b \in Agents : Announced(b)' = Announced(b)
  <2>1. Announced(a) = 0
    BY <1>1 DEF Announced
  <2>2. CASE Done(a)
    <3>1. \A b \in Agents : Announced(b)' = IF b = a THEN 0 ELSE Announced(b)
      BY <1>1, <2>2, AnnouncedDone DEF Types
    <3> QED
      BY <2>1, <3>1
  <2>3. CASE UNCHANGED todo
    BY <1>1, <2>3, AnnouncedSame
  <2>4. ASSUME NEW op \in {"drain", "put back"}, GoesOn(a, op)
        PROVE  \A b \in Agents : Announced(b)' = Announced(b)
    <3>1. [op |-> op, port |-> Op(a).port] \in Half(a)
      BY <1>2 DEF Half
    <3>2. \A b \in Agents :
            Announced(b)' = IF b = a THEN IF op = "get" /\ Sync(In(a)) THEN 1 ELSE 0
                            ELSE Announced(b)
      BY <1>1, <1>4, <2>4, <3>1, AnnouncedGoesOn DEF Types
    <3> QED
      BY <2>1, <2>4, <3>2
  <2> QED
    BY <2>2, <2>3, <2>4 DEF RecvOption, Drain, PutBack
<1>6. \A b \in Agents : Queued(b)' = Queued(b)
  <2>1. CASE UNCHANGED chan
    BY <2>1, QueuedSame
  <2>2. CASE Holds(a) /\ Taken(a)
    <3>1. \A b \in Agents :
            Queued(b)' = Queued(b) - (IF Sync(In(a)) /\ Owner[In(a)[1]] = b THEN 1 ELSE 0)
      BY <1>1, <1>4, <2>2, QueuedTake DEF Types, Holds, Taken
    <3> QED
      BY <1>4, <3>1, NumbersOf
  <2>3. CASE PutBack(a)
    <3>1. \A b \in Agents :
            Queued(b)' = Queued(b) + (IF Sync(In(a)) /\ Owner[In(a)[1]] = b THEN 1 ELSE 0)
      BY <1>1, <1>4, <2>3, QueuedPut DEF Types, RunType, PutBack
    <3> QED
      BY <1>4, <3>1, NumbersOf
  <2> QED
    BY <2>1, <2>2, <2>3 DEF RecvOption, Drain
<1> QED
  BY <1>1, <1>5, <1>6, QuietBalance

\* What a thread owes becomes a message.
LEMMA NotifyBalance ==
  ASSUME Types, Balanced, NEW t \in Agents \cup {"sched"}, Notify(t)
  PROVE  Balanced'
<1>1. /\ owes[t] # None /\ Post(owes[t]) /\ owes' = [owes EXCEPT ![t] = None] /\ QueueType
      /\ UNCHANGED <<number_ips, missed, strays, chan, todo, input>>
  BY DEF Notify, table, runs, Types
<1>2. owes[t] \in SchedMsg
  BY <1>1 DEF Types, QueueType, SchedMsg
<1>3. ASSUME NEW x, x # None
      PROVE  /\ Count(mail_box', x) + Owed(x)' = Count(mail_box, x) + Owed(x)
             /\ Count(mail_box', x) \in Int /\ Owed(x)' \in Int
  <2>1. Count(mail_box', x) = Count(mail_box, x) + (IF owes[t] = x THEN 1 ELSE 0)
    BY <1>1, <1>2, BoxPost
  <2>2. Owed(x)' = Owed(x) + (IF None = x THEN 1 ELSE 0) - (IF owes[t] = x THEN 1 ELSE 0)
    BY ONLY t \in Agents \cup {"sched"}, <1>1, OwesChange
  <2>3. Count(mail_box, x) \in Nat /\ Owed(x) \in Nat
    BY <1>1, PositionsFinite, OwedFinite DEF QueueType
  <2> QED
    BY <1>3, <2>1, <2>2, <2>3
<1>5. ASSUME NEW b \in Agents PROVE Balance(b)'
  <2>1. Inc(b) # None /\ Dec(b) # None
    BY ValuesAssumption DEF Inc, Dec, Notice
  <2>2. /\ Count(mail_box', Inc(b)) + Owed(Inc(b))' = Count(mail_box, Inc(b)) + Owed(Inc(b))
        /\ Count(mail_box', Dec(b)) + Owed(Dec(b))' = Count(mail_box, Dec(b)) + Owed(Dec(b))
    BY <1>3, <2>1
  <2>3. /\ Queued(b)' = Queued(b) /\ Announced(b)' = Announced(b)
        /\ number_ips'[b] = number_ips[b] /\ missed'[b] = missed[b] /\ strays'[b] = strays[b]
    BY <1>1, QueuedSame, AnnouncedSame
  <2>4. /\ Count(mail_box', Inc(b)) \in Int /\ Count(mail_box', Dec(b)) \in Int
        /\ Owed(Inc(b))' \in Int /\ Owed(Dec(b))' \in Int
    BY <1>3, <2>1
  <2>5. Balance(b)
    BY DEF Balanced
  <2>6. number_ips'[b] + Count(mail_box', Inc(b)) + Owed(Inc(b))' + Announced(b)'
          = Queued(b)' + missed'[b] + strays'[b] + Count(mail_box', Dec(b)) + Owed(Dec(b))'
    <3>1. number_ips[b] + Count(mail_box, Inc(b)) + Owed(Inc(b)) + Announced(b)
            = Queued(b) + missed[b] + strays[b] + Count(mail_box, Dec(b)) + Owed(Dec(b))
      BY <2>5 DEF Balance
    <3>2. number_ips[b] + (Count(mail_box, Inc(b)) + Owed(Inc(b))) + Announced(b)
            = Queued(b) + missed[b] + strays[b] + (Count(mail_box, Dec(b)) + Owed(Dec(b)))
      BY <3>1, NumbersOf
    <3>3. number_ips[b] + (Count(mail_box', Inc(b)) + Owed(Inc(b))') + Announced(b)
            = Queued(b) + missed[b] + strays[b] + (Count(mail_box', Dec(b)) + Owed(Dec(b))')
      BY ONLY <2>2, <3>2
    <3>4. number_ips[b] + Count(mail_box', Inc(b)) + Owed(Inc(b))' + Announced(b)
            = Queued(b) + missed[b] + strays[b] + Count(mail_box', Dec(b)) + Owed(Dec(b))'
      BY ONLY b \in Agents, Types, <2>4, <3>3, NumbersOf
    <3> QED
      BY ONLY <2>3, <3>4
  <2> QED
    BY <2>6 DEF Balance
<1> QED
  BY <1>5 DEF Balanced

LEMMA EndRunBalance ==
  ASSUME Types, Balanced, NEW a \in Agents, EndRun(a)
  PROVE  Balanced'
<1>1. UNCHANGED <<number_ips, missed, strays, owes, chan, todo, input>> /\ Post(RunEnd(a))
  BY DEF EndRun, table
<1>2. \A b \in Agents : Queued(b)' = Queued(b) /\ Announced(b)' = Announced(b)
  BY <1>1, QueuedSame, AnnouncedSame
<1>3. ASSUME NEW b \in Agents
      PROVE  /\ Count(mail_box', Inc(b)) = Count(mail_box, Inc(b))
             /\ Count(mail_box', Dec(b)) = Count(mail_box, Dec(b))
  <2>1. RunEnd(a) \in SchedMsg
    BY DEF RunEnd, SchedMsg
  <2>2. RunEnd(a) # Inc(b) /\ RunEnd(a) # Dec(b)
    BY Distinct
  <2>3. \A x : Count(mail_box', x) = Count(mail_box, x) + (IF RunEnd(a) = x THEN 1 ELSE 0)
    BY <1>1, <2>1, BoxPost DEF Types
  <2> QED
    BY <2>2, <2>3, NumbersOf
<1> QED
  BY <1>1, <1>2, <1>3, QuietBalance

LEMMA ThreadBalance ==
  ASSUME Types, Balanced, NEW a \in Agents, Thread(a)
  PROVE  Balanced'
  BY SendBalance, RecvBalance, GetBalance, TryRecvBalance, NoElementBalance, OptionBalance,
     NotifyBalance, EndRunBalance DEF Thread

-----------------------------------------------------------------------------
(* The balance: the scheduler and its holder.                               *)

\* The notice that is taken is no longer on its way, and no other.
LEMMA TakeCounts ==
  ASSUME Types, mail_box # <<>>, mail_box' = Tail(mail_box), NEW b
  PROVE  /\ Count(mail_box', Inc(b)) =
              Count(mail_box, Inc(b)) - (IF Msg.type = "inc-ip" /\ Msg.agt = b THEN 1 ELSE 0)
         /\ Count(mail_box', Dec(b)) =
              Count(mail_box, Dec(b)) - (IF Msg.type = "dec-ip" /\ Msg.agt = b THEN 1 ELSE 0)
         /\ Count(mail_box', RunEnd(b)) =
              Count(mail_box, RunEnd(b)) - (IF Msg.type = "run-end" /\ Msg.agt = b THEN 1 ELSE 0)
         /\ Count(mail_box', Adds(b)) =
              Count(mail_box, Adds(b)) - (IF Msg.type = "add-agent" /\ Msg.agt = b THEN 1 ELSE 0)
         /\ Count(mail_box', Inc(b)) \in Nat /\ Count(mail_box', Dec(b)) \in Nat
         /\ Count(mail_box', RunEnd(b)) \in Nat /\ Count(mail_box', Adds(b)) \in Nat
<1>1. Msg \in SchedMsg /\ Tail(mail_box) \in Seq(SchedMsg)
  BY MsgType DEF Types
<1>2. /\ (Msg = Inc(b) <=> Msg.type = "inc-ip" /\ Msg.agt = b)
      /\ (Msg = Dec(b) <=> Msg.type = "dec-ip" /\ Msg.agt = b)
      /\ (Msg = RunEnd(b) <=> Msg.type = "run-end" /\ Msg.agt = b)
      /\ (Msg = Adds(b) <=> Msg.type = "add-agent" /\ Msg.agt = b)
  <2>1. /\ Inc(b).type = "inc-ip" /\ Inc(b).agt = b /\ Dec(b).type = "dec-ip" /\ Dec(b).agt = b
        /\ RunEnd(b).type = "run-end" /\ RunEnd(b).agt = b
        /\ Adds(b).type = "add-agent" /\ Adds(b).agt = b
    BY DEF Inc, Dec, RunEnd, Adds
  <2> QED
    BY <1>1, <2>1, MsgNotice
<1>3. \A x : /\ Count(mail_box', x) = Count(mail_box, x) - (IF Msg = x THEN 1 ELSE 0)
             /\ Count(mail_box', x) \in Nat
  BY <1>1, BoxTake, PositionsFinite DEF Types
<1> QED
  BY <1>2, <1>3

\* A run that begins announces nothing.
LEMMA ExecAnnounced ==
  ASSUME Types, NEW a \in Agents, NEW ran, NEW count, NEW ips, NEW force,
         Exec(a, ran, count, ips, force)
  PROVE  \A b \in Agents : Announced(b)' = Announced(b)
<1>1. CASE UNCHANGED runs
  BY <1>1, AnnouncedSame DEF runs
<1>2. CASE Starts(a, ran, ips, force)
  <2>1. input' = [input EXCEPT ![a] = Snapshot(a)] /\ pc[a] = "idle"
    BY <1>2 DEF Exec, Starts
  <2>2. PICK body \in Bodies[a] : todo' = [todo EXCEPT ![a] = body]
    BY <1>2 DEF Exec
  <2>3. /\ todo[a] = <<>> /\ todo'[a] = body
        /\ \A b \in Agents : b # a => todo'[b] = todo[b] /\ input'[b] = input[b]
    BY <2>1, <2>2 DEF Types, RunType
  <2>4. Announced(a) = 0
    BY <2>3 DEF Announced
  <2>5. Announced(a)' = 0
    <3>1. body \in Seq(AgentOp(a))
      BY <2>2, ProgramAssumption
    <3>2. todo'[a] # <<>> => Op(a)' \in AgentOp(a)
      BY <2>3, <3>1 DEF Op
    <3>3. todo'[a] # <<>> => Op(a)'.op # "get"
      BY <3>2 DEF AgentOp
    <3> QED
      BY <3>3 DEF Announced
  <2>6. ASSUME NEW b \in Agents, b # a PROVE Announced(b)' = Announced(b)
    BY <2>3, <2>6, AnnouncedSame
  <2> QED
    BY <2>4, <2>5, <2>6
<1> QED
  BY <1>1, <1>2 DEF Exec

\* The messages, and the end of the loop, that do not touch the counts.
LEMMA EditBalance ==
  ASSUME Types, Balanced, AddedOnce,
         \/ AddAgent \/ RemoveAgent \/ Connect \/ RawConnect \/ Disconnect \/ DisconnectToArray
         \/ Start \/ Stop
  PROVE  Balanced'
<1>1. /\ mail_box # <<>> /\ mail_box' = Tail(mail_box) /\ Msg.type \notin {"inc-ip", "dec-ip"}
      /\ UNCHANGED <<chan, owes, missed, strays, runs>>
  BY DEF AddAgent, RemoveAgent, Connect, RawConnect, Disconnect, DisconnectToArray, Start, Stop,
         Handles, Takes, Edits, MatchFrame, Msg, runs, table
<1>2. \A b \in Agents : Queued(b)' = Queued(b) /\ Announced(b)' = Announced(b)
  BY <1>1, QueuedSame, AnnouncedSame DEF runs
<1>3. ASSUME NEW b \in Agents
      PROVE  /\ Count(mail_box', Inc(b)) = Count(mail_box, Inc(b))
             /\ Count(mail_box', Dec(b)) = Count(mail_box, Dec(b))
  BY <1>1, TakeCounts, NumbersOf
<1>4. \A b \in Agents : number_ips'[b] = number_ips[b]
  <2>1. CASE AddAgent
    <3>1. Msg.type = "add-agent" /\ number_ips' = [number_ips EXCEPT ![Msg.agt] = 0]
      BY <2>1 DEF AddAgent, Handles, Takes, Msg
    <3>2. Msg.agt \in Agents
      BY <1>1, <3>1, MsgType, MsgFields DEF Types
    <3> PICK a \in Agents : a = Msg.agt
      BY <3>2
    <3>3. Count(mail_box', Adds(a)) = Count(mail_box, Adds(a)) - 1 /\ Count(mail_box', Adds(a)) \in Nat
      BY <1>1, <3>1, TakeCounts
    <3>4. Count(mail_box, Adds(a)) \in Nat /\ Count(script, Adds(a)) \in Nat
      BY PositionsFinite DEF Types, QueueType
    <3>5. Count(mail_box, Adds(a)) + Count(script, Adds(a)) = 1
      BY <3>3, <3>4 DEF AddedOnce
    <3>6. number_ips[a] = 0
      BY <3>5 DEF AddedOnce
    <3> QED
      BY <3>1, <3>6 DEF Types, TableType
  <2>2. CASE ~AddAgent
    BY <2>2 DEF RemoveAgent, Connect, RawConnect, Disconnect, DisconnectToArray, Start, Stop, table
  <2> QED
    BY <2>1, <2>2
<1> QED
  BY <1>1, <1>2, <1>3, <1>4, QuietBalance

LEMMA ConnectToArrayBalance ==
  ASSUME Types, Balanced, ConnectToArray
  PROVE  Balanced'
<1>1. /\ mail_box # <<>> /\ mail_box' = Tail(mail_box) /\ Msg.type = "connect-to-array"
      /\ UNCHANGED <<owes, missed, strays, runs, number_ips>>
  BY DEF ConnectToArray, Handles, Takes, Msg
<1>2. \A b \in Agents : Announced(b)' = Announced(b)
  BY <1>1, AnnouncedSame DEF runs
<1>3. ASSUME NEW b \in Agents
      PROVE  /\ Count(mail_box', Inc(b)) = Count(mail_box, Inc(b))
             /\ Count(mail_box', Dec(b)) = Count(mail_box, Dec(b))
  BY <1>1, TakeCounts, NumbersOf
<1>4. \A b \in Agents : Queued(b)' = Queued(b)
  <2>1. CASE UNCHANGED chan
    BY <2>1, QueuedSame
  <2>2. CASE in_array[Msg.in] = Gone
    <3>1. Msg.in \in Elements
      BY <1>1, MsgType, MsgFields DEF Types
    <3> PICK e, c : e = Msg.in /\ c = <<Msg.in, made[Msg.in] + 1>>
      OBVIOUS
    <3>2. Entered(e).port = c /\ made[e] \in Nat /\ c = <<e, made[e] + 1>>
      BY <2>2, <3>1 DEF Entered, Types, ChanType
    <3>3. c \notin Channels
      <4>1. \A d \in Channels : d[1] \in Elements => d[2] <= made[d[1]]
        BY DEF Types, ChanType
      <4>2. c[1] = e /\ c[2] = made[e] + 1
        BY <3>2
      <4> QED
        BY <3>1, <3>2, <4>1, <4>2
    <3>4. chan' = [d \in Channels \cup {c} |-> IF d = c THEN <<>> ELSE chan[d]]
      BY <2>2, <3>2 DEF ConnectToArray
    <3> QED
      BY <3>3, <3>4, QueuedNew DEF Types
  <2> QED
    BY <2>1, <2>2 DEF ConnectToArray
<1> QED
  BY <1>1, <1>2, <1>3, <1>4, QuietBalance

LEMMA MesgBalance ==
  ASSUME Types, Balanced, Mesg
  PROVE  Balanced'
<1> PICK c, m : c = Simple(Msg.in) /\ m = Msg.msg
  OBVIOUS
<1>1. /\ mail_box # <<>> /\ mail_box' = Tail(mail_box) /\ Msg.type = "mesg" /\ owes["sched"] = None
      /\ UNCHANGED <<number_ips, made, missed, strays, runs>>
      /\ Len(chan[c]) < Capacity /\ chan' = [chan EXCEPT ![c] = Append(@, m)]
      /\ owes' = [owes EXCEPT !["sched"] = IF Sync(c) THEN Inc(Owner[Msg.in]) ELSE None]
  BY DEF Mesg, Handles, Takes, Msg, table
<1>2. c \in Channels /\ m \in Messages /\ c[1] = Msg.in
  <2>1. Msg.in \in InPorts \ Elements /\ Msg.msg \in Messages
    BY <1>1, MsgType, MsgFields DEF Types
  <2> QED
    BY <2>1 DEF Types, ChanType, Simple
<1>3. ASSUME NEW b \in Agents
      PROVE  /\ Queued(b)' = Queued(b) + (IF Sync(c) /\ Owner[c[1]] = b THEN 1 ELSE 0)
             /\ Owed(Inc(b))' = Owed(Inc(b)) + (IF Sync(c) /\ Owner[c[1]] = b THEN 1 ELSE 0)
             /\ Owed(Dec(b))' = Owed(Dec(b))
  <2>1. owes' = [owes EXCEPT !["sched"] = IF Sync(c) THEN Inc(Owner[c[1]]) ELSE None]
    BY <1>1, <1>2
  <2> PICK t \in Agents \cup {"sched"} : t = "sched"
    OBVIOUS
  <2>2. owes[t] = None /\ owes' = [owes EXCEPT ![t] = IF Sync(c) THEN Inc(Owner[c[1]]) ELSE None]
    BY <1>1, <2>1
  <2> QED
    BY <1>1, <1>2, <2>2, PutAndOwe
<1>4. ASSUME NEW b \in Agents PROVE Balance(b)'
  <2>1. /\ Count(mail_box', Inc(b)) = Count(mail_box, Inc(b))
        /\ Count(mail_box', Dec(b)) = Count(mail_box, Dec(b))
    BY <1>1, TakeCounts, NumbersOf
  <2>2. Announced(b)' = Announced(b) /\ number_ips'[b] = number_ips[b]
        /\ missed'[b] = missed[b] /\ strays'[b] = strays[b]
    BY <1>1, AnnouncedSame DEF runs
  <2>3. number_ips[b] + Count(mail_box, Inc(b)) + Owed(Inc(b)) + Announced(b)
          = Queued(b) + missed[b] + strays[b] + Count(mail_box, Dec(b)) + Owed(Dec(b))
    BY DEF Balanced, Balance
  <2>4. number_ips'[b] + Count(mail_box', Inc(b)) + Owed(Inc(b))' + Announced(b)'
          = Queued(b)' + missed'[b] + strays'[b] + Count(mail_box', Dec(b)) + Owed(Dec(b))'
    BY <1>3, <2>1, <2>2, <2>3, NumbersOf
  <2> QED
    BY <2>4 DEF Balance
<1> QED
  BY <1>4 DEF Balanced

\* A notice that is taken becomes part of number-ips: of its agent's, or of another's,
\* which both record.
LEMMA IpBalance ==
  ASSUME Types, Balanced, IncIp \/ DecIp
  PROVE  Balanced'
<1>1. /\ mail_box # <<>> /\ mail_box' = Tail(mail_box) /\ UNCHANGED <<chan, owes, missed>>
      /\ Msg.agt \in Agents
      /\ IncIp => Msg.type = "inc-ip"
      /\ DecIp => Msg.type = "dec-ip"
  BY NoticeTaken
<1> PICK m \in Agents : m = Msg.agt
  BY <1>1
<1> DEFINE by == IF Msg.type = "inc-ip" THEN 1 ELSE -1
<1>2. PICK a \in Agents : /\ Strays(a, m, by) /\ number_ips' = [number_ips EXCEPT ![a] = @ + by]
                          /\ \A b \in Agents : Announced(b)' = Announced(b)
  <2>1. CASE IncIp
    <3>1. by = 1
      BY <1>1, <2>1
    <3>2. PICK a \in agents : /\ Strays(a, Msg.agt, 1) /\ number_ips' = [number_ips EXCEPT ![a] = @ + 1]
                              /\ Exec(a, is_running, number_running, number_ips'[a], FALSE)
      BY <2>1 DEF IncIp
    <3>3. a \in Agents
      BY DEF Types, TableType
    <3>4. \A b \in Agents : Announced(b)' = Announced(b)
      BY <3>2, <3>3, ExecAnnounced
    <3> QED
      BY <3>1, <3>2, <3>3, <3>4
  <2>2. CASE DecIp
    <3>1. by = -1
      BY <1>1, <2>2
    <3>2. PICK a \in agents : Strays(a, Msg.agt, -1) /\ number_ips' = [number_ips EXCEPT ![a] = @ - 1]
      BY <2>2 DEF DecIp
    <3>3. a \in Agents /\ number_ips[a] \in Int
      BY DEF Types, TableType
    <3>4. \A b \in Agents : Announced(b)' = Announced(b)
      BY <2>2, AnnouncedSame DEF DecIp, runs
    <3>5. number_ips[a] - 1 = number_ips[a] + by
      BY <3>1, <3>3
    <3> HIDE DEF by
    <3> QED
      BY <3>1, <3>2, <3>3, <3>4, <3>5
  <2> QED
    BY <2>1, <2>2
<1>3. by \in Int /\ TableType
  BY DEF Types
<1>4. ASSUME NEW b \in Agents
      PROVE  strays'[b] = strays[b] + (IF b = a /\ a # m THEN by ELSE 0) - (IF b = m /\ a # m THEN by ELSE 0)
  <2> HIDE DEF by
  <2>1. /\ a = m => UNCHANGED <<strays, strayed>>
        /\ a # m => strays'[a] = strays[a] + by /\ strays'[m] = strays[m] - by
        /\ b # a /\ b # m => strays'[b] = strays[b]
    BY <1>2, <1>3, StraysType
  <2> QED
    BY <1>3, <2>1 DEF TableType
<1>5. ASSUME NEW b \in Agents PROVE Balance(b)'
  <2>1. Queued(b)' = Queued(b) /\ Owed(Inc(b))' = Owed(Inc(b)) /\ Owed(Dec(b))' = Owed(Dec(b))
        /\ missed'[b] = missed[b] /\ Announced(b)' = Announced(b)
    BY <1>1, <1>2, QueuedSame, OwedSame
  <2>2. /\ Count(mail_box', Inc(b)) =
             Count(mail_box, Inc(b)) - (IF Msg.type = "inc-ip" /\ m = b THEN 1 ELSE 0)
        /\ Count(mail_box', Dec(b)) =
             Count(mail_box, Dec(b)) - (IF Msg.type = "dec-ip" /\ m = b THEN 1 ELSE 0)
    BY <1>1, TakeCounts
  <2>3. number_ips'[b] = number_ips[b] + (IF a = b THEN by ELSE 0)
    <3> HIDE DEF by
    <3> QED
      BY <1>2, <1>3 DEF TableType
  <2>4. number_ips[b] + Count(mail_box, Inc(b)) + Owed(Inc(b)) + Announced(b)
          = Queued(b) + missed[b] + strays[b] + Count(mail_box, Dec(b)) + Owed(Dec(b))
    BY DEF Balanced, Balance
  <2>5. Msg.type = "inc-ip" \/ Msg.type = "dec-ip"
    BY <1>1
  <2>6. number_ips'[b] + Count(mail_box', Inc(b)) + Owed(Inc(b))' + Announced(b)'
          = Queued(b)' + missed'[b] + strays'[b] + Count(mail_box', Dec(b)) + Owed(Dec(b))'
    BY <1>4, <2>1, <2>2, <2>3, <2>4, <2>5, NumbersOf
  <2> QED
    BY <2>6 DEF Balance
<1> QED
  BY <1>5 DEF Balanced

\* A run that ends or begins.
LEMMA ExecsBalance ==
  ASSUME Types, Balanced, HandleRunEnd \/ StartAgent
  PROVE  Balanced'
<1>1. /\ mail_box # <<>> /\ mail_box' = Tail(mail_box) /\ Msg.type \in {"run-end", "start-agent"}
      /\ UNCHANGED <<chan, owes, missed, number_ips>>
  BY NoticeTaken DEF HandleRunEnd, RunEnds, StartAgent, Handles, Takes, MatchFrame, Msg
<1>2. Msg \in SchedMsg /\ Msg.agt \in Agents
  BY <1>1, MsgType, MsgFields DEF Types
<1>3. /\ \A b \in Agents : Announced(b)' = Announced(b)
      /\ \A b \in Agents : strays'[b] = strays[b]
  <2>1. CASE HandleRunEnd
    <3>1. PICK a \in agents : /\ Strays(a, Msg.agt, 0)
                              /\ Exec(a, is_running \ {a, Msg.agt}, number_running - 1, number_ips[a], FALSE)
      BY <2>1 DEF HandleRunEnd, RunEnds
    <3>2. a \in Agents /\ TableType /\ 0 \in Int
      BY DEF Types, TableType
    <3>3. \A b \in Agents : strays'[b] = strays[b]
      <4>1. /\ a = Msg.agt => strays' = strays
            /\ a # Msg.agt => strays'[a] = strays[a] + 0 /\ strays'[Msg.agt] = strays[Msg.agt] - 0
            /\ \A b \in Agents \ {a, Msg.agt} : strays'[b] = strays[b]
        BY <1>2, <3>1, <3>2, StraysType
      <4> QED
        BY <1>2, <3>2, <4>1 DEF TableType
    <3> QED
      BY <3>1, <3>2, <3>3, ExecAnnounced
  <2>2. CASE StartAgent
    <3>1. Exec(Msg.agt, is_running, number_running, number_ips[Msg.agt], TRUE) /\ UNCHANGED strays
      BY <2>2 DEF StartAgent
    <3> QED
      BY <1>2, <3>1, ExecAnnounced
  <2> QED
    BY <2>1, <2>2
<1>4. ASSUME NEW b \in Agents
      PROVE  /\ Count(mail_box', Inc(b)) = Count(mail_box, Inc(b))
             /\ Count(mail_box', Dec(b)) = Count(mail_box, Dec(b))
  BY <1>1, TakeCounts, NumbersOf
<1>5. \A b \in Agents : Queued(b)' = Queued(b)
  BY <1>1, QueuedSame
<1> QED
  BY <1>1, <1>3, <1>4, <1>5, QuietBalance

LEMMA StartNextBalance ==
  ASSUME Types, Balanced, StartNext
  PROVE  Balanced'
<1> PICK a \in starting : Exec(a, is_running, number_running, number_ips[a], TRUE)
  BY DEF StartNext
<1>1. UNCHANGED <<chan, owes, missed, strays, number_ips, mail_box>>
  BY DEF StartNext, MatchFrame
<1>2. a \in Agents
  BY DEF Types, TableType
<1>3. \A b \in Agents : Announced(b)' = Announced(b) /\ Queued(b)' = Queued(b)
  BY <1>1, <1>2, ExecAnnounced, QueuedSame
<1> QED
  BY <1>1, <1>3, QuietBalance

LEMMA OtherBalance ==
  ASSUME Types, Balanced, LoopEnds \/ Client
  PROVE  Balanced'
<1>1. UNCHANGED <<chan, owes, missed, strays, number_ips, runs>>
  BY DEF LoopEnds, Client, ClientPosts, ClientReturns, table
<1>2. \A b \in Agents : Queued(b)' = Queued(b) /\ Announced(b)' = Announced(b)
  BY <1>1, QueuedSame, AnnouncedSame DEF runs
<1>3. ASSUME NEW b \in Agents
      PROVE  /\ Count(mail_box', Inc(b)) = Count(mail_box, Inc(b))
             /\ Count(mail_box', Dec(b)) = Count(mail_box, Dec(b))
  <2>1. CASE UNCHANGED mail_box
    BY <2>1
  <2>2. CASE ClientPosts
    <3>1. Head(script) \in ClientMsg /\ Post(Head(script))
      BY <2>2 DEF ClientPosts, Types, QueueType
    <3>2. Head(script) \in SchedMsg
      BY <3>1 DEF SchedMsg
    <3>3. \A x : Count(mail_box', x) = Count(mail_box, x) + (IF Head(script) = x THEN 1 ELSE 0)
      BY <3>1, <3>2, BoxPost DEF Types
    <3>4. Head(script) # Inc(b) /\ Head(script) # Dec(b)
      BY <3>1, ClientDistinct
    <3> QED
      BY <3>3, <3>4, NumbersOf
  <2> QED
    BY <2>1, <2>2 DEF LoopEnds, Client, ClientReturns
<1> QED
  BY <1>1, <1>2, <1>3, QuietBalance

LEMMA StepBalance ==
  ASSUME Types, Balanced, AddedOnce, Next, sched' # "dead"
  PROVE  Balanced'
<1>1. ~Raise
  BY DEF Raise
<1>2. CASE Scheduler
  BY <1>1, <1>2, EditBalance, ConnectToArrayBalance, MesgBalance, NotifyBalance, IpBalance,
     ExecsBalance, StartNextBalance, OtherBalance DEF Scheduler
<1> QED
  BY <1>2, OtherBalance, ThreadBalance DEF Next

-----------------------------------------------------------------------------
(* One run at a time, one addition, and nothing counted at rest.            *)

\* What a thread posts: a notice, or its own msg-run-end.
LEMMA ThreadPosts ==
  ASSUME Types, NEW t \in Agents \cup {"sched"}, Notify(t) \/ (t \in Agents /\ Thread(t)), NEW b
  PROVE  /\ Count(mail_box', Adds(b)) = Count(mail_box, Adds(b))
         /\ Count(mail_box', RunEnd(b)) =
              Count(mail_box, RunEnd(b)) + (IF t \in Agents /\ EndRun(t) /\ t = b THEN 1 ELSE 0)
<1>1. Count(mail_box, Adds(b)) \in Nat /\ Count(mail_box, RunEnd(b)) \in Nat
  BY Numbers, PositionsFinite DEF Types, QueueType
<1>2. ASSUME NEW n \in Notice, Post(n), ~(t \in Agents /\ EndRun(t))
      PROVE  /\ Count(mail_box', Adds(b)) = Count(mail_box, Adds(b))
             /\ Count(mail_box', RunEnd(b)) = Count(mail_box, RunEnd(b))
  <2>1. \A x : Count(mail_box', x) = Count(mail_box, x) + (IF n = x THEN 1 ELSE 0)
    BY <1>2, BoxPost DEF Types, SchedMsg
  <2>2. n # Adds(b) /\ n # RunEnd(b)
    <3>1. n.type \in {"inc-ip", "dec-ip"} /\ Adds(b).type = "add-agent" /\ RunEnd(b).type = "run-end"
      BY DEF Notice, Adds, RunEnd
    <3> QED
      BY <3>1
  <2> QED
    BY <1>1, <2>1, <2>2
<1>3. CASE t \in Agents /\ EndRun(t)
  <2>1. RunEnd(t) \in SchedMsg /\ Post(RunEnd(t))
    BY <1>3 DEF EndRun, RunEnd, SchedMsg
  <2>2. \A x : Count(mail_box', x) = Count(mail_box, x) + (IF RunEnd(t) = x THEN 1 ELSE 0)
    BY <2>1, BoxPost DEF Types
  <2>3. RunEnd(t) # Adds(b) /\ (RunEnd(t) = RunEnd(b) <=> t = b)
    BY Distinct
  <2> QED
    BY <1>1, <1>3, <2>2, <2>3
<1>4. CASE ~(t \in Agents /\ EndRun(t))
  <2>1. UNCHANGED mail_box \/ \E n \in Notice : Post(n)
    <3>1. CASE Notify(t)
      <4>1. owes[t] \in Notice /\ Post(owes[t])
        BY <3>1 DEF Notify, Types, QueueType
      <4> QED
        BY <4>1
    <3>2. CASE t \in Agents /\ Recv(t)
      <4>1. Dec(t) \in Notice
        BY <3>2 DEF Dec, Notice
      <4> QED
        BY <3>2, <4>1 DEF Recv
    <3>3. CASE t \in Agents /\ (Send(t) \/ Get(t) \/ TryRecv(t) \/ NoElement(t) \/ RecvOption(t)
                                  \/ Drain(t) \/ PutBack(t))
      BY <3>3 DEF Send, Get, TryRecv, NoElement, RecvOption, Drain, PutBack
    <3> QED
      BY <1>4, <3>1, <3>2, <3>3 DEF Thread
  <2> QED
    BY <1>1, <1>2, <1>4, <2>1
<1> QED
  BY <1>3, <1>4

\* A step of a run leaves the scheduler's table alone.
LEMMA ThreadTable ==
  ASSUME NEW t, Notify(t) \/ Thread(t)
  PROVE  /\ UNCHANGED <<agents, number_ips, is_running, script, strays, strayed>>
         /\ EndRun(t) \/ UNCHANGED pc
<1>1. CASE Notify(t) \/ EndRun(t)
  BY <1>1 DEF Notify, EndRun, table, runs
<1>2. CASE ThreadFrame
  BY <1>2 DEF ThreadFrame, table
<1> QED
  BY <1>1, <1>2 DEF Thread, Send, Recv, Get, TryRecv, NoElement, RecvOption, Drain, PutBack

\* exec-agent runs an agent that has no thread and no msg-run-end on its way.
LEMMA ExecRuns ==
  ASSUME Types, NEW a \in Agents, NEW ran, ran \subseteq Agents, NEW count, NEW ips, NEW force,
         Exec(a, ran, count, ips, force),
         \A b \in Agents \ strayed' :
           /\ Count(mail_box', RunEnd(b)) \in Nat
           /\ Count(mail_box', RunEnd(b)) + (IF pc[b] = "run" THEN 1 ELSE 0)
                = IF b \in ran THEN 1 ELSE 0
  PROVE  RunsOnce'
<1>1. CASE UNCHANGED runs /\ is_running' = ran
  BY <1>1 DEF RunsOnce, runs
<1>2. CASE Starts(a, ran, ips, force)
  <2>1. a \notin ran /\ is_running' = ran \cup {a} /\ pc' = [pc EXCEPT ![a] = "run"]
    BY <1>2 DEF Exec, Starts
  <2>2. pc \in [Agents -> {"idle", "run"}]
    BY DEF Types, RunType
  <2>3. a \notin strayed' => Count(mail_box', RunEnd(a)) = 0
    BY <2>1, <2>2
  <2> QED
    BY <2>1, <2>2, <2>3 DEF RunsOnce
<1> QED
  BY <1>1, <1>2 DEF Exec

LEMMA StepRuns ==
  ASSUME Types, RunsOnce, Next, sched' # "dead"
  PROVE  RunsOnce'
<1>1. ~Raise
  BY DEF Raise
<1>2. ASSUME NEW t \in Agents \cup {"sched"}, Notify(t) \/ (t \in Agents /\ Thread(t))
      PROVE  RunsOnce'
  <2>1. UNCHANGED <<is_running, strayed>> /\ (EndRun(t) \/ UNCHANGED pc)
    BY <1>2, ThreadTable
  <2>2. \A b \in Agents : Count(mail_box', RunEnd(b)) =
              Count(mail_box, RunEnd(b)) + (IF t \in Agents /\ EndRun(t) /\ t = b THEN 1 ELSE 0)
    BY <1>2, ThreadPosts
  <2>3. CASE t \in Agents /\ EndRun(t)
    <3>1. pc[t] = "run" /\ pc' = [pc EXCEPT ![t] = "idle"] /\ pc \in [Agents -> {"idle", "run"}]
      BY <2>3 DEF EndRun, Types, RunType
    <3>2. \A b \in Agents : Count(mail_box, RunEnd(b)) \in Nat
      BY Numbers
    <3>3. \A b \in Agents : pc'[b] = IF b = t THEN "idle" ELSE pc[b]
      BY <3>1
    <3> QED
      BY <2>1, <2>2, <2>3, <3>1, <3>2, <3>3 DEF RunsOnce
  <2>4. CASE ~(t \in Agents /\ EndRun(t))
    <3>1. UNCHANGED pc
      BY <1>2, <2>1, <2>4 DEF Notify, runs
    <3>2. \A b \in Agents : Count(mail_box', RunEnd(b)) = Count(mail_box, RunEnd(b))
      BY <2>2, <2>4, Numbers
    <3> QED
      BY <2>1, <3>1, <3>2 DEF RunsOnce
  <2> QED
    BY <2>3, <2>4
<1>3. CASE \/ AddAgent \/ RemoveAgent \/ Connect \/ RawConnect \/ Disconnect \/ ConnectToArray
           \/ DisconnectToArray \/ Mesg \/ Start \/ Stop
  <2>1. /\ mail_box # <<>> /\ mail_box' = Tail(mail_box) /\ Msg.type # "run-end"
        /\ UNCHANGED <<pc, is_running, strayed>>
    BY <1>3 DEF AddAgent, RemoveAgent, Connect, RawConnect, Disconnect, ConnectToArray,
         DisconnectToArray, Mesg, Start, Stop, Handles, Takes, Edits, MatchFrame, Msg,
         runs, table
  <2>2. \A b \in Agents : Count(mail_box', RunEnd(b)) = Count(mail_box, RunEnd(b))
    BY <2>1, TakeCounts, Numbers
  <2> QED
    BY <2>1, <2>2 DEF RunsOnce
<1>4. CASE IncIp \/ DecIp \/ HandleRunEnd
  <2>1. mail_box # <<>> /\ mail_box' = Tail(mail_box) /\ Msg.agt \in Agents
        /\ (IncIp => Msg.type = "inc-ip") /\ (DecIp => Msg.type = "dec-ip")
        /\ (HandleRunEnd => Msg.type = "run-end")
    BY <1>4, NoticeTaken
  <2> PICK m \in Agents : m = Msg.agt
    BY <2>1
  <2>2. PICK a \in Agents :
          /\ a # m => a \in strayed' /\ m \in strayed'
          /\ strayed \subseteq strayed'
          /\ IncIp => Exec(a, is_running, number_running, number_ips'[a], FALSE)
          /\ DecIp => UNCHANGED <<is_running, runs>>
          /\ HandleRunEnd => Exec(a, is_running \ {a, m}, number_running - 1, number_ips[a], FALSE)
    BY <1>4, NoticeTaker
  <2> DEFINE ran == IF HandleRunEnd THEN is_running \ {a, m} ELSE is_running
  <2>3. ASSUME NEW b \in Agents \ strayed'
        PROVE  /\ Count(mail_box', RunEnd(b)) \in Nat
               /\ Count(mail_box', RunEnd(b)) + (IF pc[b] = "run" THEN 1 ELSE 0)
                    = IF b \in ran THEN 1 ELSE 0
    <3>1. /\ Count(mail_box', RunEnd(b)) =
               Count(mail_box, RunEnd(b)) - (IF Msg.type = "run-end" /\ Msg.agt = b THEN 1 ELSE 0)
          /\ Count(mail_box', RunEnd(b)) \in Nat
      BY <2>1, TakeCounts
    <3>2. Count(mail_box, RunEnd(b)) + (IF pc[b] = "run" THEN 1 ELSE 0)
            = IF b \in is_running THEN 1 ELSE 0
      BY <2>2, <2>3 DEF RunsOnce
    <3>3. Count(mail_box, RunEnd(b)) \in Nat
      BY Numbers
    <3>4. b \in {a, m} => b = a /\ b = m
      BY <2>2, <2>3
    <3>5. Msg.type = "run-end" <=> HandleRunEnd
      BY <1>4, <2>1
    <3>6. CASE HandleRunEnd /\ b = m
      <4>1. b \notin ran /\ Count(mail_box', RunEnd(b)) = Count(mail_box, RunEnd(b)) - 1
        BY <3>1, <3>5, <3>6
      <4> QED
        BY <3>1, <3>2, <3>3, <4>1
    <3>7. CASE ~(HandleRunEnd /\ b = m)
      <4>1. (b \in ran <=> b \in is_running) /\ Count(mail_box', RunEnd(b)) = Count(mail_box, RunEnd(b))
        BY <3>1, <3>3, <3>4, <3>5, <3>7
      <4> HIDE DEF ran
      <4> QED
        BY <3>1, <3>2, <3>3, <4>1
    <3> QED
      BY <3>6, <3>7
  <2>4. ran \subseteq Agents
    BY DEF Types, TableType
  <2>5. CASE DecIp
    <3>1. ran = is_running /\ UNCHANGED <<is_running, pc>>
      BY <2>1, <2>2, <2>5 DEF runs
    <3> HIDE DEF ran
    <3> QED
      BY <2>3, <3>1 DEF RunsOnce
  <2>6. CASE ~DecIp
    <3>1. \E count, ips, force : Exec(a, ran, count, ips, force)
      BY <1>4, <2>1, <2>2, <2>6
    <3> HIDE DEF ran
    <3> QED
      BY <2>3, <2>4, <3>1, ExecRuns
  <2> QED
    BY <2>5, <2>6
<1>7. CASE StartAgent
  <2>1. /\ mail_box # <<>> /\ mail_box' = Tail(mail_box) /\ Msg.type = "start-agent"
        /\ Exec(Msg.agt, is_running, number_running, number_ips[Msg.agt], TRUE) /\ UNCHANGED strayed
    BY <1>7 DEF StartAgent, Handles, Takes, Msg
  <2>2. Msg.agt \in Agents /\ is_running \subseteq Agents
    BY <2>1, MsgType, MsgFields DEF Types, TableType
  <2>3. \A b \in Agents \ strayed' :
          /\ Count(mail_box', RunEnd(b)) \in Nat
          /\ Count(mail_box', RunEnd(b)) + (IF pc[b] = "run" THEN 1 ELSE 0)
               = IF b \in is_running THEN 1 ELSE 0
    BY <2>1, TakeCounts, Numbers DEF RunsOnce
  <2> QED
    BY <2>1, <2>2, <2>3, ExecRuns
<1>5. CASE StartNext
  <2> PICK a \in starting : Exec(a, is_running, number_running, number_ips[a], TRUE)
    BY <1>5 DEF StartNext
  <2>1. UNCHANGED <<mail_box, strayed>> /\ a \in Agents /\ is_running \subseteq Agents
    BY <1>5 DEF StartNext, Types, TableType
  <2>2. \A b \in Agents \ strayed' :
          /\ Count(mail_box', RunEnd(b)) \in Nat
          /\ Count(mail_box', RunEnd(b)) + (IF pc[b] = "run" THEN 1 ELSE 0)
               = IF b \in is_running THEN 1 ELSE 0
    BY <2>1, Numbers DEF RunsOnce
  <2> QED
    BY <2>1, <2>2, ExecRuns
<1>6. CASE LoopEnds \/ Client
  <2>1. UNCHANGED <<pc, is_running, strayed>>
    BY <1>6 DEF LoopEnds, Client, ClientPosts, ClientReturns, table, runs
  <2>2. \A b \in Agents : Count(mail_box', RunEnd(b)) = Count(mail_box, RunEnd(b))
    <3>1. CASE UNCHANGED mail_box
      BY <3>1
    <3>2. CASE ClientPosts
      <4>1. Head(script) \in ClientMsg /\ Post(Head(script)) /\ Head(script) \in SchedMsg
        BY <3>2 DEF ClientPosts, Types, QueueType, SchedMsg
      <4>2. \A x : Count(mail_box', x) = Count(mail_box, x) + (IF Head(script) = x THEN 1 ELSE 0)
        BY <4>1, BoxPost DEF Types
      <4>3. \A b : Head(script) # RunEnd(b)
        BY <4>1, ClientDistinct
      <4> QED
        BY <4>2, <4>3, Numbers
    <3> QED
      BY <1>6, <3>1, <3>2 DEF LoopEnds, Client, ClientReturns
  <2> QED
    BY <2>1, <2>2 DEF RunsOnce
<1> QED
  BY <1>1, <1>2, <1>3, <1>4, <1>5, <1>6, <1>7 DEF Next, Scheduler

LEMMA StepAdded ==
  ASSUME Types, AddedOnce, Next, sched' # "dead"
  PROVE  AddedOnce'
<1> DEFINE Coming(b) == Count(mail_box, Adds(b)) + Count(script, Adds(b))
<1>1. ~Raise
  BY DEF Raise
<1>2. \A b : Count(mail_box, Adds(b)) \in Nat /\ Count(script, Adds(b)) \in Nat
  BY PositionsFinite DEF Types, QueueType
<1>3. ASSUME UNCHANGED agents,
             \A b \in Agents : /\ Count(mail_box', Adds(b)) + Count(script', Adds(b)) = Coming(b)
                               /\ b \in agents \/ number_ips'[b] = number_ips[b]
      PROVE  AddedOnce'
  BY <1>2, <1>3 DEF AddedOnce
<1>4. ASSUME NEW t \in Agents \cup {"sched"}, Notify(t) \/ (t \in Agents /\ Thread(t))
      PROVE  AddedOnce'
  <2>1. UNCHANGED <<agents, number_ips, script>>
    BY <1>4, ThreadTable
  <2>2. \A b \in Agents : Count(mail_box', Adds(b)) = Count(mail_box, Adds(b))
    BY <1>4, ThreadPosts
  <2> QED
    BY <1>3, <2>1, <2>2
<1>5. ASSUME mail_box # <<>>, mail_box' = Tail(mail_box), Msg.type # "add-agent", UNCHANGED script
      PROVE  \A b \in Agents : Count(mail_box', Adds(b)) + Count(script', Adds(b)) = Coming(b)
  <2>1. \A b \in Agents : Count(mail_box', Adds(b)) = Count(mail_box, Adds(b))
    BY <1>2, <1>5, TakeCounts
  <2> QED
    BY <1>5, <2>1
<1>6. CASE \/ Connect \/ RawConnect \/ Disconnect \/ ConnectToArray \/ DisconnectToArray \/ Mesg
           \/ Start \/ Stop \/ StartAgent
  <2>1. /\ mail_box # <<>> /\ mail_box' = Tail(mail_box) /\ Msg.type # "add-agent"
        /\ UNCHANGED <<agents, number_ips, script>>
    BY <1>6 DEF Connect, RawConnect, Disconnect, ConnectToArray, DisconnectToArray, Mesg, Start,
         Stop, StartAgent, Handles, Takes, Edits, MatchFrame, Msg, table
  <2> QED
    BY <1>3, <1>5, <2>1
<1>7. CASE IncIp \/ DecIp \/ HandleRunEnd
  <2>1. /\ mail_box # <<>> /\ mail_box' = Tail(mail_box) /\ Msg.type # "add-agent"
        /\ UNCHANGED <<agents, script>>
    BY <1>7, NoticeTaken
  <2>2. PICK a \in agents : /\ IncIp => number_ips' = [number_ips EXCEPT ![a] = @ + 1]
                            /\ DecIp => number_ips' = [number_ips EXCEPT ![a] = @ - 1]
                            /\ HandleRunEnd => UNCHANGED number_ips
    BY <1>7, NoticeTaker
  <2>3. \A b \in Agents : b # a => number_ips'[b] = number_ips[b]
    BY <1>7, <2>2 DEF Types, TableType
  <2> QED
    BY <1>3, <1>5, <2>1, <2>3
<1>8. CASE RemoveAgent
  <2>1. /\ mail_box # <<>> /\ mail_box' = Tail(mail_box) /\ Msg.type # "add-agent"
        /\ agents' \subseteq agents /\ UNCHANGED <<number_ips, script>>
    BY <1>8 DEF RemoveAgent, Others, Handles, Takes, Edits, MatchFrame, Msg
  <2>2. \A b \in Agents : Count(mail_box', Adds(b)) + Count(script', Adds(b)) = Coming(b)
    BY <1>5, <2>1
  <2> QED
    BY <1>2, <2>1, <2>2 DEF AddedOnce
<1>9. CASE AddAgent
  <2>1. /\ mail_box # <<>> /\ mail_box' = Tail(mail_box) /\ Msg.type = "add-agent"
        /\ agents' \subseteq agents \cup {Msg.agt} /\ number_ips' = [number_ips EXCEPT ![Msg.agt] = 0]
        /\ UNCHANGED script
    BY <1>9 DEF AddAgent, Others, Handles, Takes, Edits, MatchFrame, Msg
  <2>2. \A b \in Agents : /\ Count(mail_box', Adds(b)) =
                               Count(mail_box, Adds(b)) - (IF Msg.agt = b THEN 1 ELSE 0)
                          /\ Count(mail_box', Adds(b)) \in Nat
    BY <2>1, TakeCounts
  <2>3. \A b \in Agents : b # Msg.agt => number_ips'[b] = number_ips[b]
    BY <2>1 DEF Types, TableType
  <2>4. ASSUME NEW b \in Agents
        PROVE  /\ Count(mail_box', Adds(b)) + Count(script', Adds(b))
                    + (IF b \in agents' THEN 1 ELSE 0) <= 1
               /\ Count(mail_box', Adds(b)) + Count(script', Adds(b)) = 1 => number_ips'[b] = 0
    <3>1. /\ Count(mail_box, Adds(b)) + Count(script, Adds(b)) + (IF b \in agents THEN 1 ELSE 0) <= 1
          /\ Count(mail_box, Adds(b)) + Count(script, Adds(b)) = 1 => number_ips[b] = 0
      BY DEF AddedOnce
    <3>2. CASE b = Msg.agt
      <4>1. /\ Count(mail_box', Adds(b)) = Count(mail_box, Adds(b)) - 1
            /\ Count(mail_box', Adds(b)) \in Nat /\ Count(mail_box, Adds(b)) \in Nat
            /\ Count(script', Adds(b)) = Count(script, Adds(b)) /\ Count(script, Adds(b)) \in Nat
        BY <1>2, <2>1, <2>2, <3>2
      <4>2. Count(mail_box', Adds(b)) = 0 /\ Count(script', Adds(b)) = 0
        BY <3>1, <4>1
      <4> QED
        BY <4>2
    <3>3. CASE b # Msg.agt
      <4>1. /\ Count(mail_box', Adds(b)) = Count(mail_box, Adds(b)) /\ Count(mail_box, Adds(b)) \in Nat
            /\ Count(script', Adds(b)) = Count(script, Adds(b)) /\ Count(script, Adds(b)) \in Nat
            /\ (b \in agents' => b \in agents) /\ number_ips'[b] = number_ips[b]
        BY <1>2, <2>1, <2>2, <2>3, <3>3
      <4> QED
        BY <3>1, <4>1
    <3> QED
      BY <3>2, <3>3
  <2> QED
    BY <2>4 DEF AddedOnce
<1>10. CASE StartNext \/ LoopEnds \/ ClientReturns
  <2>1. UNCHANGED <<agents, number_ips, mail_box, script>>
    BY <1>10 DEF StartNext, LoopEnds, ClientReturns, MatchFrame, table
  <2> QED
    BY <1>3, <2>1
<1>11. CASE ClientPosts
  <2>1. /\ script # <<>> /\ Post(Head(script)) /\ script' = Tail(script)
        /\ UNCHANGED <<agents, number_ips>>
    BY <1>11 DEF ClientPosts, table
  <2>2. Head(script) \in SchedMsg
    BY <2>1 DEF Types, QueueType, SchedMsg
  <2>3. \A x : /\ Count(mail_box', x) = Count(mail_box, x) + (IF Head(script) = x THEN 1 ELSE 0)
               /\ Count(script', x) = Count(script, x) - (IF Head(script) = x THEN 1 ELSE 0)
    BY <2>1, <2>2, BoxPost, CountTail DEF Types, QueueType
  <2>4. \A b \in Agents : Count(mail_box', Adds(b)) + Count(script', Adds(b)) = Coming(b)
    BY <1>2, <2>3
  <2> QED
    BY <1>3, <2>1, <2>4
<1> QED
  BY <1>1, <1>4, <1>6, <1>7, <1>8, <1>9, <1>10, <1>11 DEF Next, Scheduler, Client

\* exec-agent leaves no agent at rest that has messages.
LEMMA ExecRested ==
  ASSUME NEW a \in Agents, NEW ran, NEW count, NEW force, NEW ips, ips = number_ips'[a], ips \in Int,
         Exec(a, ran, count, ips, force),
         \A b \in Agents \ strayed' : b # a /\ b \notin ran => number_ips'[b] <= 0
  PROVE  Rested'
<1>1. CASE a \notin ran /\ ips > 0
  BY <1>1 DEF Exec, Starts, Rested
<1>2. CASE a \in ran \/ ips <= 0
  BY <1>2 DEF Exec, Starts, Rested
<1> QED
  BY <1>1, <1>2

LEMMA StepRested ==
  ASSUME Types, Rested, Next, sched' # "dead"
  PROVE  Rested'
<1>1. ~Raise
  BY DEF Raise
<1>2. ASSUME NEW t \in Agents \cup {"sched"}, Notify(t) \/ (t \in Agents /\ Thread(t))
      PROVE  Rested'
  <2>1. UNCHANGED <<is_running, number_ips, strayed>>
    BY <1>2, ThreadTable
  <2> QED
    BY <2>1 DEF Rested
<1>3. CASE \/ RemoveAgent \/ Connect \/ RawConnect \/ Disconnect \/ ConnectToArray
           \/ DisconnectToArray \/ Mesg \/ Start \/ Stop \/ LoopEnds \/ Client
  <2>1. UNCHANGED <<is_running, number_ips, strayed>>
    BY <1>3 DEF RemoveAgent, Connect, RawConnect, Disconnect, ConnectToArray, DisconnectToArray,
         Mesg, Start, Stop, LoopEnds, Client, ClientPosts, ClientReturns, Edits, table
  <2> QED
    BY <2>1 DEF Rested
<1>4. CASE AddAgent
  <2>1. UNCHANGED <<is_running, strayed>>
        /\ \A b \in Agents : number_ips'[b] = number_ips[b] \/ number_ips'[b] = 0
    BY <1>4 DEF AddAgent, Edits, Types, TableType
  <2> QED
    BY <2>1 DEF Rested
<1>5. CASE IncIp \/ DecIp \/ HandleRunEnd
  <2> PICK m \in Agents : m = Msg.agt
    BY <1>5, NoticeTaken
  <2>1. PICK a \in Agents :
          /\ a # m => a \in strayed' /\ m \in strayed'
          /\ strayed \subseteq strayed'
          /\ IncIp => /\ number_ips' = [number_ips EXCEPT ![a] = @ + 1]
                      /\ Exec(a, is_running, number_running, number_ips'[a], FALSE)
          /\ DecIp => number_ips' = [number_ips EXCEPT ![a] = @ - 1] /\ UNCHANGED is_running
          /\ HandleRunEnd =>
               /\ UNCHANGED number_ips
               /\ Exec(a, is_running \ {a, m}, number_running - 1, number_ips[a], FALSE)
    BY <1>5, NoticeTaker
  <2>2. number_ips \in [Agents -> Int]
    BY DEF Types, TableType
  <2>3. CASE IncIp
    <3>1. number_ips'[a] \in Int /\ \A b \in Agents : b # a => number_ips'[b] = number_ips[b]
      BY <2>1, <2>2, <2>3
    <3>2. \A b \in Agents \ strayed' : b # a /\ b \notin is_running => number_ips'[b] <= 0
      BY <2>1, <3>1 DEF Rested
    <3> QED
      BY <2>1, <2>3, <3>1, <3>2, ExecRested
  <2>4. CASE DecIp
    <3>1. \A b \in Agents : number_ips'[b] <= number_ips[b] /\ number_ips'[b] \in Int /\ number_ips[b] \in Int
      BY <2>1, <2>2, <2>4
    <3> QED
      BY <2>1, <2>4, <3>1 DEF Rested
  <2>5. CASE HandleRunEnd
    <3>1. number_ips[a] = number_ips'[a] /\ number_ips[a] \in Int
      BY <2>1, <2>2, <2>5
    <3>2. \A b \in Agents \ strayed' : b # a /\ b \notin is_running \ {a, m} => number_ips'[b] <= 0
      BY <2>1, <2>5 DEF Rested
    <3> QED
      BY <2>1, <2>5, <3>1, <3>2, ExecRested
  <2> QED
    BY <1>5, <2>3, <2>4, <2>5
<1>7. CASE StartAgent
  <2>1. /\ mail_box # <<>> /\ Msg.type = "start-agent" /\ UNCHANGED <<number_ips, strayed>>
        /\ Exec(Msg.agt, is_running, number_running, number_ips[Msg.agt], TRUE)
    BY <1>7 DEF StartAgent, Handles, Takes, Msg
  <2> PICK a \in Agents : a = Msg.agt
    BY <2>1, MsgType, MsgFields DEF Types
  <2>2. number_ips[a] = number_ips'[a] /\ number_ips[a] \in Int
        /\ \A b \in Agents \ strayed' : b # a /\ b \notin is_running => number_ips'[b] <= 0
    BY <2>1 DEF Rested, Types, TableType
  <2> QED
    BY <2>1, <2>2, ExecRested
<1>6. CASE StartNext
  <2> PICK a \in starting : Exec(a, is_running, number_running, number_ips[a], TRUE)
    BY <1>6 DEF StartNext
  <2>1. a \in Agents /\ number_ips[a] = number_ips'[a] /\ number_ips[a] \in Int
        /\ \A b \in Agents \ strayed' : b # a /\ b \notin is_running => number_ips'[b] <= 0
    BY <1>6 DEF StartNext, Rested, Types, TableType
  <2> QED
    BY <2>1, ExecRested
<1> QED
  BY <1>1, <1>2, <1>3, <1>4, <1>5, <1>6, <1>7 DEF Next, Scheduler

\* The notices of others are counted for those only that took or lost one.
LEMMA StepStrangers ==
  ASSUME Types, Strangers, Next, sched' # "dead"
  PROVE  Strangers'
<1>1. ~Raise
  BY DEF Raise
<1>2. CASE IncIp \/ DecIp \/ HandleRunEnd
  <2>1. strayed \subseteq strayed' /\ \A b \in Agents \ strayed' : strays'[b] = strays[b]
    BY <1>2, NoticeTaker
  <2> QED
    BY <2>1 DEF Strangers
<1>3. CASE \/ AddAgent \/ RemoveAgent \/ Connect \/ RawConnect \/ Disconnect \/ ConnectToArray
           \/ DisconnectToArray \/ Mesg \/ Start \/ StartNext \/ StartAgent \/ Stop \/ LoopEnds \/ Client
  <2>1. UNCHANGED <<strays, strayed>>
    BY <1>3 DEF AddAgent, RemoveAgent, Connect, RawConnect, Disconnect, ConnectToArray, DisconnectToArray,
         Mesg, Start, StartNext, StartAgent, Stop, LoopEnds, Client, ClientPosts, ClientReturns, Edits, table
  <2> QED
    BY <2>1 DEF Strangers
<1>4. ASSUME NEW t \in Agents \cup {"sched"}, Notify(t) \/ (t \in Agents /\ Thread(t))
      PROVE  Strangers'
  BY <1>4, ThreadTable DEF Strangers
<1> QED
  BY <1>1, <1>2, <1>3, <1>4 DEF Next, Scheduler

-----------------------------------------------------------------------------
(* The theorems.                                                            *)

LEMMA InitInv == Init => IInv
<1> SUFFICES ASSUME Init PROVE Inv
  BY DEF IInv
<1>1. Types
  BY InitType
<1>2. RunsOnce
  <2>1. \A a \in Agents : Count(mail_box, RunEnd(a)) = 0 /\ pc[a] = "idle" /\ a \notin is_running
    BY CountEmpty DEF Init
  <2> QED
    BY <2>1 DEF RunsOnce
<1>3. AddedOnce
  <2>1. ASSUME NEW a \in Agents PROVE Count(script, Adds(a)) \in {0, 1}
    <3>1. script \in Scripts /\ script \in Seq(ClientMsg)
      BY ProgramAssumption DEF Init
    <3>2. \A i, j \in Positions(script, Adds(a)) : i = j
      <4>1. Adds(a).type = "add-agent"
        BY DEF Adds
      <4>2. ASSUME NEW i \in Positions(script, Adds(a)), NEW j \in Positions(script, Adds(a))
            PROVE  i = j
        <5>1. /\ i \in 1..Len(script) /\ j \in 1..Len(script)
              /\ script[i] = Adds(a) /\ script[j] = Adds(a)
          BY DEF Positions
        <5> QED
          BY <3>1, <4>1, <5>1, ProgramAssumption
      <4> QED
        BY <4>2
    <3>3. Positions(script, Adds(a)) = {} \/ \E i : Positions(script, Adds(a)) = {i}
      BY <3>2
    <3> QED
      BY <3>3, FS_EmptySet, FS_Singleton DEF Count
  <2>2. \A a \in Agents : Count(mail_box, Adds(a)) = 0 /\ a \notin agents /\ number_ips[a] = 0
    BY CountEmpty DEF Init
  <2> QED
    BY <2>1, <2>2 DEF AddedOnce
<1>4. Balanced
  <2>1. ASSUME NEW a \in Agents PROVE Balance(a)
    <3>1. Count(mail_box, Inc(a)) = 0 /\ Count(mail_box, Dec(a)) = 0
      BY CountEmpty DEF Init
    <3>2. Owed(Inc(a)) = 0 /\ Owed(Dec(a)) = 0
      <4>1. Inc(a) # None /\ Dec(a) # None
        BY ValuesAssumption DEF Inc, Dec, Notice
      <4>2. {t \in DOMAIN owes : owes[t] = Inc(a)} = {} /\ {t \in DOMAIN owes : owes[t] = Dec(a)} = {}
        BY <4>1 DEF Init
      <4> QED
        BY <4>2, FS_EmptySet DEF Owed
    <3>3. Queued(a) = 0
      <4>1. \A c \in Channels : Length[c] = 0
        BY DEF Init, Channels, Length
      <4>2. Places(Length, SyncOf(a), Capacity) = {}
        BY <4>1 DEF Places, SyncOf
      <4> QED
        BY <4>2, FS_EmptySet DEF Queued, SyncOf
    <3>4. Announced(a) = 0 /\ number_ips[a] = 0 /\ missed[a] = 0 /\ strays[a] = 0
      BY DEF Init, Announced
    <3> QED
      BY <3>1, <3>2, <3>3, <3>4 DEF Balance
  <2> QED
    BY <2>1 DEF Balanced
<1>5. Rested
  BY DEF Init, Rested
<1>6. Strangers
  BY DEF Init, Strangers
<1> QED
  BY <1>1, <1>2, <1>3, <1>4, <1>5, <1>6 DEF Inv

LEMMA StepInv == IInv /\ [Next]_vars => IInv'
<1> SUFFICES ASSUME IInv, [Next]_vars, sched' # "dead" PROVE Inv'
  BY DEF IInv
<1>1. CASE Next
  <2>1. sched # "dead"
    BY <1>1 DEF Next, Scheduler, AddAgent, RemoveAgent, Connect, RawConnect, Disconnect,
         ConnectToArray, DisconnectToArray, Mesg, Notify, IncIp, DecIp, HandleRunEnd, Start,
         StartNext, StartAgent, Stop, Raise, LoopEnds, Client, ClientPosts, ClientReturns, Thread,
         Send, Recv, Get, TryRecv, NoElement, RecvOption, Drain, PutBack, EndRun, ThreadFrame,
         RunEnds, Meets, Handles, Takes
  <2>2. Types /\ RunsOnce /\ AddedOnce /\ Balanced /\ Rested /\ Strangers
    BY <2>1 DEF IInv, Inv
  <2> QED
    BY <1>1, <2>2, StepType, StepRuns, StepAdded, StepBalance, StepRested,
       StepStrangers DEF Inv
<1>2. CASE UNCHANGED vars
  <2>1. /\ UNCHANGED <<agents, number_ips, is_running, outport, in_array, made, mail_box, sched>>
        /\ UNCHANGED <<starting, chan, pc, todo, input, acc, owes, script, missed, strays, strayed>>
    BY <1>2 DEF vars, table, runs
  <2>2. Types /\ RunsOnce /\ AddedOnce /\ Balanced /\ Rested /\ Strangers
    BY <2>1 DEF IInv, Inv
  <2>3. Channels' = Channels
    BY <2>1 DEF Channels
  <2>4. Types'
    BY <2>1, <2>2, <2>3, WireSame, RunSame, QueueSame DEF Types, TableType, ChanType, runs
  <2>5. Balanced'
    BY <2>1, <2>2, QuietBalance, QueuedSame, AnnouncedSame
  <2>6. RunsOnce' /\ AddedOnce' /\ Rested' /\ Strangers'
    BY <2>1, <2>2 DEF RunsOnce, AddedOnce, Rested, Strangers
  <2> QED
    BY <2>4, <2>5, <2>6 DEF Inv
<1> QED
  BY <1>1, <1>2

\* The invariant holds of every behaviour.
LEMMA Invariance == Spec => []IInv
  BY InitInv, StepInv, PTL DEF Spec

\* number-ips is what waits in the sync channels of the agent once the notices
\* under way are settled, whatever the agents and the scripts do, and for a name
\* that is added again up to what its agent took of notices for an earlier one, until
\* the scheduler's thread dies of an exception.
THEOREM IpsAreConserved == Spec => []Conservation
<1>1. IInv => Conservation
  <2> SUFFICES ASSUME Inv, NEW a \in agents
               PROVE  number_ips[a] + Pending(Inc(a)) + Announced(a)
                        = Queued(a) + missed[a] + strays[a] + Pending(Dec(a))
    BY DEF IInv, Conservation
  <2>1. a \in Agents /\ Types /\ Balance(a)
    BY DEF Inv, Types, TableType, Balanced
  <2>2. /\ Pending(Inc(a)) = Count(mail_box, Inc(a)) + Owed(Inc(a))
        /\ Pending(Dec(a)) = Count(mail_box, Dec(a)) + Owed(Dec(a))
    BY DEF Pending, Owed
  <2> QED
    BY <2>1, <2>2, NumbersOf DEF Balance
<1> QED
  BY <1>1, Invariance, PTL

\* A message for an agent that does not run is announced to the scheduler: no agent
\* is left asleep over a message, unless it took a notice of an earlier one of its
\* name, or another took one of its own.
THEOREM WakeupsAreKept == Spec => []NoLostWakeup
<1>1. IInv => NoLostWakeup
  <2> SUFFICES ASSUME Inv, NEW a \in agents \ (is_running \cup strayed)
               PROVE  Queued(a) <= Pending(Inc(a))
    BY DEF IInv, NoLostWakeup
  <2>1. /\ a \in Agents /\ Types /\ RunsOnce
        /\ number_ips[a] + Count(mail_box, Inc(a)) + Owed(Inc(a)) + Announced(a)
             = Queued(a) + missed[a] + strays[a] + Count(mail_box, Dec(a)) + Owed(Dec(a))
        /\ number_ips[a] <= 0 /\ strays[a] = 0
    BY DEF Inv, Types, TableType, Balanced, Balance, Rested, Strangers
  <2>2. Pending(Inc(a)) = Count(mail_box, Inc(a)) + Owed(Inc(a))
    BY DEF Pending, Owed
  <2>3. Announced(a) = 0
    <3>1. /\ Count(mail_box, RunEnd(a)) + (IF pc[a] = "run" THEN 1 ELSE 0) = 0
          /\ Count(mail_box, RunEnd(a)) \in Nat /\ pc[a] \in {"idle", "run"}
      BY <2>1, Numbers DEF RunsOnce, Types, RunType
    <3>2. pc[a] = "idle"
      BY <3>1
    <3> QED
      BY <2>1, <3>2 DEF Types, RunType, Announced
  <2> QED
    BY <2>1, <2>2, <2>3, NumbersOf
<1> QED
  BY <1>1, Invariance, PTL
-----------------------------------------------------------------------------
(* The counts of the elements of array ports.                               *)

\* The outputs connected to an element are finitely many.
LEMMA UsersFinite == ASSUME NEW e PROVE IsFiniteSet(Users(e))
<1>1. Users(e) \subseteq OutPorts
  BY DEF Users
<1> QED
  BY <1>1, FS_Subset, PortsAssumption

\* A simple channel is not of an element, and no channel is None.
LEMMA SimpleChannel ==
  ASSUME NEW p \in InPorts \ Elements
  PROVE  Simple(p) # None /\ Simple(p)[1] = p /\ \A e \in Elements : Simple(p)[1] # e
<1>1. Simple(p) \in InPorts \X Nat
  BY DEF Simple
<1> QED
  BY <1>1, ValuesAssumption DEF Simple

LEMMA InitCounts == Init => RefCounts
<1> SUFFICES ASSUME Init, NEW e \in Elements
             PROVE  in_array[e].nbr = Cardinality(Users(e))
                    /\ \A o \in Users(e) : outport[o] = in_array[e].port
  BY DEF RefCounts
<1>1. ASSUME NEW o \in OutPorts, outport[o] # None PROVE outport[o][1] # e
  <2>1. PICK p \in Silent : outport[o] = Simple(p)
    BY <1>1, PortsAssumption DEF Init
  <2>2. p \in InPorts \ Elements
    BY PortsAssumption
  <2> QED
    BY <2>1, <2>2, SimpleChannel
<1>2. Users(e) = {}
  BY <1>1 DEF Users
<1>3. in_array[e].nbr = 0
  BY DEF Init, Gone
<1> QED
  BY <1>2, <1>3, FS_EmptySet

\* An output that no element has is connected to a simple port, or to none.
LEMMA PlainCounts ==
  ASSUME RefCounts, WireType, NEW out \in OutPorts, \A e \in Elements : out \notin Users(e),
         NEW c, c = None \/ \E p \in InPorts \ Elements : c = Simple(p),
         outport' = [outport EXCEPT ![out] = c], in_array' = in_array
  PROVE  RefCounts'
<1>1. ASSUME NEW e \in Elements PROVE Users(e)' = Users(e)
  <2>1. c # None => c[1] # e
    BY SimpleChannel
  <2>2. out \notin Users(e)
    OBVIOUS
  <2>3. out \notin Users(e)'
    BY <2>1 DEF Users, WireType
  <2>4. \A o \in OutPorts : o # out => outport'[o] = outport[o]
    BY DEF WireType
  <2> QED
    BY <2>2, <2>3, <2>4 DEF Users
<1>2. \A e \in Elements : \A o \in Users(e) : outport'[o] = outport[o]
  BY DEF WireType, Users
<1> QED
  BY <1>1, <1>2 DEF RefCounts

LEMMA ArrayInCounts ==
  ASSUME RefCounts, WireType, QueueType, WellUsed, ConnectToArray, ChanType
  PROVE  RefCounts'
<1>1. /\ sched = "up" /\ mail_box # <<>> /\ Msg.type = "connect-to-array"
      /\ Msg.out \in OutPorts /\ Msg.in \in Elements
  BY MsgType, MsgFields DEF ConnectToArray, Handles, Takes, Msg
<1> PICK i \in Elements, out \in OutPorts : i = Msg.in /\ out = Msg.out
  BY <1>1
<1>2. PICK new : new = Entered(i)
  OBVIOUS
<1>3. /\ \A e \in Elements : out \notin Users(e)
      /\ Owner[i] # From[out]
  BY <1>1 DEF WellUsed
<1>4. in_array' = [in_array EXCEPT ![i] = new] /\ outport' = [outport EXCEPT ![out] = new.port]
  BY <1>2, <1>3 DEF ConnectToArray, Receives, AgentConnect
<1>5. /\ in_array[i].nbr = Cardinality(Users(i)) /\ \A o \in Users(i) : outport[o] = in_array[i].port
  BY DEF RefCounts
<1>6. IsFiniteSet(Users(i)) /\ Cardinality(Users(i)) \in Nat
  BY UsersFinite, FS_CardinalityType
<1>7. /\ new.nbr = Cardinality(Users(i)) + 1
      /\ new.port \in InPorts \X Nat /\ new.port[1] = i
      /\ \A o \in Users(i) : outport[o] = new.port
  <2>1. CASE in_array[i] = Gone
    <3>1. new = [nbr |-> 1, port |-> <<i, made[i] + 1>>]
      BY <1>2, <2>1 DEF Entered
    <3>2. Users(i) = {} /\ Cardinality(Users(i)) = 0
      BY <1>5, <1>6, <2>1, FS_EmptySet DEF Gone
    <3>3. i \in InPorts /\ made[i] + 1 \in Nat
      BY PortsAssumption DEF ChanType
    <3> QED
      BY <3>1, <3>2, <3>3
  <2>2. CASE in_array[i] # Gone
    <3>1. in_array[i] \in [nbr : Nat \ {0}, port : ChannelsOf(i)]
      BY <2>2 DEF WireType
    <3>2. new = [in_array[i] EXCEPT !.nbr = @ + 1]
      BY <1>2, <2>2 DEF Entered
    <3>3. new.nbr = in_array[i].nbr + 1 /\ new.port = in_array[i].port
      BY <3>1, <3>2
    <3>4. \A c \in ChannelsOf(i) : c \in InPorts \X Nat /\ c[1] = i
      BY DEF ChannelsOf, ChanType
    <3> QED
      BY <1>5, <3>1, <3>3, <3>4
  <2> QED
    BY <2>1, <2>2
<1>8. new.port # None
  BY <1>7, ValuesAssumption
<1>9. outport'[out] = new.port /\ \A o \in OutPorts : o # out => outport'[o] = outport[o]
  BY <1>4 DEF WireType
<1>10. ASSUME NEW e \in Elements
       PROVE  /\ in_array'[e].nbr = Cardinality(Users(e)')
              /\ \A o \in Users(e)' : outport'[o] = in_array'[e].port
  <2>1. CASE e = i
    <3>1. in_array'[e] = new
      BY <1>4, <2>1 DEF WireType
    <3>2. Users(e)' = Users(i) \cup {out}
      BY <1>7, <1>8, <1>9, <2>1 DEF Users
    <3>3. Cardinality(Users(e)') = Cardinality(Users(i)) + 1
      BY <1>3, <1>6, <3>2, FS_AddElement
    <3>4. \A o \in Users(i) : o \in OutPorts
      BY DEF Users
    <3> QED
      BY <1>3, <1>7, <1>9, <3>1, <3>2, <3>3, <3>4
  <2>2. CASE e # i
    <3>1. in_array'[e] = in_array[e]
      BY <1>4, <2>2 DEF WireType
    <3>2. Users(e)' = Users(e) /\ out \notin Users(e)
      BY <1>3, <1>7, <1>9, <2>2 DEF Users
    <3>3. \A o \in Users(e) : o \in OutPorts
      BY DEF Users
    <3> QED
      BY <1>9, <3>1, <3>2, <3>3 DEF RefCounts
  <2> QED
    BY <2>1, <2>2
<1> QED
  BY <1>10 DEF RefCounts

LEMMA ArrayOutCounts ==
  ASSUME RefCounts, WireType, QueueType, WellUsed, DisconnectToArray
  PROVE  RefCounts'
<1>1. /\ sched = "up" /\ mail_box # <<>> /\ Msg.type = "disconnect-to-array"
      /\ Msg.out \in OutPorts /\ Msg.in \in Elements /\ in_array[Msg.in] # Gone
  BY MsgType, MsgFields DEF DisconnectToArray, Handles, Takes, Msg
<1> PICK i \in Elements, out \in OutPorts : i = Msg.in /\ out = Msg.out
  BY <1>1
<1>2. PICK left : left = Left(in_array[i])
  OBVIOUS
<1>3. out \in Users(i) /\ Owner[i] # From[out] /\ in_array[i] # Gone
  BY <1>1 DEF WellUsed
<1>4. in_array' = [in_array EXCEPT ![i] = left] /\ outport' = [outport EXCEPT ![out] = None]
  BY <1>2, <1>3 DEF DisconnectToArray, Receives, AgentDisconnect
<1>5. /\ in_array[i].nbr = Cardinality(Users(i)) /\ \A o \in Users(i) : outport[o] = in_array[i].port
  BY DEF RefCounts
<1>6. IsFiniteSet(Users(i) \ {out}) /\ Cardinality(Users(i) \ {out}) = Cardinality(Users(i)) - 1
  BY <1>3, UsersFinite, FS_RemoveElement
<1>7. /\ left.nbr = Cardinality(Users(i) \ {out})
      /\ \A o \in Users(i) \ {out} : outport[o] = left.port
  <2>1. CASE in_array[i].nbr = 1
    <3>1. left.nbr = 0
      BY <1>2, <2>1 DEF Left, Gone
    <3>2. Users(i) \ {out} = {}
      BY <1>5, <1>6, <2>1, FS_EmptySet
    <3> QED
      BY <1>5, <1>6, <2>1, <3>1, <3>2
  <2>2. CASE in_array[i].nbr # 1
    <3>1. in_array[i] \in [nbr : Nat \ {0}, port : ChannelsOf(i)]
      BY <1>3 DEF WireType
    <3>2. left = [in_array[i] EXCEPT !.nbr = @ - 1]
      BY <1>2, <2>2 DEF Left
    <3>3. left.nbr = in_array[i].nbr - 1 /\ left.port = in_array[i].port
      BY <3>1, <3>2
    <3> QED
      BY <1>5, <1>6, <3>3
  <2> QED
    BY <2>1, <2>2
<1>8. outport'[out] = None /\ \A o \in OutPorts : o # out => outport'[o] = outport[o]
  BY <1>4 DEF WireType
<1>9. ASSUME NEW e \in Elements
       PROVE  /\ in_array'[e].nbr = Cardinality(Users(e)')
              /\ \A o \in Users(e)' : outport'[o] = in_array'[e].port
  <2>1. Users(e)' = Users(e) \ {out}
    BY <1>8 DEF Users
  <2>2. \A o \in Users(e) : o \in OutPorts
    BY DEF Users
  <2>3. CASE e = i
    <3>1. in_array'[e] = left
      BY <1>4, <2>3 DEF WireType
    <3> QED
      BY <1>7, <1>8, <2>1, <2>2, <2>3, <3>1
  <2>4. CASE e # i
    <3>1. in_array'[e] = in_array[e]
      BY <1>4, <2>4 DEF WireType
    <3>2. out \notin Users(e)
      BY <1>3, <2>4 DEF Users
    <3>3. Users(e)' = Users(e)
      BY <2>1, <3>2
    <3> QED
      BY <1>8, <2>2, <3>1, <3>2, <3>3 DEF RefCounts
  <2> QED
    BY <2>3, <2>4
<1> QED
  BY <1>9 DEF RefCounts

LEMMA SameCounts ==
  ASSUME RefCounts, UNCHANGED <<outport, in_array>>
  PROVE  RefCounts'
  BY DEF RefCounts, Users

LEMMA StepCounts == RefCounts /\ IInv /\ WellUsed /\ [Next]_vars => RefCounts'
<1> SUFFICES ASSUME RefCounts, IInv, WellUsed, [Next]_vars PROVE RefCounts'
  OBVIOUS
<1>1. sched = "up" => WireType /\ QueueType /\ ChanType
  BY DEF IInv, Inv, Types
<1>2. CASE Connect \/ RawConnect
  <2>1. /\ sched = "up" /\ mail_box # <<>> /\ Msg.type \in {"connect", "raw-connect"}
        /\ outport' = [outport EXCEPT ![Msg.out] = Simple(Msg.in)] /\ in_array' = in_array
    BY <1>2 DEF Connect, RawConnect, Handles, Takes, Msg, AgentConnect
  <2>2. Msg.out \in OutPorts /\ Msg.in \in InPorts \ Elements
    BY <1>1, <2>1, MsgType, MsgFields
  <2>3. \A e \in Elements : Msg.out \notin Users(e)
    BY <2>1 DEF WellUsed
  <2> QED
    BY <1>1, <2>1, <2>2, <2>3, PlainCounts
<1>3. CASE Disconnect
  <2>1. /\ sched = "up" /\ mail_box # <<>> /\ Msg.type = "disconnect"
        /\ outport' = [outport EXCEPT ![Msg.out] = None] /\ in_array' = in_array
    BY <1>3 DEF Disconnect, Handles, Takes, Msg, AgentDisconnect
  <2>2. Msg.out \in OutPorts
    BY <1>1, <2>1, MsgType, MsgFields
  <2>3. \A e \in Elements : Msg.out \notin Users(e)
    BY <2>1 DEF WellUsed
  <2> QED
    BY <1>1, <2>1, <2>2, <2>3, PlainCounts
<1>4. CASE ConnectToArray
  <2>1. sched = "up"
    BY <1>4 DEF ConnectToArray, Handles, Takes
  <2> QED
    BY <1>1, <1>4, <2>1, ArrayInCounts
<1>5. CASE DisconnectToArray
  <2>1. sched = "up"
    BY <1>5 DEF DisconnectToArray, Handles, Takes
  <2> QED
    BY <1>1, <1>5, <2>1, ArrayOutCounts
<1>6. CASE AddAgent \/ RemoveAgent \/ Mesg \/ Notify("sched") \/ IncIp \/ DecIp \/ HandleRunEnd
           \/ Start \/ StartNext \/ StartAgent \/ Stop \/ Raise \/ LoopEnds
  BY <1>6, SameCounts DEF AddAgent, RemoveAgent, Mesg, Notify, IncIp, DecIp, HandleRunEnd, Start,
       RunEnds, StartNext, StartAgent, Stop, Raise, LoopEnds, table
<1>7. CASE Client \/ UNCHANGED vars
  BY <1>7, SameCounts DEF Client, ClientPosts, ClientReturns, vars, table
<1>8. CASE \E a \in Agents : Thread(a)
  BY <1>8, SameCounts DEF Thread, Send, Recv, Get, TryRecv, NoElement, RecvOption, Drain, PutBack,
       Notify, EndRun, ThreadFrame, table
<1> QED
  BY <1>2, <1>3, <1>4, <1>5, <1>6, <1>7, <1>8 DEF Next, Scheduler

\* The count of an element is that of the outputs connected to it, and no output is
\* left with a removed element, as long as the holder of the scheduler disconnects
\* only what is connected and connects no agent to an element of its own.
THEOREM CountsFollow == Spec /\ []WellUsed => []RefCounts
  BY InitCounts, StepCounts, Invariance, PTL DEF Spec

-----------------------------------------------------------------------------
(* What holds also after the scheduler's thread died.                       *)

RunsMarked == \A a \in Agents \ strayed : pc[a] = "run" => a \in is_running

SafeRuns == Types /\ RunsMarked

\* An exception of the scheduler's thread takes a message, and nothing else.
LEMMA RaiseType == Types /\ Raise => Types'
<1> SUFFICES ASSUME Types, Raise PROVE Types'
  OBVIOUS
<1>1. /\ mail_box # <<>> /\ mail_box' = Tail(mail_box)
      /\ UNCHANGED <<agents, number_ips, is_running, outport, in_array, made, starting, chan>>
      /\ UNCHANGED <<runs, owes, script, missed, strays, strayed>>
  BY DEF Raise, table
<1>2. QueueType'
  BY <1>1, QueueTake DEF Types, QueueType
<1>3. Channels' = Channels
  BY <1>1 DEF Channels
<1> QED
  BY <1>1, <1>2, <1>3, WireSame, RunSame DEF Types, TableType, ChanType

\* Nothing goes on in the dead thread of the scheduler but a post that it owes.
LEMMA DeadSteps ==
  ASSUME Next, sched # "up"
  PROVE  Notify("sched") \/ Client \/ \E a \in Agents : Thread(a)
  BY DEF Next, Scheduler, AddAgent, RemoveAgent, Connect, RawConnect, Disconnect, ConnectToArray,
       DisconnectToArray, Mesg, IncIp, DecIp, HandleRunEnd, Start, StartNext, StartAgent, Stop,
       Raise, LoopEnds, RunEnds, Meets, Handles, Takes

LEMMA SameType ==
  ASSUME Types, UNCHANGED vars
  PROVE  Types'
<1>1. /\ UNCHANGED <<agents, number_ips, is_running, outport, in_array, made, mail_box, sched>>
      /\ UNCHANGED <<starting, chan, pc, todo, input, acc, owes, script, missed, strays, strayed>>
  BY DEF vars, table, runs
<1>2. Channels' = Channels
  BY <1>1 DEF Channels
<1> QED
  BY <1>1, <1>2, WireSame, RunSame, QueueSame DEF Types, TableType, ChanType, runs

\* A thread is of a running agent.
LEMMA ThreadsMarked == IInv /\ sched # "dead" => SafeRuns
<1> SUFFICES ASSUME Inv, NEW a \in Agents \ strayed, pc[a] = "run" PROVE a \in is_running
  BY DEF IInv, Inv, SafeRuns, RunsMarked
<1>1. Count(mail_box, RunEnd(a)) + 1 = IF a \in is_running THEN 1 ELSE 0
  BY DEF Inv, RunsOnce
<1> QED
  BY <1>1, Numbers DEF Inv

\* Nothing goes on in the scheduler's thread but a post that it owes, once it
\* stopped or died.
LEMMA StepSafe == SafeRuns /\ [Next]_vars => SafeRuns' \/ (sched # "dead")'
<1> SUFFICES ASSUME Types, RunsMarked, [Next]_vars, sched' = "dead" PROVE Types' /\ RunsMarked'
  BY DEF SafeRuns
<1>1. CASE Raise
  <2>1. UNCHANGED <<pc, is_running, strayed>>
    BY <1>1 DEF Raise, runs, table
  <2> QED
    BY <1>1, <2>1, RaiseType DEF RunsMarked
<1>2. CASE sched = "up" /\ Next /\ ~Raise
  BY <1>2 DEF Next, Scheduler, AddAgent, RemoveAgent, Connect, RawConnect, Disconnect, ConnectToArray,
       DisconnectToArray, Mesg, Notify, IncIp, DecIp, HandleRunEnd, RunEnds, Start, StartNext, StartAgent,
       Stop, LoopEnds, MatchFrame, Edits, Client, ClientPosts, ClientReturns, Thread,
       Send, Recv, Get, TryRecv, NoElement, RecvOption, Drain, PutBack, EndRun, ThreadFrame
<1>3. CASE sched # "up" /\ Next
  <2>1. CASE Client
    <3>1. UNCHANGED <<pc, is_running, strayed>>
      BY <2>1 DEF Client, ClientPosts, ClientReturns, runs, table
    <3> QED
      BY <2>1, <3>1, OtherType DEF RunsMarked
  <2>2. ASSUME NEW t \in Agents \cup {"sched"}, Notify(t) \/ (t \in Agents /\ Thread(t))
        PROVE  Types' /\ RunsMarked'
    <3>1. Types'
      BY <2>2, NotifyType, ThreadType
    <3>2. UNCHANGED <<is_running, strayed>> /\ (EndRun(t) \/ UNCHANGED pc)
      BY <2>2, ThreadTable
    <3>3. EndRun(t) => \A a \in Agents : pc'[a] = "run" => pc[a] = "run"
      BY DEF EndRun, Types, RunType
    <3> QED
      BY <3>1, <3>2, <3>3 DEF RunsMarked
  <2> QED
    BY <1>3, <2>1, <2>2, DeadSteps
<1>4. CASE UNCHANGED vars
  <2>1. UNCHANGED <<pc, is_running, strayed>>
    BY <1>4 DEF vars, table, runs
  <2> QED
    BY <1>4, <2>1, SameType DEF RunsMarked
<1> QED
  BY <1>1, <1>2, <1>3, <1>4

\* Also after an exception of the scheduler, threads are well typed, and each is of
\* an agent that is marked as running, or that a notice of another concerned.
LEMMA RunsAreSafe == Spec => []SafeRuns
<1>1. Init => SafeRuns
  BY InitType DEF Init, SafeRuns, RunsMarked
<1> QED
  BY <1>1, ThreadsMarked, StepSafe, Invariance, PTL DEF Spec

-----------------------------------------------------------------------------
(* Options.                                                                 *)

\* A value other than #f is in the queue s.
HasValue(s) == \E i \in 1..Len(s) : s[i] # False

\* The run of agent a has the value of option p in hand.
InHand(a, p) ==
  todo[a] # <<>> /\ Op(a).port = p /\ Op(a).op \in {"drain", "put back"} /\ acc[a] # False

LEMMA KeptWhere ==
  ASSUME NEW p, NEW a, Owner[p] = a
  PROVE  /\ Kept(p) <=> HasValue(chan[Simple(p)]) \/ InHand(a, p)
         /\ Kept(p)' <=> HasValue(chan'[Simple(p)]) \/ InHand(a, p)'
  BY DEF Kept, HasValue, InHand, Op, Simple

LEMMA ValuePut ==
  ASSUME NEW s \in Seq(Messages), NEW m \in Messages
  PROVE  HasValue(s) \/ m # False => HasValue(Append(s, m))
<1>1. CASE HasValue(s)
  <2> PICK i \in 1..Len(s) : s[i] # False
    BY <1>1 DEF HasValue
  <2>1. i \in 1..Len(Append(s, m)) /\ Append(s, m)[i] = s[i]
    OBVIOUS
  <2> QED
    BY <2>1 DEF HasValue
<1>2. CASE m # False
  <2>1. Len(s) + 1 \in 1..Len(Append(s, m)) /\ Append(s, m)[Len(s) + 1] = m
    OBVIOUS
  <2> QED
    BY <1>2, <2>1 DEF HasValue
<1> QED
  BY <1>1, <1>2

LEMMA ValueTaken ==
  ASSUME NEW s \in Seq(Messages), s # <<>>, HasValue(s), Head(s) = False
  PROVE  HasValue(Tail(s))
<1> PICK i \in 1..Len(s) : s[i] # False
  BY DEF HasValue
<1>1. i # 1 /\ i - 1 \in 1..Len(Tail(s)) /\ Tail(s)[i - 1] = s[i]
  OBVIOUS
<1> QED
  BY <1>1 DEF HasValue

\* The channel of an option.
LEMMA OptionChannel ==
  ASSUME Types, NEW p \in Options
  PROVE  /\ p \in InPorts \ Elements /\ Owner[p] \in Agents /\ ~Sync(Simple(p))
         /\ Simple(p) \in Channels /\ Simple(p)[1] = p /\ chan[Simple(p)] \in Seq(Messages)
<1>1. p \in InPorts \ Elements /\ p \in Silent /\ Owner[p] \in Agents
  BY PortsAssumption
<1> QED
  BY <1>1 DEF Types, ChanType, Simple, Sync

\* A message that is put into any channel leaves each option's value.
LEMMA PutKeeps ==
  ASSUME Types, NEW p \in Options, NEW c \in Channels, NEW m \in Messages,
         chan' = [chan EXCEPT ![c] = Append(@, m)]
  PROVE  /\ HasValue(chan[Simple(p)]) => HasValue(chan'[Simple(p)])
         /\ c = Simple(p) /\ m # False => HasValue(chan'[Simple(p)])
<1>1. Simple(p) \in Channels /\ chan[Simple(p)] \in Seq(Messages)
  BY OptionChannel
<1>2. CASE c = Simple(p)
  <2>1. chan'[Simple(p)] = Append(chan[Simple(p)], m)
    BY <1>1, <1>2 DEF Channels
  <2> QED
    BY <1>1, <2>1, ValuePut
<1>3. CASE c # Simple(p)
  BY <1>1, <1>3 DEF Channels
<1> QED
  BY <1>2, <1>3

\* A message that is taken from another channel does so, too.
LEMMA TakeKeeps ==
  ASSUME Types, NEW p \in Options, NEW c, c # Simple(p), chan' = [chan EXCEPT ![c] = Tail(@)]
  PROVE  chan'[Simple(p)] = chan[Simple(p)]
  BY OptionChannel DEF Channels

\* The run of agent a went on, and it had nothing of option p in hand.
LEMMA OthersKeep ==
  ASSUME Types, NEW p \in Options, NEW a \in Agents, ~InHand(a, p) \/ Owner[p] # a,
         \A b \in Agents : b # a => todo'[b] = todo[b] /\ acc'[b] = acc[b],
         HasValue(chan[Simple(p)]) => HasValue(chan'[Simple(p)])
  PROVE  Kept(p) => Kept(p)'
<1> PICK q \in Agents : Owner[p] = q
  BY OptionChannel
<1>1. InHand(q, p) => InHand(q, p)'
  <2> SUFFICES ASSUME InHand(q, p) PROVE InHand(q, p)'
    OBVIOUS
  <2>1. todo'[q] = todo[q] /\ acc'[q] = acc[q]
    OBVIOUS
  <2> QED
    BY <2>1 DEF InHand, Op
<1> QED
  BY <1>1, KeptWhere

\* Before its procedure reads option p, a run has nothing of it in hand.
LEMMA NothingInHand ==
  ASSUME NEW p, NEW a, NEW op, May(a, op), op \notin {"drain", "put back"} \/ Op(a).port # p
  PROVE  ~InHand(a, p)
  BY DEF May, InHand

\* What the operation of a run leaves to the other agents.
LEMMA OtherTodo ==
  ASSUME Types, NEW a \in Agents, Done(a) \/ (\E op : GoesOn(a, op))
                                  \/ todo' = [todo EXCEPT ![a] = <<>>] \/ UNCHANGED todo,
         UNCHANGED acc \/ \E m : acc' = [acc EXCEPT ![a] = m]
  PROVE  \A b \in Agents : b # a => todo'[b] = todo[b] /\ acc'[b] = acc[b]
  BY DEF Done, GoesOn, Types, RunType

\* Sending, and reading what is no option.
LEMMA PlainKeeps ==
  ASSUME Types, NEW p \in Options, NEW a \in Agents,
         Send(a) \/ Recv(a) \/ Get(a) \/ TryRecv(a) \/ NoElement(a)
  PROVE  Kept(p) => Kept(p)'
<1>1. ~InHand(a, p)
  <2>1. \E op \in {"send", "recv", "get", "try-recv"} : May(a, op)
    BY DEF Send, Recv, Get, TryRecv, NoElement
  <2> QED
    BY <2>1, NothingInHand
<1>2. \A b \in Agents : b # a => todo'[b] = todo[b] /\ acc'[b] = acc[b]
  <2>1. UNCHANGED acc /\ (Done(a) \/ (\E op : GoesOn(a, op)) \/ todo' = [todo EXCEPT ![a] = <<>>])
    BY DEF Send, Recv, Get, TryRecv, NoElement
  <2> QED
    BY <2>1, OtherTodo
<1>3. HasValue(chan[Simple(p)]) => HasValue(chan'[Simple(p)])
  <2>1. CASE UNCHANGED chan
    BY <2>1
  <2>2. CASE Send(a) /\ chan' # chan
    <3> DEFINE c == input[a].outport[Op(a).port]
    <3>0. May(a, "send") /\ c # None /\ chan' = [chan EXCEPT ![c] = Append(@, Op(a).msg)]
      BY <2>2 DEF Send
    <3>1. pc[a] = "run" /\ todo[a] # <<>> /\ Op(a).op = "send"
      BY <3>0 DEF May
    <3>2. Op(a) \in AgentOp(a)
      <4>1. todo[a] \in Seq(AgentOp(a) \cup Half(a))
        BY <3>1 DEF Types, RunType, TodoType
      <4>2. Op(a) \in AgentOp(a) \cup Half(a)
        BY ONLY <3>1, <4>1 DEF Op
      <4> QED
        BY <3>1, <4>2 DEF Half
    <3>3. Op(a).port \in OutPorts /\ From[Op(a).port] = a /\ Op(a).msg \in Messages
      BY ONLY <3>1, <3>2 DEF AgentOp
    <3>4. c \in Channels
      BY <3>0, <3>1, <3>3 DEF Types, RunType, SnapshotType
    <3> QED
      BY <3>0, <3>3, <3>4, PutKeeps
  <2>3. CASE (Get(a) \/ TryRecv(a)) /\ chan' # chan
    <3>1. In(a) # None /\ Taken(a)
      <4>1. Taken(a)
        BY <2>3 DEF Get, TryRecv
      <4>2. In(a) # None
        BY <2>3 DEF Get, TryRecv, Holds
      <4> QED
        BY <4>1, <4>2
    <3>2. Op(a) \in AgentOp(a) \cup Half(a) /\ In(a)[1] = Op(a).port
      BY <2>3, <3>1, Reading DEF Get, TryRecv
    <3>3. Op(a).port \notin Options
      <4>1. CASE TryRecv(a)
        BY <4>1 DEF TryRecv
      <4>2. CASE Get(a)
        <5>1. Op(a).op = "get"
          BY <4>2 DEF Get, May
        <5> QED
          BY ONLY <3>2, <5>1 DEF AgentOp, Half
      <4> QED
        BY <2>3, <4>1, <4>2
    <3>4. In(a) # Simple(p)
      BY <3>2, <3>3 DEF Simple
    <3> QED
      BY <3>1, <3>4, TakeKeeps DEF Taken
  <2> QED
    BY <2>1, <2>2, <2>3 DEF Recv, NoElement
<1> QED
  BY <1>1, <1>2, <1>3, OthersKeep

\* The channel of the option that a run is at.
LEMMA OptionIn ==
  ASSUME NEW a, Op(a).port \in Options
  PROVE  In(a) = Simple(Op(a).port)
  BY PortsAssumption DEF In

\* An operation on another port is not on option p's channel, and has nothing of
\* p in hand.
LEMMA OtherPort ==
  ASSUME Types, NEW p \in Options, NEW a \in Agents, NEW op, May(a, op), Op(a).port # p, op # "send",
         UNCHANGED chan \/ (Holds(a) /\ Taken(a))
           \/ (In(a) # None /\ chan' = [chan EXCEPT ![In(a)] = Append(@, acc[a])]),
         \A b \in Agents : b # a => todo'[b] = todo[b] /\ acc'[b] = acc[b]
  PROVE  Kept(p) => Kept(p)'
<1>1. ~InHand(a, p)
  BY NothingInHand
<1>2. HasValue(chan[Simple(p)]) => HasValue(chan'[Simple(p)])
  <2>1. CASE UNCHANGED chan
    BY <2>1
  <2>2. CASE Holds(a) /\ Taken(a)
    <3>1. In(a) # Simple(p)
      BY <2>2, Reading DEF Holds, Simple
    <3> QED
      BY <2>2, <3>1, TakeKeeps DEF Taken
  <2>3. CASE In(a) # None /\ chan' = [chan EXCEPT ![In(a)] = Append(@, acc[a])]
    <3>1. In(a) \in Channels
      BY <2>3, Reading
    <3>2. acc[a] \in Messages
      BY DEF Types, RunType
    <3> QED
      BY <2>3, <3>1, <3>2, PutKeeps
  <2> QED
    BY <2>1, <2>2, <2>3
<1> QED
  BY <1>1, <1>2, OthersKeep

\* Reading an option.
LEMMA ReadKeeps ==
  ASSUME Types, NEW p \in Options, NEW a \in Agents, RecvOption(a)
  PROVE  Kept(p) => Kept(p)'
<1>1. PICK op \in {"recv", "try-recv"} : May(a, op)
  BY DEF RecvOption
<1>2. Op(a).port \in Options /\ In(a) = Simple(Op(a).port)
  BY OptionIn DEF RecvOption
<1>3. \A b \in Agents : b # a => todo'[b] = todo[b] /\ acc'[b] = acc[b]
  <2>1. Done(a) \/ GoesOn(a, "drain")
    BY DEF RecvOption
  <2>2. UNCHANGED acc \/ acc' = [acc EXCEPT ![a] = First(a)]
    BY DEF RecvOption
  <2> QED
    BY <2>1, <2>2, OtherTodo
<1>4. UNCHANGED chan \/ (Holds(a) /\ Taken(a))
  BY DEF RecvOption
<1>5. CASE Op(a).port # p
  BY <1>1, <1>3, <1>4, <1>5, OtherPort
<1>6. CASE Op(a).port = p
  <2>1. /\ pc[a] = "run" /\ todo[a] # <<>> /\ Owner[p] = a
    BY <1>1, <1>6, Reading
  <2>2. ~InHand(a, p)
    BY <1>1, NothingInHand
  <2>3. CASE UNCHANGED chan
    BY <1>3, <2>2, <2>3, OthersKeep
  <2>4. CASE Holds(a) /\ Taken(a) /\ First(a) = False
    <3>1. chan' = [chan EXCEPT ![Simple(p)] = Tail(@)] /\ chan[Simple(p)] # <<>>
          /\ Head(chan[Simple(p)]) = False
      BY <1>2, <1>6, <2>4 DEF Holds, Taken, First
    <3>2. chan[Simple(p)] \in Seq(Messages) /\ chan'[Simple(p)] = Tail(chan[Simple(p)])
      BY <3>1, OptionChannel DEF Channels
    <3>3. HasValue(chan[Simple(p)]) => HasValue(chan'[Simple(p)])
      BY <3>1, <3>2, ValueTaken
    <3> QED
      BY <1>3, <2>2, <3>3, OthersKeep
  <2>5. CASE acc' = [acc EXCEPT ![a] = First(a)] /\ First(a) # False /\ GoesOn(a, "drain")
    <3>1. acc'[a] # False
      BY <2>5 DEF Types, RunType
    <3>2. [op |-> "drain", port |-> p] \in Half(a)
      BY <1>2, <1>6, <2>1, PortsAssumption DEF Half
    <3>3. input' = input /\ In(a) # None
      <4>1. p \in InPorts \ Elements
        BY OptionChannel
      <4> QED
        BY <1>2, <1>6, <4>1, SimpleChannel DEF RecvOption, ThreadFrame
    <3>4. todo'[a] # <<>> /\ Op(a)' = [op |-> "drain", port |-> p]
      BY <1>6, <2>1, <2>5, <3>2, <3>3, GoesOnType DEF Types
    <3>5. InHand(a, p)'
      BY <3>1, <3>4 DEF InHand
    <3> QED
      BY <2>1, <3>5, KeptWhere
  <2> QED
    BY <2>3, <2>4, <2>5 DEF RecvOption
<1> QED
  BY <1>5, <1>6

\* What is left of an operation.
LEMMA RestFields ==
  ASSUME NEW r, NEW op, NEW p, r = [op |-> op, port |-> p]
  PROVE  r.op = op /\ r.port = p
  OBVIOUS

\* Reading on to the last message that is there.
LEMMA DrainKeeps ==
  ASSUME Types, NEW p \in Options, NEW a \in Agents, Drain(a)
  PROVE  Kept(p) => Kept(p)'
<1>1. May(a, "drain") /\ Op(a).op = "drain"
  BY DEF Drain, May
<1>2. \A b \in Agents : b # a => todo'[b] = todo[b] /\ acc'[b] = acc[b]
  <2>1. UNCHANGED todo \/ GoesOn(a, "put back")
    BY DEF Drain
  <2>2. UNCHANGED acc \/ acc' = [acc EXCEPT ![a] = First(a)]
    BY DEF Drain
  <2> QED
    BY <2>1, <2>2, OtherTodo
<1>3. UNCHANGED chan \/ (Holds(a) /\ Taken(a))
  BY DEF Drain
<1>4. CASE Op(a).port # p
  BY <1>1, <1>2, <1>3, <1>4, OtherPort
<1>5. CASE Op(a).port = p
  <2>1. /\ pc[a] = "run" /\ todo[a] # <<>> /\ Owner[p] = a /\ In(a) = Simple(p) /\ In(a) # None
    <3>1. p \in InPorts \ Elements
      BY OptionChannel
    <3> QED
      BY <1>1, <1>5, <3>1, Reading, OptionIn, SimpleChannel
  <2>2. ASSUME GoesOn(a, "put back"), UNCHANGED acc, acc[a] # False
        PROVE  InHand(a, p)'
    <3>1. [op |-> "put back", port |-> p] \in Half(a)
      BY <2>1, PortsAssumption DEF Half
    <3>2. input' = input
      BY DEF Drain, ThreadFrame
    <3>3. todo'[a] # <<>> /\ Op(a)' = [op |-> "put back", port |-> p]
      BY <1>5, <2>1, <2>2, <3>1, <3>2, GoesOnType DEF Types
    <3>4. acc'[a] # False
      BY <2>2
    <3>5. Op(a)'.port = p /\ Op(a)'.op = "put back"
      BY ONLY <3>3, RestFields, Zenon
    <3> QED
      BY ONLY <3>3, <3>4, <3>5, Zenon DEF InHand
  <2>3. acc[a] # False <=> InHand(a, p)
    BY <1>1, <1>5, <2>1 DEF InHand
  <2>4. CASE ~Holds(a) /\ GoesOn(a, "put back") /\ UNCHANGED <<chan, acc>>
    <3>1. HasValue(chan[Simple(p)]) => HasValue(chan'[Simple(p)])
      BY <2>4
    <3> QED
      BY <2>1, <2>2, <2>3, <2>4, <3>1, KeptWhere
  <2>5. CASE Holds(a) /\ Taken(a) /\ First(a) = False /\ GoesOn(a, "put back") /\ UNCHANGED acc
    <3>1. chan' = [chan EXCEPT ![Simple(p)] = Tail(@)] /\ chan[Simple(p)] # <<>>
          /\ Head(chan[Simple(p)]) = False
      BY <2>1, <2>5 DEF Holds, Taken, First
    <3>2. chan[Simple(p)] \in Seq(Messages) /\ chan'[Simple(p)] = Tail(chan[Simple(p)])
      BY <3>1, OptionChannel DEF Channels
    <3>3. HasValue(chan[Simple(p)]) => HasValue(chan'[Simple(p)])
      BY <3>1, <3>2, ValueTaken
    <3> QED
      BY <2>1, <2>2, <2>3, <2>5, <3>3, KeptWhere
  <2>6. CASE acc' = [acc EXCEPT ![a] = First(a)] /\ First(a) # False /\ UNCHANGED todo
    <3>1. acc'[a] # False
      BY <2>6 DEF Types, RunType
    <3>2. InHand(a, p)'
      BY <1>1, <1>5, <2>1, <2>6, <3>1 DEF InHand, Op
    <3> QED
      BY <2>1, <3>2, KeptWhere
  <2> QED
    BY <2>4, <2>5, <2>6 DEF Drain
<1> QED
  BY <1>4, <1>5

\* The last message is put back.
LEMMA PutBackKeeps ==
  ASSUME Types, NEW p \in Options, NEW a \in Agents, PutBack(a)
  PROVE  Kept(p) => Kept(p)'
<1>1. May(a, "put back") /\ Op(a).op = "put back" /\ Done(a) /\ UNCHANGED acc
      /\ chan' = [chan EXCEPT ![In(a)] = Append(@, acc[a])]
  BY DEF PutBack, May
<1>2. \A b \in Agents : b # a => todo'[b] = todo[b] /\ acc'[b] = acc[b]
  BY <1>1, OtherTodo
<1>3. In(a) # None
  <2>1. pc[a] = "run" /\ todo[a] # <<>> /\ Op(a) \in AgentOp(a) \cup Half(a)
    BY <1>1, Reading
  <2>2. Op(a) \in Half(a)
    BY ONLY <1>1, <2>1 DEF AgentOp
  <2> QED
    BY <2>1, <2>2 DEF Types, RunType, TodoType
<1>4. CASE Op(a).port # p
  BY <1>1, <1>2, <1>3, <1>4, OtherPort
<1>5. CASE Op(a).port = p
  <2>1. Owner[p] = a /\ In(a) = Simple(p) /\ In(a) \in Channels /\ acc[a] \in Messages
    BY <1>1, <1>3, <1>5, Reading, OptionIn DEF Types, RunType
  <2>2. /\ HasValue(chan[Simple(p)]) => HasValue(chan'[Simple(p)])
        /\ acc[a] # False => HasValue(chan'[Simple(p)])
    BY <1>1, <2>1, PutKeeps
  <2>3. InHand(a, p) => acc[a] # False
    BY DEF InHand
  <2> QED
    BY <2>1, <2>2, <2>3, KeptWhere
<1> QED
  BY <1>4, <1>5

\* A step of a run keeps each option's value.
LEMMA ThreadKeeps ==
  ASSUME Types, NEW p \in Options, NEW a \in Agents, Thread(a)
  PROVE  Kept(p) => Kept(p)'
<1>1. CASE Notify(a) \/ EndRun(a)
  <2>1. UNCHANGED <<todo, acc, chan>>
    BY <1>1 DEF Notify, EndRun, runs
  <2> QED
    BY <2>1 DEF Kept, Op, Simple
<1> QED
  BY <1>1, PlainKeeps, ReadKeeps, DrainKeeps, PutBackKeeps DEF Thread

\* A run begins for an agent that has none.
LEMMA ExecKeeps ==
  ASSUME Types, NEW p \in Options, NEW a \in Agents, NEW ran, NEW count, NEW ips,
         NEW force, Exec(a, ran, count, ips, force), UNCHANGED chan
  PROVE  Kept(p) => Kept(p)'
<1>1. CASE UNCHANGED runs
  BY <1>1 DEF runs, Kept, Op, Simple
<1>2. CASE Starts(a, ran, ips, force)
  <2>1. pc[a] = "idle" /\ UNCHANGED acc /\ \E body \in Bodies[a] : todo' = [todo EXCEPT ![a] = body]
    BY <1>2 DEF Exec, Starts
  <2>2. todo[a] = <<>> /\ \A b \in Agents : b # a => todo'[b] = todo[b] /\ acc'[b] = acc[b]
    BY <2>1 DEF Types, RunType
  <2>3. ~InHand(a, p)
    BY <2>2 DEF InHand
  <2> QED
    BY <2>2, <2>3, OthersKeep
<1> QED
  BY <1>1, <1>2 DEF Exec

LEMMA StepKeeps ==
  SafeRuns /\ IInv /\ [Next]_vars => \A p \in Options : Kept(p) => Kept(p)'
<1> SUFFICES ASSUME SafeRuns, IInv, [Next]_vars, NEW p \in Options
             PROVE  Kept(p) => Kept(p)'
  OBVIOUS
<1>0. Types
  BY DEF SafeRuns
<1>1. CASE \E a \in Agents : Thread(a)
  BY <1>0, <1>1, ThreadKeeps
<1>2. CASE \/ AddAgent \/ RemoveAgent \/ Connect \/ RawConnect \/ Disconnect
           \/ DisconnectToArray \/ Notify("sched") \/ DecIp \/ Start \/ Stop \/ Raise \/ LoopEnds
           \/ Client \/ UNCHANGED vars
  <2>1. UNCHANGED <<todo, acc, chan>>
    BY <1>2 DEF AddAgent, RemoveAgent, Connect, RawConnect, Disconnect, DisconnectToArray, Notify,
         DecIp, Start, Stop, Raise, LoopEnds, Client, ClientPosts, ClientReturns, Edits,
         MatchFrame, runs, vars
  <2> QED
    BY <2>1 DEF Kept, Op, Simple
<1>3. CASE ConnectToArray
  <2>1. UNCHANGED <<todo, acc>>
    BY <1>3 DEF ConnectToArray, runs
  <2>2. chan'[Simple(p)] = chan[Simple(p)]
    <3>1. CASE UNCHANGED chan
      BY <3>1
    <3>2. CASE in_array[Msg.in] = Gone
      <4>1. /\ chan' = [c \in Channels \cup {Entered(Msg.in).port} |->
                          IF c = Entered(Msg.in).port THEN <<>> ELSE chan[c]]
            /\ Entered(Msg.in).port = <<Msg.in, made[Msg.in] + 1>>
        BY <1>3, <3>2 DEF ConnectToArray, Entered
      <4>2. Msg.in \in Elements
        BY <1>0, <1>3, MsgType, MsgFields DEF ConnectToArray, Handles, Takes, Msg, Types
      <4>3. Simple(p) \in Channels /\ Simple(p) # Entered(Msg.in).port
        BY <1>0, <4>1, <4>2, OptionChannel DEF Simple
      <4> QED
        BY <4>1, <4>3
    <3> QED
      BY <1>3, <3>1, <3>2 DEF ConnectToArray
  <2> QED
    BY <2>1, <2>2 DEF Kept, Op
<1>4. CASE Mesg
  <2>1. /\ mail_box # <<>> /\ Msg.type = "mesg" /\ UNCHANGED <<todo, acc>>
        /\ chan' = [chan EXCEPT ![Simple(Msg.in)] = Append(@, Msg.msg)]
    BY <1>4 DEF Mesg, Handles, Takes, Msg, runs
  <2>2. Msg.in \in InPorts \ Elements /\ Msg.msg \in Messages
    BY <1>0, <2>1, MsgType, MsgFields DEF Types
  <2>3. Simple(Msg.in) \in Channels
    BY <1>0, <2>2 DEF Types, ChanType
  <2>4. HasValue(chan[Simple(p)]) => HasValue(chan'[Simple(p)])
    BY <1>0, <2>1, <2>2, <2>3, PutKeeps
  <2> PICK q \in Agents : Owner[p] = q
    BY <1>0, OptionChannel
  <2>5. InHand(q, p)' <=> InHand(q, p)
    BY <2>1 DEF InHand, Op
  <2> QED
    BY <2>4, <2>5, KeptWhere
<1>5. CASE IncIp \/ HandleRunEnd
  <2> PICK a \in Agents, m \in Agents :
        /\ IncIp => Exec(a, is_running, number_running, number_ips'[a], FALSE)
        /\ HandleRunEnd => Exec(a, is_running \ {a, m}, number_running - 1, number_ips[a], FALSE)
    BY <1>0, <1>5, NoticeTaker, NoticeTaken
  <2>1. UNCHANGED chan
    BY <1>5 DEF IncIp, HandleRunEnd, RunEnds, MatchFrame
  <2> QED
    BY <1>0, <1>5, <2>1, ExecKeeps
<1>6. CASE StartAgent
  <2>1. /\ mail_box # <<>> /\ Msg.type = "start-agent" /\ UNCHANGED chan
        /\ Exec(Msg.agt, is_running, number_running, number_ips[Msg.agt], TRUE)
    BY <1>6 DEF StartAgent, Handles, Takes, Msg, MatchFrame
  <2>2. Msg.agt \in Agents
    BY <1>0, <2>1, MsgType, MsgFields DEF Types
  <2> QED
    BY <1>0, <2>1, <2>2, ExecKeeps
<1>7. CASE StartNext
  <2> PICK a \in starting : Exec(a, is_running, number_running, number_ips[a], TRUE)
    BY <1>7 DEF StartNext
  <2>1. a \in Agents /\ UNCHANGED chan
    BY <1>0, <1>7 DEF StartNext, MatchFrame, Types, TableType
  <2> QED
    BY <1>0, <2>1, ExecKeeps
<1> QED
  BY <1>1, <1>2, <1>3, <1>4, <1>5, <1>6, <1>7 DEF Next, Scheduler

\* An option that was given a value keeps one, in its port or in the hand of the run
\* that reads it, whatever is sent meanwhile, and also when the scheduler died.
THEOREM OptionsAreKept == Spec => OptionKept
<1>1. SafeRuns /\ IInv /\ [Next]_vars => [\A p \in Options : Kept(p) => Kept(p)']_vars
  BY StepKeeps
<1> QED
  BY <1>1, RunsAreSafe, Invariance, PTL DEF Spec, OptionKept

-----------------------------------------------------------------------------
(* The steps of the runtime are steps of Dataflow: the invariants.          *)

\* A channel is a simple port's, or was made for an element.
ChanNames == \A c \in Channels : IF c[1] \in Elements THEN c[2] > 0 ELSE c[2] = 0

\* A thread that owes a notice runs, and each tells of its own reads only.
OwesInv ==
  \A a \in Agents : /\ owes[a] # None => pc[a] = "run"
                    /\ \A t \in DOMAIN owes : owes[t] = Dec(a) => t = a

\* The reads of a run are told before its end is.
DecsFirst ==
  \A i \in 1..Len(mail_box) : \A a \in Agents : mail_box[i] = Dec(a) =>
    /\ a \in is_running
    /\ \A j \in 1..i : mail_box[j] # RunEnd(a)

Counted == number_running = Cardinality(is_running)

\* As long as no agent took a notice of another.
RunsCounted == sched # "dead" /\ ~Strayed => DecsFirst /\ Counted

RefInv == SafeRuns /\ ChanNames /\ OwesInv /\ RunsCounted

\* A notice that does not stray is for the agent that it was posted for.
LEMMA OwnNotice ==
  ASSUME Types, IncIp \/ DecIp \/ HandleRunEnd, ~Strayed'
  PROVE  /\ Msg.agt \in agents /\ ~Strayed
         /\ IncIp => /\ number_ips' = [number_ips EXCEPT ![Msg.agt] = @ + 1]
                     /\ Exec(Msg.agt, is_running, number_running, number_ips'[Msg.agt], FALSE)
         /\ DecIp => number_ips' = [number_ips EXCEPT ![Msg.agt] = @ - 1] /\ UNCHANGED <<is_running, runs>>
         /\ HandleRunEnd =>
              /\ UNCHANGED number_ips
              /\ Exec(Msg.agt, is_running \ {Msg.agt}, number_running - 1, number_ips[Msg.agt], FALSE)
<1> PICK a \in agents :
      /\ a # Msg.agt => a \in strayed'
      /\ strayed \subseteq strayed'
      /\ IncIp => /\ number_ips' = [number_ips EXCEPT ![a] = @ + 1]
                  /\ Exec(a, is_running, number_running, number_ips'[a], FALSE)
      /\ DecIp => number_ips' = [number_ips EXCEPT ![a] = @ - 1] /\ UNCHANGED <<is_running, runs>>
      /\ HandleRunEnd =>
           /\ UNCHANGED number_ips
           /\ Exec(a, is_running \ {a, Msg.agt}, number_running - 1, number_ips[a], FALSE)
  BY NoticeTaker
<1>1. a = Msg.agt /\ ~Strayed
  BY DEF Strayed
<1>2. is_running \ {a, Msg.agt} = is_running \ {Msg.agt}
  BY <1>1
<1> QED
  BY <1>1, <1>2

\* What an agent took of others is not forgotten.
LEMMA StaysStrayed ==
  ASSUME Types, [Next]_vars, ~Strayed'
  PROVE  ~Strayed
<1>1. CASE IncIp \/ DecIp \/ HandleRunEnd
  BY <1>1, OwnNotice
<1>2. CASE \/ AddAgent \/ RemoveAgent \/ Connect \/ RawConnect \/ Disconnect \/ ConnectToArray
           \/ DisconnectToArray \/ Mesg \/ Start \/ StartNext \/ StartAgent \/ Stop \/ LoopEnds \/ Client
           \/ Raise \/ UNCHANGED vars
  <2>1. UNCHANGED strayed
    BY <1>2 DEF AddAgent, RemoveAgent, Connect, RawConnect, Disconnect, ConnectToArray, DisconnectToArray,
         Mesg, Start, StartNext, StartAgent, Stop, LoopEnds, Client, ClientPosts, ClientReturns, Raise,
         Edits, table, vars
  <2> QED
    BY <2>1 DEF Strayed
<1>3. ASSUME NEW t \in Agents \cup {"sched"}, Notify(t) \/ (t \in Agents /\ Thread(t))
      PROVE  ~Strayed
  BY <1>3, ThreadTable DEF Strayed
<1> QED
  BY <1>1, <1>2, <1>3 DEF Next, Scheduler

LEMMA StepNames == SafeRuns /\ ChanNames /\ [Next]_vars => ChanNames'
<1> SUFFICES ASSUME Types, ChanNames, [Next]_vars PROVE ChanNames'
  BY DEF SafeRuns
<1>1. CASE ConnectToArray /\ chan' # chan
  <2>1. /\ Channels' = Channels \cup {Entered(Msg.in).port} /\ in_array[Msg.in] = Gone
        /\ mail_box # <<>> /\ Msg.type = "connect-to-array"
    BY <1>1 DEF ConnectToArray, Channels, Handles, Takes, Msg
  <2>2. Msg.in \in Elements
    BY <2>1, MsgType, MsgFields DEF Types
  <2>3. Entered(Msg.in).port = <<Msg.in, made[Msg.in] + 1>> /\ made[Msg.in] \in Nat
    BY <2>1, <2>2 DEF Entered, Types, ChanType
  <2> QED
    BY <2>1, <2>2, <2>3 DEF ChanNames
<1>2. CASE Channels' = Channels
  BY <1>2 DEF ChanNames
<1>3. CASE ~ConnectToArray \/ chan' = chan
  <2>1. \/ UNCHANGED chan
        \/ \E c, s : chan' = [chan EXCEPT ![c] = s]
    BY <1>3 DEF Next, Scheduler, AddAgent, RemoveAgent, Connect, RawConnect, Disconnect,
       DisconnectToArray, Mesg, Notify, IncIp, DecIp, HandleRunEnd, RunEnds, Start, StartNext, StartAgent,
       Stop, Raise, LoopEnds, MatchFrame, Edits, Client, ClientPosts, ClientReturns, Thread,
       Send, Recv, Get, TryRecv, NoElement, RecvOption, Drain, PutBack, EndRun, Taken, vars
  <2> QED
    BY <1>2, <2>1 DEF Channels
<1> QED
  BY <1>1, <1>3

\* What a step of a run posts, and what it owes.
LEMMA ThreadOwes ==
  ASSUME Types, NEW a \in Agents, Thread(a)
  PROVE  /\ \A t \in DOMAIN owes : t # a => owes'[t] = owes[t]
         /\ DOMAIN owes' = DOMAIN owes
         /\ owes'[a] # None => (pc[a] = "run" \/ owes'[a] = owes[a]) /\ UNCHANGED pc
         /\ \A b \in Agents : owes'[a] = Dec(b) => b = a \/ owes[a] = Dec(b)
         /\ EndRun(a) => owes'[a] = None
<1>0. DOMAIN owes = Agents \cup {"sched"}
  BY DEF Types, QueueType
<1>1. CASE Notify(a)
  BY <1>0, <1>1, ValuesAssumption DEF Notify, runs, EndRun, Dec, Notice
<1>2. CASE EndRun(a)
  BY <1>0, <1>2 DEF EndRun
<1>3. CASE Recv(a) \/ Get(a) \/ NoElement(a) \/ RecvOption(a) \/ Drain(a) \/ PutBack(a)
  <2>1. UNCHANGED <<owes, pc>> /\ owes[a] = None
    BY <1>3 DEF Recv, Get, NoElement, RecvOption, Drain, PutBack, ThreadFrame, May
  <2> QED
    BY <2>1
<1>4. CASE Send(a) \/ TryRecv(a)
  <2>1. UNCHANGED pc /\ pc[a] = "run" /\ owes[a] = None
    BY <1>4 DEF Send, TryRecv, ThreadFrame, May
  <2>2. UNCHANGED owes \/ \E m : owes' = [owes EXCEPT ![a] = m] /\ (m = None \/ m = Dec(a) \/ \E b : m = Inc(b))
    BY <1>4 DEF Send, TryRecv
  <2>3. \A b, c : Inc(b) # Dec(c) /\ (Dec(b) = Dec(c) => b = c)
    BY Distinct
  <2>4. \A b \in Agents : Dec(b) # None
    BY ValuesAssumption DEF Dec, Notice
  <2> QED
    BY <1>0, <2>1, <2>2, <2>3, <2>4 DEF EndRun
<1> QED
  BY <1>1, <1>2, <1>3, <1>4 DEF Thread

\* What the scheduler and the holder of it owe and start.
LEMMA OtherOwes ==
  ASSUME Types, Scheduler \/ Client \/ UNCHANGED vars
  PROVE  /\ \A a \in Agents : /\ owes'[a] = owes[a]
                              /\ pc[a] = "run" => pc'[a] = "run"
         /\ DOMAIN owes' = DOMAIN owes
         /\ owes'["sched"] \in {owes["sched"], None} \/ \E b : owes'["sched"] = Inc(b)
<1>1. CASE Mesg
  BY <1>1, AgentsAssumption DEF Mesg, Types, QueueType, runs
<1>2. CASE Notify("sched")
  BY <1>2, AgentsAssumption DEF Notify, Types, QueueType, runs
<1>3. CASE IncIp \/ HandleRunEnd \/ StartAgent \/ StartNext
  <2>1. UNCHANGED owes
    BY <1>3 DEF IncIp, HandleRunEnd, RunEnds, StartAgent, StartNext, MatchFrame
  <2>2. \E a, ran, count, ips, force : Exec(a, ran, count, ips, force)
    BY <1>3 DEF IncIp, HandleRunEnd, RunEnds, StartAgent, StartNext
  <2>3. UNCHANGED pc \/ \E a : pc' = [pc EXCEPT ![a] = "run"]
    BY <2>2 DEF Exec, runs
  <2> QED
    BY <2>1, <2>3 DEF Types, RunType
<1>4. CASE ~Mesg /\ ~Notify("sched") /\ ~(IncIp \/ HandleRunEnd \/ StartAgent \/ StartNext)
  <2>1. UNCHANGED <<owes, pc>>
    BY <1>4 DEF Scheduler, AddAgent, RemoveAgent, Connect, RawConnect, Disconnect, ConnectToArray,
       DisconnectToArray, DecIp, Start, Stop, Raise, LoopEnds, MatchFrame, Edits, Client,
       ClientPosts, ClientReturns, vars, runs
  <2> QED
    BY <2>1
<1> QED
  BY <1>1, <1>2, <1>3, <1>4

LEMMA StepOwes == SafeRuns /\ OwesInv /\ [Next]_vars => OwesInv'
<1> SUFFICES ASSUME Types, OwesInv, [Next]_vars, NEW a \in Agents
             PROVE  /\ owes'[a] # None => pc'[a] = "run"
                    /\ \A t \in DOMAIN owes' : owes'[t] = Dec(a) => t = a
  BY DEF SafeRuns, OwesInv
<1>1. /\ owes[a] # None => pc[a] = "run"
      /\ \A t \in DOMAIN owes : owes[t] = Dec(a) => t = a
  BY DEF OwesInv
<1>2. Dec(a) # None /\ \A b : Dec(a) # Inc(b)
  <2>1. Dec(a) # None
    BY ValuesAssumption DEF Dec, Notice
  <2> QED
    BY <2>1, Distinct
<1>3. CASE Scheduler \/ Client \/ UNCHANGED vars
  <2>1. /\ owes'[a] = owes[a] /\ (pc[a] = "run" => pc'[a] = "run") /\ DOMAIN owes' = DOMAIN owes
        /\ \A b \in Agents : owes'[b] = owes[b]
        /\ owes'["sched"] \in {owes["sched"], None} \/ \E b : owes'["sched"] = Inc(b)
    BY <1>3, OtherOwes
  <2>2. DOMAIN owes = Agents \cup {"sched"}
    BY DEF Types, QueueType
  <2> QED
    BY <1>1, <1>2, <2>1, <2>2
<1>4. ASSUME NEW b \in Agents, Thread(b)
      PROVE  /\ owes'[a] # None => pc'[a] = "run"
             /\ \A t \in DOMAIN owes' : owes'[t] = Dec(a) => t = a
  <2>1. /\ \A t \in DOMAIN owes : t # b => owes'[t] = owes[t]
        /\ DOMAIN owes' = DOMAIN owes
        /\ owes'[b] # None => (pc[b] = "run" \/ owes'[b] = owes[b]) /\ UNCHANGED pc
        /\ \A d \in Agents : owes'[b] = Dec(d) => d = b \/ owes[b] = Dec(d)
    BY <1>4, ThreadOwes
  <2>2. a \in DOMAIN owes
    BY DEF Types, QueueType
  <2>3. owes'[a] # None => pc'[a] = "run"
    <3>1. CASE a = b
      BY <1>1, <2>1, <3>1
    <3>2. CASE a # b
      <4>1. EndRun(b) \/ UNCHANGED pc
        BY <1>4, ThreadTable
      <4>2. EndRun(b) => pc'[a] = pc[a]
        BY <3>2 DEF EndRun, Types, RunType
      <4> QED
        BY <1>1, <2>1, <2>2, <3>2, <4>1, <4>2
    <3> QED
      BY <3>1, <3>2
  <2> QED
    BY <1>1, <2>1, <2>3
<1> QED
  BY <1>3, <1>4 DEF Next

\* A message is posted that is no end of a run, and a dec-ip only for one that runs.
LEMMA DecsPost ==
  ASSUME Types, DecsFirst, NEW m \in SchedMsg, Post(m), is_running' = is_running,
         \A a \in Agents : m = Dec(a) => a \in is_running /\ Count(mail_box, RunEnd(a)) = 0
  PROVE  DecsFirst'
<1> SUFFICES ASSUME NEW i \in 1..Len(mail_box'), NEW a \in Agents, mail_box'[i] = Dec(a)
             PROVE  a \in is_running /\ \A j \in 1..i : mail_box'[j] # RunEnd(a)
  BY DEF DecsFirst
<1>1. /\ mail_box \in Seq(SchedMsg) /\ mail_box' = Append(mail_box, m)
  BY DEF Types, QueueType, Post
<1>2. /\ Len(mail_box') = Len(mail_box) + 1 /\ mail_box'[Len(mail_box) + 1] = m
      /\ \A j \in 1..Len(mail_box) : mail_box'[j] = mail_box[j]
      /\ Len(mail_box) \in Nat
  BY <1>1
<1>3. CASE i \in 1..Len(mail_box)
  <2>1. mail_box[i] = Dec(a) /\ \A j \in 1..i : j \in 1..Len(mail_box)
    BY <1>2, <1>3
  <2> QED
    BY <1>2, <1>3, <2>1 DEF DecsFirst
<1>4. CASE i = Len(mail_box) + 1
  <2>1. m = Dec(a) /\ a \in is_running /\ Count(mail_box, RunEnd(a)) = 0
    BY <1>2, <1>4
  <2>2. Positions(mail_box, RunEnd(a)) = {}
    <3>1. IsFiniteSet(Positions(mail_box, RunEnd(a)))
      BY <1>1, PositionsFinite
    <3> QED
      BY <2>1, <3>1, FS_EmptySet DEF Count
  <2>3. \A j \in 1..Len(mail_box) : mail_box[j] # RunEnd(a)
    BY <2>2 DEF Positions
  <2>4. m # RunEnd(a)
    BY <2>1, Distinct
  <2> QED
    BY <1>2, <1>4, <2>1, <2>3, <2>4
<1> QED
  BY <1>2, <1>3, <1>4

\* The scheduler takes a message; an agent's mark is removed at the end of its run.
LEMMA DecsTake ==
  ASSUME Types, DecsFirst, mail_box # <<>>, mail_box' = Tail(mail_box),
         \A a \in is_running : a \in is_running' \/ Msg = RunEnd(a)
  PROVE  DecsFirst'
<1> SUFFICES ASSUME NEW i \in 1..Len(mail_box'), NEW a \in Agents, mail_box'[i] = Dec(a)
             PROVE  a \in is_running' /\ \A j \in 1..i : mail_box'[j] # RunEnd(a)
  BY DEF DecsFirst
<1>1. /\ mail_box \in Seq(SchedMsg) /\ Len(mail_box) \in Nat /\ Len(mail_box') = Len(mail_box) - 1
      /\ \A j \in 1..Len(mail_box') : mail_box'[j] = mail_box[j + 1]
      /\ Msg = mail_box[1]
  BY DEF Types, QueueType, Msg
<1>2. i + 1 \in 1..Len(mail_box) /\ mail_box[i + 1] = Dec(a)
  BY <1>1
<1>3. a \in is_running /\ \A j \in 1..(i + 1) : mail_box[j] # RunEnd(a)
  BY <1>2 DEF DecsFirst
<1>4. 1 \in 1..(i + 1) /\ \A j \in 1..i : j + 1 \in 1..(i + 1) /\ j \in 1..Len(mail_box')
  BY <1>1
<1> QED
  BY <1>1, <1>3, <1>4

LEMMA StepDecs ==
  ASSUME Inv, OwesInv, DecsFirst, Next, ~Strayed'
  PROVE  DecsFirst'
<1>0. Types /\ RunsOnce /\ ~Strayed
  BY StaysStrayed DEF Inv
<1>1. ASSUME UNCHANGED <<mail_box, is_running>> PROVE DecsFirst'
  BY <1>1 DEF DecsFirst
<1>2. ASSUME NEW a \in Agents, pc[a] = "run"
      PROVE  a \in is_running /\ Count(mail_box, RunEnd(a)) = 0
  <2>1. Count(mail_box, RunEnd(a)) + 1 = IF a \in is_running THEN 1 ELSE 0
    BY <1>0, <1>2 DEF RunsOnce, Strayed
  <2> QED
    BY <1>0, <2>1, Numbers
<1>3. ASSUME NEW t \in Agents \cup {"sched"}, Notify(t)
      PROVE  DecsFirst'
  <2>1. owes[t] \in SchedMsg /\ Post(owes[t]) /\ is_running' = is_running
    BY <1>0, <1>3 DEF Notify, Types, QueueType, SchedMsg, table
  <2>2. \A a \in Agents : owes[t] = Dec(a) => a \in is_running /\ Count(mail_box, RunEnd(a)) = 0
    <3> SUFFICES ASSUME NEW a \in Agents, owes[t] = Dec(a)
                 PROVE  a \in is_running /\ Count(mail_box, RunEnd(a)) = 0
      OBVIOUS
    <3>1. t = a /\ owes[a] # None
      BY <1>0, <1>3 DEF OwesInv, Types, QueueType, Notify
    <3> QED
      BY <1>2, <3>1 DEF OwesInv
  <2> QED
    BY <1>0, <2>1, <2>2, DecsPost
<1>4. ASSUME NEW a \in Agents, Thread(a), ~Notify(a)
      PROVE  DecsFirst'
  <2>0. is_running' = is_running
    BY <1>4, ThreadTable
  <2>1. CASE UNCHANGED mail_box
    BY <1>1, <2>0, <2>1
  <2>2. CASE EndRun(a)
    <3>1. RunEnd(a) \in SchedMsg /\ Post(RunEnd(a)) /\ \A b : RunEnd(a) # Dec(b)
      BY <2>2, Distinct DEF EndRun, RunEnd, SchedMsg
    <3> QED
      BY <1>0, <2>0, <3>1, DecsPost
  <2>3. CASE Recv(a) /\ Post(Dec(a))
    <3>1. pc[a] = "run" /\ Dec(a) \in SchedMsg /\ \A b : Dec(a) = Dec(b) => b = a
      BY <2>3, Distinct DEF Recv, May, Dec, SchedMsg, Notice
    <3> QED
      BY <1>0, <1>2, <2>0, <2>3, <3>1, DecsPost
  <2> QED
    BY <1>4, <2>1, <2>2, <2>3 DEF Thread, Send, Recv, Get, TryRecv, NoElement, RecvOption, Drain, PutBack
<1>5. CASE ClientPosts
  <2>1. Head(script) \in ClientMsg /\ Post(Head(script)) /\ is_running' = is_running
    BY <1>0, <1>5 DEF ClientPosts, Types, QueueType, table
  <2>2. Head(script) \in SchedMsg /\ \A b : Head(script) # Dec(b)
    BY <2>1, ClientDistinct DEF SchedMsg
  <2> QED
    BY <1>0, <2>1, <2>2, DecsPost
<1>6. CASE LoopEnds \/ ClientReturns
  BY <1>1, <1>6 DEF LoopEnds, ClientReturns, table
<1>7. CASE \/ AddAgent \/ RemoveAgent \/ Connect \/ RawConnect \/ Disconnect \/ ConnectToArray
           \/ DisconnectToArray \/ Mesg \/ Start \/ Stop \/ Raise
  <2>1. /\ mail_box # <<>> /\ mail_box' = Tail(mail_box) /\ UNCHANGED is_running
    BY <1>7 DEF AddAgent, RemoveAgent, Connect, RawConnect, Disconnect, ConnectToArray,
         DisconnectToArray, Mesg, Start, Stop, Raise, Handles, Takes, Edits, table
  <2> QED
    BY <1>0, <2>1, DecsTake
<1>8. CASE IncIp \/ DecIp \/ HandleRunEnd
  <2>1. /\ mail_box # <<>> /\ mail_box' = Tail(mail_box) /\ Msg \in SchedMsg
        /\ (HandleRunEnd => Msg.type = "run-end")
    BY <1>0, <1>8, NoticeTaken
  <2>2. HandleRunEnd => Msg = RunEnd(Msg.agt)
    BY <2>1, MsgNotice
  <2>3. \A a \in is_running : a \in is_running' \/ (HandleRunEnd /\ a = Msg.agt)
    BY <1>0, <1>8, OwnNotice DEF Exec
  <2> QED
    BY <1>0, <2>1, <2>2, <2>3, DecsTake
<1>10. CASE StartAgent
  <2>1. mail_box # <<>> /\ mail_box' = Tail(mail_box) /\ is_running \subseteq is_running'
    BY <1>10 DEF StartAgent, Handles, Takes, Exec
  <2> QED
    BY <1>0, <2>1, DecsTake
<1>9. CASE StartNext
  <2>1. mail_box' = mail_box /\ is_running \subseteq is_running'
    BY <1>9 DEF StartNext, Exec
  <2> QED
    BY <2>1 DEF DecsFirst
<1> QED
  BY <1>3, <1>4, <1>5, <1>6, <1>7, <1>8, <1>9, <1>10 DEF Next, Scheduler, Client

\* exec-agent counts the agent that it starts.
LEMMA ExecCounts ==
  ASSUME NEW a \in Agents, NEW ran, ran \subseteq Agents, NEW count, count = Cardinality(ran), NEW ips,
         NEW force, Exec(a, ran, count, ips, force)
  PROVE  Counted'
<1>1. IsFiniteSet(ran)
  BY AgentsAssumption, FS_Subset
<1>2. CASE Starts(a, ran, ips, force)
  BY <1>1, <1>2, FS_AddElement DEF Exec, Starts, Counted
<1> QED
  BY <1>2 DEF Exec, Counted

\* The end of a run is of an agent that runs.
LEMMA RunsEnding ==
  ASSUME Types, RunsOnce, mail_box # <<>>, NEW a \in Agents \ strayed, Msg = RunEnd(a)
  PROVE  a \in is_running
<1>1. /\ Count(mail_box, RunEnd(a)) \in Nat
      /\ Count(Tail(mail_box), RunEnd(a)) = Count(mail_box, RunEnd(a)) - 1
      /\ Count(Tail(mail_box), RunEnd(a)) \in Nat
  <2>1. Tail(mail_box) \in Seq(SchedMsg) /\ mail_box \in Seq(SchedMsg) /\ Head(mail_box) = RunEnd(a)
    BY MsgType DEF Types, QueueType, Msg
  <2> QED
    BY <2>1, CountTail, PositionsFinite
<1>2. Count(mail_box, RunEnd(a)) + (IF pc[a] = "run" THEN 1 ELSE 0)
        = IF a \in is_running THEN 1 ELSE 0
  BY DEF RunsOnce
<1> QED
  BY <1>1, <1>2

LEMMA StepCounted ==
  ASSUME Inv, Counted, Next, ~Strayed'
  PROVE  Counted'
<1>0. Types /\ RunsOnce /\ is_running \subseteq Agents /\ ~Strayed
  BY StaysStrayed DEF Inv, Types, TableType
<1>1. CASE StartAgent
  <2>1. mail_box # <<>> /\ Msg.type = "start-agent"
        /\ Exec(Msg.agt, is_running, number_running, number_ips[Msg.agt], TRUE)
    BY <1>1 DEF StartAgent, Handles, Takes, Msg
  <2>2. Msg.agt \in Agents
    BY <1>0, <2>1, MsgType, MsgFields DEF Types
  <2> QED
    BY <1>0, <2>1, <2>2, ExecCounts DEF Counted
<1>2. CASE StartNext
  BY <1>0, <1>2, ExecCounts DEF StartNext, Counted, Types, TableType
<1>3. CASE IncIp \/ HandleRunEnd
  <2>1. mail_box # <<>> /\ Msg \in SchedMsg /\ Msg.agt \in Agents
        /\ (IncIp => Msg.type = "inc-ip") /\ (HandleRunEnd => Msg.type = "run-end")
    BY <1>0, <1>3, NoticeTaken
  <2> PICK a \in Agents : a = Msg.agt
    BY <2>1
  <2>2. /\ IncIp => Exec(a, is_running, number_running, number_ips'[a], FALSE)
        /\ HandleRunEnd => Exec(a, is_running \ {a}, number_running - 1, number_ips[a], FALSE)
    BY <1>3, <1>0, OwnNotice
  <2>3. CASE IncIp
    BY <1>0, <2>2, <2>3, ExecCounts DEF Counted
  <2>4. CASE HandleRunEnd
    <3>1. Msg = RunEnd(a)
      BY <2>1, <2>4, MsgNotice
    <3>2. a \in is_running
      BY <1>0, <2>1, <3>1, RunsEnding DEF Strayed
    <3>3. number_running - 1 = Cardinality(is_running \ {a}) /\ is_running \ {a} \subseteq Agents
      BY <1>0, <3>2, AgentsAssumption, FS_Subset, FS_RemoveElement DEF Counted
    <3> QED
      BY <2>2, <2>4, <3>3, ExecCounts
  <2> QED
    BY <1>3, <2>3, <2>4
<1>4. CASE ~(IncIp \/ StartAgent \/ StartNext \/ HandleRunEnd)
  <2>1. UNCHANGED <<is_running, number_running>>
    BY <1>4 DEF Next, Scheduler, AddAgent, RemoveAgent, Connect, RawConnect, Disconnect, ConnectToArray,
       DisconnectToArray, Mesg, DecIp, Start, Stop, Raise, LoopEnds, Notify, MatchFrame, Edits, Client,
       ClientPosts, ClientReturns, Thread, Send, Recv, Get, TryRecv, NoElement, RecvOption, Drain,
       PutBack, EndRun, ThreadFrame, table
  <2> QED
    BY <2>1 DEF Counted
<1> QED
  BY <1>1, <1>2, <1>3, <1>4

LEMMA StepRunsCounted == IInv /\ OwesInv /\ RunsCounted /\ [Next]_vars => RunsCounted'
<1> SUFFICES ASSUME IInv, OwesInv, RunsCounted, [Next]_vars, sched' # "dead", ~Strayed'
             PROVE  DecsFirst' /\ Counted'
  BY DEF RunsCounted
<1>1. CASE Next
  <2>1. sched # "dead"
    BY <1>1 DEF Next, Scheduler, AddAgent, RemoveAgent, Connect, RawConnect, Disconnect,
         ConnectToArray, DisconnectToArray, Mesg, Notify, IncIp, DecIp, HandleRunEnd, Start,
         StartNext, StartAgent, Stop, Raise, LoopEnds, Client, ClientPosts, ClientReturns, Thread,
         Send, Recv, Get, TryRecv, NoElement, RecvOption, Drain, PutBack, EndRun, ThreadFrame,
         RunEnds, Meets, Handles, Takes
  <2>2. ~Strayed
    BY <1>1, <2>1, StaysStrayed DEF IInv, Inv
  <2> QED
    BY <1>1, <2>1, <2>2, StepDecs, StepCounted DEF IInv, RunsCounted
<1>2. CASE UNCHANGED vars
  <2>1. UNCHANGED <<mail_box, is_running, number_running, sched, strayed>>
    BY <1>2 DEF vars, table
  <2> QED
    BY <2>1 DEF RunsCounted, DecsFirst, Counted, Strayed
<1> QED
  BY <1>1, <1>2

LEMMA RefInvariance == Spec => []RefInv
<1>1. Init => ChanNames /\ OwesInv /\ RunsCounted
  <2> SUFFICES ASSUME Init PROVE ChanNames /\ OwesInv /\ RunsCounted
    OBVIOUS
  <2>1. ChanNames
    BY DEF Init, Channels, ChanNames, Simple
  <2>2. OwesInv
    BY ValuesAssumption DEF Init, OwesInv, Dec, Notice
  <2>3. RunsCounted
    BY FS_EmptySet DEF Init, RunsCounted, DecsFirst, Counted
  <2> QED
    BY <2>1, <2>2, <2>3
<1>2. SafeRuns /\ ChanNames /\ OwesInv /\ RunsCounted <=> RefInv
  BY DEF RefInv
<1> QED
  BY <1>1, <1>2, StepNames, StepOwes, StepRunsCounted, RunsAreSafe, Invariance, PTL DEF Spec

-----------------------------------------------------------------------------
(* The steps of the runtime are steps of Dataflow: the inboxes.             *)

\* Each channel is one of the places of the abstract scheduler.
LEMMA ChannelPlace ==
  ASSUME Types, ChanNames, MadeWithin, NEW c \in Channels
  PROVE  /\ c \in Places0 /\ Len(chan[c]) \in 0..Capacity /\ Inbox[c] = Len(chan[c])
         /\ AbstractOwner[c] = Owner[c[1]] /\ (c \in AbstractSilent <=> ~Sync(c))
<1>1. c \in InPorts \X Nat /\ c = <<c[1], c[2]>> /\ Len(chan[c]) \in 0..Capacity
  BY PortsAssumption DEF Types, ChanType
<1>2. c \in Places0
  <2>1. CASE c[1] \in Elements
    <3>1. /\ c[2] > 0 /\ c[2] <= made[c[1]] /\ made[c[1]] <= MaxMade /\ made[c[1]] \in Nat
      BY <2>1 DEF ChanNames, Types, ChanType, MadeWithin
    <3>2. c[2] \in 1..MaxMade
      BY <1>1, <3>1, MaxMadeAssumption
    <3> QED
      BY <1>1, <2>1, <3>2 DEF Places0
  <2>2. CASE c[1] \notin Elements
    <3>1. c[2] = 0
      BY <2>2 DEF ChanNames
    <3> QED
      BY <1>1, <2>2, <3>1 DEF Places0, Simple
  <2> QED
    BY <2>1, <2>2
<1> QED
  BY <1>1, <1>2 DEF Inbox, AbstractOwner, AbstractSilent

LEMMA InboxPut ==
  ASSUME Types, ChanNames, MadeWithin, NEW c \in Channels, Len(chan[c]) < Capacity, NEW m,
         chan' = [chan EXCEPT ![c] = Append(@, m)]
  PROVE  c \in Places0 /\ Inbox[c] < Capacity /\ Inbox' = [Inbox EXCEPT ![c] = @ + 1]
<1>1. c \in Places0 /\ Inbox[c] = Len(chan[c])
  BY ChannelPlace
<1>2. Channels' = Channels /\ \A d \in Channels : d # c => chan'[d] = chan[d]
  BY DEF Channels
<1>3. Len(chan'[c]) = Len(chan[c]) + 1
  BY DEF Types, ChanType, Channels
<1>4. Inbox' = [d \in Places0 |-> IF d = c THEN Inbox[c] + 1 ELSE Inbox[d]]
  <2>1. \A d \in Places0 : Inbox'[d] = IF d = c THEN Inbox[c] + 1 ELSE Inbox[d]
    BY <1>1, <1>2, <1>3 DEF Inbox
  <2>2. Inbox' = [d \in Places0 |-> Inbox'[d]]
    BY DEF Inbox
  <2> QED
    BY ONLY <2>1, <2>2
<1>5. Inbox = [d \in Places0 |-> Inbox[d]]
  BY DEF Inbox
<1> QED
  BY <1>1, <1>4, <1>5

LEMMA InboxTake ==
  ASSUME Types, ChanNames, MadeWithin, NEW c \in Channels, chan[c] # <<>>,
         chan' = [chan EXCEPT ![c] = Tail(@)]
  PROVE  c \in Places0 /\ Inbox[c] > 0 /\ Inbox' = [Inbox EXCEPT ![c] = @ - 1]
<1>1. c \in Places0 /\ Inbox[c] = Len(chan[c])
  BY ChannelPlace
<1>2. Channels' = Channels /\ \A d \in Channels : d # c => chan'[d] = chan[d]
  BY DEF Channels
<1>3. Len(chan'[c]) = Len(chan[c]) - 1 /\ Len(chan[c]) > 0
  BY DEF Types, ChanType, Channels
<1>4. Inbox' = [d \in Places0 |-> IF d = c THEN Inbox[c] - 1 ELSE Inbox[d]]
  <2>1. \A d \in Places0 : Inbox'[d] = IF d = c THEN Inbox[c] - 1 ELSE Inbox[d]
    BY <1>1, <1>2, <1>3 DEF Inbox
  <2>2. Inbox' = [d \in Places0 |-> Inbox'[d]]
    BY DEF Inbox
  <2> QED
    BY ONLY <2>1, <2>2
<1>5. Inbox = [d \in Places0 |-> Inbox[d]]
  BY DEF Inbox
<1> QED
  BY <1>1, <1>4, <1>5

\* An empty channel more.
LEMMA InboxNew ==
  ASSUME NEW c, c \notin Channels,
         chan' = [d \in Channels \cup {c} |-> IF d = c THEN <<>> ELSE chan[d]]
  PROVE  Inbox' = Inbox
<1>1. Channels' = Channels \cup {c} /\ chan'[c] = <<>> /\ \A d \in Channels : chan'[d] = chan[d]
  BY DEF Channels
<1> QED
  BY <1>1 DEF Inbox

\* An agent for which messages are queued has work, and no other.
LEMMA WorkIsQueued ==
  ASSUME Types, ChanNames, MadeWithin, NEW a \in Agents
  PROVE  Queued(a) > 0 <=> Abstract!HasWork(a)
<1> DEFINE Q == Places(Length, SyncOf(a), Capacity)
<1>1. IsFiniteSet(Q) /\ Queued(a) = Cardinality(Q)
  BY QueuedFinite, PlacesFinite, PortsAssumption DEF Types
<1>2. ASSUME Queued(a) > 0 PROVE Abstract!HasWork(a)
  <2>1. Q # {}
    BY <1>1, <1>2, FS_EmptySet
  <2> PICK w \in Q : TRUE
    BY <2>1
  <2>2. w[1] \in SyncOf(a) /\ w[2] \in 1..Capacity /\ w[2] <= Len(chan[w[1]])
    BY DEF Places, SyncOf, Length
  <2> PICK c \in Channels : c = w[1] /\ Sync(c) /\ Owner[c[1]] = a
    BY <2>2 DEF SyncOf
  <2>3. c \in Places0 \ AbstractSilent /\ AbstractOwner[c] = a /\ Inbox[c] > 0
    BY <2>2, ChannelPlace
  <2> QED
    BY <2>3 DEF Abstract!HasWork
<1>3. ASSUME Abstract!HasWork(a) PROVE Queued(a) > 0
  <2> PICK c \in Places0 \ AbstractSilent : AbstractOwner[c] = a /\ Inbox[c] > 0
    BY <1>3 DEF Abstract!HasWork
  <2>1. c \in Channels
    BY DEF Inbox
  <2>2. Sync(c) /\ Owner[c[1]] = a /\ Len(chan[c]) > 0 /\ Len(chan[c]) \in 0..Capacity
    BY <2>1, ChannelPlace
  <2>3. <<c, 1>> \in Q
    BY <2>1, <2>2, PortsAssumption DEF Places, SyncOf, Length
  <2> QED
    BY <1>1, <2>3, FS_EmptySet, FS_CardinalityType
<1> QED
  BY <1>2, <1>3

-----------------------------------------------------------------------------
(* The steps of the runtime are steps of Dataflow: who is asked to start.   *)

StartsIt(a) == [type |-> "start-agent", agt |-> a]
StartsAll == [type |-> "start"]
\* The message m removes agent a, or puts another of its name in its place.
Drops(m, a) ==
  m.type \in {"add-agent", "remove-agent"} /\ m # Adds(a) /\ Name[m.agt] = Name[a]

LEMMA AskedIs ==
  ASSUME NEW x \in Agents
  PROVE  x \in AbstractAsked <=>
           \/ x \in starting
           \/ \E i \in 1..Len(mail_box) : mail_box[i] = StartsIt(x)
           \/ x \in NoInput /\ \E i \in 1..Len(mail_box) : mail_box[i] = StartsAll /\ ThereAt(x, i)
  BY DEF AbstractAsked, Positions, StartedAt, StartsIt, StartsAll

LEMMA AskedThen ==
  ASSUME NEW x \in Agents
  PROVE  x \in AbstractAsked' <=>
           \/ x \in starting'
           \/ \E i \in 1..Len(mail_box') : mail_box'[i] = StartsIt(x)
           \/ x \in NoInput /\ \E i \in 1..Len(mail_box') : mail_box'[i] = StartsAll /\ ThereAt(x, i)'
  BY DEF AbstractAsked, Positions, StartedAt, StartsIt, StartsAll

LEMMA AskedAgents == TableType => AbstractAsked \subseteq Agents
  BY AgentsAssumption DEF AbstractAsked, StartedAt, TableType

LEMMA ThereIs ==
  ASSUME NEW a, NEW i
  PROVE  /\ ThereAt(a, i) <=>
              \/ a \in agents /\ \A j \in 1..(i - 1) : ~Drops(mail_box[j], a)
              \/ \E j \in 1..(i - 1) : mail_box[j] = Adds(a) /\ \A k \in j..(i - 1) : ~Drops(mail_box[k], a)
         /\ ThereAt(a, i)' <=>
              \/ a \in agents' /\ \A j \in 1..(i - 1) : ~Drops(mail_box'[j], a)
              \/ \E j \in 1..(i - 1) : mail_box'[j] = Adds(a) /\ \A k \in j..(i - 1) : ~Drops(mail_box'[k], a)
  BY DEF ThereAt, AddsAt, Adds, Drops

\* Who is asked grows with what is posted.
LEMMA AskedPost ==
  ASSUME Types, NEW m \in SchedMsg, Post(m), UNCHANGED <<agents, starting>>
  PROVE  /\ AbstractAsked \subseteq AbstractAsked'
         /\ m.type \notin {"start", "start-agent"} => AbstractAsked' = AbstractAsked
<1>0. /\ Len(mail_box) \in Nat /\ Len(mail_box') = Len(mail_box) + 1 /\ mail_box'[Len(mail_box) + 1] = m
      /\ \A j \in 1..Len(mail_box) : mail_box'[j] = mail_box[j]
  BY DEF Types, QueueType, Post
<1>1. ASSUME NEW x \in Agents, NEW i \in 1..Len(mail_box)
      PROVE  ThereAt(x, i)' <=> ThereAt(x, i)
  <2>1. \A j \in 1..(i - 1) : mail_box'[j] = mail_box[j] /\ \A k \in j..(i - 1) : mail_box'[k] = mail_box[k]
    BY <1>0
  <2> QED
    BY <2>1, ThereIs
<1>2. \A j \in 1..Len(mail_box) : j \in 1..Len(mail_box')
  BY <1>0
<1>3. ASSUME NEW x \in Agents
      PROVE  /\ x \in AbstractAsked => x \in AbstractAsked'
             /\ m.type \notin {"start", "start-agent"} /\ x \in AbstractAsked' => x \in AbstractAsked
  <2>1. x \in AbstractAsked => x \in AbstractAsked'
    BY <1>0, <1>1, <1>2, AskedIs, AskedThen
  <2>2. ASSUME m.type \notin {"start", "start-agent"}, x \in AbstractAsked'
        PROVE  x \in AbstractAsked
    <3>1. m # StartsIt(x) /\ m # StartsAll
      BY <2>2 DEF StartsIt, StartsAll
    <3>2. \A j \in 1..Len(mail_box') : j \in 1..Len(mail_box) \/ mail_box'[j] = m
      BY <1>0
    <3> QED
      BY <1>0, <1>1, <2>2, <3>1, <3>2, AskedIs, AskedThen
  <2> QED
    BY <2>1, <2>2
<1>4. AbstractAsked \subseteq Agents /\ AbstractAsked' \subseteq Agents
  <2>1. NoInput \subseteq Agents /\ starting \subseteq Agents /\ starting' \subseteq Agents
    BY AgentsAssumption DEF Types, TableType
  <2> QED
    BY <2>1 DEF AbstractAsked, StartedAt
<1> QED
  BY <1>3, <1>4

\* The place of a message in the mailbox moves, and with it what comes before.
LEMMA ThereTake ==
  ASSUME Types, mail_box # <<>>, mail_box' = Tail(mail_box), NEW a \in Agents, NEW i \in 1..Len(mail_box'),
         \/ Msg.type \notin {"add-agent", "remove-agent"} /\ agents' = agents
         \/ Msg.type = "add-agent" /\ agents' = Others(Msg.agt) \cup {Msg.agt}
         \/ Msg.type = "remove-agent" /\ agents' = Others(Msg.agt)
  PROVE  ThereAt(a, i)' <=> ThereAt(a, i + 1)
<1>0. /\ Len(mail_box) \in Nat /\ Len(mail_box') = Len(mail_box) - 1 /\ Msg = mail_box[1]
      /\ \A j \in 1..Len(mail_box') : mail_box'[j] = mail_box[j + 1]
  BY DEF Types, QueueType, Msg
<1>1. /\ Msg = Adds(a) <=> Msg.type = "add-agent" /\ Msg.agt = a
      /\ ~Drops(Adds(a), a)
  <2>1. Msg \in SchedMsg
    BY MsgType DEF Types
  <2>2. Adds(a).type = "add-agent" /\ Adds(a).agt = a
    BY DEF Adds
  <2> QED
    BY <2>1, <2>2, MsgNotice DEF Drops
<1>2. /\ Msg = Adds(a) => a \in agents'
      /\ Drops(Msg, a) => a \notin agents'
      /\ Msg # Adds(a) /\ ~Drops(Msg, a) => (a \in agents' <=> a \in agents)
  <2>1. CASE Msg.type \notin {"add-agent", "remove-agent"} /\ agents' = agents
    BY <1>1, <2>1 DEF Drops
  <2>2. CASE Msg.type = "add-agent" /\ agents' = Others(Msg.agt) \cup {Msg.agt}
    BY <1>1, <2>2 DEF Drops, Others
  <2>3. CASE Msg.type = "remove-agent" /\ agents' = Others(Msg.agt)
    BY <1>1, <2>3 DEF Drops, Others
  <2> QED
    BY <2>1, <2>2, <2>3
<1>3. \A j \in 1..(i - 1) : mail_box'[j] = mail_box[j + 1] /\ j + 1 \in 1..i
  BY <1>0
<1>4. \A j \in 1..i : j = 1 \/ (j - 1 \in 1..(i - 1) /\ mail_box'[j - 1] = mail_box[j])
  BY <1>0
<1>5. ThereAt(a, i + 1) <=>
         \/ a \in agents /\ \A j \in 1..i : ~Drops(mail_box[j], a)
         \/ \E j \in 1..i : mail_box[j] = Adds(a) /\ \A k \in j..i : ~Drops(mail_box[k], a)
  <2>1. i + 1 - 1 = i
    OBVIOUS
  <2> QED
    BY <2>1, ThereIs
<1>6. ASSUME ThereAt(a, i)' PROVE ThereAt(a, i + 1)
  <2>1. CASE a \in agents' /\ \A j \in 1..(i - 1) : ~Drops(mail_box'[j], a)
    <3>1. \A j \in 1..i : j = 1 \/ ~Drops(mail_box[j], a)
      BY <1>4, <2>1
    <3>2. ~Drops(Msg, a)
      BY <1>2, <2>1
    <3>3. \A j \in 1..i : ~Drops(mail_box[j], a)
      BY <1>0, <3>1, <3>2
    <3>4. CASE Msg = Adds(a)
      <4>1. 1 \in 1..i
        OBVIOUS
      <4> QED
        BY <1>0, <1>5, <3>3, <3>4, <4>1
    <3>5. CASE Msg # Adds(a)
      BY <1>2, <1>5, <2>1, <3>2, <3>3, <3>5
    <3> QED
      BY <3>4, <3>5
  <2>2. ASSUME NEW j \in 1..(i - 1), mail_box'[j] = Adds(a), \A k \in j..(i - 1) : ~Drops(mail_box'[k], a)
        PROVE  ThereAt(a, i + 1)
    <3>1. j + 1 \in 1..i /\ mail_box[j + 1] = Adds(a)
      BY <1>3, <2>2
    <3>2. ASSUME NEW k \in (j + 1)..i PROVE ~Drops(mail_box[k], a)
      <4>1. k - 1 \in j..(i - 1) /\ k \in 1..i /\ k # 1
        OBVIOUS
      <4> QED
        BY <1>4, <2>2, <4>1
    <3> PICK w \in 1..i : w = j + 1
      BY <3>1
    <3>3. mail_box[w] = Adds(a) /\ \A k \in w..i : ~Drops(mail_box[k], a)
      BY <3>1, <3>2
    <3> QED
      BY <1>5, <3>3
  <2>3. \/ a \in agents' /\ \A j \in 1..(i - 1) : ~Drops(mail_box'[j], a)
        \/ \E j \in 1..(i - 1) : mail_box'[j] = Adds(a)
                                /\ \A k \in j..(i - 1) : ~Drops(mail_box'[k], a)
    BY <1>6, ThereIs
  <2> QED
    BY ONLY <2>1, <2>2, <2>3
<1>7. ASSUME ThereAt(a, i + 1) PROVE ThereAt(a, i)'
  <2>1. CASE a \in agents /\ \A j \in 1..i : ~Drops(mail_box[j], a)
    <3>1. ~Drops(Msg, a)
      <4>1. 1 \in 1..i
        OBVIOUS
      <4> QED
        BY <1>0, <2>1, <4>1
    <3>2. a \in agents' /\ \A j \in 1..(i - 1) : ~Drops(mail_box'[j], a)
      BY <1>2, <1>3, <2>1, <3>1
    <3> QED
      BY <3>2, ThereIs
  <2>2. ASSUME NEW j \in 1..i, mail_box[j] = Adds(a), \A k \in j..i : ~Drops(mail_box[k], a)
        PROVE  ThereAt(a, i)'
    <3>1. CASE j = 1
      <4>1. a \in agents'
        BY <1>0, <1>2, <2>2, <3>1
      <4>2. \A k \in 1..(i - 1) : ~Drops(mail_box'[k], a)
        BY <1>3, <2>2, <3>1
      <4> QED
        BY <4>1, <4>2, ThereIs
    <3>2. CASE j # 1
      <4>1. j - 1 \in 1..(i - 1) /\ mail_box'[j - 1] = Adds(a)
        BY <1>4, <2>2, <3>2
      <4>2. ASSUME NEW k \in (j - 1)..(i - 1) PROVE ~Drops(mail_box'[k], a)
        <5>1. k \in 1..(i - 1) /\ k + 1 \in j..i
          BY <4>1
        <5> QED
          BY <1>3, <2>2, <5>1
      <4> QED
        BY <4>1, <4>2, ThereIs
    <3> QED
      BY <3>1, <3>2
  <2> QED
    BY <1>5, <1>7, <2>1, <2>2
<1> QED
  BY <1>6, <1>7

\* The messages that are about to be taken ask for the same after one is taken,
\* unless that one asked.
LEMMA AskedTake ==
  ASSUME Types, mail_box # <<>>, mail_box' = Tail(mail_box), starting = {}, starting' \subseteq Agents,
         \/ Msg.type \notin {"add-agent", "remove-agent"} /\ agents' = agents
         \/ Msg.type = "add-agent" /\ agents' = Others(Msg.agt) \cup {Msg.agt}
         \/ Msg.type = "remove-agent" /\ agents' = Others(Msg.agt)
  PROVE  /\ Msg.type \notin {"start", "start-agent"} /\ starting' = {} => AbstractAsked' = AbstractAsked
         /\ Msg.type = "start" /\ starting' = agents \cap NoInput => AbstractAsked' = AbstractAsked
         /\ Msg.type = "start-agent" /\ starting' = {} =>
              /\ Msg.agt \in AbstractAsked
              /\ AbstractAsked' \in {AbstractAsked, AbstractAsked \ {Msg.agt}}
<1>0. /\ Len(mail_box) \in Nat /\ Len(mail_box') = Len(mail_box) - 1 /\ Msg = mail_box[1]
      /\ 1 \in 1..Len(mail_box)
      /\ \A i \in 1..Len(mail_box') : mail_box'[i] = mail_box[i + 1] /\ i + 1 \in 1..Len(mail_box)
      /\ \A i \in 1..Len(mail_box) : i = 1 \/ (i - 1 \in 1..Len(mail_box') /\ mail_box'[i - 1] = mail_box[i])
  BY DEF Types, QueueType, Msg
<1>1. ASSUME NEW x \in Agents, NEW i \in 1..Len(mail_box')
      PROVE  ThereAt(x, i)' <=> ThereAt(x, i + 1)
  BY <1>1, ThereTake
<1>2. \A x \in Agents : ThereAt(x, 1) <=> x \in agents
  <2> SUFFICES ASSUME NEW x \in Agents PROVE ThereAt(x, 1) <=> x \in agents
    OBVIOUS
  <2>1. 1..(1 - 1) = {}
    OBVIOUS
  <2> QED
    BY <2>1, ThereIs
<1>3. ASSUME NEW x \in Agents
      PROVE  x \in AbstractAsked <=>
               \/ Msg = StartsIt(x)
               \/ Msg = StartsAll /\ x \in agents \cap NoInput
               \/ \E i \in 1..Len(mail_box') : mail_box'[i] = StartsIt(x)
               \/ x \in NoInput /\ \E i \in 1..Len(mail_box') : mail_box'[i] = StartsAll /\ ThereAt(x, i)'
  <2>1. (\E i \in 1..Len(mail_box) : mail_box[i] = StartsIt(x)) <=>
          Msg = StartsIt(x) \/ \E i \in 1..Len(mail_box') : mail_box'[i] = StartsIt(x)
    BY ONLY <1>0
  <2>2. (\E i \in 1..Len(mail_box) : mail_box[i] = StartsAll /\ ThereAt(x, i)) <=>
          \/ Msg = StartsAll /\ x \in agents
          \/ \E i \in 1..Len(mail_box') : mail_box'[i] = StartsAll /\ ThereAt(x, i)'
    <3>1. ASSUME NEW i \in 1..Len(mail_box), mail_box[i] = StartsAll, ThereAt(x, i)
          PROVE  \/ Msg = StartsAll /\ x \in agents
                 \/ \E k \in 1..Len(mail_box') : mail_box'[k] = StartsAll /\ ThereAt(x, k)'
      <4>1. CASE i = 1
        BY <1>0, <1>2, <3>1, <4>1
      <4>2. CASE i # 1
        <5> PICK k \in 1..Len(mail_box') : k = i - 1 /\ mail_box'[k] = mail_box[i] /\ k + 1 = i
          BY <1>0, <4>2
        <5>1. ThereAt(x, k)' <=> ThereAt(x, k + 1)
          BY <1>1
        <5> QED
          BY <3>1, <5>1
      <4> QED
        BY <4>1, <4>2
    <3>2. CASE Msg = StartsAll /\ x \in agents
      BY <1>0, <1>2, <3>2
    <3>3. ASSUME NEW k \in 1..Len(mail_box'), mail_box'[k] = StartsAll, ThereAt(x, k)'
          PROVE  \E i \in 1..Len(mail_box) : mail_box[i] = StartsAll /\ ThereAt(x, i)
      <4> PICK i \in 1..Len(mail_box) : i = k + 1 /\ mail_box[i] = mail_box'[k]
        BY <1>0
      <4>1. ThereAt(x, k)' <=> ThereAt(x, k + 1)
        BY <1>1
      <4> QED
        BY <3>3, <4>1
    <3> QED
      BY <3>1, <3>2, <3>3
  <2> QED
    BY <2>1, <2>2, AskedIs
<1>4. ASSUME NEW x \in Agents
      PROVE  /\ StartsIt(x) # StartsAll
             /\ Msg = StartsIt(x) <=> Msg.type = "start-agent" /\ Msg.agt = x
             /\ Msg = StartsAll <=> Msg.type = "start"
  <2>1. Msg \in SchedMsg
    BY MsgType DEF Types
  <2>2. StartsIt(x).type = "start-agent" /\ StartsIt(x).agt = x /\ StartsAll.type = "start"
    BY DEF StartsIt, StartsAll
  <2>3. /\ Msg.type = "start-agent" => Msg = StartsIt(Msg.agt)
        /\ Msg.type = "start" => Msg = StartsAll
    BY <2>1 DEF SchedMsg, ClientMsg, Notice, StartsIt, StartsAll
  <2> QED
    BY <2>2, <2>3
<1>5. AbstractAsked \subseteq Agents /\ AbstractAsked' \subseteq Agents
  <2>1. NoInput \subseteq Agents /\ starting \subseteq Agents
    BY AgentsAssumption DEF Types, TableType
  <2> QED
    BY <2>1 DEF AbstractAsked, StartedAt
<1>6. ASSUME Msg.type \notin {"start", "start-agent"}, starting' = {}
      PROVE  AbstractAsked' = AbstractAsked
  <2>1. \A x \in Agents : x \in AbstractAsked' <=> x \in AbstractAsked
    BY <1>3, <1>4, <1>6, AskedThen
  <2> QED
    BY <1>5, <1>6, <2>1
<1>7. ASSUME Msg.type = "start", starting' = agents \cap NoInput
      PROVE  AbstractAsked' = AbstractAsked
  <2>1. \A x \in Agents : x \in AbstractAsked' <=> x \in AbstractAsked
    BY <1>3, <1>4, <1>7, AskedThen
  <2> QED
    BY <1>5, <1>7, <2>1
<1>8. ASSUME Msg.type = "start-agent", starting' = {}
      PROVE  /\ Msg.agt \in AbstractAsked
             /\ AbstractAsked' \in {AbstractAsked, AbstractAsked \ {Msg.agt}}
  <2>1. Msg.agt \in Agents
    BY <1>8, MsgType, MsgFields DEF Types
  <2>2. Msg.agt \in AbstractAsked
    BY <1>3, <1>4, <1>8, <2>1
  <2>3. \A x \in Agents : x # Msg.agt => (x \in AbstractAsked' <=> x \in AbstractAsked)
    BY <1>3, <1>4, <1>8, AskedThen
  <2>4. CASE Msg.agt \in AbstractAsked'
    BY ONLY <1>5, <2>1, <2>2, <2>3, <2>4
  <2>5. CASE Msg.agt \notin AbstractAsked'
    <3>1. AbstractAsked' = AbstractAsked \ {Msg.agt}
      BY ONLY <1>5, <2>1, <2>2, <2>3, <2>5
    <3> QED
      BY ONLY <2>2, <3>1
  <2> QED
    BY ONLY <2>4, <2>5
<1> QED
  BY ONLY <1>6, <1>7, <1>8

\* The scheduler starts one of those that it was about to start.
LEMMA AskedNext ==
  ASSUME Types, NEW a \in starting, starting' = starting \ {a}, UNCHANGED <<agents, mail_box>>
  PROVE  a \in AbstractAsked /\ AbstractAsked' \in {AbstractAsked, AbstractAsked \ {a}}
<1>1. AbstractAsked \subseteq Agents /\ AbstractAsked' \subseteq Agents /\ a \in Agents
  <2>1. NoInput \subseteq Agents /\ starting \subseteq Agents
    BY AgentsAssumption DEF Types, TableType
  <2> QED
    BY <2>1 DEF AbstractAsked, StartedAt
<1>2. \A x \in Agents : \A i : ThereAt(x, i)' <=> ThereAt(x, i)
  BY ThereIs
<1>3. \A x \in Agents : x # a => (x \in AbstractAsked' <=> x \in AbstractAsked)
  BY <1>2, AskedIs, AskedThen
<1>4. a \in AbstractAsked
  BY <1>1, AskedIs
<1> QED
  BY <1>1, <1>3, <1>4

-----------------------------------------------------------------------------
(* The steps of the runtime are steps of Dataflow.                          *)

\* A step of a run puts a message into a channel that is there, takes one from a
\* channel of its agent, or leaves the channels alone.
LEMMA ThreadChan ==
  ASSUME Types, NEW a \in Agents, Thread(a)
  PROVE  \/ UNCHANGED chan
         \/ \E c \in Channels, m \in Messages :
              Len(chan[c]) < Capacity /\ chan' = [chan EXCEPT ![c] = Append(@, m)]
         \/ \E c \in Channels :
              /\ pc[a] = "run" /\ Owner[c[1]] = a /\ chan[c] # <<>>
              /\ chan' = [chan EXCEPT ![c] = Tail(@)]
<1>1. CASE Recv(a) \/ NoElement(a) \/ Notify(a) \/ EndRun(a)
  BY <1>1 DEF Recv, NoElement, Notify, EndRun
<1>2. CASE Send(a) /\ chan' # chan
  <2> DEFINE c == input[a].outport[Op(a).port]
  <2>1. May(a, "send") /\ c # None /\ Len(chan[c]) < Capacity /\ chan' = [chan EXCEPT ![c] = Append(@, Op(a).msg)]
    BY <1>2 DEF Send
  <2>2. pc[a] = "run" /\ todo[a] # <<>> /\ Op(a).op = "send"
    BY <2>1 DEF May
  <2>3. Op(a) \in AgentOp(a)
    <3>1. todo[a] \in Seq(AgentOp(a) \cup Half(a))
      BY <2>2 DEF Types, RunType, TodoType
    <3>2. Op(a) \in AgentOp(a) \cup Half(a)
      BY ONLY <2>2, <3>1 DEF Op
    <3> QED
      BY <2>2, <3>2 DEF Half
  <2>4. Op(a).port \in OutPorts /\ From[Op(a).port] = a /\ Op(a).msg \in Messages
    BY ONLY <2>2, <2>3 DEF AgentOp
  <2>5. c \in Channels
    BY <2>1, <2>2, <2>4 DEF Types, RunType, SnapshotType
  <2> QED
    BY <2>1, <2>4, <2>5
<1>3. CASE PutBack(a)
  <2>1. May(a, "put back") /\ Op(a).op = "put back" /\ Len(chan[In(a)]) < Capacity
        /\ chan' = [chan EXCEPT ![In(a)] = Append(@, acc[a])]
    BY <1>3 DEF PutBack, May
  <2>2. In(a) # None
    <3>1. pc[a] = "run" /\ todo[a] # <<>> /\ Op(a) \in AgentOp(a) \cup Half(a)
      BY <2>1, Reading
    <3>2. Op(a) \in Half(a)
      BY ONLY <2>1, <3>1 DEF AgentOp
    <3> QED
      BY <3>1, <3>2 DEF Types, RunType, TodoType
  <2>3. In(a) \in Channels /\ acc[a] \in Messages
    BY <2>1, <2>2, Reading DEF Types, RunType
  <2> QED
    BY <2>1, <2>3
<1>4. CASE (Get(a) \/ TryRecv(a) \/ RecvOption(a) \/ Drain(a)) /\ chan' # chan
  <2>1. Holds(a) /\ Taken(a) /\ \E op \in {"get", "try-recv", "recv", "drain"} : May(a, op)
    BY <1>4 DEF Get, TryRecv, RecvOption, Drain
  <2>2. In(a) \in Channels /\ Owner[In(a)[1]] = a /\ pc[a] = "run"
    BY <2>1, Reading DEF Holds
  <2> QED
    BY <2>1, <2>2 DEF Holds, Taken
<1> QED
  BY <1>1, <1>2, <1>3, <1>4 DEF Thread

\* A notice asks for nothing, nor does the end of a run.
LEMMA ThreadAsked ==
  ASSUME Types, NEW t \in Agents \cup {"sched"}, Notify(t) \/ (t \in Agents /\ Thread(t))
  PROVE  AbstractAsked' = AbstractAsked /\ UNCHANGED <<is_running, sched>>
<1>1. UNCHANGED <<agents, starting, is_running, sched>>
  BY DEF Thread, Notify, Send, Recv, Get, TryRecv, NoElement, RecvOption, Drain, PutBack, EndRun,
         ThreadFrame, table
<1>2. UNCHANGED mail_box \/ \E m \in SchedMsg : Post(m) /\ m.type \notin {"start", "start-agent"}
  <2>1. CASE Notify(t)
    <3>1. owes[t] \in Notice /\ Post(owes[t])
      BY <2>1 DEF Notify, Types, QueueType
    <3>2. owes[t] \in SchedMsg /\ owes[t].type \notin {"start", "start-agent"}
      BY <3>1 DEF SchedMsg, Notice
    <3> QED
      BY <3>1, <3>2
  <2>2. CASE t \in Agents /\ EndRun(t)
    <3>1. RunEnd(t) \in SchedMsg /\ RunEnd(t).type = "run-end" /\ Post(RunEnd(t))
      BY <2>2 DEF EndRun, RunEnd, SchedMsg
    <3> QED
      BY <3>1
  <2>3. CASE t \in Agents /\ Recv(t)
    <3>1. Dec(t) \in SchedMsg /\ Dec(t).type = "dec-ip"
      BY <2>3 DEF Dec, SchedMsg, Notice
    <3> QED
      BY <2>3, <3>1 DEF Recv
  <2>4. CASE t \in Agents /\ (Send(t) \/ Get(t) \/ TryRecv(t) \/ NoElement(t) \/ RecvOption(t)
                                \/ Drain(t) \/ PutBack(t))
    BY <2>4 DEF Send, Get, TryRecv, NoElement, RecvOption, Drain, PutBack
  <2> QED
    BY <2>1, <2>2, <2>3, <2>4 DEF Thread
<1>3. CASE UNCHANGED mail_box
  BY <1>1, <1>3 DEF AbstractAsked, StartedAt, ThereAt, Positions
<1> QED
  BY <1>1, <1>2, <1>3, AskedPost

AbstractStep == Abstract!Next \/ Missed' \/ Strayed' \/ UNCHANGED Abstract!vars

LEMMA SameStep ==
  ASSUME Inbox' = Inbox, is_running' = is_running, AbstractAsked' = AbstractAsked,
         sched' = "stopped" <=> sched = "stopped"
  PROVE  AbstractStep
  BY DEF AbstractStep, Abstract!vars

\* A message comes in.
LEMMA DeliverStep ==
  ASSUME Types, ChanNames, MadeWithin, NEW c \in Channels, NEW m, Len(chan[c]) < Capacity,
         chan' = [chan EXCEPT ![c] = Append(@, m)],
         is_running' = is_running, AbstractAsked' = AbstractAsked, sched' = sched
  PROVE  AbstractStep
<1>1. c \in Places0 /\ Inbox[c] < Capacity /\ Inbox' = [Inbox EXCEPT ![c] = @ + 1]
  BY InboxPut
<1>2. Abstract!Deliver(c)
  BY <1>1 DEF Abstract!Deliver
<1> QED
  BY <1>1, <1>2 DEF AbstractStep, Abstract!Next

LEMMA ThreadStep ==
  ASSUME SafeRuns, ChanNames, MadeWithin, ~Strayed, NEW a \in Agents, Thread(a)
  PROVE  AbstractStep
<1>1. Types /\ AbstractAsked' = AbstractAsked /\ is_running' = is_running /\ sched' = sched
  BY ThreadAsked DEF SafeRuns
<1>2. CASE UNCHANGED chan
  BY <1>1, <1>2, SameStep DEF Inbox, Channels
<1>3. CASE \E c \in Channels, m \in Messages :
             Len(chan[c]) < Capacity /\ chan' = [chan EXCEPT ![c] = Append(@, m)]
  BY <1>1, <1>3, DeliverStep
<1>4. ASSUME NEW c \in Channels, pc[a] = "run", Owner[c[1]] = a, chan[c] # <<>>,
             chan' = [chan EXCEPT ![c] = Tail(@)]
      PROVE  AbstractStep
  <2>1. c \in Places0 /\ Inbox[c] > 0 /\ Inbox' = [Inbox EXCEPT ![c] = @ - 1]
    BY <1>1, <1>4, InboxTake
  <2>2. AbstractOwner[c] \in is_running
    BY <1>4, <2>1 DEF SafeRuns, RunsMarked, AbstractOwner, Strayed
  <2>3. Abstract!Read(c)
    BY <1>1, <2>1, <2>2 DEF Abstract!Read
  <2> QED
    BY <2>1, <2>3 DEF AbstractStep, Abstract!Next
<1> QED
  BY <1>1, <1>2, <1>3, <1>4, ThreadChan

\* The scheduler takes a message that starts nobody.
LEMMA TakeStep ==
  ASSUME Types, \E type : Takes(type), mail_box' = Tail(mail_box),
         Msg.type \notin {"start", "start-agent"}, UNCHANGED <<starting, is_running>>,
         sched' = "stopped" <=> sched = "stopped", Inbox' = Inbox,
         \/ Msg.type \notin {"add-agent", "remove-agent"} /\ agents' = agents
         \/ Msg.type = "add-agent" /\ agents' = Others(Msg.agt) \cup {Msg.agt}
         \/ Msg.type = "remove-agent" /\ agents' = Others(Msg.agt)
  PROVE  AbstractStep
<1>1. mail_box # <<>> /\ starting = {} /\ starting' = {} /\ starting' \subseteq Agents
  BY DEF Takes
<1>2. AbstractAsked' = AbstractAsked
  BY <1>1, AskedTake
<1> QED
  BY <1>2, SameStep

\* An agent is run.
LEMMA ActivateStep ==
  ASSUME NEW a \in Agents, sched = "up", sched' = sched, Inbox' = Inbox,
         a \notin is_running, is_running' = is_running \cup {a},
         a \in AbstractAsked \/ Abstract!HasWork(a),
         AbstractAsked' \in {AbstractAsked, AbstractAsked \ {a}}
  PROVE  AbstractStep
<1>1. Abstract!Activate(a)
  BY DEF Abstract!Activate
<1> QED
  BY <1>1 DEF AbstractStep, Abstract!Next

\* An agent is asked to start, by msg-start-agent or by msg-start.
LEMMA StartStep ==
  ASSUME NEW a \in Agents, sched = "up", sched' = sched, Inbox' = Inbox,
         NEW count, NEW ips, Exec(a, is_running, count, ips, TRUE), a \in AbstractAsked,
         AbstractAsked' \in {AbstractAsked, AbstractAsked \ {a}}
  PROVE  AbstractStep
<1>1. CASE a \notin is_running
  <2>1. is_running' = is_running \cup {a}
    BY <1>1 DEF Exec, Starts
  <2> QED
    BY <1>1, <2>1, ActivateStep
<1>2. CASE a \in is_running
  <2>1. is_running' = is_running
    BY <1>2 DEF Exec, Starts
  <2>2. CASE AbstractAsked' = AbstractAsked
    BY <2>1, <2>2, SameStep
  <2>3. CASE AbstractAsked' = AbstractAsked \ {a}
    <3>1. Abstract!Ignore(a)
      BY <1>2, <2>1, <2>3 DEF Abstract!Ignore
    <3> QED
      BY <3>1 DEF AbstractStep, Abstract!Next
  <2> QED
    BY <2>2, <2>3
<1> QED
  BY <1>1, <1>2

\* No reads of an agent that does not run are under way.
LEMMA NoDecs ==
  ASSUME Types, RunsMarked, OwesInv, DecsFirst, ~Strayed, NEW a \in Agents, a \notin is_running
  PROVE  Count(mail_box, Dec(a)) = 0 /\ Owed(Dec(a)) = 0
<1>1. Positions(mail_box, Dec(a)) = {}
  BY DEF Positions, DecsFirst
<1>2. \A t \in DOMAIN owes : owes[t] # Dec(a)
  <2> SUFFICES ASSUME NEW t \in DOMAIN owes, owes[t] = Dec(a) PROVE FALSE
    OBVIOUS
  <2>1. t = a /\ owes[a] = Dec(a) /\ Dec(a) # None
    BY ValuesAssumption DEF OwesInv, Dec, Notice
  <2> QED
    BY <2>1 DEF OwesInv, RunsMarked, Strayed
<1>3. {t \in DOMAIN owes : owes[t] = Dec(a)} = {}
  BY <1>2
<1> QED
  BY <1>1, <1>3, FS_EmptySet DEF Count, Owed

LEMMA IncStep ==
  ASSUME Inv, RefInv, sched # "dead", MadeWithin, IncIp, ~Strayed'
  PROVE  AbstractStep
<1>1. Types /\ ~Strayed
  BY OwnNotice DEF Inv
<1>2. /\ Types /\ RunsMarked /\ OwesInv /\ DecsFirst /\ ChanNames
  BY <1>1 DEF RefInv, RunsCounted, SafeRuns
<1>3. /\ mail_box # <<>> /\ Msg.type = "inc-ip" /\ starting = {} /\ sched = "up"
      /\ mail_box' = Tail(mail_box)
      /\ UNCHANGED <<sched, chan, owes, missed, agents, starting>>
  BY <1>2, NoticeTaken
<1> PICK a \in Agents : a = Msg.agt /\ Msg = Inc(a)
  BY <1>2, <1>3, MsgType, MsgFields, MsgNotice DEF Types
<1>4. /\ number_ips' = [number_ips EXCEPT ![a] = @ + 1]
      /\ Exec(a, is_running, number_running, number_ips'[a], FALSE)
  BY <1>2, OwnNotice
<1>5. Inbox' = Inbox
  BY <1>3 DEF Inbox, Channels
<1>6. AbstractAsked' = AbstractAsked
  <2>1. starting' = {} /\ starting' \subseteq Agents
    BY <1>3
  <2> QED
    BY <1>2, <1>3, <2>1, AskedTake
<1>7. CASE is_running' = is_running
  BY <1>3, <1>5, <1>6, <1>7, SameStep
<1>8. CASE a \notin is_running /\ number_ips'[a] > 0
  <2>0. number_ips'[a] = number_ips[a] + 1
    BY <1>2, <1>4 DEF Types, TableType
  <2>1. Count(mail_box, Dec(a)) = 0 /\ Owed(Dec(a)) = 0
    BY <1>1, <1>2, <1>8, NoDecs
  <2>2. Count(mail_box, Inc(a)) > 0
    <3>1. Tail(mail_box) \in Seq(SchedMsg) /\ mail_box \in Seq(SchedMsg) /\ Head(mail_box) = Inc(a)
      BY <1>2, <1>3, MsgType DEF Types, QueueType, Msg
    <3>2. /\ Count(Tail(mail_box), Inc(a)) = Count(mail_box, Inc(a)) - 1
          /\ Count(Tail(mail_box), Inc(a)) \in Nat /\ Count(mail_box, Inc(a)) \in Nat
      BY <1>3, <3>1, CountTail, PositionsFinite
    <3> QED
      BY <3>2
  <2>3. number_ips[a] + Count(mail_box, Inc(a)) + Owed(Inc(a)) + Announced(a)
          = Queued(a) + missed[a] + strays[a] + Count(mail_box, Dec(a)) + Owed(Dec(a))
        /\ strays[a] = 0
    BY <1>1 DEF Inv, Balanced, Balance, Strangers, Strayed
  <2>4. Queued(a) > 0 \/ missed[a] > 0
    <3>1. /\ number_ips[a] \in Int /\ missed[a] \in Nat /\ Announced(a) \in {0, 1} /\ Queued(a) \in Nat
          /\ Count(mail_box, Inc(a)) \in Nat /\ Owed(Inc(a)) \in Nat
      BY <1>2, NumbersOf
    <3> QED
      BY ONLY <1>8, <2>0, <2>1, <2>2, <2>3, <3>1
  <2>5. CASE missed[a] > 0
    BY <1>3, <2>5 DEF AbstractStep, Missed
  <2>6. CASE Queued(a) > 0
    <3>1. Abstract!HasWork(a)
      BY <1>2, <2>6, WorkIsQueued
    <3>2. is_running' = is_running \cup {a}
      BY <1>8, <1>4 DEF Exec, Starts
    <3>3. AbstractAsked' \in {AbstractAsked, AbstractAsked \ {a}}
      BY <1>6
    <3> QED
      BY ONLY <1>3, <1>5, <1>8, <3>1, <3>2, <3>3, ActivateStep
  <2> QED
    BY <2>4, <2>5, <2>6
<1>9. is_running' = is_running \/ (a \notin is_running /\ number_ips'[a] > 0)
  BY <1>4 DEF Exec, Starts
<1> QED
  BY <1>7, <1>8, <1>9

LEMMA RunEndStep ==
  ASSUME Inv, HandleRunEnd, ~Strayed'
  PROVE  AbstractStep
<1>0. Types /\ RunsOnce /\ ~Strayed
  BY OwnNotice DEF Inv
<1>1. /\ mail_box # <<>> /\ Msg.type = "run-end" /\ starting = {} /\ sched = "up"
      /\ mail_box' = Tail(mail_box)
      /\ UNCHANGED <<sched, chan, agents, starting>>
  BY <1>0, NoticeTaken
<1> PICK a \in Agents : a = Msg.agt /\ Msg = RunEnd(a)
  BY <1>0, <1>1, MsgType, MsgFields, MsgNotice DEF Types
<1>2. Inbox' = Inbox
  BY <1>1 DEF Inbox, Channels
<1>3. AbstractAsked' = AbstractAsked
  <2>1. starting' = {} /\ starting' \subseteq Agents
    BY <1>1
  <2> QED
    BY <1>0, <1>1, <2>1, AskedTake
<1>4. a \in is_running
  BY <1>0, <1>1, RunsEnding DEF Strayed
<1>5. is_running' = is_running \/ is_running' = is_running \ {a}
  <2>1. Exec(a, is_running \ {a}, number_running - 1, number_ips[a], FALSE)
    BY <1>0, OwnNotice
  <2>2. is_running' = (is_running \ {a}) \cup {a} \/ is_running' = is_running \ {a}
    BY ONLY <2>1 DEF Exec
  <2>3. (is_running \ {a}) \cup {a} = is_running
    BY ONLY <1>4
  <2> QED
    BY ONLY <2>2, <2>3
<1>6. CASE is_running' = is_running
  BY <1>1, <1>2, <1>3, <1>6, SameStep
<1>7. CASE is_running' = is_running \ {a}
  <2>1. Abstract!Rest(a)
    BY <1>1, <1>2, <1>3, <1>7 DEF Abstract!Rest
  <2> QED
    BY <2>1 DEF AbstractStep, Abstract!Next
<1> QED
  BY <1>5, <1>6, <1>7

LEMMA StartsStep ==
  ASSUME Types, Start \/ StartAgent \/ StartNext
  PROVE  AbstractStep
<1>1. CASE Start
  <2>1. /\ mail_box # <<>> /\ Msg.type = "start" /\ starting = {} /\ mail_box' = Tail(mail_box)
        /\ starting' = agents \cap NoInput /\ UNCHANGED <<sched, chan, agents, is_running>>
    BY <1>1 DEF Start, Handles, Takes, Msg, MatchFrame, table
  <2>2. starting' \subseteq Agents
    BY <2>1 DEF Types, TableType
  <2>3. AbstractAsked' = AbstractAsked
    BY <2>1, <2>2, AskedTake
  <2>4. Inbox' = Inbox
    BY <2>1 DEF Inbox, Channels
  <2> QED
    BY <2>1, <2>3, <2>4, SameStep
<1>2. CASE StartAgent
  <2>1. /\ mail_box # <<>> /\ Msg.type = "start-agent" /\ starting = {} /\ mail_box' = Tail(mail_box)
        /\ sched = "up" /\ UNCHANGED <<starting, sched, chan, agents>>
    BY <1>2 DEF StartAgent, Handles, Takes, Msg, MatchFrame
  <2> PICK a \in Agents : a = Msg.agt
    BY <2>1, MsgType, MsgFields DEF Types
  <2>2. starting' = {} /\ starting' \subseteq Agents
    BY <2>1
  <2>3. a \in AbstractAsked /\ AbstractAsked' \in {AbstractAsked, AbstractAsked \ {a}}
    BY <2>1, <2>2, AskedTake
  <2>4. Inbox' = Inbox
    BY <2>1 DEF Inbox, Channels
  <2>5. Exec(a, is_running, number_running, number_ips[a], TRUE)
    BY <1>2 DEF StartAgent
  <2> QED
    BY <2>1, <2>3, <2>4, <2>5, StartStep
<1>3. CASE StartNext
  <2> PICK a \in starting : /\ Exec(a, is_running, number_running, number_ips[a], TRUE)
                            /\ starting' = starting \ {a}
    BY <1>3 DEF StartNext
  <2>1. sched = "up" /\ UNCHANGED <<sched, chan, agents, mail_box>> /\ a \in Agents
    BY <1>3 DEF StartNext, MatchFrame, Types, TableType
  <2>2. a \in AbstractAsked /\ AbstractAsked' \in {AbstractAsked, AbstractAsked \ {a}}
    BY <2>1, AskedNext
  <2>3. Inbox' = Inbox
    BY <2>1 DEF Inbox, Channels
  <2> QED
    BY <2>1, <2>2, <2>3, StartStep
<1> QED
  BY <1>1, <1>2, <1>3

\* The edits, the messages from outside and the exceptions.
LEMMA EditStep ==
  ASSUME Types, ChanNames, MadeWithin, StartsKnown, ~Strayed',
         \/ AddAgent \/ RemoveAgent \/ Connect \/ RawConnect \/ Disconnect \/ ConnectToArray
         \/ DisconnectToArray \/ Mesg \/ DecIp \/ Stop \/ Raise
  PROVE  AbstractStep
<1>1. /\ mail_box # <<>> /\ starting = {} /\ sched = "up" /\ mail_box' = Tail(mail_box)
      /\ \E type : Takes(type)
      /\ UNCHANGED <<starting, is_running>>
  <2>1. CASE DecIp
    <3>1. \E type : Takes(type)
      BY <2>1 DEF DecIp, Meets, Handles
    <3> QED
      BY <2>1, <3>1, NoticeTaken, OwnNotice
  <2>2. CASE ~DecIp
    BY <2>2 DEF AddAgent, RemoveAgent, Connect, RawConnect, Disconnect, ConnectToArray,
       DisconnectToArray, Mesg, Stop, Raise, Handles, Takes, Edits, table
  <2> QED
    BY <2>1, <2>2
<1>2. sched' = sched \/ (Raise /\ sched' = "dead")
  BY DEF AddAgent, RemoveAgent, Connect, RawConnect, Disconnect, ConnectToArray,
         DisconnectToArray, Mesg, DecIp, Stop, Raise, Edits, MatchFrame
<1>3. Msg.type \notin {"start", "start-agent"}
  <2>1. CASE Raise
    <3>1. CASE Msg.type = "start-agent"
      BY <1>1, <2>1, <3>1 DEF Raise, StartsKnown, Names, Notice
    <3>2. CASE Msg.type = "start"
      BY <2>1, <3>2 DEF Raise, Names, Notice
    <3> QED
      BY <3>1, <3>2
  <2>2. CASE DecIp
    BY <2>2, NoticeTaken
  <2> QED
    BY <2>1, <2>2 DEF AddAgent, RemoveAgent, Connect, RawConnect, Disconnect, ConnectToArray,
         DisconnectToArray, Mesg, Stop, Handles, Takes, Msg
<1>4. \/ Msg.type \notin {"add-agent", "remove-agent"} /\ agents' = agents
      \/ Msg.type = "add-agent" /\ agents' = Others(Msg.agt) \cup {Msg.agt}
      \/ Msg.type = "remove-agent" /\ agents' = Others(Msg.agt)
  <2>1. CASE Raise
    BY <2>1 DEF Raise, Names, Notice, table
  <2>2. CASE DecIp
    BY <2>2, NoticeTaken
  <2>3. CASE AddAgent \/ RemoveAgent
    BY <2>3 DEF AddAgent, RemoveAgent, Handles, Takes, Msg
  <2> QED
    BY <2>1, <2>2, <2>3 DEF Connect, RawConnect, Disconnect, ConnectToArray,
         DisconnectToArray, Mesg, Stop, Handles, Takes, Msg, table
<1>5. CASE Inbox' = Inbox
  BY <1>1, <1>2, <1>3, <1>4, <1>5, TakeStep
<1>6. CASE Mesg
  <2>1. Msg.type = "mesg" /\ sched' = sched
    BY <1>6 DEF Mesg, Handles, Takes, Msg
  <2> PICK c \in Channels : c = Simple(Msg.in)
    BY <1>1, <2>1, MsgType, MsgFields DEF Types, ChanType
  <2>2. Len(chan[c]) < Capacity /\ chan' = [chan EXCEPT ![c] = Append(@, Msg.msg)]
    BY <1>6 DEF Mesg
  <2>3. AbstractAsked' = AbstractAsked
    <3>1. starting' = {} /\ starting' \subseteq Agents
      BY <1>1
    <3> QED
      BY <1>1, <1>3, <1>4, <3>1, AskedTake
  <2> QED
    BY <1>1, <2>1, <2>2, <2>3, DeliverStep
<1>7. CASE ~Mesg
  <2>1. CASE UNCHANGED chan
    BY <1>5, <2>1 DEF Inbox, Channels
  <2>2. CASE ConnectToArray /\ chan' # chan
    <3>1. /\ Msg.type = "connect-to-array" /\ in_array[Msg.in] = Gone
          /\ chan' = [d \in Channels \cup {Entered(Msg.in).port} |->
                        IF d = Entered(Msg.in).port THEN <<>> ELSE chan[d]]
      BY <2>2 DEF ConnectToArray, Handles, Takes, Msg
    <3>2. Msg.in \in Elements
      BY <1>1, <3>1, MsgType, MsgFields DEF Types
    <3>3. Entered(Msg.in).port = <<Msg.in, made[Msg.in] + 1>> /\ made[Msg.in] \in Nat
      BY <3>1, <3>2 DEF Entered, Types, ChanType
    <3>4. Entered(Msg.in).port \notin Channels
      <4>1. \A c \in Channels : c[1] = Msg.in => c[2] <= made[Msg.in] /\ c[2] \in Nat
        BY <3>2 DEF Types, ChanType
      <4> QED
        BY <3>3, <4>1
    <3> QED
      BY <1>5, <3>1, <3>4, InboxNew
  <2> QED
    BY <1>7, <2>1, <2>2 DEF AddAgent, RemoveAgent, Connect, RawConnect, Disconnect,
       DisconnectToArray, DecIp, Stop, Raise, Edits, MatchFrame
<1> QED
  BY <1>6, <1>7

\* The scheduler's thread stops when there is nothing left to run.
LEMMA LoopEndsStep ==
  ASSUME Inv, RefInv, sched # "dead", MadeWithin, LoopEnds, ~Strayed
  PROVE  AbstractStep
<1>0. Types /\ RunsMarked /\ OwesInv /\ DecsFirst /\ ChanNames /\ Counted
  BY DEF RefInv, RunsCounted, SafeRuns
<1>1. /\ sched = "up" /\ owes["sched"] = None /\ starting = {} /\ mail_box = <<>>
      /\ number_running = 0 /\ sched' = "stopped"
      /\ UNCHANGED <<starting, mail_box, agents, is_running, chan>>
  BY DEF LoopEnds, MayStop, table
<1>2. is_running = {}
  <2>1. IsFiniteSet(is_running) /\ Cardinality(is_running) = 0
    BY <1>0, <1>1, AgentsAssumption, FS_Subset DEF Types, TableType, Counted
  <2> QED
    BY <2>1, FS_EmptySet
<1>3. AbstractAsked = {} /\ AbstractAsked' = AbstractAsked
  <2>1. \A m : Positions(mail_box, m) = {}
    BY <1>1 DEF Positions
  <2>2. AbstractAsked = {}
    BY <1>1, <2>1 DEF AbstractAsked
  <2> QED
    BY <1>1, <2>2 DEF AbstractAsked, StartedAt, ThereAt, Positions
<1>4. ASSUME NEW a \in Agents PROVE ~Abstract!HasWork(a)
  <2>1. Count(mail_box, Dec(a)) = 0 /\ Owed(Dec(a)) = 0 /\ a \notin is_running
    BY <1>0, <1>2, NoDecs
  <2>2. Count(mail_box, Inc(a)) = 0
    BY <1>1, CountEmpty
  <2>3. pc[a] = "idle" /\ todo[a] = <<>>
    BY <1>0, <1>2 DEF RunsMarked, Types, RunType, Strayed
  <2>4. Announced(a) = 0
    BY <2>3 DEF Announced
  <2>5. Owed(Inc(a)) = 0
    <3>1. \A t \in DOMAIN owes : owes[t] = None
      BY <1>0, <1>1, <1>2 DEF OwesInv, RunsMarked, Types, QueueType, Strayed
    <3>2. Inc(a) # None
      BY ValuesAssumption DEF Inc, Notice
    <3>3. {t \in DOMAIN owes : owes[t] = Inc(a)} = {}
      BY <3>1, <3>2
    <3> QED
      BY <3>3, FS_EmptySet DEF Owed
  <2>6. number_ips[a] <= 0
    BY <2>1 DEF Inv, Rested, Strayed
  <2>7. number_ips[a] + Count(mail_box, Inc(a)) + Owed(Inc(a)) + Announced(a)
          = Queued(a) + missed[a] + strays[a] + Count(mail_box, Dec(a)) + Owed(Dec(a))
        /\ strays[a] = 0
    BY DEF Inv, Balanced, Balance, Strangers, Strayed
  <2>8. ~(Queued(a) > 0)
    <3>1. number_ips[a] \in Int /\ missed[a] \in Nat /\ Queued(a) \in Nat
      BY <1>0, NumbersOf
    <3> QED
      BY ONLY <2>1, <2>2, <2>4, <2>5, <2>6, <2>7, <3>1
  <2> QED
    BY <1>0, <2>8, WorkIsQueued
<1>5. Inbox' = Inbox
  BY <1>1 DEF Inbox, Channels
<1>6. Abstract!Finish
  BY <1>1, <1>2, <1>3, <1>4, <1>5 DEF Abstract!Finish, Abstract!Quiet
<1> QED
  BY <1>6 DEF AbstractStep, Abstract!Next

LEMMA ClientStep ==
  ASSUME Types, Client
  PROVE  AbstractStep
<1>1. CASE ClientPosts
  <2>1. Head(script) \in SchedMsg /\ Post(Head(script))
        /\ UNCHANGED <<agents, starting, is_running, sched, chan>>
    <3>1. Head(script) \in ClientMsg
      BY <1>1 DEF ClientPosts, Types, QueueType
    <3> QED
      BY <1>1, <3>1 DEF ClientPosts, SchedMsg, table
  <2>2. AbstractAsked \subseteq AbstractAsked'
    BY <2>1, AskedPost
  <2>3. AbstractAsked' \in SUBSET Agents
    <3>1. starting' \subseteq Agents
      BY <2>1 DEF Types, TableType
    <3> QED
      BY <3>1, AgentsAssumption DEF AbstractAsked, StartedAt
  <2>4. Inbox' = Inbox
    BY <2>1 DEF Inbox, Channels
  <2>5. Abstract!Ask(AbstractAsked')
    BY <2>1, <2>2, <2>4 DEF Abstract!Ask
  <2> QED
    BY <2>3, <2>5 DEF AbstractStep, Abstract!Next
<1>2. CASE ClientReturns
  <2>1. UNCHANGED <<agents, starting, is_running, sched, chan, mail_box>>
    BY <1>2 DEF ClientReturns, table
  <2>2. Inbox' = Inbox /\ AbstractAsked' = AbstractAsked
    BY <2>1 DEF Inbox, Channels, AbstractAsked, StartedAt, ThereAt, Positions
  <2> QED
    BY <2>1, <2>2, SameStep
<1> QED
  BY <1>1, <1>2 DEF Client

LEMMA StepRefines ==
  IInv /\ RefInv /\ MadeWithin /\ StartsKnown /\ [Next]_vars =>
    [Abstract!Next \/ Missed' \/ Strayed']_Abstract!vars
<1> SUFFICES ASSUME IInv, RefInv, MadeWithin, StartsKnown, [Next]_vars, ~Strayed' PROVE AbstractStep
  BY DEF AbstractStep
<1>0. Types /\ SafeRuns /\ ChanNames /\ ~Strayed
  BY StaysStrayed DEF RefInv, SafeRuns
<1>1. CASE UNCHANGED vars
  <2>1. UNCHANGED <<agents, starting, is_running, sched, chan, mail_box>>
    BY <1>1 DEF vars, table
  <2>2. Inbox' = Inbox /\ AbstractAsked' = AbstractAsked
    BY <2>1 DEF Inbox, Channels, AbstractAsked, StartedAt, ThereAt, Positions
  <2> QED
    BY <2>1, <2>2, SameStep
<1>2. CASE Client
  BY <1>0, <1>2, ClientStep
<1>3. CASE \E a \in Agents : Thread(a)
  BY <1>0, <1>3, ThreadStep
<1>4. CASE Notify("sched")
  <2>1. AbstractAsked' = AbstractAsked /\ UNCHANGED <<is_running, sched>>
    BY <1>0, <1>4, ThreadAsked
  <2>2. Inbox' = Inbox
    BY <1>4 DEF Notify, Inbox, Channels
  <2> QED
    BY <2>1, <2>2, SameStep
<1>5. CASE Start \/ StartAgent \/ StartNext
  BY <1>0, <1>5, StartsStep
<1>6. CASE IncIp \/ HandleRunEnd \/ LoopEnds
  <2>1. sched # "dead"
    BY <1>6 DEF IncIp, HandleRunEnd, RunEnds, Meets, LoopEnds, Handles, Takes
  <2>2. Inv
    BY <2>1 DEF IInv
  <2> QED
    BY <1>0, <1>6, <2>1, <2>2, IncStep, RunEndStep, LoopEndsStep
<1>7. CASE \/ AddAgent \/ RemoveAgent \/ Connect \/ RawConnect \/ Disconnect \/ ConnectToArray
           \/ DisconnectToArray \/ Mesg \/ DecIp \/ Stop \/ Raise
  BY <1>0, <1>7, EditStep
<1> QED
  BY <1>1, <1>2, <1>3, <1>4, <1>5, <1>6, <1>7 DEF Next, Scheduler

\* Every step is one of a scheduler as Dataflow has it, until try-recv takes a
\* message #f or an agent takes a notice of an earlier one of its name, as long as
\* the agents that are started are in the table: the messages of the mailbox, the
\* two threads of a send and the runs that begin again inside msg-run-end add up to
\* the abstract steps.
THEOREM RacketRefinesDataflow ==
  Spec /\ []MadeWithin /\ []StartsKnown => StepsAreDataflow
<1>1. Init => Abstract!Init
  <2> SUFFICES ASSUME Init PROVE Abstract!Init
    OBVIOUS
  <2>1. Inbox = [c \in Places0 |-> 0]
    BY DEF Init, Inbox, Channels
  <2>2. AbstractAsked = {} /\ is_running = {} /\ (sched = "stopped") = FALSE
    BY DEF Init, AbstractAsked, Positions
  <2> QED
    BY <2>1, <2>2 DEF Abstract!Init
<1> QED
  BY <1>1, StepRefines, Invariance, RefInvariance, PTL DEF Spec, StepsAreDataflow
=============================================================================
