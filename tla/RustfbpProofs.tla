---------------------------- MODULE RustfbpProofs ----------------------------
(***************************************************************************)
(* Proofs about module Rustfbp, for every set of agents, every wiring,     *)
(* every capacity and pool size, and every behaviour of the agents: no     *)
(* message and no wakeup is lost from the scheduler's account, boxes and   *)
(* wires are kept, nothing is run for nothing, the end is quiet, and the   *)
(* steps are those of Dataflow.                                            *)
(***************************************************************************)
EXTENDS RustfbpProps, CountingProofs

-----------------------------------------------------------------------------
(* Type correctness.                                                        *)

\* The initial values have their types.
LEMMA InitType == Init => TypeOK
<1> SUFFICES ASSUME Init PROVE TypeOK
  OBVIOUS
<1>1. StateType /\ QueueType
  <2>1. <<>> \in Seq(EditCmp) /\ <<>> \in Seq(CompMsg) /\ <<>> \in Seq(Agents)
    OBVIOUS
  <2>2. QueueType
    BY <2>1 DEF Init, QueueType
  <2>3. ips \in [Agents -> Int] /\ edit_msgs \in [Agents -> Seq(EditCmp)]
    BY <2>1 DEF Init
  <2>4. StateType
    BY <2>3 DEF Init, StateType
  <2> QED
    BY <2>2, <2>4
<1> PICK s \in Scripts : todo = [t \in Threads |-> IF t \in Agents THEN <<>> ELSE s[t]]
  BY DEF Init
<1>2. ASSUME NEW t \in Threads PROVE todo[t] \in Seq(OpsOf(t))
  <2>1. CASE t \in Agents
    BY <2>1 DEF OpsOf
  <2>2. CASE t \notin Agents
    <3>1. s[t] \in Seq(ClientOp)
      BY <2>2, ProgramAssumption DEF Threads
    <3> QED
      BY <2>2, <3>1 DEF OpsOf
  <2> QED
    BY <2>1, <2>2
<1>3. RunType
  BY <1>2 DEF Init, RunType, Results
<1>4. PortType
  BY WiringAssumption, SizeAssumption DEF Init, PortType
<1> QED
  BY <1>1, <1>3, <1>4 DEF TypeOK

\* The next operation of a thread is one of its kind.
LEMMA OpType ==
  ASSUME RunType, NEW t \in Threads, todo[t] # <<>>
  PROVE  Op(t) \in OpsOf(t) /\ Tail(todo[t]) \in Seq(OpsOf(t))
  BY DEF RunType, Op

\* Popping or cutting the operations of a thread keeps their type.
LEMMA TodoType ==
  ASSUME RunType, NEW t \in Threads, NEW rest \in Seq(OpsOf(t)),
         todo' = [todo EXCEPT ![t] = rest]
  PROVE  DOMAIN todo' = Threads /\ \A u \in Threads : todo'[u] \in Seq(OpsOf(u))
  BY DEF RunType

\* An error leaves the thread a suffix of its operations, or none.
LEMMA ErrsType ==
  ASSUME RunType, NEW t \in Threads, NEW rest \in Seq(OpsOf(t)), Errs(t, rest)
  PROVE  /\ DOMAIN todo' = Threads /\ \A u \in Threads : todo'[u] \in Seq(OpsOf(u))
         /\ res' \in [Threads -> Results]
<1>1. <<>> \in Seq(OpsOf(t))
  OBVIOUS
<1>2. res' \in [Threads -> Results]
  BY DEF Errs, RunType, Results
<1> QED
  BY <1>1, <1>2, TodoType DEF Errs

\* The port that a send reaches is an input port, when it is connected.
LEMMA TargetType ==
  ASSUME TypeOK, NEW t \in Threads, todo[t] # <<>>, Op(t).op = "send"
  PROVE  Target(t) \in InPorts \cup {None}
<1>1. CASE t \in Agents
  <2>1. Op(t) \in AgentOp
    BY <1>1, OpType DEF TypeOK, OpsOf
  <2>2. Op(t).port \in OutPorts
    BY <2>1 DEF AgentOp
  <2> QED
    BY <1>1, <2>2 DEF Target, TypeOK, PortType
<1>2. CASE t \notin Agents
  <2>1. Op(t) \in ClientOp
    BY <1>2, OpType DEF TypeOK, OpsOf
  <2>2. Op(t).port \in InPorts
    BY <2>1 DEF ClientOp
  <2> QED
    BY <1>2, <2>2 DEF Target
<1> QED
  BY <1>1, <1>2

\* What a run reads comes from a channel of its agent, whose receiver it was handed.
LEMMA GetPort ==
  ASSUME RunType, PortType, NEW a \in Agents, Get(a)
  PROVE  \E p \in InPorts :
           /\ p \in attached /\ Owner[p] = a /\ chan[p] > 0
           /\ chan' = [chan EXCEPT ![p] = @ - 1]
           /\ owes' = [owes EXCEPT ![a] = DecDue(p)]
<1>1. PICK q \in InPorts : q = Op(a).port /\ Owner[q] = a
  <2>1. a \in Threads /\ todo[a] # <<>> /\ Op(a).op # "send"
    BY DEF Threads, Get, Ready
  <2> QED
    BY <2>1, OpType DEF OpsOf, AgentOp
<1>2. PICK p \in Receivers(q) : /\ chan[p] > 0
                                /\ chan' = [chan EXCEPT ![p] = @ - 1]
                                /\ owes' = [owes EXCEPT ![a] = DecDue(p)]
  BY <1>1 DEF Get
<1>3. p \in attached /\ p \in InPorts /\ Slot[p] = Slot[q]
  BY <1>2 DEF Receivers, PortType
<1>4. Owner[p] = a
  BY <1>1, <1>3, SlotAssumption
<1> QED
  BY <1>2, <1>3, <1>4

\* A thread's step keeps every type.
LEMMA ThreadType ==
  ASSUME TypeOK, NEW t \in Threads,
         \/ Put(t) \/ PutFails(t) \/ Notify(t)
         \/ t \in Agents /\ (Get(t) \/ GetFails(t) \/ EndRun(t))
  PROVE  TypeOK'
<1> USE DEF TypeOK
<1>1. CASE Put(t)
  <2> DEFINE p == Target(t)
  <2>1. p \in InPorts
    BY <1>1, TargetType DEF Put, Ready
  <2>2. IncDue(p) \in Notice \cup {None}
    BY <2>1, WiringAssumption DEF IncDue, Inc, Notice
  <2>3. chan' \in [InPorts -> 0..Capacity]
    BY <1>1, <2>1, SizeAssumption DEF Put, PortType, HasRoom
  <2>4. StateType' /\ QueueType' /\ PortType'
    BY <1>1, <2>3 DEF Put, StateType, QueueType, PortType, stateVars, apiVars
  <2>5. owes' \in [Threads -> Notice \cup {None}]
    BY <1>1, <2>2 DEF Put, RunType
  <2>6. RunType'
    BY <1>1, <2>5, OpType, TodoType DEF Put, Ready, Pop, RunType
  <2> QED
    BY <2>4, <2>6
<1>2. CASE PutFails(t)
  <2>1. StateType' /\ QueueType' /\ PortType'
    BY <1>2 DEF PutFails, StateType, QueueType, PortType, stateVars, apiVars
  <2>2. RunType'
    BY <1>2, OpType, ErrsType DEF PutFails, Ready, RunType
  <2> QED
    BY <2>1, <2>2
<1>3. CASE Notify(t)
  <2>1. owes[t] \in CompMsg
    BY <1>3 DEF Notify, RunType, CompMsg
  <2>2. StateType' /\ QueueType' /\ PortType'
    <3>1. StateType' /\ PortType'
      BY <1>3 DEF Notify, StateType, PortType, stateVars, apiVars
    <3>2. mailbox' \in Seq(CompMsg)
      BY <1>3, <2>1 DEF Notify, QueueType
    <3> QED
      BY <1>3, <3>1, <3>2 DEF Notify, QueueType
  <2>3. todo[t] \in Seq(OpsOf(t)) /\ owes' \in [Threads -> Notice \cup {None}]
    BY <1>3 DEF Notify, RunType
  <2>4. RunType'
    BY <1>3, <2>3, ErrsType DEF Notify, RunType
  <2> QED
    BY <2>2, <2>4
<1>4. CASE t \in Agents /\ Get(t)
  <2>1. PICK p \in InPorts : /\ chan[p] > 0 /\ chan' = [chan EXCEPT ![p] = @ - 1]
                              /\ owes' = [owes EXCEPT ![t] = DecDue(p)]
    BY <1>4, GetPort
  <2>2. DecDue(p) \in Notice \cup {None}
    BY <2>1, WiringAssumption DEF DecDue, Dec, Notice
  <2>3. chan' \in [InPorts -> 0..Capacity]
    BY <2>1, SizeAssumption DEF PortType
  <2>4. StateType' /\ QueueType' /\ PortType'
    BY <1>4, <2>3 DEF Get, StateType, QueueType, PortType, stateVars, apiVars
  <2>5. owes' \in [Threads -> Notice \cup {None}]
    BY <2>1, <2>2 DEF RunType
  <2>6. RunType'
    BY <1>4, <2>5, OpType, TodoType DEF Get, Ready, Pop, RunType
  <2> QED
    BY <2>4, <2>6
<1>5. CASE t \in Agents /\ GetFails(t)
  <2>1. StateType' /\ QueueType' /\ PortType'
    BY <1>5 DEF GetFails, StateType, QueueType, PortType, stateVars, apiVars
  <2>2. RunType'
    BY <1>5, OpType, ErrsType DEF GetFails, Ready, RunType
  <2> QED
    BY <2>1, <2>2
<1>6. CASE t \in Agents /\ EndRun(t)
  <2>1. res[t] # "panic" => RunEnd(t, res[t]) \in CompMsg
    BY <1>6 DEF RunEnd, RunType, CompMsg, Results
  <2>2. StateType' /\ QueueType' /\ PortType'
    <3>1. StateType' /\ PortType'
      BY <1>6 DEF EndRun, StateType, PortType, stateVars, apiVars
    <3>2. mailbox' \in Seq(CompMsg)
      BY <1>6, <2>1 DEF EndRun, QueueType
    <3> QED
      BY <1>6, <3>1, <3>2 DEF EndRun, QueueType
  <2>3. RunType'
    BY <1>6 DEF EndRun, RunType
  <2> QED
    BY <2>2, <2>3
<1> QED
  BY <1>1, <1>2, <1>3, <1>4, <1>5, <1>6

-----------------------------------------------------------------------------
(* The calls of the exterior API have one shape.                            *)

\* At most one message is sent, about agents the owner knows.
ApiCall ==
  /\ sched = "up" /\ UNCHANGED sched
  /\ UNCHANGED <<stateVars, pool, res, owes, chan, conn, attached, dropped, lost>>
  /\ unlisted' \subseteq unlisted \cup InPorts
  /\ \A a \in Agents : pc'[a] = pc[a]
  /\ \/ UNCHANGED <<mailbox, apiVars>>
     \/ \E a \in Agents \ known :
          /\ mailbox' = Append(mailbox, NewAgent(a))
          /\ known' = known \cup {a}
          /\ senders' = senders \cup {p \in InPorts \ Elements : Owner[p] = a}
     \/ \E a \in known : mailbox' = Append(mailbox, Start(a)) /\ UNCHANGED apiVars
     \/ \E a \in known, e \in EditCmp :
          /\ e.kind = "connect" => e.to \in senders /\ From[e.port] = a
          /\ e.kind = "unimplemented"
               => \E c \in Clients : todo[c] # <<>> /\ Op(c).op = "disconnect"
          /\ mailbox' = Append(mailbox, Edit(a, e))
          /\ UNCHANGED known
          /\ e.kind # "element" => UNCHANGED senders
          /\ e.kind = "element" => /\ a = Owner[e.port] /\ e.port \in Elements \ senders
                                   /\ senders' = senders \cup {e.port}
     \/ mailbox' = Append(mailbox, HaltState) /\ UNCHANGED apiVars

ApiStep(c) ==
  \/ AddNode(c) \/ StartAgent(c) \/ Connect(c) \/ AddElement(c) \/ SetReceiver(c)
  \/ Disconnect(c) \/ BadReceiver(c) \/ Join(c)

\* Popping an operation keeps the types of the threads' states.
LEMMA ApiRunType ==
  ASSUME RunType, NEW c \in Clients, todo[c] # <<>>, Pop(c), UNCHANGED <<res, owes>>,
         pc' = pc \/ pc' = [pc EXCEPT ![c] = "joining"]
  PROVE  RunType' /\ \A a \in Agents : pc'[a] = pc[a]
<1>1. c \in Threads /\ \A a \in Agents : a # c /\ a \in Threads
  BY SetsAssumption DEF Threads
<1>2. DOMAIN todo' = Threads /\ \A u \in Threads : todo'[u] \in Seq(OpsOf(u))
  BY <1>1, OpType, TodoType DEF Pop
<1> QED
  BY <1>1, <1>2 DEF RunType

\* Every call of the API has that shape.
LEMMA ApiStepIsCall ==
  ASSUME TypeOK, NEW c \in Clients, ApiStep(c)
  PROVE  ApiCall /\ RunType'
<1> USE DEF TypeOK, Calls, Ready, Send, ApiFrame
<1>1. Op(c) \in ClientOp
  <2>1. todo[c] # <<>> /\ c \in Threads /\ c \notin Agents
    BY SetsAssumption
       DEF ApiStep, AddNode, StartAgent, Connect, AddElement, SetReceiver, HandReceiver, Disconnect,
           BadReceiver, Join, Threads
  <2> QED
    BY <2>1, OpType DEF OpsOf
<1>2. CASE AddNode(c)
  <2>1. Op(c).agent \in Agents
    BY <1>1, <1>2 DEF AddNode, ClientOp
  <2>2. RunType' /\ \A a \in Agents : pc'[a] = pc[a]
    BY <1>2, ApiRunType DEF AddNode
  <2> QED
    BY <1>2, <2>1, <2>2 DEF AddNode, ApiCall
<1>3. CASE StartAgent(c)
  <2>1. Op(c).agent \in Agents
    BY <1>1, <1>3 DEF StartAgent, ClientOp
  <2>2. RunType' /\ \A a \in Agents : pc'[a] = pc[a]
    BY <1>3, ApiRunType DEF StartAgent
  <2> QED
    BY <1>3, <2>1, <2>2 DEF StartAgent, ApiCall, IsKnown, apiVars
<1>4. CASE Connect(c)
  <2> DEFINE e == [kind |-> "connect", port |-> Op(c).port, to |-> Op(c).to]
  <2>1. e \in EditCmp
    BY <1>1, <1>4 DEF Connect, ClientOp, EditCmp
  <2>2. e.to = Op(c).to /\ e.port = Op(c).port /\ e.kind = "connect"
    OBVIOUS
  <2>3. RunType' /\ \A a \in Agents : pc'[a] = pc[a]
    BY <1>4, ApiRunType DEF Connect
  <2>4. CASE mailbox' = Append(mailbox, Edit(From[Op(c).port], e))
             /\ IsKnown(From[Op(c).port]) /\ Op(c).to \in senders
    <3> HIDE DEF e
    <3> QED
      BY <1>4, <2>1, <2>2, <2>3, <2>4 DEF Connect, ApiCall, IsKnown, apiVars
  <2>5. CASE UNCHANGED mailbox
    BY <1>4, <2>3, <2>5 DEF Connect, ApiCall, apiVars
  <2> QED
    BY <1>4, <2>4, <2>5 DEF Connect
<1>5. CASE AddElement(c) \/ SetReceiver(c)
  <2> DEFINE e == [kind |-> "element", port |-> Op(c).port]
  <2>1. Op(c).port \in Elements /\ Op(c).port \in InPorts /\ e \in EditCmp
    BY <1>1, <1>5, WiringAssumption DEF AddElement, SetReceiver, ClientOp, EditCmp
  <2>2. e.kind = "element" /\ e.port = Op(c).port
    OBVIOUS
  <2>3. RunType' /\ \A a \in Agents : pc'[a] = pc[a]
    BY <1>5, ApiRunType DEF AddElement, SetReceiver
  <2>4. unlisted' \subseteq unlisted \cup InPorts
    BY <1>5, <2>1 DEF AddElement, SetReceiver, Listed, PortType
  <2>5. CASE IsKnown(Owner[Op(c).port]) /\ HandReceiver(Op(c).port)
    <3> HIDE DEF e
    <3>1. /\ mailbox' = Append(mailbox, Edit(Owner[Op(c).port], e))
          /\ senders' = senders \cup {Op(c).port} /\ Op(c).port \notin senders
      BY <2>5 DEF HandReceiver, e
    <3> QED
      BY <1>5, <2>1, <2>2, <2>3, <2>4, <2>5, <3>1
         DEF AddElement, SetReceiver, ApiCall, IsKnown
  <2>6. CASE UNCHANGED <<mailbox, senders, unlisted>>
    BY <1>5, <2>3, <2>4, <2>6 DEF AddElement, SetReceiver, ApiCall, apiVars
  <2> QED
    BY <1>5, <2>5, <2>6 DEF AddElement, SetReceiver
<1>6. CASE Disconnect(c)
  <2>1. [kind |-> "unimplemented"] \in EditCmp
    BY DEF EditCmp
  <2> QED
    BY <1>6, <2>1, ApiRunType DEF Disconnect, ApiCall, IsKnown, apiVars
<1>7. CASE BadReceiver(c)
  <2>1. [kind |-> "unknown_port"] \in EditCmp
    BY DEF EditCmp
  <2> QED
    BY <1>7, <2>1, ApiRunType DEF BadReceiver, ApiCall, IsKnown, apiVars
<1>8. CASE Join(c)
  BY <1>8, ApiRunType DEF Join, ApiCall, apiVars
<1> QED
  BY <1>2, <1>3, <1>4, <1>5, <1>6, <1>7, <1>8 DEF ApiStep

\* What a call of the API sends.
LEMMA ApiMail ==
  ASSUME ApiCall
  PROVE  \/ UNCHANGED mailbox
         \/ \E a \in known : mailbox' = Append(mailbox, Start(a))
         \/ \E a : mailbox' = Append(mailbox, NewAgent(a))
         \/ \E a, e : mailbox' = Append(mailbox, Edit(a, e))
         \/ mailbox' = Append(mailbox, HaltState)
  BY DEF ApiCall

\* A call of the API keeps every type.
LEMMA ApiType ==
  ASSUME TypeOK, ApiCall, RunType'
  PROVE  TypeOK'
<1> USE DEF TypeOK
<1>1. StateType'
  BY DEF ApiCall, StateType, stateVars
<1>2. PortType'
  BY WiringAssumption DEF ApiCall, PortType, apiVars
<1>3. mailbox' \in Seq(CompMsg)
  <2>1. \A a \in Agents : NewAgent(a) \in CompMsg /\ Start(a) \in CompMsg
    BY DEF NewAgent, Start, CompMsg
  <2>2. \A a \in Agents, e \in EditCmp : Edit(a, e) \in CompMsg
    BY DEF Edit, CompMsg
  <2>3. HaltState \in CompMsg
    BY DEF HaltState, CompMsg
  <2>4. mailbox' = mailbox \/ \E m \in CompMsg : mailbox' = Append(mailbox, m)
    BY <2>1, <2>2, <2>3 DEF ApiCall, PortType
  <2> QED
    BY <2>4 DEF QueueType
<1> QED
  BY <1>1, <1>2, <1>3 DEF ApiCall, QueueType

-----------------------------------------------------------------------------
(* The steps of the scheduler, by what they do with a message.              *)

\* A message the scheduler takes leaves the mailbox; Halt may enter it.
LEMMA TakeType ==
  ASSUME QueueType, mailbox # <<>>,
         mailbox' = Tail(mailbox) \/ mailbox' = Append(Tail(mailbox), Halt)
  PROVE  mailbox' \in Seq(CompMsg)
<1>1. Halt \in CompMsg
  BY DEF Halt, CompMsg
<1>2. Tail(mailbox) \in Seq(CompMsg)
  BY DEF QueueType
<1> QED
  BY <1>1, <1>2

\* fn run keeps every type.
LEMMA RunKeepsType ==
  ASSUME TypeOK, NEW a \in agents, Run(a)
  PROVE  /\ home' \subseteq agents /\ is_run' \subseteq agents
         /\ running' \in Nat /\ pool' \in Seq(Agents)
         /\ pc' \in [Threads -> {"idle", "queued", "run", "joining", "joined", "panicked"}]
  BY DEF TypeOK, StateType, QueueType, RunType, Run, Threads

\* is_run is finite, and empty when its count is zero.
LEMMA IsRunFinite ==
  ASSUME StateType
  PROVE  /\ IsFiniteSet(is_run) /\ Cardinality(is_run) \in Nat
         /\ Cardinality(is_run) = 0 <=> is_run = {}
<1>1. IsFiniteSet(is_run)
  BY SetsAssumption, FS_Subset DEF StateType
<1> QED
  BY <1>1, FS_CardinalityType, FS_EmptySet

\* The edits kept during a run leave the wiring and the receivers typed.
LEMMA ApplyAllType ==
  ASSUME PortType, NEW es \in Seq(EditCmp), ApplyAll(es)
  PROVE  /\ conn' \in [OutPorts -> InPorts \cup {None}]
         /\ attached' \subseteq InPorts /\ dropped' \subseteq InPorts
<1> DEFINE Connects(o) == {j \in 1..Len(es) : es[j].kind = "connect" /\ es[j].port = o}
<1>1. ASSUME NEW o \in OutPorts, Connects(o) # {}
      PROVE  es[Greatest(Connects(o))].to \in InPorts
  <2>1. Len(es) \in Nat /\ Connects(o) \subseteq 1..Len(es)
    OBVIOUS
  <2>2. Greatest(Connects(o)) \in Connects(o)
    BY <1>1, <2>1, GreatestIsIn
  <2>3. PICK j \in 1..Len(es) : j = Greatest(Connects(o)) /\ es[j].kind = "connect"
    BY <2>2
  <2>4. es[j] \in EditCmp
    BY <2>3
  <2> QED
    BY <2>3, <2>4 DEF EditCmp
<1>2. conn' \in [OutPorts -> InPorts \cup {None}]
  BY <1>1 DEF ApplyAll, PortType
<1>3. ASSUME NEW j \in 1..Len(es), es[j].kind = "element"
      PROVE  es[j].port \in InPorts
  <2>1. es[j] \in EditCmp
    OBVIOUS
  <2> QED
    BY <1>3, <2>1 DEF EditCmp
<1> QED
  BY <1>2, <1>3 DEF ApplyAll, PortType

\* A step of the scheduler keeps every type.
LEMMA SchedType ==
  ASSUME TypeOK, RunningIsCount, SchedStep
  PROVE  TypeOK'
<1> USE DEF TypeOK
<1>1. ASSUME NEW a \in Agents, SchedNewAgent(a)
      PROVE  TypeOK'
  <2>1. mailbox' \in Seq(CompMsg)
    BY <1>1, TakeType DEF SchedNewAgent, Receive
  <2>2. StateType'
    BY <1>1 DEF SchedNewAgent, StateType
  <2> QED
    BY <1>1, <2>1, <2>2 DEF SchedNewAgent, SchedFrame, QueueType, RunType, PortType, apiVars
<1>2. ASSUME NEW a \in Agents, SchedInc(a)
      PROVE  TypeOK'
  <2>1. mailbox' \in Seq(CompMsg)
    BY <1>2, TakeType DEF SchedInc, Receive
  <2>2. ips' \in [Agents -> Int]
    BY <1>2 DEF SchedInc, StateType
  <2>3. CASE Wakes(a)
    <3>1. Run(a) /\ a \in agents
      BY <1>2, <2>3 DEF SchedInc, Wakes
    <3> QED
      BY <1>2, <2>1, <2>2, <3>1, RunKeepsType
      DEF SchedInc, SchedFrame, StateType, QueueType, RunType, PortType, apiVars
  <2>4. CASE ~Wakes(a)
    BY <1>2, <2>1, <2>2, <2>4
    DEF SchedInc, NoRun, SchedFrame, StateType, QueueType, RunType, PortType, apiVars
  <2> QED
    BY <2>3, <2>4
<1>3. ASSUME NEW a \in Agents, SchedDec(a)
      PROVE  TypeOK'
  <2>1. mailbox' \in Seq(CompMsg)
    BY <1>3, TakeType DEF SchedDec, Receive
  <2>2. ips' \in [Agents -> Int]
    BY <1>3 DEF SchedDec, StateType
  <2> QED
    BY <1>3, <2>1, <2>2
    DEF SchedDec, NoRun, SchedFrame, StateType, QueueType, RunType, PortType, apiVars
<1>4. ASSUME NEW a \in Agents, SchedStart(a)
      PROVE  TypeOK'
  <2>1. mailbox' \in Seq(CompMsg)
    BY <1>4, TakeType DEF SchedStart, Receive
  <2>2. can_run' \subseteq Agents /\ a \in agents
    BY <1>4 DEF SchedStart, StateType
  <2>3. CASE a \in home
    BY <1>4, <2>1, <2>2, <2>3, RunKeepsType
    DEF SchedStart, SchedFrame, StateType, QueueType, RunType, PortType, apiVars
  <2>4. CASE a \notin home
    BY <1>4, <2>1, <2>2, <2>4
    DEF SchedStart, NoRun, SchedFrame, StateType, QueueType, RunType, PortType, apiVars
  <2> QED
    BY <2>3, <2>4
<1>5. ASSUME SchedHaltState
      PROVE  TypeOK'
  <2>1. mailbox' \in Seq(CompMsg)
    BY <1>5, TakeType DEF SchedHaltState, Receive
  <2> QED
    BY <1>5, <2>1
    DEF SchedHaltState, NoRun, SchedFrame, StateType, QueueType, RunType, PortType, apiVars
<1>6. ASSUME NEW a \in Agents, NEW e \in EditCmp, SchedEdit(a, e)
      PROVE  TypeOK'
  <2>1. mailbox' \in Seq(CompMsg)
    BY <1>6, TakeType DEF SchedEdit, Receive
  <2>2. edit_msgs' \in [Agents -> Seq(EditCmp)]
    <3>1. Append(edit_msgs[a], e) \in Seq(EditCmp)
      BY DEF StateType
    <3> QED
      BY <1>6, <3>1 DEF SchedEdit, StateType
  <2>3. conn' \in [OutPorts -> InPorts \cup {None}] /\ attached' \subseteq InPorts
        /\ dropped' \subseteq InPorts
    BY <1>6 DEF SchedEdit, Succeeds, Apply, EditCmp, PortType
  <2> QED
    BY <1>6, <2>1, <2>2, <2>3
    DEF SchedEdit, NoRun, SchedFrame, StateType, QueueType, RunType, PortType, apiVars
<1>7. ASSUME NEW a \in Agents, NEW r \in Results, SchedRunEnd(a, r)
      PROVE  TypeOK'
  <2>1. mailbox' \in Seq(CompMsg)
    BY <1>7, TakeType DEF SchedRunEnd, Receive
  <2>2. edit_msgs' \in [Agents -> Seq(EditCmp)]
    BY <1>7 DEF SchedRunEnd, StateType
  <2>3. conn' \in [OutPorts -> InPorts \cup {None}] /\ attached' \subseteq InPorts
        /\ dropped' \subseteq InPorts
    BY <1>7, ApplyAllType DEF SchedRunEnd, StateType
  <2>4. CASE MustRestart(a)
    BY <1>7, <2>1, <2>2, <2>3, <2>4, RunKeepsType
    DEF SchedRunEnd, SchedFrame, StateType, QueueType, RunType, PortType, apiVars
  <2>5. CASE ~MustRestart(a)
    <3>1. a \in is_run => running - 1 \in Nat
      BY IsRunFinite DEF StateType, RunningIsCount
    <3>2. /\ home' \subseteq agents /\ is_run' \subseteq agents /\ running' \in Nat
          /\ UNCHANGED <<pool, pc>>
      BY <1>7, <2>5, <3>1 DEF SchedRunEnd, StateType
    <3> QED
      BY <1>7, <2>1, <2>2, <2>3, <3>2
      DEF SchedRunEnd, SchedFrame, StateType, QueueType, RunType, PortType, apiVars
  <2> QED
    BY <2>4, <2>5
<1>8. ASSUME NEW a \in Agents, NEW r \in Results, SchedRunEndLoses(a, r)
      PROVE  TypeOK'
  <2>1. mailbox' \in Seq(CompMsg)
    BY <1>8, TakeType DEF SchedRunEndLoses, Receive
  <2>2. edit_msgs' \in [Agents -> Seq(EditCmp)]
    BY <1>8 DEF SchedRunEndLoses, StateType
  <2> QED
    BY <1>8, <2>1, <2>2
    DEF SchedRunEndLoses, NoRun, SchedFrame, StateType, QueueType, RunType, PortType, apiVars
<1>9. ASSUME NEW how \in {"halted", "panicked"}, Stop(how)
      PROVE  TypeOK'
  <2>1. mailbox' \in Seq(CompMsg) /\ lost' \subseteq Agents
    BY <1>9 DEF Stop, PortType
  <2> QED
    BY <1>9, <2>1 DEF Stop, SchedFrame, StateType, QueueType, RunType, PortType, apiVars
<1> QED
  BY <1>1, <1>2, <1>3, <1>4, <1>5, <1>6, <1>7, <1>8, <1>9
  DEF SchedStep, SchedHalt, SchedPanics

-----------------------------------------------------------------------------
(* running and is_run.                                                      *)

\* fn run counts an agent when it marks it.
LEMMA RunCounts ==
  ASSUME StateType, RunningIsCount, NEW a \in agents, Run(a)
  PROVE  RunningIsCount'
<1>1. IsFiniteSet(is_run)
  BY IsRunFinite
<1>2. Cardinality(is_run \cup {a}) =
        IF a \in is_run THEN Cardinality(is_run) ELSE Cardinality(is_run) + 1
  BY <1>1, FS_AddElement
<1> QED
  BY <1>2 DEF Run, RunningIsCount

\* Every step of the scheduler keeps running the number of marked agents.
LEMMA SchedCounts ==
  ASSUME TypeOK, RunningIsCount, SchedStep, sched = "up" => KnownInv
  PROVE  RunningIsCount'
<1> USE DEF TypeOK
<1>1. ASSUME NEW a \in Agents, SchedInc(a) \/ SchedStart(a)
      PROVE  RunningIsCount'
  <2>1. (Run(a) /\ a \in agents) \/ NoRun
    BY <1>1 DEF SchedInc, SchedStart, Wakes
  <2> QED
    BY <2>1, RunCounts DEF NoRun, RunningIsCount
<1>2. ASSUME NEW a \in Agents, NEW r \in Results, SchedRunEnd(a, r)
      PROVE  RunningIsCount'
  <2>1. CASE MustRestart(a)
    BY <1>2, <2>1, RunCounts DEF SchedRunEnd
  <2>2. CASE ~MustRestart(a)
    <3>1. IsFiniteSet(is_run)
      BY IsRunFinite
    <3>2. a \in is_run => Cardinality(is_run \ {a}) = Cardinality(is_run) - 1
      BY <3>1, FS_RemoveElement
    <3> QED
      BY <1>2, <2>2, <3>2 DEF SchedRunEnd, RunningIsCount
  <2> QED
    BY <2>1, <2>2
<1>3. ASSUME NEW a \in Agents, SchedNewAgent(a)
      PROVE  RunningIsCount'
  <2>1. Holds(1, NewAgent(a))
    BY <1>3 DEF SchedNewAgent, Receive, Holds, QueueType
  <2>2. a \notin is_run
    BY <1>3, <2>1 DEF SchedNewAgent, Receive, Holds, KnownInv, StateType
  <2> QED
    BY <1>3, <2>2 DEF SchedNewAgent, RunningIsCount
<1>4. ASSUME UNCHANGED <<running, is_run>>
      PROVE  RunningIsCount'
  BY <1>4 DEF RunningIsCount
<1> QED
  BY <1>1, <1>2, <1>3, <1>4
  DEF SchedStep, SchedDec, SchedEdit, SchedRunEndLoses, SchedHaltState, SchedHalt,
      SchedPanics, Stop, NoRun

\* A sequence whose elements are in T is a sequence of T.
LEMMA SeqOfElements ==
  ASSUME NEW S, NEW T, NEW s \in Seq(S), \A i \in 1..Len(s) : s[i] \in T
  PROVE  s \in Seq(T)
  OBVIOUS

\* A worker that takes a job keeps every type.
LEMMA StartJobType ==
  ASSUME TypeOK, StartJob
  PROVE  TypeOK'
<1> USE DEF TypeOK
<1> DEFINE a == Head(pool)
<1>1. a \in Agents /\ a \in Threads /\ pool' \in Seq(Agents)
  BY DEF StartJob, QueueType, Threads
<1>2. PICK b \in Bodies[a] :
        /\ pc' = [pc EXCEPT ![a] = "run"]
        /\ todo' = [todo EXCEPT ![a] = b.ops]
        /\ res' = [res EXCEPT ![a] = b.res]
  BY DEF StartJob
<1>3. b \in Body
  BY <1>1, <1>2, ProgramAssumption
<1>4. b.ops \in Seq(OpsOf(a)) /\ b.res \in Results
  <2>1. b.ops \in Seq(AgentOp) /\ b.res \in Results
    BY <1>3 DEF Body
  <2>2. ASSUME NEW i \in 1..Len(b.ops) PROVE b.ops[i] \in OpsOf(a)
    <3>1. b.ops[i] \in AgentOp
      BY <2>1
    <3>2. IF b.ops[i].op = "send" THEN From[b.ops[i].port] = a ELSE Owner[b.ops[i].port] = a
      BY <1>1, <1>2, ProgramAssumption
    <3> QED
      BY <1>1, <3>1, <3>2 DEF OpsOf
  <2> QED
    BY <2>1, <2>2, SeqOfElements
<1>5. RunType'
  BY <1>1, <1>2, <1>4, TodoType DEF StartJob, RunType
<1> QED
  BY <1>1, <1>5 DEF StartJob, StateType, QueueType, PortType, stateVars, apiVars

\* Every step keeps TypeOK and the count of running agents.
LEMMA NextType ==
  ASSUME TypeOK, RunningIsCount, sched = "up" => KnownInv, [Next]_vars
  PROVE  TypeOK' /\ RunningIsCount'
<1>1. CASE StartJob
  BY <1>1, StartJobType DEF StartJob, RunningIsCount, stateVars
<1>2. ASSUME NEW a \in Agents, AgentStep(a)
      PROVE  TypeOK' /\ RunningIsCount'
  <2>1. a \in Threads
    BY DEF Threads
  <2>2. TypeOK'
    BY <1>2, <2>1, ThreadType DEF AgentStep
  <2>3. UNCHANGED stateVars
    BY <1>2 DEF AgentStep, Put, PutFails, Get, GetFails, Notify, EndRun
  <2> QED
    BY <2>2, <2>3 DEF RunningIsCount, stateVars
<1>3. ASSUME NEW c \in Clients, ClientStep(c)
      PROVE  TypeOK' /\ RunningIsCount'
  <2>1. c \in Threads
    BY DEF Threads
  <2>2. CASE Put(c) \/ PutFails(c) \/ Notify(c)
    <3>1. TypeOK'
      BY <2>1, <2>2, ThreadType
    <3>2. UNCHANGED stateVars
      BY <2>2 DEF Put, PutFails, Notify
    <3> QED
      BY <3>1, <3>2 DEF RunningIsCount, stateVars
  <2>3. CASE ApiStep(c)
    <3>1. ApiCall /\ TypeOK'
      BY <2>3, ApiStepIsCall, ApiType
    <3> QED
      BY <3>1 DEF ApiCall, RunningIsCount, stateVars
  <2>4. CASE Joined(c) \/ ClientPanics(c)
    <3>1. UNCHANGED <<stateVars, sched, mailbox, pool, todo, res, owes, chan, conn,
                      attached, dropped, apiVars, lost>>
      BY <2>4 DEF Joined, ClientPanics
    <3>2. RunType'
      BY <2>1, <2>4, <3>1 DEF Joined, ClientPanics, TypeOK, RunType
    <3> QED
      BY <3>1, <3>2
      DEF TypeOK, StateType, QueueType, PortType, stateVars, apiVars, RunningIsCount
  <2> QED
    BY <1>3, <2>2, <2>3, <2>4 DEF ClientStep, ApiStep
<1>4. CASE SchedStep
  BY <1>4, SchedType, SchedCounts
<1>5. CASE UNCHANGED vars
  BY <1>5 DEF vars, stateVars, apiVars, TypeOK, StateType, QueueType, RunType,
              PortType, RunningIsCount
<1> QED
  BY <1>1, <1>2, <1>3, <1>4, <1>5 DEF Next, Terminated

-----------------------------------------------------------------------------
(* The mailbox, place by place.                                             *)

\* The message m is put at the end of the mailbox.
Posted(m) ==
  /\ Len(mailbox') = Len(mailbox) + 1
  /\ mailbox'[Len(mailbox) + 1] = m
  /\ \A i \in 1..Len(mailbox) : mailbox'[i] = mailbox[i]

\* The first message leaves the mailbox, and Halt may be put at its end.
Took(m) ==
  /\ Len(mailbox) >= 1 /\ mailbox[1] = m
  /\ \A i \in 2..Len(mailbox) : i - 1 \in 1..Len(mailbox') /\ mailbox'[i - 1] = mailbox[i]
  /\ \A i \in 1..Len(mailbox') :
       \/ i + 1 \in 1..Len(mailbox) /\ mailbox'[i] = mailbox[i + 1]
       \/ i = Len(mailbox) /\ mailbox'[i] = Halt

\* Append posts.
LEMMA AppendPosts ==
  ASSUME QueueType, NEW m, mailbox' = Append(mailbox, m)
  PROVE  Posted(m) /\ Len(mailbox) \in Nat /\ Len(mailbox') \in Nat
  BY DEF QueueType, Posted

\* Tail takes, with or without Halt behind.
LEMMA TailTakes ==
  ASSUME QueueType, NEW m, Receive(m),
         mailbox' = Tail(mailbox) \/ mailbox' = Append(Tail(mailbox), Halt)
  PROVE  Took(m) /\ Len(mailbox) \in Nat /\ Len(mailbox') \in Nat
<1>1. mailbox \in Seq(CompMsg) /\ mailbox # <<>> /\ Head(mailbox) = m
  BY DEF QueueType, Receive
<1> DEFINE rest == Tail(mailbox)
<1>4. /\ rest \in Seq(CompMsg) /\ Len(rest) = Len(mailbox) - 1
      /\ Len(mailbox) \in Nat /\ Len(mailbox) >= 1 /\ Len(rest) \in Nat
  BY <1>1
<1>5. \A i \in 1..Len(rest) : rest[i] = mailbox[i + 1]
  BY <1>1
<1>6. mailbox[1] = m
  BY <1>1
<1> HIDE DEF rest
<1>7. \A i \in 2..Len(mailbox) : i - 1 \in 1..Len(rest) /\ rest[i - 1] = mailbox[i]
  <2> TAKE i \in 2..Len(mailbox)
  <2>1. i - 1 \in 1..Len(rest) /\ (i - 1) + 1 = i
    BY <1>4
  <2> QED
    BY <1>5, <2>1
<1>2. CASE mailbox' = rest
  BY <1>4, <1>5, <1>6, <1>7, <1>2 DEF Took
<1>3. CASE mailbox' = Append(rest, Halt)
  <2>3. /\ Len(mailbox') = Len(mailbox)
        /\ mailbox'[Len(mailbox)] = Halt
        /\ \A i \in 1..Len(rest) : mailbox'[i] = rest[i]
    BY <1>3, <1>4
  <2>4. \A i \in 2..Len(mailbox) : i - 1 \in 1..Len(mailbox')
    BY <1>4, <2>3
  <2>5. \A i \in 1..Len(mailbox') :
          \/ i \in 1..Len(rest) /\ i + 1 \in 1..Len(mailbox)
          \/ i = Len(mailbox)
    BY <1>4, <2>3
  <2> QED
    BY <1>4, <1>5, <1>6, <1>7, <2>3, <2>4, <2>5 DEF Took
<1> QED
  BY <1>2, <1>3 DEF rest

\* What each step of the scheduler takes; a step that stops it aside.
LEMMA SchedTakes ==
  ASSUME QueueType, sched' = "up", SchedStep
  PROVE  \/ \E a \in Agents :
              \/ SchedNewAgent(a) /\ Took(NewAgent(a))
              \/ SchedInc(a) /\ Took(Inc(a))
              \/ SchedDec(a) /\ Took(Dec(a))
              \/ SchedStart(a) /\ Took(Start(a))
              \/ \E e \in EditCmp : SchedEdit(a, e) /\ Took(Edit(a, e))
              \/ \E r \in Results : /\ SchedRunEnd(a, r) \/ SchedRunEndLoses(a, r)
                                    /\ Took(RunEnd(a, r))
         \/ SchedHaltState /\ Took(HaltState)
<1>1. ~SchedHalt /\ ~SchedPanics
  BY DEF SchedHalt, SchedPanics, Stop
<1>2. \A a \in Agents : /\ SchedNewAgent(a) => Took(NewAgent(a))
                        /\ SchedInc(a) => Took(Inc(a))
                        /\ SchedDec(a) => Took(Dec(a))
                        /\ SchedStart(a) => Took(Start(a))
  BY TailTakes DEF SchedNewAgent, SchedInc, SchedDec, SchedStart
<1>3. \A a \in Agents : \A e \in EditCmp : SchedEdit(a, e) => Took(Edit(a, e))
  BY TailTakes DEF SchedEdit
<1>4. \A a \in Agents : \A r \in Results : SchedRunEnd(a, r) => Took(RunEnd(a, r))
  BY TailTakes DEF SchedRunEnd
<1>5. \A a \in Agents : \A r \in Results : SchedRunEndLoses(a, r) => Took(RunEnd(a, r))
  BY TailTakes DEF SchedRunEndLoses
<1>6. SchedHaltState => Took(HaltState)
  BY TailTakes DEF SchedHaltState
<1> QED
  BY <1>1, <1>2, <1>3, <1>4, <1>5, <1>6 DEF SchedStep

-----------------------------------------------------------------------------
(* The agents that the owner knows and those that the scheduler knows.      *)

\* A step that leaves the scheduler running either touches none of what
\* KnownInv is about, or posts a message, or takes one.
LEMMA KnownSteps ==
  ASSUME TypeOK, sched = "up", sched' = "up", [Next]_vars
  PROVE  \/ UNCHANGED <<mailbox, agents, known, ips>>
         \/ /\ UNCHANGED <<agents, known, ips>>
            /\ \E m : Posted(m) /\ m.type # "NewAgent"
         \/ \E a \in Agents \ known :
              Posted(NewAgent(a)) /\ known' = known \cup {a} /\ UNCHANGED <<agents, ips>>
         \/ /\ UNCHANGED <<agents, known>>
            /\ \A a \in Agents \ agents : ips'[a] = ips[a]
            /\ \E m : Took(m) /\ m.type # "NewAgent"
         \/ \E a \in Agents :
              /\ Took(NewAgent(a)) /\ UNCHANGED known
              /\ agents' = agents \cup {a} /\ ips' = [ips EXCEPT ![a] = 0]
<1> USE DEF TypeOK
<1>1. CASE \/ StartJob
           \/ \E a \in Agents : Put(a) \/ PutFails(a) \/ Get(a) \/ GetFails(a)
           \/ \E c \in Clients : Put(c) \/ PutFails(c) \/ Joined(c) \/ ClientPanics(c)
           \/ UNCHANGED vars
  BY <1>1 DEF StartJob, Put, PutFails, Get, GetFails, Joined, ClientPanics, vars,
              stateVars, apiVars
<1>2. ASSUME NEW t \in Threads, Notify(t)
      PROVE  UNCHANGED <<agents, known, ips>> /\ \E m : Posted(m) /\ m.type # "NewAgent"
  <2>1. owes[t].type # "NewAgent"
    BY <1>2 DEF Notify, RunType, Notice
  <2>2. Posted(owes[t])
    BY <1>2, AppendPosts DEF Notify
  <2> QED
    BY <1>2, <2>1, <2>2 DEF Notify, stateVars, apiVars
<1>3. ASSUME NEW a \in Agents, EndRun(a)
      PROVE  \/ UNCHANGED <<mailbox, agents, known, ips>>
             \/ UNCHANGED <<agents, known, ips>> /\ \E m : Posted(m) /\ m.type # "NewAgent"
  <2>1. mailbox' = Append(mailbox, RunEnd(a, res[a])) => Posted(RunEnd(a, res[a]))
    BY AppendPosts
  <2>2. RunEnd(a, res[a]).type # "NewAgent"
    BY DEF RunEnd
  <2> QED
    BY <1>3, <2>1, <2>2 DEF EndRun, stateVars, apiVars
<1>4. ASSUME ApiCall
      PROVE  \/ UNCHANGED <<mailbox, agents, known, ips>>
             \/ UNCHANGED <<agents, known, ips>> /\ \E m : Posted(m) /\ m.type # "NewAgent"
             \/ \E a \in Agents \ known : /\ Posted(NewAgent(a)) /\ known' = known \cup {a}
                                          /\ UNCHANGED <<agents, ips>>
  <2>1. UNCHANGED <<agents, ips>>
    BY <1>4 DEF ApiCall, stateVars
  <2>2. \A m : mailbox' = Append(mailbox, m) => Posted(m)
    BY AppendPosts
  <2>3. /\ \A a : Start(a).type # "NewAgent"
        /\ \A a, e : Edit(a, e).type # "NewAgent"
        /\ HaltState.type # "NewAgent"
    BY DEF Start, Edit, HaltState
  <2> QED
    BY <1>4, <2>1, <2>2, <2>3 DEF ApiCall, apiVars
<1>5. ASSUME SchedStep
      PROVE  \/ /\ UNCHANGED <<agents, known>>
                /\ \A a \in Agents \ agents : ips'[a] = ips[a]
                /\ \E m : Took(m) /\ m.type # "NewAgent"
             \/ \E a \in Agents :
                  /\ Took(NewAgent(a)) /\ UNCHANGED known
                  /\ agents' = agents \cup {a} /\ ips' = [ips EXCEPT ![a] = 0]
  <2>1. /\ \A a : /\ Start(a).type # "NewAgent" /\ Inc(a).type # "NewAgent"
                  /\ Dec(a).type # "NewAgent"
        /\ \A a, e : Edit(a, e).type # "NewAgent"
        /\ \A a, r : RunEnd(a, r).type # "NewAgent"
        /\ HaltState.type # "NewAgent"
    BY DEF Start, Inc, Dec, Edit, RunEnd, HaltState
  <2>2. ASSUME NEW a \in Agents, SchedNewAgent(a), Took(NewAgent(a))
        PROVE  /\ Took(NewAgent(a)) /\ UNCHANGED known
               /\ agents' = agents \cup {a} /\ ips' = [ips EXCEPT ![a] = 0]
    BY <2>2 DEF SchedNewAgent, SchedFrame, apiVars
  <2>3. ASSUME NEW a \in Agents, SchedInc(a) \/ SchedDec(a)
        PROVE  UNCHANGED <<agents, known>> /\ \A b \in Agents \ agents : ips'[b] = ips[b]
    BY <2>3 DEF SchedInc, SchedDec, SchedFrame, apiVars, StateType
  <2>4. ASSUME NEW a \in Agents,
               \/ SchedStart(a) \/ \E e \in EditCmp : SchedEdit(a, e)
               \/ \E r \in Results : SchedRunEnd(a, r) \/ SchedRunEndLoses(a, r)
        PROVE  UNCHANGED <<agents, known, ips>>
    BY <2>4 DEF SchedStart, SchedEdit, SchedRunEnd, SchedRunEndLoses, SchedFrame, apiVars
  <2>5. SchedHaltState => UNCHANGED <<agents, known, ips>>
    BY DEF SchedHaltState, SchedFrame, apiVars
  <2> QED
    BY <1>5, <2>1, <2>2, <2>3, <2>4, <2>5, SchedTakes
<1>6. ASSUME NEW c \in Clients, ApiStep(c)
      PROVE  ApiCall
  BY <1>6, ApiStepIsCall
<1>7. \A t \in Agents \cup Clients : t \in Threads
  BY DEF Threads
<1> QED
  BY <1>1, <1>2, <1>3, <1>4, <1>5, <1>6, <1>7
  DEF Next, AgentStep, ClientStep, ApiStep, Terminated

\* Messages of different types, or about different agents, differ.
LEMMA NewAgentIs ==
  /\ \A a, b : NewAgent(a) = NewAgent(b) => a = b
  /\ \A a : NewAgent(a).type = "NewAgent" /\ NewAgent(a).id = a
  /\ Halt.type = "Halt"
  BY DEF NewAgent, Halt

\* A step that leaves the scheduler running keeps KnownInv.
LEMMA NextKnown ==
  ASSUME TypeOK, KnownInv, sched = "up", sched' = "up", [Next]_vars
  PROVE  KnownInv'
<1>0. Len(mailbox) \in Nat /\ agents \subseteq Agents /\ known \subseteq Agents
      /\ ips \in [Agents -> Int]
  BY DEF TypeOK, QueueType, StateType, PortType
<1>1. CASE UNCHANGED <<mailbox, agents, known, ips>>
  BY <1>1 DEF KnownInv, Holds
<1>2. CASE UNCHANGED <<agents, known, ips>> /\ \E m : Posted(m) /\ m.type # "NewAgent"
  <2>1. PICK m : Posted(m) /\ m.type # "NewAgent"
    BY <1>2
  <2>2. \A a : \A i : Holds(i, NewAgent(a))' <=> Holds(i, NewAgent(a))
    BY <1>0, <2>1, NewAgentIs DEF Posted, Holds
  <2>3. \A a : \A i \in 1..Len(mailbox)' : Holds(i, NewAgent(a))' => i \in 1..Len(mailbox)
    BY <2>2 DEF Holds
  <2>4. \A i \in 1..Len(mailbox) : i \in 1..Len(mailbox)'
    BY <1>0, <2>1 DEF Posted
  <2> QED
    BY <1>2, <2>2, <2>3, <2>4 DEF KnownInv
<1>3. ASSUME NEW a \in Agents \ known, Posted(NewAgent(a)), known' = known \cup {a},
             UNCHANGED <<agents, ips>>
      PROVE  KnownInv'
  <2> DEFINE n == Len(mailbox) + 1
  <2>1. /\ \A i \in 1..Len(mailbox) : i # n /\ i \in 1..Len(mailbox')
        /\ n \in 1..Len(mailbox') /\ Len(mailbox') = n
        /\ \A i \in 1..Len(mailbox') : i = n \/ i \in 1..Len(mailbox)
    BY <1>0, <1>3 DEF Posted
  <2> HIDE DEF n
  <2>2. \A b, i : Holds(i, NewAgent(b))' <=> Holds(i, NewAgent(b)) \/ (i = n /\ b = a)
    BY <1>3, <2>1, NewAgentIs DEF Posted, Holds, n
  <2>3. \A i : ~Holds(i, NewAgent(a))
    BY <1>3 DEF KnownInv, Holds
  <2>4. agents' \subseteq known'
    BY <1>3 DEF KnownInv
  <2>5. \A b \in known' \ agents' : \E i \in 1..Len(mailbox') : Holds(i, NewAgent(b))'
    BY <1>3, <2>1, <2>2 DEF KnownInv
  <2>6. ASSUME NEW b \in Agents, NEW i \in 1..Len(mailbox'), Holds(i, NewAgent(b))'
        PROVE  /\ b \in known' \ agents'
               /\ \A j \in 1..Len(mailbox') : Holds(j, NewAgent(b))' => j = i
    <3>1. CASE b = a
      BY <1>3, <2>2, <2>3, <2>6, <3>1 DEF KnownInv
    <3>2. CASE b # a
      <4>1. Holds(i, NewAgent(b)) /\ i \in 1..Len(mailbox)
        BY <2>2, <2>6, <3>2 DEF Holds
      <4>2. b \in known \ agents
        BY <4>1 DEF KnownInv
      <4>3. \A j : Holds(j, NewAgent(b)) => j = i
        BY <4>1 DEF KnownInv, Holds
      <4> QED
        BY <1>3, <2>2, <3>2, <4>2, <4>3
    <3> QED
      BY <3>1, <3>2
  <2>7. \A b \in Agents \ agents' : ips'[b] = 0
    BY <1>3 DEF KnownInv
  <2> QED
    BY <2>4, <2>5, <2>6, <2>7 DEF KnownInv
<1>4. ASSUME UNCHANGED <<agents, known>>, \A a \in Agents \ agents : ips'[a] = ips[a],
             NEW m, Took(m), m.type # "NewAgent"
      PROVE  KnownInv'
  <2>1. \A b, i : Holds(i, NewAgent(b))' =>
          i + 1 \in 1..Len(mailbox) /\ Holds(i + 1, NewAgent(b))
    BY <1>4, NewAgentIs DEF Took, Holds
  <2>2. \A b, i : Holds(i, NewAgent(b)) =>
          i - 1 \in 1..Len(mailbox') /\ Holds(i - 1, NewAgent(b))'
    <3>1. \A i \in 1..Len(mailbox) : i = 1 \/ i \in 2..Len(mailbox)
      BY <1>0
    <3> QED
      BY <1>4, <3>1, NewAgentIs DEF Took, Holds
  <2>3. \A b \in known' \ agents' : \E i \in 1..Len(mailbox') : Holds(i, NewAgent(b))'
    BY <1>4, <2>2 DEF KnownInv
  <2>4. ASSUME NEW b \in Agents, NEW i \in 1..Len(mailbox'), Holds(i, NewAgent(b))'
        PROVE  /\ b \in known' \ agents'
               /\ \A j \in 1..Len(mailbox') : Holds(j, NewAgent(b))' => j = i
    <3>1. i + 1 \in 1..Len(mailbox) /\ Holds(i + 1, NewAgent(b))
      BY <2>1, <2>4
    <3>2. b \in known \ agents /\ \A j \in 1..Len(mailbox) : Holds(j, NewAgent(b)) => j = i + 1
      BY <3>1 DEF KnownInv
    <3>3. \A j \in 1..Len(mailbox') : Holds(j, NewAgent(b))' => j + 1 = i + 1
      BY <2>1, <3>2
    <3> QED
      BY <1>4, <3>2, <3>3
  <2> QED
    BY <1>4, <2>3, <2>4 DEF KnownInv
<1>5. ASSUME NEW a \in Agents, Took(NewAgent(a)), UNCHANGED known,
             agents' = agents \cup {a}, ips' = [ips EXCEPT ![a] = 0]
      PROVE  KnownInv'
  <2>0. 1 \in 1..Len(mailbox) /\ Holds(1, NewAgent(a))
    BY <1>0, <1>5 DEF Took, Holds
  <2>5. a \in known /\ \A j \in 1..Len(mailbox) : Holds(j, NewAgent(a)) => j = 1
    BY <2>0 DEF KnownInv
  <2>1. \A b, i : Holds(i, NewAgent(b))' =>
          i + 1 \in 1..Len(mailbox) /\ Holds(i + 1, NewAgent(b)) /\ b # a
    <3>1. \A i \in 1..Len(mailbox') : i + 1 # 1
      OBVIOUS
    <3> QED
      BY <1>5, <2>5, <3>1, NewAgentIs DEF Took, Holds
  <2>2. \A b, i : Holds(i, NewAgent(b)) /\ b # a =>
          i - 1 \in 1..Len(mailbox') /\ Holds(i - 1, NewAgent(b))'
    <3>1. \A i \in 1..Len(mailbox) : i = 1 \/ i \in 2..Len(mailbox)
      BY <1>0
    <3> QED
      BY <1>5, <3>1, NewAgentIs DEF Took, Holds
  <2>3. \A b \in known' \ agents' : \E i \in 1..Len(mailbox') : Holds(i, NewAgent(b))'
    BY <1>5, <2>2 DEF KnownInv
  <2>4. ASSUME NEW b \in Agents, NEW i \in 1..Len(mailbox'), Holds(i, NewAgent(b))'
        PROVE  /\ b \in known' \ agents'
               /\ \A j \in 1..Len(mailbox') : Holds(j, NewAgent(b))' => j = i
    <3>1. i + 1 \in 1..Len(mailbox) /\ Holds(i + 1, NewAgent(b)) /\ b # a
      BY <2>1, <2>4
    <3>2. b \in known \ agents /\ \A j \in 1..Len(mailbox) : Holds(j, NewAgent(b)) => j = i + 1
      BY <3>1 DEF KnownInv
    <3>3. \A j \in 1..Len(mailbox') : Holds(j, NewAgent(b))' => j + 1 = i + 1
      BY <2>1, <3>2
    <3> QED
      BY <1>5, <3>1, <3>2, <3>3
  <2>6. \A b \in Agents \ agents' : ips'[b] = 0
    BY <1>0, <1>5 DEF KnownInv
  <2> QED
    BY <1>5, <2>3, <2>4, <2>5, <2>6 DEF KnownInv
<1> QED
  BY <1>1, <1>2, <1>3, <1>4, <1>5, KnownSteps

\* The scheduler's thread does not come back.
LEMMA StaysDown ==
  ASSUME [Next]_vars, sched' = "up"
  PROVE  sched = "up"
<1>1. SchedStep => sched = "up"
  BY DEF SchedStep, SchedNewAgent, SchedInc, SchedDec, SchedStart, SchedHaltState, SchedHalt,
         SchedEdit, SchedRunEnd, SchedRunEndLoses, SchedPanics, Receive
<1>2. \A a \in Agents : AgentStep(a) => UNCHANGED sched
  BY DEF AgentStep, Put, PutFails, Get, GetFails, Notify, EndRun
<1>3. \A c \in Clients : ApiStep(c) => sched = "up"
  BY DEF ApiStep, AddNode, StartAgent, Connect, AddElement, SetReceiver, Disconnect,
         BadReceiver, Join
<1>4. \A c \in Clients : ClientStep(c) => ApiStep(c) \/ UNCHANGED sched
  BY DEF ClientStep, ApiStep, Put, PutFails, Notify, Joined, ClientPanics
<1> QED
  BY <1>1, <1>2, <1>3, <1>4 DEF Next, StartJob, Terminated, vars

\* The part of the inductive invariant that type correctness rests on: running
\* is decremented for a marked agent only, and a NewAgent is for a new one.
TypeInv == TypeOK /\ RunningIsCount /\ (sched = "up" => KnownInv)

LEMMA InitTypeInv == Init => TypeInv
<1> SUFFICES ASSUME Init PROVE TypeInv
  OBVIOUS
<1>1. RunningIsCount
  BY FS_EmptySet DEF Init, RunningIsCount
<1>2. KnownInv
  BY DEF Init, KnownInv, Holds
<1> QED
  BY <1>1, <1>2, InitType DEF TypeInv

LEMMA NextTypeInv == TypeInv /\ [Next]_vars => TypeInv'
  BY NextType, NextKnown, StaysDown DEF TypeInv

\* In every reachable state every variable has its type: running, a usize that
\* run_end decrements, never goes below zero, and no channel holds more than
\* its capacity.
THEOREM TypeCorrect == Spec => []TypeOK
<1>1. TypeInv => TypeOK
  BY DEF TypeInv
<1> QED
  BY <1>1, InitTypeInv, NextTypeInv, PTL DEF Spec

\* running, which decides when the scheduler may halt, is at any moment the
\* number of agents marked is_run.
THEOREM RunningCorrect == Spec => []RunningIsCount
<1>1. TypeInv => RunningIsCount
  BY DEF TypeInv
<1> QED
  BY <1>1, InitTypeInv, NextTypeInv, PTL DEF Spec

-----------------------------------------------------------------------------
(* Where the boxes are.                                                     *)

\* The kinds of steps that BoxInv is about; a message is taken or posted in
\* some of them.
BoxRests ==
  /\ UNCHANGED <<agents, home, lost, pool>>
  /\ \A a \in Agents : pc'[a] = pc[a]
  /\ \/ UNCHANGED mailbox
     \/ \E m : (Posted(m) \/ Took(m)) /\ m.type # "RunEnd"

BoxStarts(a) ==
  /\ pool # <<>> /\ a = Head(pool) /\ pool' = Tail(pool)
  /\ pc' = [pc EXCEPT ![a] = "run"]
  /\ UNCHANGED <<agents, home, lost, mailbox>>

BoxLeaves(a) ==
  /\ pc[a] = "run" /\ pc' = [pc EXCEPT ![a] = "idle"]
  /\ UNCHANGED <<agents, home, pool>>
  /\ \/ UNCHANGED lost /\ \E r : Posted(RunEnd(a, r))
     \/ lost' = lost \cup {a} /\ UNCHANGED mailbox

BoxComes(a) ==
  /\ Took(NewAgent(a)) /\ agents' = agents \cup {a} /\ home' = home \cup {a}
  /\ UNCHANGED <<lost, pool, pc>>

BoxGoes(a) ==
  /\ a \in agents /\ Run(a) /\ UNCHANGED <<agents, lost>>
  /\ \/ a \in home /\ \E m : Took(m) /\ m.type # "RunEnd"
     \/ \E r : Took(RunEnd(a, r))

BoxReturns(a) ==
  /\ a \in agents /\ \E r : Took(RunEnd(a, r))
  /\ UNCHANGED <<agents, pool, pc>>
  /\ \/ home' = home \cup {a} /\ UNCHANGED lost
     \/ lost' = lost \cup {a} /\ UNCHANGED home

\* A step of the scheduler is of one of four kinds.
LEMMA SchedBoxes ==
  ASSUME TypeOK, sched' = "up", SchedStep
  PROVE  BoxRests \/ \E a \in Agents : BoxComes(a) \/ BoxGoes(a) \/ BoxReturns(a)
<1> USE DEF TypeOK
<1>1. /\ \A a : /\ Start(a).type # "RunEnd" /\ Inc(a).type # "RunEnd"
                /\ Dec(a).type # "RunEnd"
      /\ \A a, e : Edit(a, e).type # "RunEnd"
      /\ HaltState.type # "RunEnd"
  BY DEF Start, Inc, Dec, Edit, HaltState
<1>2. ASSUME NEW a \in Agents, SchedNewAgent(a), Took(NewAgent(a))
      PROVE  BoxComes(a)
  BY <1>2 DEF SchedNewAgent, BoxComes
<1>3. ASSUME NEW a \in Agents, SchedInc(a), Took(Inc(a))
      PROVE  BoxRests \/ BoxGoes(a)
  BY <1>1, <1>3 DEF SchedInc, Wakes, NoRun, BoxRests, BoxGoes
<1>4. ASSUME NEW a \in Agents, SchedStart(a), Took(Start(a))
      PROVE  BoxRests \/ BoxGoes(a)
  BY <1>1, <1>4 DEF SchedStart, NoRun, BoxRests, BoxGoes
<1>5. ASSUME NEW a \in Agents, SchedDec(a), Took(Dec(a))
      PROVE  BoxRests
  BY <1>1, <1>5 DEF SchedDec, NoRun, BoxRests
<1>6. ASSUME NEW a \in Agents, NEW e \in EditCmp, SchedEdit(a, e), Took(Edit(a, e))
      PROVE  BoxRests
  BY <1>1, <1>6 DEF SchedEdit, NoRun, BoxRests
<1>7. ASSUME NEW a \in Agents, NEW r \in Results, Took(RunEnd(a, r)),
             SchedRunEnd(a, r) \/ SchedRunEndLoses(a, r)
      PROVE  BoxGoes(a) \/ BoxReturns(a)
  <2>1. CASE SchedRunEndLoses(a, r)
    BY <1>7, <2>1 DEF SchedRunEndLoses, NoRun, BoxReturns
  <2>2. CASE SchedRunEnd(a, r) /\ MustRestart(a)
    BY <1>7, <2>2 DEF SchedRunEnd, BoxGoes
  <2>3. CASE SchedRunEnd(a, r) /\ ~MustRestart(a)
    BY <1>7, <2>3 DEF SchedRunEnd, BoxReturns
  <2> QED
    BY <1>7, <2>1, <2>2, <2>3
<1>8. SchedHaltState /\ Took(HaltState) => BoxRests
  BY <1>1 DEF SchedHaltState, NoRun, BoxRests
<1> QED
  BY <1>2, <1>3, <1>4, <1>5, <1>6, <1>7, <1>8, SchedTakes

\* Every step that leaves the scheduler running is of one of these kinds.
LEMMA BoxSteps ==
  ASSUME TypeOK, sched = "up", sched' = "up", [Next]_vars
  PROVE  \/ BoxRests
         \/ \E a \in Agents : \/ BoxStarts(a) \/ BoxLeaves(a) \/ BoxComes(a)
                              \/ BoxGoes(a) \/ BoxReturns(a)
<1> USE DEF TypeOK
<1>0. /\ \A a \in Agents : a \in Threads /\ a \notin Clients
      /\ \A c \in Clients : c \in Threads
  BY SetsAssumption DEF Threads
<1>1. CASE \/ \E a \in Agents : Put(a) \/ PutFails(a) \/ Get(a) \/ GetFails(a)
           \/ \E c \in Clients : Put(c) \/ PutFails(c)
           \/ UNCHANGED vars
  BY <1>1 DEF Put, PutFails, Get, GetFails, vars, stateVars, apiVars, BoxRests
<1>2. ASSUME NEW c \in Clients, Joined(c) \/ ClientPanics(c)
      PROVE  BoxRests
  BY <1>0, <1>2 DEF Joined, ClientPanics, stateVars, apiVars, BoxRests, RunType
<1>3. ASSUME NEW t \in Threads, Notify(t)
      PROVE  BoxRests
  <2>1. owes[t].type # "RunEnd"
    BY <1>3 DEF Notify, RunType, Notice
  <2>2. Posted(owes[t])
    BY <1>3, AppendPosts DEF Notify
  <2> QED
    BY <1>3, <2>1, <2>2 DEF Notify, stateVars, BoxRests
<1>4. ASSUME ApiCall
      PROVE  BoxRests
  <2>1. \A m : mailbox' = Append(mailbox, m) => Posted(m)
    BY AppendPosts
  <2>2. /\ \A a : Start(a).type # "RunEnd" /\ NewAgent(a).type # "RunEnd"
        /\ \A a, e : Edit(a, e).type # "RunEnd"
        /\ HaltState.type # "RunEnd"
    BY DEF Start, NewAgent, Edit, HaltState
  <2>3. UNCHANGED mailbox \/ \E m : Posted(m) /\ m.type # "RunEnd"
    BY <1>4, <2>1, <2>2 DEF ApiCall
  <2> QED
    BY <1>4, <2>3 DEF ApiCall, stateVars, BoxRests
<1>5. ASSUME StartJob
      PROVE  \E a \in Agents : BoxStarts(a)
  <2>1. Head(pool) \in Agents
    BY <1>5 DEF StartJob, QueueType
  <2>2. BoxStarts(Head(pool))
    BY <1>5 DEF StartJob, stateVars, BoxStarts
  <2> QED
    BY <2>1, <2>2
<1>6. ASSUME NEW a \in Agents, EndRun(a)
      PROVE  BoxLeaves(a)
  <2>1. mailbox' = Append(mailbox, RunEnd(a, res[a])) => Posted(RunEnd(a, res[a]))
    BY AppendPosts
  <2> QED
    BY <1>6, <2>1 DEF EndRun, stateVars, BoxLeaves
<1>7. SchedStep => BoxRests \/ \E a \in Agents : BoxComes(a) \/ BoxGoes(a) \/ BoxReturns(a)
  BY SchedBoxes
<1>8. ASSUME NEW c \in Clients, ApiStep(c)
      PROVE  ApiCall
  BY <1>8, ApiStepIsCall
<1> QED
  BY <1>0, <1>1, <1>2, <1>3, <1>4, <1>5, <1>6, <1>7, <1>8
  DEF Next, AgentStep, ClientStep, ApiStep, Terminated

\* The RunEnds of the mailbox after a message is posted, or taken.
LEMMA PostEnds ==
  ASSUME NEW m, Posted(m), Len(mailbox) \in Nat, NEW a
  PROVE  /\ m.type # "RunEnd" => \A i : EndsAt(i, a)' <=> EndsAt(i, a)
         /\ \A b, r : m = RunEnd(b, r) =>
              \A i : EndsAt(i, a)' <=> EndsAt(i, a) \/ (i = Len(mailbox) + 1 /\ a = b)
<1>1. \A b, r : RunEnd(b, r).type = "RunEnd" /\ RunEnd(b, r).id = b
  BY DEF RunEnd
<1>2. \A i : i \in 1..Len(mailbox') <=> i \in 1..Len(mailbox) \/ i = Len(mailbox) + 1
  BY DEF Posted
<1>3. Len(mailbox) + 1 \notin 1..Len(mailbox)
  OBVIOUS
<1> QED
  BY <1>1, <1>2, <1>3 DEF Posted, EndsAt

LEMMA TookEnds ==
  ASSUME NEW m, Took(m), Len(mailbox) \in Nat, Len(mailbox') \in Nat, NEW a
  PROVE  /\ \A i : EndsAt(i, a)' => i # 0 /\ i + 1 # 1 /\ EndsAt(i + 1, a)
         /\ \A i \in 2..Len(mailbox) : EndsAt(i, a) => EndsAt(i - 1, a)'
         /\ \A r : m = RunEnd(a, r) => EndsAt(1, a)
<1>1. /\ \A r : RunEnd(a, r).type = "RunEnd" /\ RunEnd(a, r).id = a
      /\ Halt.type # "RunEnd"
  BY DEF RunEnd, Halt
<1>2. \A i \in 1..Len(mailbox') : i # 0 /\ i + 1 # 1
  OBVIOUS
<1> QED
  BY <1>1, <1>2 DEF Took, EndsAt

\* Positions of the pool after a job is added, or taken.
LEMMA PoolAppend ==
  ASSUME QueueType, NEW a, pool' = Append(pool, a)
  PROVE  /\ Len(pool) \in Nat /\ Len(pool') = Len(pool) + 1
         /\ pool'[Len(pool) + 1] = a
         /\ \A i \in 1..Len(pool) : pool'[i] = pool[i]
  BY DEF QueueType

LEMMA PoolTail ==
  ASSUME QueueType, pool # <<>>, pool' = Tail(pool)
  PROVE  /\ Len(pool) \in Nat /\ Len(pool) >= 1 /\ Len(pool') = Len(pool) - 1
         /\ pool[1] = Head(pool)
         /\ \A i \in 1..Len(pool') : pool'[i] = pool[i + 1]
  BY DEF QueueType

\* A job enters the pool: the agent was not in it.
LEMMA PoolGrows ==
  ASSUME QueueType, RunType, PoolInv, NEW a \in Agents, pc[a] # "queued",
         pool' = Append(pool, a), pc' = [pc EXCEPT ![a] = "queued"]
  PROVE  PoolInv'
<1>0. /\ \A i \in 1..Len(pool) : pool[i] \in Agents
      /\ \A b \in Agents : b \in DOMAIN pc
  BY DEF QueueType, RunType, Threads
<1>1. \A i \in 1..Len(pool) : pool[i] # a
  BY DEF PoolInv
<1>2. /\ Len(pool) \in Nat /\ Len(pool') = Len(pool) + 1
      /\ pool'[Len(pool) + 1] = a
      /\ \A i \in 1..Len(pool) : pool'[i] = pool[i]
  BY PoolAppend
<1>3. \A i \in 1..Len(pool') : i \in 1..Len(pool) \/ i = Len(pool) + 1
  BY <1>2
<1> QED
  BY <1>0, <1>1, <1>2, <1>3 DEF PoolInv

\* A job leaves the pool: the agent is not in it any more.
LEMMA PoolShrinks ==
  ASSUME QueueType, RunType, PoolInv, NEW a \in Agents, pool # <<>>, a = Head(pool),
         pool' = Tail(pool), pc' = [pc EXCEPT ![a] = "run"]
  PROVE  PoolInv'
<1>0. \A i \in 1..Len(pool) : pool[i] \in Agents /\ pool[i] \in DOMAIN pc
  BY DEF QueueType, RunType, Threads
<1>1. /\ Len(pool) \in Nat /\ Len(pool) >= 1 /\ Len(pool') = Len(pool) - 1
      /\ pool[1] = a
      /\ \A i \in 1..Len(pool') : pool'[i] = pool[i + 1]
  BY PoolTail
<1>2. \A i \in 1..Len(pool') : i + 1 \in 1..Len(pool) /\ i + 1 # 1
  BY <1>1
<1>3. 1 \in 1..Len(pool)
  BY <1>1
<1>4. \A i \in 1..Len(pool') : pool'[i] # a
  BY <1>1, <1>2, <1>3 DEF PoolInv
<1>5. \A i, j \in 1..Len(pool') : pool'[i] = pool'[j] => i + 1 = j + 1
  BY <1>1, <1>2 DEF PoolInv
<1>6. \A i, j \in 1..Len(pool') : i + 1 = j + 1 => i = j
  BY <1>1
<1>7. \A i \in 1..Len(pool') : pc'[pool'[i]] = "queued"
  BY <1>0, <1>1, <1>2, <1>4 DEF PoolInv
<1> QED
  BY <1>5, <1>6, <1>7 DEF PoolInv

\* A step that leaves the scheduler running keeps BoxInv.
LEMMA NextBox ==
  ASSUME TypeOK, TypeOK', KnownInv, BoxInv, sched = "up", sched' = "up", [Next]_vars
  PROVE  BoxInv'
<1>0. /\ Len(mailbox) \in Nat /\ Len(mailbox') \in Nat
      /\ \A a \in Agents : a \in DOMAIN pc
      /\ QueueType /\ RunType /\ home \subseteq agents /\ agents \subseteq Agents
  BY DEF TypeOK, QueueType, StateType, RunType, Threads
<1> USE DEF BoxInv
<1>1. CASE BoxRests
  <2>1. \A i, a : EndsAt(i, a)' => EndsAt(i, a) \/ EndsAt(i + 1, a)
    <3>1. \A m, i, a : Posted(m) /\ m.type # "RunEnd" => (EndsAt(i, a)' => EndsAt(i, a))
      BY <1>0, PostEnds
    <3>2. \A m, i, a : Took(m) /\ m.type # "RunEnd" => (EndsAt(i, a)' => EndsAt(i + 1, a))
      BY <1>0, TookEnds
    <3>3. UNCHANGED mailbox => \A i, a : EndsAt(i, a)' => EndsAt(i, a)
      BY DEF EndsAt
    <3> QED
      BY <1>1, <3>1, <3>2, <3>3 DEF BoxRests
  <2>2. AwayInv' /\ PoolInv'
    <3>1. \A i \in 1..Len(pool) : pool[i] \in Agents
      BY <1>0 DEF QueueType
    <3> QED
      BY <1>1, <3>1 DEF BoxRests, AwayInv, PoolInv
  <2>3. ASSUME NEW a \in Agents, NEW i \in 1..Len(mailbox'), EndsAt(i, a)',
               NEW j \in 1..Len(mailbox'), EndsAt(j, a)'
        PROVE  j = i
    <3>1. CASE UNCHANGED mailbox
      BY <2>3, <3>1 DEF RunEndInv, EndsAt
    <3>2. CASE \E m : Posted(m) /\ m.type # "RunEnd"
      <4>1. EndsAt(i, a) /\ EndsAt(j, a)
        BY <1>0, <2>3, <3>2, PostEnds
      <4> QED
        BY <4>1 DEF RunEndInv, EndsAt
    <3>3. CASE \E m : Took(m) /\ m.type # "RunEnd"
      <4>1. EndsAt(i + 1, a) /\ EndsAt(j + 1, a)
        BY <1>0, <2>3, <3>3, TookEnds
      <4>2. i + 1 = j + 1
        BY <4>1 DEF RunEndInv, EndsAt
      <4> QED
        BY <4>2
    <3> QED
      BY <1>1, <3>1, <3>2, <3>3 DEF BoxRests
  <2>4. \A a \in Agents : (\E i : EndsAt(i, a)') =>
          a \in agents \ (home \cup lost) /\ pc[a] = "idle"
    <3>1. \A i, a : EndsAt(i, a) => i \in 1..Len(mailbox)
      BY DEF EndsAt
    <3> QED
      BY <2>1, <3>1 DEF RunEndInv
  <2>5. RunEndInv'
    BY <1>1, <2>3, <2>4 DEF RunEndInv, BoxRests
  <2> QED
    BY <2>2, <2>5
<1>2. ASSUME NEW a \in Agents, BoxStarts(a)
      PROVE  BoxInv'
  <2>1. PoolInv'
    BY <1>0, <1>2, PoolShrinks DEF BoxStarts
  <2>2. pc[a] = "queued"
    <3>1. pool[1] = a /\ 1 \in 1..Len(pool)
      BY <1>0, <1>2, PoolTail DEF BoxStarts
    <3> QED
      BY <3>1 DEF PoolInv
  <2>3. AwayInv'
    BY <1>0, <1>2, <2>2 DEF AwayInv, BoxStarts
  <2>4. RunEndInv'
    <3>1. \A i \in 1..Len(mailbox) : ~EndsAt(i, a)
      BY <2>2 DEF RunEndInv
    <3> QED
      BY <1>0, <1>2, <3>1 DEF RunEndInv, EndsAt, BoxStarts
  <2> QED
    BY <2>1, <2>3, <2>4
<1>3. ASSUME NEW a \in Agents, BoxLeaves(a)
      PROVE  BoxInv'
  <2>0. a \in agents \ (home \cup lost) /\ pc[a] = "run"
    BY <1>3 DEF AwayInv, BoxLeaves
  <2>1. AwayInv'
    BY <1>0, <1>3, <2>0 DEF AwayInv, BoxLeaves
  <2>2. PoolInv'
    <3>1. \A i \in 1..Len(pool) : pool[i] \in Agents /\ pool[i] # a
      BY <1>0, <2>0 DEF QueueType, PoolInv
    <3> QED
      BY <1>0, <1>3, <3>1 DEF PoolInv, BoxLeaves
  <2>3. \A i : ~EndsAt(i, a)
    BY <2>0 DEF RunEndInv, EndsAt
  <2>4. RunEndInv'
    <3>1. CASE UNCHANGED mailbox
      BY <1>0, <1>3, <2>3, <3>1 DEF RunEndInv, EndsAt, BoxLeaves
    <3>2. ASSUME NEW r, Posted(RunEnd(a, r)), UNCHANGED lost
          PROVE  RunEndInv'
      <4>1. \A b, i : EndsAt(i, b)' <=> EndsAt(i, b) \/ (i = Len(mailbox) + 1 /\ b = a)
        BY <1>0, <3>2, PostEnds
      <4>2. \A b, i : EndsAt(i, b) => i \in 1..Len(mailbox)
        BY DEF EndsAt
      <4> QED
        BY <1>0, <1>3, <2>0, <2>3, <3>2, <4>1, <4>2 DEF RunEndInv, BoxLeaves
    <3> QED
      BY <1>3, <3>1, <3>2 DEF BoxLeaves
  <2> QED
    BY <2>1, <2>2, <2>4
<1>4. ASSUME NEW a \in Agents, BoxComes(a)
      PROVE  BoxInv'
  <2>0. a \notin agents
    <3>1. 1 \in 1..Len(mailbox) /\ Holds(1, NewAgent(a))
      BY <1>0, <1>4 DEF BoxComes, Took, Holds
    <3> QED
      BY <3>1 DEF KnownInv
  <2>1. AwayInv' /\ PoolInv'
    BY <1>0, <1>4, <2>0 DEF AwayInv, PoolInv, BoxComes
  <2>2. \A i, b : EndsAt(i, b)' => EndsAt(i + 1, b)
    BY <1>0, <1>4, TookEnds DEF BoxComes
  <2>3. ASSUME NEW b \in Agents, NEW i \in 1..Len(mailbox'), EndsAt(i, b)'
        PROVE  /\ b \in agents' \ (home' \cup lost') /\ pc'[b] = "idle"
               /\ \A j \in 1..Len(mailbox') : EndsAt(j, b)' => j = i
    <3>1. EndsAt(i + 1, b) /\ i + 1 \in 1..Len(mailbox)
      BY <2>2, <2>3 DEF EndsAt
    <3>2. b \in agents \ (home \cup lost) /\ pc[b] = "idle"
      BY <3>1 DEF RunEndInv
    <3>3. \A j \in 1..Len(mailbox') : EndsAt(j, b)' => j + 1 = i + 1
      BY <2>2, <3>1 DEF RunEndInv, EndsAt
    <3> QED
      BY <1>4, <2>0, <3>2, <3>3 DEF BoxComes
  <2> QED
    BY <2>1, <2>3 DEF RunEndInv
<1>5. ASSUME NEW a \in Agents, BoxGoes(a)
      PROVE  BoxInv'
  <2>0. pc[a] = "idle" /\ a \notin lost /\ a \in agents
    <3>2. \A r : Took(RunEnd(a, r)) => EndsAt(1, a)
      BY <1>0, TookEnds
    <3>1. \A r : Took(RunEnd(a, r)) => EndsAt(1, a) /\ 1 \in 1..Len(mailbox)
      BY <3>2 DEF EndsAt
    <3> QED
      BY <1>5, <3>1 DEF BoxGoes, AwayInv, RunEndInv
  <2>1. PoolInv'
    BY <1>0, <1>5, <2>0, PoolGrows DEF BoxGoes, Run
  <2>2. AwayInv'
    BY <1>0, <1>5, <2>0 DEF AwayInv, BoxGoes, Run
  <2>3. \A i, b : EndsAt(i, b)' => EndsAt(i + 1, b) /\ b # a
    <3>1. \A i, b : EndsAt(i, b)' => EndsAt(i + 1, b) /\ i + 1 # 1
      BY <1>0, <1>5, TookEnds DEF BoxGoes
    <3>2. CASE a \in home
      BY <1>5, <3>1, <3>2 DEF RunEndInv, EndsAt
    <3>3. CASE \E r : Took(RunEnd(a, r))
      <4>1. EndsAt(1, a)
        BY <1>0, <3>3, TookEnds
      <4> QED
        BY <1>5, <3>1, <4>1 DEF RunEndInv, EndsAt
    <3> QED
      BY <1>5, <3>2, <3>3 DEF BoxGoes
  <2>4. ASSUME NEW b \in Agents, NEW i \in 1..Len(mailbox'), EndsAt(i, b)'
        PROVE  /\ b \in agents' \ (home' \cup lost') /\ pc'[b] = "idle"
               /\ \A j \in 1..Len(mailbox') : EndsAt(j, b)' => j = i
    <3>1. EndsAt(i + 1, b) /\ i + 1 \in 1..Len(mailbox) /\ b # a
      BY <2>3, <2>4 DEF EndsAt
    <3>2. b \in agents \ (home \cup lost) /\ pc[b] = "idle"
      BY <3>1 DEF RunEndInv
    <3>3. \A j \in 1..Len(mailbox') : EndsAt(j, b)' => j + 1 = i + 1
      BY <2>3, <3>1 DEF RunEndInv, EndsAt
    <3> QED
      BY <1>5, <3>1, <3>2, <3>3 DEF BoxGoes, Run
  <2> QED
    BY <2>1, <2>2, <2>4 DEF RunEndInv
<1>6. ASSUME NEW a \in Agents, BoxReturns(a)
      PROVE  BoxInv'
  <2>0. EndsAt(1, a) /\ 1 \in 1..Len(mailbox)
    <3>1. PICK r : Took(RunEnd(a, r))
      BY <1>6 DEF BoxReturns
    <3>2. EndsAt(1, a)
      BY <1>0, <3>1, TookEnds
    <3> QED
      BY <3>2 DEF EndsAt
  <2>5. pc[a] = "idle" /\ a \in agents \ (home \cup lost)
    BY <2>0 DEF RunEndInv
  <2>1. AwayInv' /\ PoolInv'
    BY <1>0, <1>6, <2>5 DEF AwayInv, PoolInv, BoxReturns
  <2>3. \A i, b : EndsAt(i, b)' => EndsAt(i + 1, b) /\ b # a
    <3>1. \A i, b : EndsAt(i, b)' => EndsAt(i + 1, b) /\ i + 1 # 1
      BY <1>0, <1>6, TookEnds DEF BoxReturns
    <3> QED
      BY <1>6, <2>0, <3>1 DEF RunEndInv, EndsAt
  <2>4. ASSUME NEW b \in Agents, NEW i \in 1..Len(mailbox'), EndsAt(i, b)'
        PROVE  /\ b \in agents' \ (home' \cup lost') /\ pc'[b] = "idle"
               /\ \A j \in 1..Len(mailbox') : EndsAt(j, b)' => j = i
    <3>1. EndsAt(i + 1, b) /\ i + 1 \in 1..Len(mailbox) /\ b # a
      BY <2>3, <2>4 DEF EndsAt
    <3>2. b \in agents \ (home \cup lost) /\ pc[b] = "idle"
      BY <3>1 DEF RunEndInv
    <3>3. \A j \in 1..Len(mailbox') : EndsAt(j, b)' => j + 1 = i + 1
      BY <2>3, <3>1 DEF RunEndInv, EndsAt
    <3> QED
      BY <1>6, <3>1, <3>2, <3>3 DEF BoxReturns
  <2> QED
    BY <2>1, <2>4 DEF RunEndInv
<1> QED
  BY <1>1, <1>2, <1>3, <1>4, <1>5, <1>6, BoxSteps

-----------------------------------------------------------------------------
(* What the owner knows only grows.                                         *)

\* A step that is neither of the scheduler nor a call of its API leaves what
\* agents are known, what they are connected to and what edits they keep; a
\* notice or a RunEnd may be posted.
Plain ==
  /\ UNCHANGED <<agents, home, ips, can_halt, known, senders, conn, attached, edit_msgs>>
  /\ \/ UNCHANGED mailbox
     \/ \E t \in Threads : Notify(t) /\ Posted(owes[t])
     \/ \E a \in Agents : EndRun(a) /\ \E r : Posted(RunEnd(a, r))

\* Every step is plain, a call of the API, or a step of the scheduler.
LEMMA PlainSteps ==
  ASSUME TypeOK, sched = "up", [Next]_vars
  PROVE  Plain \/ (ApiCall /\ \E c \in Clients : ApiStep(c)) \/ SchedStep
<1> USE DEF TypeOK
<1>1. CASE \/ StartJob
           \/ \E a \in Agents : Put(a) \/ PutFails(a) \/ Get(a) \/ GetFails(a)
           \/ \E c \in Clients : Put(c) \/ PutFails(c) \/ Joined(c) \/ ClientPanics(c)
           \/ UNCHANGED vars
  BY <1>1 DEF StartJob, Put, PutFails, Get, GetFails, Joined, ClientPanics, vars,
              stateVars, apiVars, Plain
<1>2. ASSUME NEW t \in Threads, Notify(t)
      PROVE  Plain
  <2>1. Posted(owes[t])
    BY <1>2, AppendPosts DEF Notify
  <2>2. UNCHANGED <<agents, home, ips, can_halt, known, senders, conn, attached, edit_msgs>>
    BY <1>2 DEF Notify, stateVars, apiVars
  <2> QED
    BY <1>2, <2>1, <2>2 DEF Plain
<1>3. ASSUME NEW a \in Agents, EndRun(a)
      PROVE  Plain
  <2>1. mailbox' = Append(mailbox, RunEnd(a, res[a])) => Posted(RunEnd(a, res[a]))
    BY AppendPosts
  <2>2. UNCHANGED <<agents, home, ips, can_halt, known, senders, conn, attached, edit_msgs>>
    BY <1>3 DEF EndRun, stateVars, apiVars
  <2>3. UNCHANGED mailbox \/ \E r : Posted(RunEnd(a, r))
    BY <1>3, <2>1 DEF EndRun
  <2> QED
    BY <1>3, <2>2, <2>3 DEF Plain
<1>4. ASSUME NEW c \in Clients, ApiStep(c)
      PROVE  ApiCall
  BY <1>4, ApiStepIsCall
<1>5. \A t \in Agents \cup Clients : t \in Threads
  BY DEF Threads
<1> QED
  BY <1>1, <1>2, <1>3, <1>4, <1>5
  DEF Next, AgentStep, ClientStep, ApiStep, Terminated

\* No step takes an agent or a sender from those known.
LEMMA KnownGrows ==
  ASSUME TypeOK, KnownInv, sched = "up", sched' = "up", [Next]_vars
  PROVE  agents \subseteq agents' /\ known \subseteq known' /\ senders \subseteq senders'
<1>1. Plain => UNCHANGED <<agents, known, senders>>
  BY DEF Plain
<1>2. ApiCall => /\ agents \subseteq agents' /\ known \subseteq known'
                 /\ senders \subseteq senders'
  BY DEF ApiCall, apiVars, stateVars
<1>3. SchedStep => agents \subseteq agents' /\ UNCHANGED <<known, senders>>
  BY DEF SchedStep, SchedNewAgent, SchedInc, SchedDec, SchedStart, SchedEdit, SchedRunEnd,
         SchedRunEndLoses, SchedHaltState, SchedHalt, SchedPanics, Stop, SchedFrame, apiVars
<1> QED
  BY <1>1, <1>2, <1>3, PlainSteps

\* What the scheduler's step does to the wiring and to the kept edits.
LEMMA SchedWires ==
  ASSUME TypeOK, sched' = "up", SchedStep
  PROVE  \/ UNCHANGED <<conn, edit_msgs>>
         \/ \E a \in Agents : /\ edit_msgs' = [edit_msgs EXCEPT ![a] = <<>>]
                              /\ UNCHANGED conn \/ ApplyAll(edit_msgs[a])
         \/ \E a \in Agents : \E e \in EditCmp :
              /\ Took(Edit(a, e))
              /\ \/ UNCHANGED edit_msgs /\ Apply(e)
                 \/ /\ UNCHANGED conn
                    /\ edit_msgs' = [edit_msgs EXCEPT ![a] = Append(@, e)]
<1> USE DEF TypeOK
<1>1. ASSUME NEW a \in Agents, SchedNewAgent(a)
      PROVE  edit_msgs' = [edit_msgs EXCEPT ![a] = <<>>] /\ UNCHANGED conn
  BY <1>1 DEF SchedNewAgent
<1>2. ASSUME NEW a \in Agents, SchedInc(a) \/ SchedDec(a) \/ SchedStart(a)
      PROVE  UNCHANGED <<conn, edit_msgs>>
  BY <1>2 DEF SchedInc, SchedDec, SchedStart
<1>3. ASSUME NEW a \in Agents, NEW e \in EditCmp, SchedEdit(a, e)
      PROVE  \/ UNCHANGED <<conn, edit_msgs>>
             \/ UNCHANGED edit_msgs /\ Apply(e)
             \/ /\ UNCHANGED conn
                /\ edit_msgs' = [edit_msgs EXCEPT ![a] = Append(@, e)]
  BY <1>3 DEF SchedEdit
<1>4. ASSUME NEW a \in Agents, NEW r \in Results, SchedRunEnd(a, r) \/ SchedRunEndLoses(a, r)
      PROVE  /\ edit_msgs' = [edit_msgs EXCEPT ![a] = <<>>]
             /\ UNCHANGED conn \/ ApplyAll(edit_msgs[a])
  BY <1>4 DEF SchedRunEnd, SchedRunEndLoses
<1>5. SchedHaltState => UNCHANGED <<conn, edit_msgs>>
  BY DEF SchedHaltState
<1> QED
  BY <1>1, <1>2, <1>3, <1>4, <1>5, SchedTakes

\* After the edits kept during a run, a port is connected as it was, or to
\* what one of them says.
LEMMA ApplyAllConnects ==
  ASSUME NEW es \in Seq(EditCmp), ApplyAll(es), NEW o \in OutPorts
  PROVE  \/ conn'[o] = conn[o]
         \/ \E j \in 1..Len(es) : es[j].kind = "connect" /\ conn'[o] = es[j].to
<1> DEFINE Connects == {j \in 1..Len(es) : es[j].kind = "connect" /\ es[j].port = o}
<1>1. CASE Connects = {}
  BY <1>1 DEF ApplyAll
<1>2. CASE Connects # {}
  <2>1. Len(es) \in Nat /\ Connects \subseteq 1..Len(es)
    OBVIOUS
  <2>2. Greatest(Connects) \in Connects
    BY <1>2, <2>1, GreatestIsIn
  <2>3. conn'[o] = es[Greatest(Connects)].to
    BY <1>2 DEF ApplyAll
  <2> QED
    BY <2>2, <2>3
<1> QED
  BY <1>1, <1>2

\* What stays of the mailbox in a step of the scheduler was in it before, one
\* place later.
LEMMA TookPlaces ==
  ASSUME TypeOK, sched' = "up", SchedStep
  PROVE  \A i \in 1..Len(mailbox') :
           \/ i + 1 \in 1..Len(mailbox) /\ mailbox'[i] = mailbox[i + 1]
           \/ mailbox'[i] = Halt
<1>1. \E m : Took(m)
  BY SchedTakes DEF TypeOK
<1> QED
  BY <1>1 DEF Took

\* Every sender stays one of an agent that the owner knows.
LEMMA NextSender ==
  ASSUME TypeOK, KnownInv, SenderInv, sched = "up", sched' = "up", [Next]_vars
  PROVE  SenderInv'
<1> USE DEF TypeOK
<1>0. /\ agents \subseteq agents' /\ known \subseteq known' /\ senders \subseteq senders'
      /\ Len(mailbox) \in Nat
      /\ \A a \in Agents : edit_msgs[a] \in Seq(EditCmp) /\ a \in DOMAIN edit_msgs
  BY KnownGrows DEF QueueType, StateType
<1>1. \A p \in senders' : Owner[p] \in known'
  <2>1. Plain \/ SchedStep => UNCHANGED <<senders, known>>
    BY DEF Plain, SchedStep, SchedNewAgent, SchedInc, SchedDec, SchedStart, SchedEdit,
           SchedRunEnd, SchedRunEndLoses, SchedHaltState, SchedHalt, SchedPanics, Stop,
           SchedFrame, apiVars
  <2>2. ApiCall => \A p \in senders' : Owner[p] \in known'
    BY DEF ApiCall, SenderInv, apiVars
  <2> QED
    BY <2>1, <2>2, PlainSteps DEF SenderInv
<1>2. \/ UNCHANGED <<conn, edit_msgs>>
      \/ SchedStep
  BY PlainSteps DEF Plain, ApiCall, stateVars
<1>3. ASSUME NEW a \in Agents, NEW e \in EditCmp, Took(Edit(a, e)), e.kind = "connect"
      PROVE  e.to \in senders
  <2>1. 1 \in 1..Len(mailbox) /\ mailbox[1] = Edit(a, e)
    BY <1>0, <1>3 DEF Took
  <2>2. Edit(a, e).type = "Edit" /\ Edit(a, e).edit = e
    BY DEF Edit
  <2> QED
    BY <1>3, <2>1, <2>2 DEF SenderInv
<1>4. \A o \in OutPorts : conn'[o] \in senders' \cup Silent \cup {None}
  <2>1. CASE UNCHANGED conn
    BY <1>0, <2>1 DEF SenderInv
  <2>2. ASSUME NEW a \in Agents, ApplyAll(edit_msgs[a])
        PROVE  \A o \in OutPorts : conn'[o] \in senders' \cup Silent \cup {None}
    BY <1>0, <2>2, ApplyAllConnects DEF SenderInv
  <2>3. ASSUME NEW a \in Agents, NEW e \in EditCmp, Took(Edit(a, e)), Apply(e)
        PROVE  \A o \in OutPorts : conn'[o] \in senders' \cup Silent \cup {None}
    BY <1>0, <1>3, <2>3 DEF SenderInv, Apply, PortType
  <2> QED
    BY <1>2, <2>1, <2>2, <2>3, SchedWires
<1>5. \A a \in Agents : \A i \in 1..Len(edit_msgs'[a]) :
        edit_msgs'[a][i].kind = "connect" => edit_msgs'[a][i].to \in senders'
  <2>1. CASE UNCHANGED edit_msgs
    BY <1>0, <2>1 DEF SenderInv
  <2>2. ASSUME NEW a \in Agents, edit_msgs' = [edit_msgs EXCEPT ![a] = <<>>]
        PROVE  \A b \in Agents : \A i \in 1..Len(edit_msgs'[b]) :
                 edit_msgs'[b][i].kind = "connect" => edit_msgs'[b][i].to \in senders'
    BY <1>0, <2>2 DEF SenderInv
  <2>3. ASSUME NEW a \in Agents, NEW e \in EditCmp, Took(Edit(a, e)),
               edit_msgs' = [edit_msgs EXCEPT ![a] = Append(@, e)]
        PROVE  \A b \in Agents : \A i \in 1..Len(edit_msgs'[b]) :
                 edit_msgs'[b][i].kind = "connect" => edit_msgs'[b][i].to \in senders'
    <3>1. \A i \in 1..Len(edit_msgs'[a]) :
            \/ i \in 1..Len(edit_msgs[a]) /\ edit_msgs'[a][i] = edit_msgs[a][i]
            \/ edit_msgs'[a][i] = e
      BY <1>0, <2>3
    <3> QED
      BY <1>0, <1>3, <2>3, <3>1 DEF SenderInv
  <2> QED
    BY <1>2, <2>1, <2>2, <2>3, SchedWires
<1>6. \A i \in 1..Len(mailbox') :
        mailbox'[i].type = "Edit" /\ mailbox'[i].edit.kind = "connect"
          => mailbox'[i].edit.to \in senders'
  <2>1. CASE UNCHANGED mailbox
    BY <1>0, <2>1 DEF SenderInv
  <2>2. ASSUME NEW m, Posted(m),
               m.type = "Edit" /\ m.edit.kind = "connect" => m.edit.to \in senders'
        PROVE  \A i \in 1..Len(mailbox') :
                 mailbox'[i].type = "Edit" /\ mailbox'[i].edit.kind = "connect"
                   => mailbox'[i].edit.to \in senders'
    <3>1. \A i \in 1..Len(mailbox') : i \in 1..Len(mailbox) \/ i = Len(mailbox) + 1
      BY <1>0, <2>2 DEF Posted
    <3> QED
      BY <1>0, <2>2, <3>1 DEF SenderInv, Posted
  <2>3. CASE SchedStep
    <3>1. Halt.type # "Edit"
      BY DEF Halt
    <3> QED
      BY <1>0, <2>3, <3>1, TookPlaces DEF SenderInv
  <2>4. CASE Plain
    <3>1. \A t \in Threads : Notify(t) => owes[t].type # "Edit"
      BY DEF Notify, RunType, Notice
    <3>2. \A a, r : RunEnd(a, r).type # "Edit"
      BY DEF RunEnd
    <3> QED
      BY <2>1, <2>2, <2>4, <3>1, <3>2 DEF Plain
  <2>5. CASE ApiCall
    <3>1. /\ \A a : Start(a).type # "Edit" /\ NewAgent(a).type # "Edit"
          /\ \A a, e : Edit(a, e).edit = e
          /\ HaltState.type # "Edit"
      BY DEF Start, NewAgent, Edit, HaltState
    <3>2. \A m : mailbox' = Append(mailbox, m) => Posted(m)
      BY AppendPosts
    <3>3. UNCHANGED mailbox \/ \E m : /\ Posted(m)
                                      /\ m.type = "Edit" /\ m.edit.kind = "connect"
                                           => m.edit.to \in senders'
      BY <1>0, <2>5, <3>1, <3>2 DEF ApiCall
    <3> QED
      BY <2>1, <2>2, <3>3
  <2> QED
    BY <2>3, <2>4, <2>5, PlainSteps
<1> QED
  BY <1>1, <1>4, <1>5, <1>6 DEF SenderInv

\* A message about a known agent may be posted.
LEMMA PostAddressed ==
  ASSUME KnownInv, Len(mailbox) \in Nat, agents \subseteq agents',
         \A i \in 1..Len(mailbox) : Addressed(i), NEW m, Posted(m),
         m.type \in {"Inc", "Dec", "Start", "Edit", "RunEnd"} => m.id \in known
  PROVE  \A i \in 1..Len(mailbox') : Addressed(i)'
<1>0. PICK n : n = Len(mailbox) + 1
  OBVIOUS
<1>1. \A i \in 1..Len(mailbox') : i \in 1..Len(mailbox) \/ i = n
  BY <1>0 DEF Posted
<1>2. \A a, j : Holds(j, NewAgent(a)) => Holds(j, NewAgent(a))'
  BY DEF Holds, Posted
<1>3. \A i \in 1..Len(mailbox) : Addressed(i)'
  BY <1>2 DEF Addressed, Posted
<1>4. ASSUME m.type \in {"Inc", "Dec", "Start", "Edit", "RunEnd"}
      PROVE  \/ m.id \in agents
             \/ \E j \in 1..Len(mailbox) : Holds(j, NewAgent(m.id))
  BY <1>4 DEF KnownInv
<1>5. mailbox'[n] = m /\ n - 1 = Len(mailbox)
  BY <1>0 DEF Posted
<1>6. Addressed(n)'
  BY <1>2, <1>4, <1>5 DEF Addressed
<1> QED
  BY <1>1, <1>3, <1>6

\* The first message may be taken.
LEMMA TakeAddressed ==
  ASSUME Len(mailbox) \in Nat, agents \subseteq agents',
         \A i \in 1..Len(mailbox) : Addressed(i), NEW m, Took(m),
         \A a : m = NewAgent(a) => a \in agents'
  PROVE  \A i \in 1..Len(mailbox') : Addressed(i)'
<1> SUFFICES ASSUME NEW i \in 1..Len(mailbox'), NEW b, b = mailbox'[i].id,
                    mailbox'[i].type \in {"Inc", "Dec", "Start", "Edit", "RunEnd"}
             PROVE  b \in agents' \/ \E j \in 1..(i - 1) : Holds(j, NewAgent(b))'
  BY DEF Addressed
<1>1. i + 1 \in 1..Len(mailbox) /\ mailbox'[i] = mailbox[i + 1]
  BY DEF Took, Halt
<1>2. b \in agents \/ \E j \in 1..i : Holds(j, NewAgent(b))
  BY <1>1 DEF Addressed
<1>3. ASSUME NEW j \in 1..i, Holds(j, NewAgent(b))
      PROVE  b \in agents' \/ \E k \in 1..(i - 1) : Holds(k, NewAgent(b))'
  <2>1. CASE j = 1
    BY <1>3, <2>1 DEF Holds, Took
  <2>2. CASE j # 1
    <3>1. j \in 2..Len(mailbox) /\ j - 1 \in 1..(i - 1)
      BY <1>3, <2>2 DEF Holds
    <3>2. Holds(j - 1, NewAgent(b))'
      BY <1>3, <3>1 DEF Holds, Took
    <3> QED
      BY <3>1, <3>2
  <2> QED
    BY <2>1, <2>2
<1> QED
  BY <1>2, <1>3

\* A message is sent with a sender that the owner made, or on a port that does
\* not schedule.
LEMMA TargetSender ==
  ASSUME TypeOK, SenderInv, NEW t \in Threads, Put(t)
  PROVE  Target(t) # None /\ Target(t) \in senders \cup Silent
<1>1. CASE t \in Agents
  <2>1. Op(t).port \in OutPorts
    BY <1>1, OpType DEF TypeOK, Put, Ready, OpsOf, AgentOp
  <2> QED
    BY <1>1, <2>1 DEF Put, Target, SenderInv
<1>2. CASE t \notin Agents
  BY <1>2 DEF Put, Threads
<1> QED
  BY <1>1, <1>2

\* A notice that a thread comes to owe is for an agent the owner knows.
LEMMA OwesKnown ==
  ASSUME TypeOK, KnownInv, BoxInv, SenderInv, sched = "up", sched' = "up", [Next]_vars,
         \A t \in Threads : owes[t] # None => owes[t].id \in known
  PROVE  \A t \in Threads : owes'[t] # None => owes'[t].id \in known'
<1> USE DEF TypeOK
<1>0. known \subseteq known' /\ agents \subseteq known /\ owes \in [Threads -> Notice \cup {None}]
  BY KnownGrows DEF KnownInv, RunType
<1>1. ASSUME NEW t \in Threads, Put(t)
      PROVE  \A u \in Threads : owes'[u] # None => owes'[u].id \in known
  <2> DEFINE p == Target(t)
  <2>1. p # None /\ (p \in senders \/ p \in Silent)
    BY <1>1, TargetSender
  <2>2. IncDue(p) # None => IncDue(p).id \in known
    BY <2>1 DEF IncDue, Inc, SenderInv
  <2>3. owes' = [owes EXCEPT ![t] = IncDue(p)]
    BY <1>1 DEF Put
  <2> HIDE DEF p
  <2> QED
    BY <1>0, <2>2, <2>3
<1>2. ASSUME NEW a \in Agents, Get(a)
      PROVE  \A u \in Threads : owes'[u] # None => owes'[u].id \in known
  <2>1. a \in Threads
    BY DEF Threads
  <2>2. PICK p \in InPorts : Owner[p] = a /\ owes' = [owes EXCEPT ![a] = DecDue(p)]
    BY <1>2, GetPort
  <2>3. a \in known
    BY <1>0, <1>2 DEF Get, Ready, BoxInv, AwayInv
  <2>4. DecDue(p) # None => DecDue(p).id \in known
    BY <2>2, <2>3 DEF DecDue, Dec
  <2> QED
    BY <1>0, <2>2, <2>4
<1>3. ASSUME NEW t \in Threads, Notify(t)
      PROVE  \A u \in Threads : owes'[u] # None => owes'[u].id \in known
  BY <1>0, <1>3 DEF Notify
<1>4. ASSUME NEW t \in Threads, PutFails(t) \/ GetFails(t) \/ EndRun(t) \/ ApiStep(t)
                                \/ Joined(t) \/ ClientPanics(t)
      PROVE  UNCHANGED owes
  BY <1>4 DEF PutFails, GetFails, EndRun, ApiStep, AddNode, StartAgent, Connect,
              AddElement, SetReceiver, HandReceiver, Disconnect, BadReceiver, Join, ApiFrame, Joined, ClientPanics
<1>5. StartJob \/ UNCHANGED vars => UNCHANGED owes
  BY DEF StartJob, vars
<1>6. SchedStep => UNCHANGED owes
  BY DEF SchedStep, SchedNewAgent, SchedInc, SchedDec, SchedStart, SchedEdit, SchedRunEnd,
         SchedRunEndLoses, SchedHaltState, SchedHalt, SchedPanics, Stop, SchedFrame
<1>7. \A t \in Agents \cup Clients : t \in Threads
  BY DEF Threads
<1> QED
  BY <1>0, <1>1, <1>2, <1>3, <1>4, <1>5, <1>6, <1>7
  DEF Next, AgentStep, ClientStep, ApiStep, Terminated

\* A step that leaves the scheduler running keeps AddressInv.
LEMMA NextAddress ==
  ASSUME TypeOK, KnownInv, BoxInv, SenderInv, AddressInv, sched = "up", sched' = "up",
         [Next]_vars
  PROVE  AddressInv'
<1> USE DEF TypeOK
<1>0. /\ agents \subseteq agents' /\ agents \subseteq known /\ Len(mailbox) \in Nat
      /\ \A i \in 1..Len(mailbox) : Addressed(i)
  <2>1. agents \subseteq agents' /\ agents \subseteq known
    BY KnownGrows DEF KnownInv
  <2>2. Len(mailbox) \in Nat /\ \A i \in 1..Len(mailbox) : Addressed(i)
    BY DEF QueueType, AddressInv
  <2> QED
    BY <2>1, <2>2
<1>1. UNCHANGED mailbox => \A i \in 1..Len(mailbox') : Addressed(i)'
  BY <1>0 DEF Addressed, Holds
<1>2. ASSUME Plain
      PROVE  \A i \in 1..Len(mailbox') : Addressed(i)'
  <2>1. \A t \in Threads : Notify(t) => owes[t].id \in known
    BY DEF Notify, AddressInv
  <2>2. \A a \in Agents : EndRun(a) => a \in known
    BY <1>0 DEF EndRun, BoxInv, AwayInv
  <2>3. \A a, r : RunEnd(a, r).id = a
    BY DEF RunEnd
  <2>4. UNCHANGED mailbox \/ \E m : Posted(m) /\ m.id \in known
    BY <1>2, <2>1, <2>2, <2>3 DEF Plain
  <2>5. ASSUME NEW m, Posted(m), m.id \in known
        PROVE  \A i \in 1..Len(mailbox') : Addressed(i)'
    BY <1>0, <2>5, PostAddressed
  <2> QED
    BY <1>1, <2>4, <2>5
<1>3. ASSUME ApiCall
      PROVE  \A i \in 1..Len(mailbox') : Addressed(i)'
  <2>1. /\ \A a : Start(a).id = a /\ NewAgent(a).type = "NewAgent"
        /\ \A a, e : Edit(a, e).id = a
        /\ HaltState.type = "HaltState"
    BY DEF Start, NewAgent, Edit, HaltState
  <2>2. \A m : mailbox' = Append(mailbox, m) => Posted(m)
    BY AppendPosts
  <2>3. UNCHANGED mailbox \/ \E m : /\ Posted(m)
                                    /\ m.type \in {"Inc", "Dec", "Start", "Edit", "RunEnd"}
                                         => m.id \in known
    BY <1>3, <2>1, <2>2 DEF ApiCall
  <2>4. ASSUME NEW m, Posted(m),
               m.type \in {"Inc", "Dec", "Start", "Edit", "RunEnd"} => m.id \in known
        PROVE  \A i \in 1..Len(mailbox') : Addressed(i)'
    BY <1>0, <2>4, PostAddressed
  <2> QED
    BY <1>1, <2>3, <2>4
<1>4. ASSUME SchedStep
      PROVE  \A i \in 1..Len(mailbox') : Addressed(i)'
  <2>1. /\ \A a, b : /\ Inc(a) # NewAgent(b) /\ Dec(a) # NewAgent(b)
                     /\ Start(a) # NewAgent(b) /\ HaltState # NewAgent(b)
        /\ \A a, b, e : Edit(a, e) # NewAgent(b) /\ RunEnd(a, e) # NewAgent(b)
        /\ \A a, b : NewAgent(a) = NewAgent(b) => a = b
    <3>1. \A a : /\ Inc(a).type = "Inc" /\ Dec(a).type = "Dec" /\ Start(a).type = "Start"
                 /\ HaltState.type = "HaltState" /\ NewAgent(a).type = "NewAgent"
      BY DEF Inc, Dec, Start, HaltState, NewAgent
    <3>2. \A a, e : Edit(a, e).type = "Edit" /\ RunEnd(a, e).type = "RunEnd"
      BY DEF Edit, RunEnd
    <3> QED
      BY <3>1, <3>2, NewAgentIs
  <2>2. \A a \in Agents : SchedNewAgent(a) => a \in agents'
    BY DEF SchedNewAgent
  <2>3. \E m : Took(m) /\ \A a : m = NewAgent(a) => a \in agents'
    BY <1>4, <2>1, <2>2, SchedTakes
  <2> QED
    BY <1>0, <2>3, TakeAddressed
<1>5. \A i \in 1..Len(mailbox') : Addressed(i)'
  BY <1>2, <1>3, <1>4, PlainSteps
<1> QED
  BY <1>5, OwesKnown DEF AddressInv, Addressed

-----------------------------------------------------------------------------
(* The two accounts of a message.                                           *)

\* The notices and the other messages differ.
LEMMA NoticeIs ==
  /\ \A a, b : /\ Inc(a) # Dec(b)
               /\ (Inc(a) = Inc(b)) => a = b
               /\ (Dec(a) = Dec(b)) => a = b
  /\ \A a : /\ Inc(a).type = "Inc" /\ Inc(a).id = a
            /\ Dec(a).type = "Dec" /\ Dec(a).id = a
  /\ \A a \in Agents : /\ Inc(a) \in Notice /\ Dec(a) \in Notice
                       /\ Inc(a) \in CompMsg /\ Dec(a) \in CompMsg
<1>1. /\ \A a : /\ Inc(a).type = "Inc" /\ Inc(a).id = a
                /\ Dec(a).type = "Dec" /\ Dec(a).id = a
  BY DEF Inc, Dec
<1>2. \A a, b : /\ Inc(a) # Dec(b)
                /\ (Inc(a) = Inc(b)) => a = b
                /\ (Dec(a) = Dec(b)) => a = b
  BY <1>1
<1>3. \A a \in Agents : Inc(a) \in Notice /\ Dec(a) \in Notice
  BY DEF Inc, Dec, Notice
<1> QED
  BY <1>1, <1>2, <1>3 DEF CompMsg

\* A message of another type is not a notice.
LEMMA OtherTypes ==
  ASSUME NEW m, m.type \notin {"Inc", "Dec"}
  PROVE  \A a : m # Inc(a) /\ m # Dec(a)
  BY NoticeIs

\* The threads that owe a notice are finitely many.
LEMMA OwingFinite ==
  ASSUME NEW m
  PROVE  IsFiniteSet(Owing(m)) /\ Cardinality(Owing(m)) \in Nat
<1>1. IsFiniteSet(Threads)
  BY SetsAssumption, FS_Union DEF Threads
<1>2. IsFiniteSet(Owing(m))
  BY <1>1, FS_Subset DEF Owing
<1> QED
  BY <1>2, FS_CardinalityType

\* One notice more is owed.
LEMMA OwingMore ==
  ASSUME RunType, NEW t \in Threads, owes[t] = None, NEW x,
         owes' = [owes EXCEPT ![t] = x], NEW m, m # None
  PROVE  Cardinality(Owing(m))' = Cardinality(Owing(m)) + (IF x = m THEN 1 ELSE 0)
<1>0. owes \in [Threads -> Notice \cup {None}]
  BY DEF RunType
<1>1. CASE x = m
  <2>1. Owing(m)' = Owing(m) \cup {t} /\ t \notin Owing(m)
    BY <1>0, <1>1 DEF Owing
  <2> QED
    BY <1>1, <2>1, OwingFinite, FS_AddElement
<1>2. CASE x # m
  <2>1. Owing(m)' = Owing(m)
    BY <1>0, <1>2 DEF Owing
  <2> QED
    BY <1>2, <2>1, OwingFinite
<1> QED
  BY <1>1, <1>2

\* One notice less is owed.
LEMMA OwingLess ==
  ASSUME RunType, NEW t \in Threads, owes' = [owes EXCEPT ![t] = None],
         NEW m, m # None
  PROVE  Cardinality(Owing(m))' = Cardinality(Owing(m)) - (IF owes[t] = m THEN 1 ELSE 0)
<1>0. owes \in [Threads -> Notice \cup {None}]
  BY DEF RunType
<1>1. CASE owes[t] = m
  <2>1. Owing(m)' = Owing(m) \ {t} /\ t \in Owing(m)
    BY <1>0, <1>1 DEF Owing
  <2>2. Cardinality(Owing(m) \ {t}) = Cardinality(Owing(m)) - 1
    BY <2>1, OwingFinite, FS_RemoveElement
  <2> QED
    BY <1>1, <2>1, <2>2
<1>2. CASE owes[t] # m
  <2>1. Owing(m)' = Owing(m)
    BY <1>0, <1>2 DEF Owing
  <2> QED
    BY <1>2, <2>1, OwingFinite
<1> QED
  BY <1>1, <1>2

\* The counts of the mailbox, after a message is posted.
LEMMA PostCounts ==
  ASSUME QueueType, NEW m \in CompMsg, mailbox' = Append(mailbox, m), NEW n
  PROVE  /\ Count(mailbox, n) \in Nat
         /\ Count(mailbox', n) = Count(mailbox, n) + (IF m = n THEN 1 ELSE 0)
  BY PositionsFinite, CountAppend DEF QueueType

\* The counts of the mailbox, after a message is taken.
LEMMA TakeCounts ==
  ASSUME QueueType, NEW m, Receive(m),
         mailbox' = Tail(mailbox) \/ mailbox' = Append(Tail(mailbox), Halt),
         NEW n, n # Halt
  PROVE  /\ Count(mailbox, n) \in Nat
         /\ Count(mailbox', n) = Count(mailbox, n) - (IF m = n THEN 1 ELSE 0)
<1>0. PICK rest : rest = Tail(mailbox)
  OBVIOUS
<1>1. /\ mailbox \in Seq(CompMsg) /\ mailbox # <<>> /\ Head(mailbox) = m
      /\ rest \in Seq(CompMsg) /\ Halt \in CompMsg
  BY <1>0 DEF QueueType, Receive, Halt, CompMsg
<1>2. /\ Count(mailbox, n) \in Nat /\ Count(rest, n) \in Nat
      /\ Count(rest, n) = Count(mailbox, n) - (IF m = n THEN 1 ELSE 0)
  BY <1>0, <1>1, PositionsFinite, CountTail
<1>3. Count(Append(rest, Halt), n) = Count(rest, n)
  <2>1. Count(Append(rest, Halt), n) = Count(rest, n) + (IF Halt = n THEN 1 ELSE 0)
    BY <1>1, CountAppend
  <2> QED
    BY <1>2, <2>1
<1> QED
  BY <1>0, <1>2, <1>3

\* The four numbers of the balance are integers.
LEMMA BalanceType ==
  ASSUME TypeOK, NEW a \in Agents
  PROVE  /\ ips[a] \in Int
         /\ Count(mailbox, Inc(a)) \in Nat /\ Cardinality(Owing(Inc(a))) \in Nat
         /\ Count(mailbox, Dec(a)) \in Nat /\ Cardinality(Owing(Dec(a))) \in Nat
         /\ IsFiniteSet(Scheduling(a)) /\ Scheduling(a) \subseteq InPorts
         /\ Queued(a) \in Nat
<1>1. IsFiniteSet(Scheduling(a)) /\ Scheduling(a) \subseteq InPorts
  BY SetsAssumption, FS_Subset DEF Scheduling
<1>2. Queued(a) \in Nat
  BY <1>1, PlacesFinite, SizeAssumption DEF Queued
<1> QED
  BY <1>1, <1>2, PositionsFinite, OwingFinite DEF TypeOK, StateType, QueueType

\* A message put in a channel is owed an Inc.
LEMMA PutBalance ==
  ASSUME TypeOK, NEW t \in Threads, Put(t), NEW a \in Agents, Balance(a)
  PROVE  Balance(a)'
<1> USE DEF TypeOK
<1>0. PICK p \in InPorts : p = Target(t)
  BY TargetType DEF Put, Ready
<1>1. /\ owes[t] = None /\ chan[p] < Capacity
      /\ chan' = [chan EXCEPT ![p] = @ + 1]
      /\ owes' = [owes EXCEPT ![t] = IncDue(p)]
      /\ ips' = ips /\ mailbox' = mailbox
  BY <1>0 DEF Put, Ready, HasRoom, stateVars
<1>2. IncDue(p) = Inc(a) <=> p \in Scheduling(a)
  BY NoticeIs, NoneAssumption DEF IncDue, Scheduling
<1>3. IncDue(p) # Dec(a)
  BY NoticeIs, NoneAssumption DEF IncDue
<1>4. /\ Cardinality(Owing(Inc(a)))' = Cardinality(Owing(Inc(a)))
                                         + (IF p \in Scheduling(a) THEN 1 ELSE 0)
      /\ Cardinality(Owing(Dec(a)))' = Cardinality(Owing(Dec(a)))
  <2>1. Inc(a) # None /\ Dec(a) # None
    BY NoticeIs, NoneAssumption
  <2>2. \A m : m # None => Cardinality(Owing(m))' = Cardinality(Owing(m))
                                                   + (IF IncDue(p) = m THEN 1 ELSE 0)
    BY <1>1, OwingMore
  <2>3. Cardinality(Owing(Dec(a))) \in Nat
    BY BalanceType
  <2> QED
    BY <1>2, <1>3, <2>1, <2>2, <2>3
<1>5. Queued(a)' = Queued(a) + (IF p \in Scheduling(a) THEN 1 ELSE 0)
  <2>0. chan \in [InPorts -> 0..Capacity]
    BY DEF PortType
  <2>1. IsFiniteSet(Scheduling(a)) /\ Scheduling(a) \subseteq InPorts
    BY BalanceType
  <2>2. Capacity \in Nat /\ \A q \in Scheduling(a) : chan[q] \in 0..Capacity
    BY <2>0, <2>1, SizeAssumption
  <2>3. /\ chan[p] \in Nat /\ chan[p] < Capacity /\ chan'[p] = chan[p] + 1
        /\ \A q \in Scheduling(a) \ {p} : chan'[q] = chan[q]
    BY <1>1, <2>0, <2>1
  <2>4. Cardinality(Places(chan', Scheduling(a), Capacity))
          = Cardinality(Places(chan, Scheduling(a), Capacity))
              + (IF p \in Scheduling(a) THEN 1 ELSE 0)
    BY <2>1, <2>2, <2>3, PlacesPut
  <2> QED
    BY <2>4 DEF Queued
<1>6. Pending(Inc(a))' = Pending(Inc(a)) + (IF p \in Scheduling(a) THEN 1 ELSE 0)
      /\ Pending(Dec(a))' = Pending(Dec(a))
  BY <1>1, <1>4, BalanceType DEF Pending
<1>7. Pending(Inc(a)) \in Nat /\ Pending(Dec(a)) \in Nat
  BY BalanceType DEF Pending
<1> QED
  BY <1>1, <1>5, <1>6, <1>7, BalanceType DEF Balance

\* A message taken from a channel is owed a Dec.
LEMMA GetBalance ==
  ASSUME TypeOK, NEW t \in Agents, Get(t), NEW a \in Agents, Balance(a)
  PROVE  Balance(a)'
<1> USE DEF TypeOK
<1>0. t \in Threads
  BY DEF Threads
<1>9. PICK p \in InPorts : /\ chan[p] > 0 /\ chan' = [chan EXCEPT ![p] = @ - 1]
                            /\ owes' = [owes EXCEPT ![t] = DecDue(p)] /\ Owner[p] = t
  BY GetPort
<1>1. /\ owes[t] = None /\ chan[p] > 0
      /\ chan' = [chan EXCEPT ![p] = @ - 1]
      /\ owes' = [owes EXCEPT ![t] = DecDue(p)]
      /\ ips' = ips /\ mailbox' = mailbox
  BY <1>9 DEF Get, Ready, stateVars
<1>2. DecDue(p) = Dec(a) <=> p \in Scheduling(a)
  BY NoticeIs, NoneAssumption DEF DecDue, Scheduling
<1>3. DecDue(p) # Inc(a)
  BY NoticeIs, NoneAssumption DEF DecDue
<1>4. /\ Cardinality(Owing(Dec(a)))' = Cardinality(Owing(Dec(a)))
                                         + (IF p \in Scheduling(a) THEN 1 ELSE 0)
      /\ Cardinality(Owing(Inc(a)))' = Cardinality(Owing(Inc(a)))
  <2>1. Inc(a) # None /\ Dec(a) # None
    BY NoticeIs, NoneAssumption
  <2>2. \A m : m # None => Cardinality(Owing(m))' = Cardinality(Owing(m))
                                                   + (IF DecDue(p) = m THEN 1 ELSE 0)
    BY <1>0, <1>1, OwingMore
  <2>3. Cardinality(Owing(Inc(a))) \in Nat
    BY BalanceType
  <2> QED
    BY <1>2, <1>3, <2>1, <2>2, <2>3
<1>5. Queued(a)' = Queued(a) - (IF p \in Scheduling(a) THEN 1 ELSE 0)
  <2>0. chan \in [InPorts -> 0..Capacity]
    BY DEF PortType
  <2>1. IsFiniteSet(Scheduling(a)) /\ Scheduling(a) \subseteq InPorts
    BY BalanceType
  <2>2. Capacity \in Nat /\ \A q \in Scheduling(a) : chan[q] \in 0..Capacity
    BY <2>0, <2>1, SizeAssumption
  <2>3. /\ chan[p] > 0 /\ chan'[p] = chan[p] - 1
        /\ \A q \in Scheduling(a) \ {p} : chan'[q] = chan[q]
    BY <1>1, <2>0, <2>1
  <2>4. Cardinality(Places(chan', Scheduling(a), Capacity))
          = Cardinality(Places(chan, Scheduling(a), Capacity))
              - (IF p \in Scheduling(a) THEN 1 ELSE 0)
    BY <2>1, <2>2, <2>3, PlacesGet
  <2> QED
    BY <2>4 DEF Queued
<1>6. Pending(Dec(a))' = Pending(Dec(a)) + (IF p \in Scheduling(a) THEN 1 ELSE 0)
      /\ Pending(Inc(a))' = Pending(Inc(a))
  BY <1>1, <1>4, BalanceType DEF Pending
<1>7. Pending(Inc(a)) \in Nat /\ Pending(Dec(a)) \in Nat
  BY BalanceType DEF Pending
<1> QED
  BY <1>1, <1>5, <1>6, <1>7, BalanceType DEF Balance

\* A notice is under way until the scheduler takes it.
LEMMA NotifyBalance ==
  ASSUME TypeOK, sched = "up", NEW t \in Threads, Notify(t), NEW a \in Agents, Balance(a)
  PROVE  Balance(a)'
<1> USE DEF TypeOK
<1>1. /\ owes' = [owes EXCEPT ![t] = None] /\ mailbox' = Append(mailbox, owes[t])
      /\ owes[t] \in CompMsg /\ ips' = ips /\ chan' = chan
  BY DEF Notify, RunType, CompMsg, stateVars
<1>2. ASSUME NEW m, m # None, Count(mailbox, m) \in Nat
      PROVE  Pending(m)' = Pending(m)
  <2>1. Cardinality(Owing(m))' = Cardinality(Owing(m)) - (IF owes[t] = m THEN 1 ELSE 0)
    BY <1>1, <1>2, OwingLess
  <2>2. Count(mailbox', m) = Count(mailbox, m) + (IF owes[t] = m THEN 1 ELSE 0)
    BY <1>1, PostCounts
  <2>3. Cardinality(Owing(m)) \in Nat
    BY OwingFinite
  <2> QED
    BY <1>2, <2>1, <2>2, <2>3 DEF Pending
<1>3. Pending(Inc(a))' = Pending(Inc(a)) /\ Pending(Dec(a))' = Pending(Dec(a))
  BY <1>2, BalanceType, NoticeIs, NoneAssumption
<1>4. Queued(a)' = Queued(a)
  BY <1>1 DEF Queued
<1> QED
  BY <1>1, <1>3, <1>4 DEF Balance

\* Steps that touch neither the counters nor the channels nor the notices, and
\* post or take only other messages, keep the balance.
LEMMA QuietBalance ==
  ASSUME TypeOK, UNCHANGED <<owes, chan>>, NEW a \in Agents, ips'[a] = ips[a], Balance(a),
         Count(mailbox', Inc(a)) = Count(mailbox, Inc(a)),
         Count(mailbox', Dec(a)) = Count(mailbox, Dec(a))
  PROVE  Balance(a)'
<1>1. Queued(a)' = Queued(a) /\ \A m : Owing(m)' = Owing(m)
  BY DEF Queued, Owing
<1> QED
  BY <1>1 DEF Balance, Pending

\* A step of the scheduler keeps the balance of an agent.
LEMMA SchedBalance ==
  ASSUME TypeOK, KnownInv, AddressInv, sched' = "up", SchedStep,
         NEW a \in Agents, Balance(a)
  PROVE  Balance(a)'
<1> USE DEF TypeOK
<1>0. /\ ips \in [Agents -> Int]
      /\ Inc(a) # Halt /\ Dec(a) # Halt
  BY NoticeIs DEF StateType, Halt
<1>1. UNCHANGED <<owes, chan>>
  BY DEF SchedStep, SchedNewAgent, SchedInc, SchedDec, SchedStart, SchedEdit, SchedRunEnd,
         SchedRunEndLoses, SchedHaltState, SchedHalt, SchedPanics, Stop, SchedFrame
<1>2. ASSUME NEW m, Receive(m), m.type \notin {"Inc", "Dec"},
             mailbox' = Tail(mailbox) \/ mailbox' = Append(Tail(mailbox), Halt)
      PROVE  /\ Count(mailbox', Inc(a)) = Count(mailbox, Inc(a))
             /\ Count(mailbox', Dec(a)) = Count(mailbox, Dec(a))
  <2>1. m # Inc(a) /\ m # Dec(a)
    BY <1>2, OtherTypes
  <2> QED
    BY <1>0, <1>2, <2>1, TakeCounts
<1>3. ASSUME NEW b \in Agents, SchedNewAgent(b)
      PROVE  Balance(a)'
  <2>1. NewAgent(b).type \notin {"Inc", "Dec"}
    BY DEF NewAgent
  <2>2. Receive(NewAgent(b)) /\ mailbox' = Tail(mailbox) /\ ips' = [ips EXCEPT ![b] = 0]
    BY <1>3 DEF SchedNewAgent
  <2>3. 1 \in 1..Len(mailbox) /\ Holds(1, NewAgent(b))
    BY <2>2 DEF Receive, Holds, QueueType
  <2>4. ips[b] = 0
    BY <2>3 DEF KnownInv
  <2> QED
    BY <1>0, <1>1, <1>2, <2>1, <2>2, <2>4, QuietBalance
<1>4. ASSUME NEW b \in Agents, NEW m, m \in {Inc(b), Dec(b)}, Receive(m)
      PROVE  b \in agents
  <2>1. 1 \in 1..Len(mailbox) /\ mailbox[1] = m
    BY <1>4 DEF Receive, QueueType
  <2>2. m.type \in {"Inc", "Dec"} /\ m.id = b
    BY <1>4, NoticeIs
  <2> QED
    BY <2>1, <2>2 DEF AddressInv, Addressed
<1>5. Queued(a)' = Queued(a) /\ \A m : Cardinality(Owing(m))' = Cardinality(Owing(m))
  BY <1>1 DEF Queued, Owing
<1>6. ASSUME NEW b \in Agents, SchedInc(b)
      PROVE  Balance(a)'
  <2>1. Receive(Inc(b)) /\ mailbox' = Tail(mailbox) /\ ips' = [ips EXCEPT ![b] = @ + 1]
    BY <1>4, <1>6 DEF SchedInc
  <2>2. ips'[a] = ips[a] + (IF b = a THEN 1 ELSE 0)
    BY <1>0, <2>1
  <2>3. Count(mailbox', Inc(a)) = Count(mailbox, Inc(a)) - (IF b = a THEN 1 ELSE 0)
    BY <1>0, <2>1, TakeCounts, NoticeIs
  <2>4. Count(mailbox', Dec(a)) = Count(mailbox, Dec(a))
    BY <1>0, <2>1, TakeCounts, NoticeIs
  <2> QED
    BY <1>5, <2>2, <2>3, <2>4, BalanceType DEF Balance, Pending
<1>7. ASSUME NEW b \in Agents, SchedDec(b)
      PROVE  Balance(a)'
  <2>1. Receive(Dec(b)) /\ mailbox' = Tail(mailbox) /\ ips' = [ips EXCEPT ![b] = @ - 1]
    BY <1>4, <1>7 DEF SchedDec
  <2>2. ips'[a] = ips[a] - (IF b = a THEN 1 ELSE 0)
    BY <1>0, <2>1
  <2>3. Count(mailbox', Dec(a)) = Count(mailbox, Dec(a)) - (IF b = a THEN 1 ELSE 0)
    BY <1>0, <2>1, TakeCounts, NoticeIs
  <2>4. Count(mailbox', Inc(a)) = Count(mailbox, Inc(a))
    BY <1>0, <2>1, TakeCounts, NoticeIs
  <2> QED
    BY <1>5, <2>2, <2>3, <2>4, BalanceType DEF Balance, Pending
<1>8. ASSUME NEW b \in Agents,
             \/ SchedStart(b) \/ \E e \in EditCmp : SchedEdit(b, e)
             \/ \E r \in Results : SchedRunEnd(b, r) \/ SchedRunEndLoses(b, r)
      PROVE  Balance(a)'
  <2>1. /\ ips' = ips
        /\ mailbox' = Tail(mailbox) \/ mailbox' = Append(Tail(mailbox), Halt)
        /\ \E m : Receive(m) /\ m.type \notin {"Inc", "Dec"}
    <3>1. /\ Start(b).type \notin {"Inc", "Dec"}
          /\ \A e : /\ Edit(b, e).type \notin {"Inc", "Dec"}
                    /\ RunEnd(b, e).type \notin {"Inc", "Dec"}
      BY DEF Start, Edit, RunEnd
    <3> QED
      BY <1>8, <3>1 DEF SchedStart, SchedEdit, SchedRunEnd, SchedRunEndLoses
  <2> QED
    BY <1>1, <1>2, <2>1, QuietBalance
<1>9. ASSUME SchedHaltState
      PROVE  Balance(a)'
  <2>1. HaltState.type \notin {"Inc", "Dec"}
    BY DEF HaltState
  <2> QED
    BY <1>1, <1>2, <1>9, <2>1, QuietBalance DEF SchedHaltState
<1> QED
  BY <1>3, <1>6, <1>7, <1>8, <1>9, SchedTakes

\* A step that leaves the scheduler running keeps the balance of every agent.
LEMMA NextBalance ==
  ASSUME TypeOK, KnownInv, AddressInv, sched = "up", sched' = "up", [Next]_vars,
         NEW a \in Agents, Balance(a)
  PROVE  Balance(a)'
<1> USE DEF TypeOK
<1>1. ASSUME UNCHANGED <<owes, chan, ips, mailbox>>
      PROVE  Balance(a)'
  BY <1>1, QuietBalance
<1>2. CASE \/ StartJob
           \/ \E t \in Threads : PutFails(t) \/ GetFails(t)
           \/ \E c \in Clients : Joined(c) \/ ClientPanics(c)
           \/ UNCHANGED vars
  BY <1>1, <1>2 DEF StartJob, PutFails, GetFails, Joined, ClientPanics, vars, stateVars
<1>3. ASSUME NEW m \in CompMsg, mailbox' = Append(mailbox, m), m.type \notin {"Inc", "Dec"},
             UNCHANGED <<owes, chan, ips>>
      PROVE  Balance(a)'
  <2>1. m # Inc(a) /\ m # Dec(a)
    BY <1>3, OtherTypes
  <2>2. /\ Count(mailbox', Inc(a)) = Count(mailbox, Inc(a))
        /\ Count(mailbox', Dec(a)) = Count(mailbox, Dec(a))
    BY <1>3, <2>1, PostCounts
  <2> QED
    BY <1>3, <2>2, QuietBalance
<1>4. ASSUME NEW b \in Agents, EndRun(b)
      PROVE  Balance(a)'
  <2>1. UNCHANGED <<owes, chan, ips>>
    BY <1>4 DEF EndRun, stateVars
  <2>2. CASE UNCHANGED mailbox
    BY <1>1, <2>1, <2>2
  <2>3. CASE mailbox' = Append(mailbox, RunEnd(b, res[b])) /\ res[b] # "panic"
    <3>1. RunEnd(b, res[b]) \in CompMsg
      BY <2>3 DEF RunEnd, CompMsg, RunType, Threads
    <3>2. RunEnd(b, res[b]).type \notin {"Inc", "Dec"}
      BY DEF RunEnd
    <3> QED
      BY <1>3, <2>1, <2>3, <3>1, <3>2
  <2> QED
    BY <1>4, <2>2, <2>3 DEF EndRun
<1>5. ASSUME ApiCall
      PROVE  Balance(a)'
  <2>1. UNCHANGED <<owes, chan, ips>>
    BY <1>5 DEF ApiCall, stateVars
  <2>2. /\ \A b \in Agents : /\ Start(b) \in CompMsg /\ NewAgent(b) \in CompMsg
                             /\ Start(b).type = "Start" /\ NewAgent(b).type = "NewAgent"
        /\ \A b \in Agents, e \in EditCmp : Edit(b, e) \in CompMsg /\ Edit(b, e).type = "Edit"
        /\ HaltState \in CompMsg /\ HaltState.type = "HaltState"
    BY DEF Start, NewAgent, Edit, HaltState, CompMsg
  <2>3. UNCHANGED mailbox \/ \E m \in CompMsg : /\ mailbox' = Append(mailbox, m)
                                                /\ m.type \notin {"Inc", "Dec"}
    BY <1>5, <2>2 DEF ApiCall, PortType
  <2> QED
    BY <1>1, <1>3, <2>1, <2>3
<1>6. ASSUME NEW c \in Clients, ApiStep(c)
      PROVE  ApiCall
  BY <1>6, ApiStepIsCall
<1>7. \A t \in Agents \cup Clients : t \in Threads
  BY DEF Threads
<1>8. \A t \in Threads : Put(t) \/ Notify(t) => Balance(a)'
  BY PutBalance, NotifyBalance
<1>9. \A b \in Agents : Get(b) => Balance(a)'
  BY GetBalance
<1>10. SchedStep => Balance(a)'
  BY SchedBalance
<1> QED
  BY <1>2, <1>4, <1>5, <1>6, <1>7, <1>8, <1>9, <1>10
  DEF Next, AgentStep, ClientStep, ApiStep, Terminated

-----------------------------------------------------------------------------
(* Agents at rest.                                                          *)

\* An agent whose box is with the scheduler has been woken for all it was told.
LEMMA NextRest ==
  ASSUME TypeOK, RestInv, sched = "up", sched' = "up", [Next]_vars
  PROVE  RestInv'
<1> USE DEF TypeOK
<1>0. ips \in [Agents -> Int] /\ home \subseteq agents /\ agents \subseteq Agents
  BY DEF StateType
<1>1. Plain \/ ApiCall => RestInv'
  BY DEF Plain, ApiCall, stateVars, RestInv
<1>2. ASSUME NEW a \in Agents, SchedNewAgent(a) PROVE RestInv'
  BY <1>0, <1>2 DEF SchedNewAgent, RestInv
<1>3. ASSUME NEW a \in Agents, SchedInc(a) PROVE RestInv'
  BY <1>0, <1>3 DEF SchedInc, Wakes, Run, NoRun, RestInv
<1>4. ASSUME NEW a \in Agents, SchedDec(a) PROVE RestInv'
  BY <1>0, <1>4 DEF SchedDec, NoRun, RestInv
<1>5. ASSUME NEW a \in Agents, SchedStart(a) PROVE RestInv'
  BY <1>0, <1>5 DEF SchedStart, Run, NoRun, RestInv
<1>6. ASSUME NEW a \in Agents, NEW e \in EditCmp, SchedEdit(a, e) PROVE RestInv'
  BY <1>0, <1>6 DEF SchedEdit, NoRun, RestInv
<1>7. ASSUME NEW a \in Agents, NEW r \in Results, SchedRunEnd(a, r) PROVE RestInv'
  BY <1>0, <1>7 DEF SchedRunEnd, MustRestart, Run, RestInv
<1>8. ASSUME NEW a \in Agents, NEW r \in Results, SchedRunEndLoses(a, r) PROVE RestInv'
  BY <1>0, <1>8 DEF SchedRunEndLoses, NoRun, RestInv
<1>9. SchedHaltState => RestInv'
  BY <1>0 DEF SchedHaltState, NoRun, RestInv
<1> QED
  BY <1>1, <1>2, <1>3, <1>4, <1>5, <1>6, <1>7, <1>8, <1>9, PlainSteps, SchedTakes

\* The agent that the scheduler gives to the pool was idle.
LEMMA GoesIdle ==
  ASSUME TypeOK, BoxInv, NEW a \in Agents, BoxGoes(a)
  PROVE  pc[a] = "idle"
<1>1. CASE a \in home
  BY <1>1 DEF BoxInv, AwayInv
<1>2. ASSUME NEW r, Took(RunEnd(a, r))
      PROVE  pc[a] = "idle"
  <2>1. 1 \in 1..Len(mailbox) /\ EndsAt(1, a)
    BY <1>2 DEF Took, EndsAt, RunEnd, TypeOK, QueueType
  <2> QED
    BY <2>1 DEF BoxInv, RunEndInv
<1> QED
  BY <1>1, <1>2 DEF BoxGoes

\* What a step of the scheduler does to the states of the agents.
LEMMA SchedRuns ==
  ASSUME TypeOK, BoxInv, sched' = "up", SchedStep
  PROVE  /\ \A a \in Agents : pc[a] = "run" <=> pc'[a] = "run"
         /\ lost \subseteq lost' /\ UNCHANGED owes
<1>1. UNCHANGED owes
  BY DEF SchedStep, SchedNewAgent, SchedInc, SchedDec, SchedStart, SchedEdit, SchedRunEnd,
         SchedRunEndLoses, SchedHaltState, SchedHalt, SchedPanics, Stop, SchedFrame
<1>2. \A a \in Agents : BoxGoes(a) => pc' = [pc EXCEPT ![a] = "queued"] /\ pc[a] = "idle"
                                      /\ UNCHANGED lost
  BY GoesIdle DEF BoxGoes, Run
<1>3. \A a \in Agents : a \in DOMAIN pc
  BY DEF TypeOK, RunType, Threads
<1> QED
  BY <1>1, <1>2, <1>3, SchedBoxes DEF BoxRests, BoxComes, BoxReturns

\* A step that leaves the scheduler running keeps OwesDecInv.
LEMMA NextOwesDec ==
  ASSUME TypeOK, BoxInv, OwesDecInv, sched = "up", sched' = "up", [Next]_vars
  PROVE  OwesDecInv'
<1> USE DEF TypeOK
<1>0. /\ owes \in [Threads -> Notice \cup {None}]
      /\ \A a \in Agents : a \in Threads /\ a \in DOMAIN pc /\ a \notin Clients
      /\ \A c \in Clients : c \in Threads
      /\ \A a \in Agents : Dec(a) # None
  BY NoticeIs, NoneAssumption, SetsAssumption DEF RunType, Threads
<1>1. ASSUME UNCHANGED owes, \A a \in Agents : pc[a] = "run" => pc'[a] = "run"
      PROVE  OwesDecInv'
  BY <1>1 DEF OwesDecInv
<1>2. CASE \/ \E t \in Threads : PutFails(t) \/ GetFails(t)
           \/ UNCHANGED vars
  BY <1>1, <1>2 DEF PutFails, GetFails, vars
<1>3. CASE StartJob
  BY <1>0, <1>1, <1>3 DEF StartJob, QueueType, RunType
<1>4. ASSUME NEW c \in Clients, Joined(c) \/ ClientPanics(c)
      PROVE  OwesDecInv'
  <2>1. \A a \in Agents : pc'[a] = pc[a]
    BY <1>0, <1>4 DEF Joined, ClientPanics, RunType
  <2> QED
    BY <1>1, <1>4, <2>1 DEF Joined, ClientPanics
<1>5. ASSUME NEW t \in Threads, Put(t)
      PROVE  OwesDecInv'
  <2>1. owes' = [owes EXCEPT ![t] = IncDue(Target(t))] /\ UNCHANGED pc
    BY <1>5 DEF Put
  <2>2. \A a \in Agents : IncDue(Target(t)) # Dec(a)
    BY <1>0, NoticeIs DEF IncDue
  <2> QED
    BY <1>0, <2>1, <2>2 DEF OwesDecInv
<1>6. ASSUME NEW b \in Agents, Get(b)
      PROVE  OwesDecInv'
  <2>1. PICK p \in InPorts : Owner[p] = b /\ owes' = [owes EXCEPT ![b] = DecDue(p)]
    BY <1>0, <1>6, GetPort DEF TypeOK
  <2>2. UNCHANGED pc /\ pc[b] = "run"
    BY <1>6 DEF Get, Ready
  <2>3. \A a \in Agents : DecDue(p) = Dec(a) => a = b
    BY <1>0, <2>1, NoticeIs DEF DecDue
  <2> QED
    BY <1>0, <2>1, <2>2, <2>3 DEF OwesDecInv
<1>7. ASSUME NEW t \in Threads, Notify(t)
      PROVE  OwesDecInv'
  BY <1>0, <1>7 DEF Notify, OwesDecInv
<1>8. ASSUME NEW b \in Agents, EndRun(b)
      PROVE  OwesDecInv'
  BY <1>0, <1>8 DEF EndRun, OwesDecInv, RunType
<1>9. ApiCall => OwesDecInv'
  BY <1>1 DEF ApiCall
<1>10. SchedStep => OwesDecInv'
  BY <1>1, SchedRuns
<1>11. ASSUME NEW c \in Clients, ApiStep(c)
       PROVE  ApiCall
  BY <1>11, ApiStepIsCall
<1> QED
  BY <1>0, <1>2, <1>3, <1>4, <1>5, <1>6, <1>7, <1>8, <1>9, <1>10, <1>11
  DEF Next, AgentStep, ClientStep, ApiStep, Terminated

\* A step that leaves the scheduler running keeps SentDecInv.
LEMMA NextSentDec ==
  ASSUME TypeOK, BoxInv, OwesDecInv, SentDecInv, sched = "up", sched' = "up", [Next]_vars
  PROVE  SentDecInv'
<1> USE DEF TypeOK
<1>0. /\ owes \in [Threads -> Notice \cup {None}] /\ Len(mailbox) \in Nat
      /\ \A a \in Agents : a \in Threads /\ a \in DOMAIN pc /\ a \notin Clients
      /\ \A c \in Clients : c \in Threads
  BY SetsAssumption DEF RunType, Threads, QueueType
<1>1. ASSUME UNCHANGED mailbox, lost \subseteq lost',
             \A a \in Agents \ lost' : pc[a] = "run" => pc'[a] = "run"
      PROVE  SentDecInv'
  BY <1>1 DEF SentDecInv, Holds, EndsAt
<1>2. ASSUME NEW m, Posted(m), lost \subseteq lost',
             \A a \in Agents \ lost' : pc[a] = "run" =>
               pc'[a] = "run" \/ \E n : n = Len(mailbox) + 1 /\ EndsAt(n, a)',
             \A a \in Agents : m = Dec(a) => pc'[a] = "run"
      PROVE  SentDecInv'
  <2>0. PICK n : n = Len(mailbox) + 1
    OBVIOUS
  <2>1. /\ \A i \in 1..Len(mailbox') : i \in 1..Len(mailbox) \/ i = n
        /\ \A i \in 1..Len(mailbox) : n \in (i + 1)..Len(mailbox')
        /\ Len(mailbox') = n
        /\ \A i, j : j \in (i + 1)..Len(mailbox) => j \in (i + 1)..Len(mailbox')
    BY <1>0, <1>2, <2>0 DEF Posted
  <2>2. \A i, a : EndsAt(i, a) => EndsAt(i, a)'
    BY <1>0, <1>2 DEF Posted, EndsAt
  <2>3. ASSUME NEW a \in Agents \ lost', NEW i \in 1..Len(mailbox'), Holds(i, Dec(a))'
        PROVE  pc'[a] = "run" \/ \E j \in (i + 1)..Len(mailbox') : EndsAt(j, a)'
    <3>1. CASE i = n
      BY <1>2, <2>0, <2>3, <3>1 DEF Posted, Holds
    <3>2. CASE i \in 1..Len(mailbox)
      <4>1. Holds(i, Dec(a))
        BY <1>2, <2>3, <3>2 DEF Posted, Holds
      <4>2. pc[a] = "run" \/ \E j \in (i + 1)..Len(mailbox) : EndsAt(j, a)
        BY <1>2, <3>2, <4>1 DEF SentDecInv
      <4>3. pc[a] = "run" => pc'[a] = "run" \/ EndsAt(n, a)'
        BY <1>2, <2>0, <2>1 DEF EndsAt
      <4> QED
        BY <2>1, <2>2, <3>2, <4>2, <4>3
    <3> QED
      BY <2>1, <2>3, <3>1, <3>2
  <2> QED
    BY <2>3 DEF SentDecInv
<1>3. ASSUME SchedStep
      PROVE  SentDecInv'
  <2>1. \E m : Took(m)
    BY <1>3, SchedTakes
  <2>2. /\ \A a \in Agents : pc[a] = "run" => pc'[a] = "run"
        /\ lost \subseteq lost'
    BY <1>3, SchedRuns
  <2>3. ASSUME NEW a \in Agents \ lost', NEW i \in 1..Len(mailbox'), Holds(i, Dec(a))'
        PROVE  pc'[a] = "run" \/ \E j \in (i + 1)..Len(mailbox') : EndsAt(j, a)'
    <3>1. i + 1 \in 1..Len(mailbox) /\ Holds(i + 1, Dec(a))
      <4>1. mailbox'[i] = Dec(a) /\ Dec(a) # Halt
        BY <2>3, NoticeIs DEF Holds, Halt
      <4> QED
        BY <2>1, <2>3, <4>1 DEF Took, Holds
    <3>2. pc[a] = "run" \/ \E j \in (i + 2)..Len(mailbox) : EndsAt(j, a)
      BY <2>2, <3>1 DEF SentDecInv
    <3>3. ASSUME NEW j \in (i + 2)..Len(mailbox), EndsAt(j, a)
          PROVE  \E k \in (i + 1)..Len(mailbox') : EndsAt(k, a)'
      <4>0. PICK k : k = j - 1
        OBVIOUS
      <4>1. j \in 2..Len(mailbox) /\ k >= i + 1
        BY <1>0, <3>3, <4>0
      <4>2. k \in 1..Len(mailbox') /\ mailbox'[k] = mailbox[j]
        BY <2>1, <4>0, <4>1 DEF Took
      <4>3. EndsAt(k, a)' /\ k \in (i + 1)..Len(mailbox')
        BY <3>3, <4>1, <4>2 DEF EndsAt
      <4> QED
        BY <4>3
    <3> QED
      BY <2>2, <3>2, <3>3
  <2> QED
    BY <2>3 DEF SentDecInv
<1>4. CASE \/ \E t \in Threads : Put(t) \/ PutFails(t) \/ Get(t) \/ GetFails(t)
           \/ UNCHANGED vars
  BY <1>1, <1>4 DEF Put, PutFails, Get, GetFails, vars
<1>5. CASE StartJob
  BY <1>0, <1>1, <1>5 DEF StartJob, QueueType, RunType
<1>6. ASSUME NEW c \in Clients, Joined(c) \/ ClientPanics(c)
      PROVE  SentDecInv'
  <2>1. \A a \in Agents : pc'[a] = pc[a]
    BY <1>0, <1>6 DEF Joined, ClientPanics, RunType
  <2> QED
    BY <1>1, <1>6, <2>1 DEF Joined, ClientPanics
<1>7. ASSUME NEW t \in Threads, Notify(t)
      PROVE  SentDecInv'
  <2>1. Posted(owes[t]) /\ UNCHANGED <<pc, lost>>
    BY <1>7, AppendPosts DEF Notify
  <2>2. \A a \in Agents : owes[t] = Dec(a) => pc'[a] = "run"
    BY <2>1 DEF OwesDecInv
  <2> QED
    BY <1>2, <2>1, <2>2
<1>8. ASSUME NEW b \in Agents, EndRun(b)
      PROVE  SentDecInv'
  <2>1. \A a \in Agents : a # b /\ pc[a] = "run" => pc'[a] = "run"
    BY <1>0, <1>8 DEF EndRun, RunType
  <2>2. CASE lost' = lost \cup {b} /\ UNCHANGED mailbox
    BY <1>1, <2>1, <2>2
  <2>3. CASE mailbox' = Append(mailbox, RunEnd(b, res[b])) /\ UNCHANGED lost
    <3>1. Posted(RunEnd(b, res[b]))
      BY <2>3, AppendPosts
    <3>2. /\ RunEnd(b, res[b]).type = "RunEnd" /\ RunEnd(b, res[b]).id = b
          /\ \A a : RunEnd(b, res[b]) # Dec(a)
      BY NoticeIs DEF RunEnd
    <3>4. mailbox'[Len(mailbox) + 1] = RunEnd(b, res[b])
          /\ Len(mailbox') = Len(mailbox) + 1
      BY <3>1 DEF Posted
    <3>3. \E n : n = Len(mailbox) + 1 /\ EndsAt(n, b)'
      <4>1. PICK n : n = Len(mailbox) + 1
        OBVIOUS
      <4>2. n \in 1..Len(mailbox')
        BY <1>0, <3>4, <4>1
      <4>3. EndsAt(n, b)'
        BY <3>2, <3>4, <4>1, <4>2 DEF EndsAt
      <4> QED
        BY <4>1, <4>3
    <3> QED
      BY <1>2, <2>1, <2>3, <3>1, <3>2, <3>3
  <2> QED
    BY <1>8, <2>2, <2>3 DEF EndRun
<1>9. ASSUME ApiCall
      PROVE  SentDecInv'
  <2>1. /\ \A a, b : Start(a) # Dec(b) /\ NewAgent(a) # Dec(b) /\ HaltState # Dec(b)
        /\ \A a, b, e : Edit(a, e) # Dec(b)
    <3>1. /\ \A a : Start(a).type = "Start" /\ NewAgent(a).type = "NewAgent"
          /\ \A a, e : Edit(a, e).type = "Edit"
          /\ HaltState.type = "HaltState"
      BY DEF Start, NewAgent, Edit, HaltState
    <3> QED
      BY <3>1, NoticeIs
  <2>2. \A m : mailbox' = Append(mailbox, m) => Posted(m)
    BY AppendPosts
  <2>3. UNCHANGED mailbox \/ \E m : Posted(m) /\ \A a : m # Dec(a)
    BY <1>9, <2>1, <2>2, ApiMail
  <2>4. UNCHANGED lost /\ \A a \in Agents : pc'[a] = pc[a]
    BY <1>9 DEF ApiCall
  <2> QED
    BY <1>1, <1>2, <2>3, <2>4
<1>10. ASSUME NEW c \in Clients, ApiStep(c)
       PROVE  ApiCall
  BY <1>10, ApiStepIsCall
<1> QED
  BY <1>0, <1>3, <1>4, <1>5, <1>6, <1>7, <1>8, <1>9, <1>10
  DEF Next, AgentStep, ClientStep, ApiStep, Terminated

-----------------------------------------------------------------------------
(* The inductive invariant and what follows from it.                        *)

\* A box that was dropped stays dropped.
LEMMA LostStays ==
  ASSUME TypeOK, BoxInv, sched = "up", sched' = "up", [Next]_vars
  PROVE  lost \subseteq lost'
<1>1. SchedStep => lost \subseteq lost'
  BY SchedRuns
<1>2. ASSUME NEW c \in Clients, ApiStep(c)
      PROVE  ApiCall
  BY <1>2, ApiStepIsCall
<1> QED
  BY <1>1, <1>2
  DEF Next, AgentStep, ClientStep, ApiStep, Terminated, StartJob, Put, PutFails, Get,
      GetFails, Notify, EndRun, Joined, ClientPanics, ApiCall, vars

\* IInv holds at the start.
LEMMA InitIInv == Init => IInv
<1> SUFFICES ASSUME Init PROVE IInv
  OBVIOUS
<1>1. TypeInv
  BY InitTypeInv
<1>2. Len(mailbox) = 0 /\ Len(pool) = 0 /\ \A a \in Agents : Len(edit_msgs[a]) = 0
  BY DEF Init
<1>3. BoxInv
  BY <1>2 DEF Init, BoxInv, AwayInv, PoolInv, RunEndInv, EndsAt, Threads
<1>4. SenderInv
  BY <1>2, WiringAssumption DEF Init, SenderInv
<1>5. AddressInv
  BY <1>2 DEF Init, AddressInv
<1>6. DecInv
  BY <1>2, NoticeIs, NoneAssumption DEF Init, DecInv, OwesDecInv, SentDecInv
<1>7. RestInv
  BY DEF Init, RestInv
<1>8. ASSUME NEW a \in Agents
      PROVE  Balance(a)
  <2>1. Count(mailbox, Inc(a)) = 0 /\ Count(mailbox, Dec(a)) = 0
    BY CountEmpty DEF Init
  <2>2. Owing(Inc(a)) = {} /\ Owing(Dec(a)) = {}
    BY NoticeIs, NoneAssumption DEF Init, Owing
  <2>3. Places(chan, Scheduling(a), Capacity) = {}
    BY DEF Init, Places, Scheduling
  <2>4. ips[a] = 0
    BY DEF Init
  <2>5. Pending(Inc(a)) = 0 /\ Pending(Dec(a)) = 0 /\ Queued(a) = 0
    BY <2>1, <2>2, <2>3, FS_EmptySet DEF Pending, Queued
  <2> QED
    BY <2>4, <2>5 DEF Balance
<1> QED
  BY <1>1, <1>3, <1>4, <1>5, <1>6, <1>7, <1>8 DEF IInv, TypeInv, Conservation

\* Every step keeps IInv.
LEMMA NextIInv == IInv /\ [Next]_vars => IInv'
<1> SUFFICES ASSUME IInv, [Next]_vars PROVE IInv'
  OBVIOUS
<1>1. TypeInv'
  BY NextTypeInv DEF IInv, TypeInv
<1>2. ASSUME sched' = "up"
      PROVE  /\ (BoxInv /\ SenderInv /\ AddressInv /\ DecInv /\ RestInv)'
             /\ \A a \in Agents \ lost' : Balance(a)'
  <2>1. sched = "up"
    BY <1>2, StaysDown
  <2>2. /\ TypeOK /\ TypeOK' /\ KnownInv /\ BoxInv /\ SenderInv /\ AddressInv
        /\ OwesDecInv /\ SentDecInv /\ RestInv
    BY <1>1, <2>1 DEF IInv, TypeInv, DecInv
  <2>3. BoxInv' /\ SenderInv' /\ AddressInv' /\ RestInv'
    BY <1>2, <2>1, <2>2, NextBox, NextSender, NextAddress, NextRest
  <2>4. DecInv'
    BY <1>2, <2>1, <2>2, NextOwesDec, NextSentDec DEF DecInv
  <2>5. \A a \in Agents \ lost' : Balance(a)
    <3>1. lost \subseteq lost'
      BY <1>2, <2>1, <2>2, LostStays
    <3> QED
      BY <2>1, <3>1 DEF IInv, Conservation
  <2>6. \A a \in Agents \ lost' : Balance(a)'
    BY <1>2, <2>1, <2>2, <2>5, NextBalance
  <2> QED
    BY <2>3, <2>4, <2>6
<1> QED
  BY <1>1, <1>2 DEF IInv, TypeInv, Conservation

\* The inductive invariant holds in every reachable state.
THEOREM Inductive == Spec => []IInv
  BY InitIInv, NextIInv, PTL DEF Spec

\* The counter by which the scheduler decides who runs accounts for every
\* message: at any moment, and however the two halves of sends and receives
\* interleave, ips and the Incs and Decs under way add up to what the channels
\* of the agent hold.
THEOREM Conserved == Spec => []Conservation
<1>1. IInv => Conservation
  BY DEF IInv
<1> QED
  BY <1>1, Inductive, PTL

\* The scheduler keeps no agent at rest that has a message it was told of: all
\* that waits in its channels is announced by Incs still to come.
THEOREM NoWakeupLost == Spec => []NoLostWakeup
<1>1. ASSUME IInv, sched = "up", NEW a \in home
      PROVE  Queued(a) <= Pending(Inc(a))
  <2>1. a \in Agents \ lost /\ ips[a] <= 0
    BY <1>1 DEF IInv, BoxInv, AwayInv, RestInv, TypeOK, StateType
  <2>2. Balance(a)
    BY <1>1, <2>1 DEF IInv, Conservation
  <2>3. Pending(Inc(a)) \in Nat /\ Pending(Dec(a)) \in Nat /\ Queued(a) \in Nat
        /\ ips[a] \in Int
    BY <1>1, <2>1, BalanceType DEF IInv, Pending
  <2> QED
    BY <2>1, <2>2, <2>3 DEF Balance
<1>2. IInv => NoLostWakeup
  BY <1>1 DEF NoLostWakeup
<1> QED
  BY <1>2, Inductive, PTL

-----------------------------------------------------------------------------
(* Who counts as running.                                                   *)

\* An agent whose box is away from the scheduler is marked.
MarkedInv == agents \ home \subseteq is_run

\* A step of the scheduler leaves no box away unmarked.
LEMMA SchedMarked ==
  ASSUME TypeOK, MarkedInv, sched' = "up", SchedStep
  PROVE  MarkedInv'
<1> USE DEF TypeOK
<1>1. ASSUME NEW a \in Agents, SchedNewAgent(a) PROVE MarkedInv'
  BY <1>1 DEF SchedNewAgent, MarkedInv
<1>2. ASSUME NEW a \in Agents, SchedInc(a) \/ SchedDec(a) \/ SchedStart(a) PROVE MarkedInv'
  BY <1>2 DEF SchedInc, SchedDec, SchedStart, Run, NoRun, MarkedInv
<1>3. ASSUME NEW a \in Agents, NEW e \in EditCmp, SchedEdit(a, e) PROVE MarkedInv'
  BY <1>3 DEF SchedEdit, NoRun, MarkedInv
<1>4. ASSUME NEW a \in Agents, NEW r \in Results, SchedRunEnd(a, r) PROVE MarkedInv'
  BY <1>4 DEF SchedRunEnd, Run, MarkedInv
<1>5. ASSUME NEW a \in Agents, NEW r \in Results, SchedRunEndLoses(a, r) PROVE MarkedInv'
  BY <1>5 DEF SchedRunEndLoses, NoRun, MarkedInv
<1>6. SchedHaltState => MarkedInv'
  BY DEF SchedHaltState, NoRun, MarkedInv
<1> QED
  BY <1>1, <1>2, <1>3, <1>4, <1>5, <1>6, SchedTakes

LEMMA NextMarked ==
  ASSUME TypeOK, MarkedInv, sched = "up", sched' = "up", [Next]_vars
  PROVE  MarkedInv'
<1>1. UNCHANGED stateVars => MarkedInv'
  BY DEF stateVars, MarkedInv
<1>2. UNCHANGED stateVars \/ SchedStep
  BY ApiStepIsCall
  DEF Next, AgentStep, ClientStep, ApiStep, Terminated, StartJob, Put, PutFails, Get,
      GetFails, Notify, EndRun, Joined, ClientPanics, ApiCall, vars
<1> QED
  BY <1>1, <1>2, SchedMarked

\* running is the number of agents marked is_run, and every agent whose box is
\* in a job, in a RunEnd or dropped is marked: while the scheduler is up,
\* running cannot reach zero with a job under way.
THEOREM RunningCounted == Spec => []RunningCounts
<1> DEFINE Inv == IInv /\ (sched = "up" => MarkedInv)
<1>1. Init => Inv
  BY InitIInv DEF Init, MarkedInv
<1>2. ASSUME Inv, [Next]_vars
      PROVE  Inv'
  <2>1. IInv'
    BY <1>2, NextIInv
  <2>2. sched' = "up" => MarkedInv'
    BY <1>2, StaysDown, NextMarked DEF IInv
  <2> QED
    BY <2>1, <2>2
<1>3. Inv => RunningCounts
  BY DEF IInv, RunningIsCount, RunningCounts, MarkedInv
<1> QED
  BY <1>1, <1>2, <1>3, PTL DEF Spec
-----------------------------------------------------------------------------
(* Every box is in one place.                                               *)

\* A box that is neither here nor dropped is in a job or in a RunEnd.
FoundInv ==
  /\ \A a \in agents \ (home \cup lost) :
       pc[a] = "idle" => \E i \in 1..Len(mailbox) : EndsAt(i, a)
  /\ \A a \in Agents : pc[a] = "queued" => \E i \in 1..Len(pool) : pool[i] = a

\* The RunEnd of agent b stays in the mailbox, unless it is taken.
LEMMA EndStays ==
  ASSUME Len(mailbox) \in Nat, Len(mailbox') \in Nat, NEW m, NEW b,
         Posted(m) \/ (Took(m) /\ (m.type = "RunEnd" => m.id # b)),
         \E i \in 1..Len(mailbox) : EndsAt(i, b)
  PROVE  \E i \in 1..Len(mailbox') : EndsAt(i, b)'
<1> PICK i \in 1..Len(mailbox) : EndsAt(i, b)
  OBVIOUS
<1>1. CASE Posted(m)
  BY <1>1 DEF Posted, EndsAt
<1>2. CASE Took(m) /\ (m.type = "RunEnd" => m.id # b)
  <2>1. i # 1
    BY <1>2 DEF Took, EndsAt
  <2>2. i \in 2..Len(mailbox) /\ i - 1 \in 1..Len(mailbox')
    BY <1>2, <2>1 DEF Took
  <2>3. EndsAt(i - 1, b)'
    BY <1>2, <2>2 DEF Took, EndsAt
  <2> QED
    BY <2>2, <2>3
<1> QED
  BY <1>1, <1>2

LEMMA NextFound ==
  ASSUME TypeOK, TypeOK', BoxInv, FoundInv, sched = "up", sched' = "up", [Next]_vars
  PROVE  FoundInv'
<1>0. /\ Len(mailbox) \in Nat /\ Len(mailbox') \in Nat
      /\ QueueType /\ RunType /\ agents \subseteq Agents
      /\ \A a \in Agents : a \in DOMAIN pc
      /\ \A a, r : RunEnd(a, r).type = "RunEnd" /\ RunEnd(a, r).id = a
      /\ \A a : NewAgent(a).type = "NewAgent"
  BY DEF TypeOK, QueueType, StateType, RunType, Threads, RunEnd, NewAgent
<1>1. CASE BoxRests
  <2>1. \A b : (\E i \in 1..Len(mailbox) : EndsAt(i, b))
                 => \E i \in 1..Len(mailbox') : EndsAt(i, b)'
    <3>1. CASE UNCHANGED mailbox
      BY <3>1 DEF EndsAt
    <3>2. ASSUME NEW m, Posted(m) \/ Took(m), m.type # "RunEnd"
          PROVE  \A b : (\E i \in 1..Len(mailbox) : EndsAt(i, b))
                          => \E i \in 1..Len(mailbox') : EndsAt(i, b)'
      BY <1>0, <3>2, EndStays
    <3> QED
      BY <1>1, <3>1, <3>2 DEF BoxRests
  <2> QED
    BY <1>0, <1>1, <2>1 DEF BoxRests, FoundInv
<1>2. ASSUME NEW a \in Agents, BoxStarts(a) PROVE FoundInv'
  <2>1. /\ Len(pool) \in Nat /\ Len(pool') = Len(pool) - 1 /\ pool[1] = a
        /\ \A i \in 1..Len(pool') : pool'[i] = pool[i + 1]
    BY <1>0, <1>2, PoolTail DEF BoxStarts
  <2>2. ASSUME NEW b \in Agents, pc'[b] = "queued"
        PROVE  \E i \in 1..Len(pool') : pool'[i] = b
    <3>1. b # a /\ pc[b] = "queued"
      BY <1>0, <1>2, <2>2 DEF BoxStarts
    <3>2. PICK i \in 1..Len(pool) : pool[i] = b
      BY <3>1 DEF FoundInv
    <3>3. i # 1
      BY <2>1, <3>1, <3>2
    <3>4. i - 1 \in 1..Len(pool') /\ (i - 1) + 1 = i
      BY <2>1, <3>3
    <3> QED
      BY <2>1, <3>2, <3>4
  <2>3. \A b \in Agents : pc'[b] = "idle" => pc[b] = "idle"
    BY <1>0, <1>2 DEF BoxStarts
  <2>4. \A b, i : EndsAt(i, b)' <=> EndsAt(i, b)
    BY <1>2 DEF BoxStarts, EndsAt
  <2>5. ASSUME NEW b \in agents' \ (home' \cup lost'), pc'[b] = "idle"
        PROVE  \E i \in 1..Len(mailbox') : EndsAt(i, b)'
    BY <1>0, <1>2, <2>3, <2>4, <2>5 DEF BoxStarts, FoundInv
  <2> QED
    BY <2>2, <2>5 DEF FoundInv
<1>3. ASSUME NEW a \in Agents, BoxLeaves(a) PROVE FoundInv'
  <2>1. \A b \in Agents : b # a => pc'[b] = pc[b]
    BY <1>0, <1>3 DEF BoxLeaves
  <2>2. \A b \in Agents : pc'[b] = "queued" => \E i \in 1..Len(pool') : pool'[i] = b
    BY <1>0, <1>3, <2>1 DEF BoxLeaves, FoundInv
  <2>3. CASE lost' = lost \cup {a} /\ UNCHANGED mailbox
    BY <1>0, <1>3, <2>1, <2>2, <2>3 DEF BoxLeaves, FoundInv, EndsAt
  <2>4. ASSUME UNCHANGED lost, NEW r, Posted(RunEnd(a, r)) PROVE FoundInv'
    <3>1. \A b : (\E i \in 1..Len(mailbox) : EndsAt(i, b))
                   => \E i \in 1..Len(mailbox') : EndsAt(i, b)'
      BY <1>0, <2>4, EndStays
    <3>2. \E i \in 1..Len(mailbox') : EndsAt(i, a)'
      <4> PICK n : n = Len(mailbox) + 1
        OBVIOUS
      <4>1. n \in 1..Len(mailbox') /\ mailbox'[n] = RunEnd(a, r)
        BY <1>0, <2>4 DEF Posted
      <4>2. EndsAt(n, a)'
        BY <1>0, <4>1 DEF EndsAt
      <4> QED
        BY <4>1, <4>2
    <3> QED
      BY <1>0, <1>3, <2>1, <2>2, <2>4, <3>1, <3>2 DEF BoxLeaves, FoundInv
  <2> QED
    BY <1>3, <2>3, <2>4 DEF BoxLeaves
<1>4. ASSUME NEW a \in Agents, BoxComes(a) PROVE FoundInv'
  <2>1. \A b : (\E i \in 1..Len(mailbox) : EndsAt(i, b))
                 => \E i \in 1..Len(mailbox') : EndsAt(i, b)'
    BY <1>0, <1>4, EndStays DEF BoxComes
  <2> QED
    BY <1>0, <1>4, <2>1 DEF BoxComes, FoundInv
<1>5. ASSUME NEW a \in Agents, BoxGoes(a) PROVE FoundInv'
  <2>1. \A b : b # a /\ (\E i \in 1..Len(mailbox) : EndsAt(i, b))
                 => \E i \in 1..Len(mailbox') : EndsAt(i, b)'
    BY <1>0, <1>5, EndStays DEF BoxGoes
  <2>2. pool' = Append(pool, a) /\ pc' = [pc EXCEPT ![a] = "queued"] /\ home' = home \ {a}
    BY <1>5 DEF BoxGoes, Run
  <2>3. /\ Len(pool) \in Nat /\ Len(pool') = Len(pool) + 1 /\ pool'[Len(pool) + 1] = a
        /\ \A i \in 1..Len(pool) : pool'[i] = pool[i]
    BY <1>0, <2>2, PoolAppend
  <2>4. \A b \in Agents : pc'[b] = "queued" => \E i \in 1..Len(pool') : pool'[i] = b
    <3>1. \A i \in 1..Len(pool) : i \in 1..Len(pool')
      BY <2>3
    <3>2. Len(pool) + 1 \in 1..Len(pool')
      BY <2>3
    <3> QED
      BY <1>0, <2>2, <2>3, <3>1, <3>2 DEF FoundInv
  <2> QED
    BY <1>0, <1>5, <2>1, <2>2, <2>4 DEF BoxGoes, FoundInv
<1>6. ASSUME NEW a \in Agents, BoxReturns(a) PROVE FoundInv'
  <2>1. \A b : b # a /\ (\E i \in 1..Len(mailbox) : EndsAt(i, b))
                 => \E i \in 1..Len(mailbox') : EndsAt(i, b)'
    BY <1>0, <1>6, EndStays DEF BoxReturns
  <2> QED
    BY <1>0, <1>6, <2>1 DEF BoxReturns, FoundInv
<1> QED
  BY <1>1, <1>2, <1>3, <1>4, <1>5, <1>6, BoxSteps

\* Every box is found.
LEMMA Found == Spec => [](sched = "up" => FoundInv)
<1>1. Init => FoundInv
  BY DEF Init, FoundInv, Threads
<1>2. IInv /\ IInv' /\ (sched = "up" => FoundInv) /\ [Next]_vars
        => (sched = "up" => FoundInv)'
  BY StaysDown, NextFound DEF IInv
<1> QED
  BY <1>1, <1>2, Inductive, PTL DEF Spec

\* The box of an agent is always in one place, and in one only: with the
\* scheduler, in a job, in a RunEnd, in the NewAgent that brings it, or dropped.
\* No agent is run by two workers, and none is forgotten between them.
THEOREM BoxesAreKept == Spec => []OneBox
<1>1. ASSUME IInv, sched = "up", FoundInv, NEW a \in known
      PROVE  Count(mailbox, NewAgent(a))
               + Cardinality({i \in 1..Len(mailbox) :
                                mailbox[i].type = "RunEnd" /\ mailbox[i].id = a})
               + Count(pool, a)
               + (IF pc[a] = "run" THEN 1 ELSE 0)
               + (IF a \in home THEN 1 ELSE 0)
               + (IF a \in lost THEN 1 ELSE 0) = 1
  <2> DEFINE N == Positions(mailbox, NewAgent(a))
             E == {i \in 1..Len(mailbox) : mailbox[i].type = "RunEnd" /\ mailbox[i].id = a}
             P == Positions(pool, a)
  <2>0. /\ KnownInv /\ AwayInv /\ PoolInv /\ RunEndInv /\ a \in Agents
        /\ home \subseteq agents
    BY <1>1 DEF IInv, BoxInv, TypeOK, StateType, PortType
  <2>1. /\ Cardinality({}) = 0 /\ \A x : Cardinality({x}) = 1
    BY FS_EmptySet, FS_Singleton
  <2>2. \A i : /\ i \in N <=> Holds(i, NewAgent(a))
               /\ i \in E <=> EndsAt(i, a)
               /\ i \in P <=> i \in 1..Len(pool) /\ pool[i] = a
    BY DEF Positions, Holds, EndsAt
  <2>3. /\ \A i, j \in N : i = j
        /\ \A i, j \in E : i = j
        /\ \A i, j \in P : i = j
    BY <2>0, <2>2 DEF KnownInv, RunEndInv, PoolInv, Holds, EndsAt
  <2>4. /\ N # {} <=> a \notin agents
        /\ E # {} => a \in agents \ (home \cup lost) /\ pc[a] = "idle"
        /\ P # {} <=> pc[a] = "queued"
        /\ a \in agents \ (home \cup lost) /\ pc[a] = "idle" => E # {}
    BY <1>1, <2>0, <2>2 DEF KnownInv, RunEndInv, PoolInv, FoundInv, Holds, EndsAt
  <2>5. /\ pc[a] \in {"idle", "queued", "run"}
        /\ pc[a] # "idle" => a \in agents \ (home \cup lost)
        /\ lost \subseteq agents \ home
    BY <2>0 DEF AwayInv
  <2> HIDE DEF N, E, P
  <2>6. /\ N = {} \/ \E i : N = {i}
        /\ E = {} \/ \E i : E = {i}
        /\ P = {} \/ \E i : P = {i}
    BY <2>3
  <2>7. /\ Cardinality(N) = IF a \in agents THEN 0 ELSE 1
        /\ Cardinality(P) = IF pc[a] = "queued" THEN 1 ELSE 0
        /\ Cardinality(E) = IF a \in agents \ (home \cup lost) /\ pc[a] = "idle" THEN 1 ELSE 0
    BY <2>1, <2>4, <2>6
  <2>8. /\ Count(mailbox, NewAgent(a)) = Cardinality(N) /\ Count(pool, a) = Cardinality(P)
        /\ {i \in 1..Len(mailbox) : mailbox[i].type = "RunEnd" /\ mailbox[i].id = a} = E
    BY DEF Count, N, P, E
  <2>9. Cardinality(N) + Cardinality(E) + Cardinality(P)
          + (IF pc[a] = "run" THEN 1 ELSE 0)
          + (IF a \in home THEN 1 ELSE 0)
          + (IF a \in lost THEN 1 ELSE 0) = 1
    BY <2>0, <2>5, <2>7
  <2> QED
    BY <2>8, <2>9
<1>2. IInv /\ (sched = "up" => FoundInv) => OneBox
  BY <1>1 DEF OneBox
<1> QED
  BY <1>2, Inductive, Found, PTL
-----------------------------------------------------------------------------
(* What the mailbox and the kept edits may hold.                            *)

\* Every message is in S, and every kept edit came in one that is.
Holding(S) ==
  /\ \A i \in 1..Len(mailbox) : mailbox[i] \in S
  /\ \A a \in Agents : \A i \in 1..Len(edit_msgs[a]) : Edit(a, edit_msgs[a][i]) \in S

\* The API alone sends what is not a notice, a RunEnd or a Halt.
LEMMA NextHolding ==
  ASSUME TypeOK, TypeOK', sched = "up", sched' = "up", [Next]_vars, NEW S, Holding(S),
         \A m \in CompMsg : m.type \in {"Inc", "Dec", "RunEnd", "Halt"} => m \in S,
         \A m \in CompMsg : ApiCall /\ Posted(m) => m \in S
  PROVE  Holding(S)'
<1>0. /\ Len(mailbox) \in Nat /\ Len(mailbox') \in Nat /\ Halt \in S
      /\ \A i \in 1..Len(mailbox') : mailbox'[i] \in CompMsg
      /\ \A a \in Agents : edit_msgs[a] \in Seq(EditCmp) /\ a \in DOMAIN edit_msgs
  <2>1. Halt \in CompMsg /\ Halt.type = "Halt"
    BY DEF Halt, CompMsg
  <2> QED
    BY <2>1 DEF TypeOK, QueueType, StateType
<1>1. \A m : Posted(m) => m \in CompMsg
  BY <1>0 DEF Posted
<1>2. \A i \in 1..Len(mailbox') : mailbox'[i] \in S
  <2>1. ASSUME NEW m \in S, Posted(m) PROVE \A i \in 1..Len(mailbox') : mailbox'[i] \in S
    BY <1>0, <2>1 DEF Posted, Holding
  <2>2. UNCHANGED mailbox => \A i \in 1..Len(mailbox') : mailbox'[i] \in S
    BY DEF Holding
  <2>3. CASE Plain
    <3>1. \A t \in Threads : Notify(t) => owes[t].type \in {"Inc", "Dec"}
      BY DEF Notify, TypeOK, RunType, Notice
    <3>2. \A a, r : RunEnd(a, r).type = "RunEnd"
      BY DEF RunEnd
    <3>3. UNCHANGED mailbox \/ \E m \in S : Posted(m)
      BY <1>1, <2>3, <3>1, <3>2 DEF Plain
    <3> QED
      BY <2>1, <2>2, <3>3
  <2>4. CASE ApiCall
    <3>1. \A m : mailbox' = Append(mailbox, m) => Posted(m)
      BY AppendPosts DEF TypeOK
    <3>2. UNCHANGED mailbox \/ \E m : Posted(m)
      BY <2>4, <3>1 DEF ApiCall
    <3> QED
      BY <1>1, <2>1, <2>2, <2>4, <3>2
  <2>5. CASE SchedStep
    BY <1>0, <2>5, TookPlaces DEF Holding
  <2> QED
    BY <2>3, <2>4, <2>5, PlainSteps
<1>3. \A a \in Agents : \A i \in 1..Len(edit_msgs'[a]) : Edit(a, edit_msgs'[a][i]) \in S
  <2>1. UNCHANGED edit_msgs => \A a \in Agents : \A i \in 1..Len(edit_msgs'[a]) :
                                 Edit(a, edit_msgs'[a][i]) \in S
    BY DEF Holding
  <2>2. ASSUME NEW a \in Agents, edit_msgs' = [edit_msgs EXCEPT ![a] = <<>>]
        PROVE  \A b \in Agents : \A i \in 1..Len(edit_msgs'[b]) :
                 Edit(b, edit_msgs'[b][i]) \in S
    BY <1>0, <2>2 DEF Holding
  <2>3. ASSUME NEW a \in Agents, NEW e \in EditCmp, Took(Edit(a, e)),
               edit_msgs' = [edit_msgs EXCEPT ![a] = Append(@, e)]
        PROVE  \A b \in Agents : \A i \in 1..Len(edit_msgs'[b]) :
                 Edit(b, edit_msgs'[b][i]) \in S
    <3>1. \A i \in 1..Len(edit_msgs'[a]) :
            \/ i \in 1..Len(edit_msgs[a]) /\ edit_msgs'[a][i] = edit_msgs[a][i]
            \/ edit_msgs'[a][i] = e
      BY <1>0, <2>3
    <3>2. Edit(a, e) \in S
      BY <1>0, <2>3 DEF Took, Holding
    <3> QED
      BY <1>0, <2>3, <3>1, <3>2 DEF Holding
  <2>4. UNCHANGED edit_msgs \/ SchedStep
    BY PlainSteps DEF Plain, ApiCall, stateVars
  <2> QED
    BY <2>1, <2>2, <2>3, <2>4, SchedWires
<1> QED
  BY <1>2, <1>3 DEF Holding

\* A message that the API posts.
LEMMA ApiPosts ==
  ASSUME TypeOK, ApiCall, NEW m, Posted(m), m.type = "Edit"
  PROVE  \E a \in known, e \in EditCmp :
           /\ m = Edit(a, e)
           /\ e.kind = "connect" => From[e.port] = a
           /\ e.kind = "element" => /\ a = Owner[e.port] /\ e.port \in Elements \ senders
                                    /\ senders' = senders \cup {e.port}
           /\ e.kind = "unimplemented" => \E c \in Clients : todo[c] # <<>> /\ Op(c).op = "disconnect"
<1>1. \A k : mailbox' = Append(mailbox, k) => k = m
  BY AppendPosts DEF TypeOK, Posted
<1>2. /\ \A a : Start(a).type # "Edit" /\ NewAgent(a).type # "Edit"
      /\ HaltState.type # "Edit"
  BY DEF Start, NewAgent, HaltState
<1>3. mailbox' # mailbox
  BY DEF Posted, TypeOK, QueueType
<1> QED
  BY <1>1, <1>2, <1>3 DEF ApiCall

-----------------------------------------------------------------------------
(* The wiring of an agent changes between its runs only.                    *)

\* An edit is sent to the agent that has the output port.
OwnEdits == {m \in CompMsg : m.type = "Edit" /\ m.edit.kind = "connect" => From[m.edit.port] = m.id}

LEMMA NextOwnEdits ==
  ASSUME TypeOK, TypeOK', sched = "up", sched' = "up", [Next]_vars, Holding(OwnEdits)
  PROVE  Holding(OwnEdits)'
<1>1. \A m \in CompMsg : m.type \in {"Inc", "Dec", "RunEnd", "Halt"} => m \in OwnEdits
  BY DEF OwnEdits
<1>2. ASSUME NEW m \in CompMsg, ApiCall, Posted(m) PROVE m \in OwnEdits
  <2>1. \A a, e : Edit(a, e).id = a /\ Edit(a, e).edit = e
    BY DEF Edit
  <2> QED
    BY <1>2, <2>1, ApiPosts DEF OwnEdits
<1> QED
  BY <1>1, <1>2, NextHolding

\* What a step of the scheduler does to the wiring, it does to a resting agent.
LEMMA SchedKeepsWires ==
  ASSUME TypeOK, BoxInv, Holding(OwnEdits), sched' = "up", SchedStep,
         NEW o \in OutPorts, conn'[o] # conn[o]
  PROVE  pc[From[o]] = "idle"
<1>0. Len(mailbox) \in Nat /\ conn \in [OutPorts -> InPorts \cup {None}]
  BY DEF TypeOK, QueueType, PortType
<1>1. ASSUME NEW a \in Agents, NEW e \in EditCmp, SchedEdit(a, e), Took(Edit(a, e))
      PROVE  pc[From[o]] = "idle"
  <2>1. a \in home /\ e.kind = "connect" /\ e.port = o
    BY <1>0, <1>1 DEF SchedEdit, EditsNow, Apply
  <2>2. Edit(a, e) \in OwnEdits
    BY <1>0, <1>1 DEF Took, Holding
  <2>3. From[o] = a
    BY <2>1, <2>2 DEF OwnEdits, Edit
  <2> QED
    BY <2>1, <2>3 DEF BoxInv, AwayInv
<1>2. ASSUME NEW a \in Agents, NEW r \in Results, Took(RunEnd(a, r)),
             SchedRunEnd(a, r) \/ SchedRunEndLoses(a, r)
      PROVE  pc[From[o]] = "idle"
  <2>1. ApplyAll(edit_msgs[a])
    BY <1>2 DEF SchedRunEnd, SchedRunEndLoses
  <2>2. PICK j \in 1..Len(edit_msgs[a]) : edit_msgs[a][j].kind = "connect" /\ edit_msgs[a][j].port = o
    BY <2>1 DEF ApplyAll
  <2>3. Edit(a, edit_msgs[a][j]) \in OwnEdits
    BY <2>2 DEF Holding
  <2>4. From[o] = a
    BY <2>2, <2>3 DEF OwnEdits, Edit
  <2>5. EndsAt(1, a) /\ 1 \in 1..Len(mailbox)
    BY <1>0, <1>2 DEF Took, EndsAt, RunEnd
  <2> QED
    BY <2>4, <2>5 DEF BoxInv, RunEndInv
<1>3. ASSUME \/ SchedHaltState
             \/ \E a \in Agents : SchedNewAgent(a) \/ SchedInc(a) \/ SchedDec(a) \/ SchedStart(a)
      PROVE  UNCHANGED conn
  BY <1>3 DEF SchedHaltState, SchedNewAgent, SchedInc, SchedDec, SchedStart
<1> QED
  BY <1>1, <1>2, <1>3, SchedTakes DEF TypeOK

\* An output port is connected anew only while its agent is not in a run, nor
\* waits for a worker: an agent sends all that it sends in a run to the same ports.
THEOREM WiringKept == Spec => WiringIsStable
<1>1. Init => (sched = "up" => Holding(OwnEdits))
  <2>1. Init => Len(mailbox) = 0 /\ \A a \in Agents : Len(edit_msgs[a]) = 0
    BY DEF Init
  <2> QED
    BY <2>1 DEF Holding
<1>2. IInv /\ IInv' /\ (sched = "up" => Holding(OwnEdits)) /\ [Next]_vars
        => (sched = "up" => Holding(OwnEdits))'
  BY StaysDown, NextOwnEdits DEF IInv
<1>3. IInv /\ (sched = "up" => Holding(OwnEdits)) /\ [Next]_vars
        => [\A o \in OutPorts : conn'[o] # conn[o] => pc[From[o]] = "idle"]_vars
  <2> SUFFICES ASSUME IInv, sched = "up" => Holding(OwnEdits), [Next]_vars,
                      NEW o \in OutPorts, conn'[o] # conn[o]
               PROVE  pc[From[o]] = "idle"
    OBVIOUS
  <2>1. ~UNCHANGED conn
    OBVIOUS
  <2>2. SchedStep
    BY <2>1
    DEF Next, StartJob, AgentStep, ClientStep, Put, PutFails, Get, GetFails, Notify, EndRun,
        AddNode, StartAgent, Connect, AddElement, SetReceiver, HandReceiver, Disconnect, BadReceiver, Join, Joined,
        ClientPanics, ApiFrame, Terminated, vars
  <2>3. sched = "up" /\ sched' = "up"
    BY <2>1, <2>2
    DEF SchedStep, SchedNewAgent, SchedInc, SchedDec, SchedStart, SchedEdit, SchedRunEnd,
        SchedRunEndLoses, SchedHaltState, SchedHalt, SchedPanics, Stop, Receive
  <2> QED
    BY <2>2, <2>3, SchedKeepsWires DEF IInv
<1> QED
  BY <1>1, <1>2, <1>3, Inductive, PTL DEF Spec, WiringIsStable

-----------------------------------------------------------------------------
(* The scheduler's thread does not panic.                                   *)

\* No client disconnects anything, or creates an element of an output port: the
\* scheduler does not implement that.
NoDisconnect == \A s \in Scripts : \A c \in Clients : \A i \in 1..Len(s[c]) :
                  s[c][i].op # "disconnect"

Implemented == {m \in CompMsg : m.type = "Edit" => m.edit.kind # "unimplemented"}

Connected(c) == \A i \in 1..Len(todo[c]) : todo[c][i].op # "disconnect"

\* A client does the calls of its script one after the other, or gives up.
LEMMA ScriptShrinks ==
  ASSUME TypeOK, [Next]_vars, NEW c \in Clients
  PROVE  todo'[c] \in {todo[c], <<>>} \/ (todo[c] # <<>> /\ todo'[c] = Tail(todo[c]))
<1> DEFINE Shrinks == todo'[c] \in {todo[c], <<>>} \/ (todo[c] # <<>> /\ todo'[c] = Tail(todo[c]))
<1>0. /\ DOMAIN todo = Threads /\ c \in Threads /\ c \notin Agents
      /\ \A a \in Agents : a \in Threads
  BY SetsAssumption DEF TypeOK, RunType, Threads
<1>2. ASSUME NEW t \in Threads, NEW rest, Errs(t, rest),
             rest = todo[t] \/ (todo[t] # <<>> /\ rest = Tail(todo[t]))
      PROVE  Shrinks
  <2>1. todo' = [todo EXCEPT ![t] = rest] \/ todo' = [todo EXCEPT ![t] = <<>>]
    BY <1>2 DEF Errs
  <2>2. todo'[t] \in {rest, <<>>} /\ (t # c => todo'[c] = todo[c])
    BY <1>0, <2>1
  <2> QED
    BY <1>2, <2>2
<1>3. ASSUME NEW t \in Threads, todo[t] # <<>>, Pop(t)
      PROVE  Shrinks
  BY <1>0, <1>3 DEF Pop
<1>4. UNCHANGED todo => Shrinks
  OBVIOUS
<1>5. StartJob => Shrinks
  <2>1. StartJob => Head(pool) \in Agents
    BY DEF StartJob, TypeOK, QueueType
  <2> QED
    BY <1>0, <2>1 DEF StartJob
<1> HIDE DEF Shrinks
<1>6. ASSUME NEW t \in Threads, Put(t) \/ PutFails(t) \/ Get(t) \/ GetFails(t) \/ Notify(t) \/ EndRun(t)
      PROVE  Shrinks
  BY <1>2, <1>3, <1>4, <1>6 DEF Put, PutFails, Get, GetFails, Notify, EndRun, Ready
<1>7. ASSUME NEW t \in Clients, ApiStep(t) \/ Joined(t) \/ ClientPanics(t)
      PROVE  Shrinks
  <2>1. t \in Threads
    BY DEF Threads
  <2> QED
    BY <1>3, <1>4, <1>7, <2>1
    DEF ApiStep, AddNode, StartAgent, Connect, AddElement, SetReceiver, HandReceiver, Disconnect, BadReceiver, Join, Joined,
        ClientPanics, Calls, Ready
<1>8. SchedStep => UNCHANGED todo
  BY DEF SchedStep, SchedNewAgent, SchedInc, SchedDec, SchedStart, SchedEdit, SchedRunEnd,
         SchedRunEndLoses, SchedHaltState, SchedHalt, SchedPanics, Stop, SchedFrame
<1>9. \A t \in Agents \cup Clients : t \in Threads
  BY DEF Threads
<1>10. Shrinks
  BY <1>4, <1>5, <1>6, <1>7, <1>8, <1>9
  DEF Next, AgentStep, ClientStep, ApiStep, Terminated, vars
<1> QED
  BY <1>10 DEF Shrinks

\* What no call left of a script is, no call will be.
LEMMA CallsShrink ==
  ASSUME TypeOK, [Next]_vars, NEW c \in Clients, NEW name,
         \A i \in 1..Len(todo[c]) : todo[c][i].op # name
  PROVE  \A i \in 1..Len(todo'[c]) : todo'[c][i].op # name
<1>1. todo[c] \in Seq(OpsOf(c))
  BY DEF TypeOK, RunType, Threads
<1>2. todo[c] # <<>> => \A i \in 1..Len(Tail(todo[c])) :
        i + 1 \in 1..Len(todo[c]) /\ Tail(todo[c])[i] = todo[c][i + 1]
  BY <1>1
<1>3. CASE todo'[c] = todo[c] \/ todo'[c] = <<>>
  BY <1>3
<1>4. CASE todo[c] # <<>> /\ todo'[c] = Tail(todo[c])
  BY <1>2, <1>4
<1> QED
  BY <1>3, <1>4, ScriptShrinks

LEMMA NextImplemented ==
  ASSUME TypeOK, TypeOK', sched = "up", sched' = "up", [Next]_vars, Holding(Implemented),
         \A c \in Clients : Connected(c)
  PROVE  Holding(Implemented)'
<1>1. \A m \in CompMsg : m.type \in {"Inc", "Dec", "RunEnd", "Halt"} => m \in Implemented
  BY DEF Implemented
<1>2. ASSUME NEW c \in Clients, todo[c] # <<>> PROVE Op(c).op # "disconnect"
  <2>1. c \in Threads
    BY DEF Threads
  <2>2. todo[c] \in Seq(OpsOf(c))
    BY <2>1 DEF TypeOK, RunType
  <2>3. 1 \in 1..Len(todo[c]) /\ Op(c) = todo[c][1]
    BY <1>2, <2>2 DEF Op
  <2> QED
    BY <2>3 DEF Connected
<1>3. ASSUME NEW m \in CompMsg, ApiCall, Posted(m) PROVE m \in Implemented
  <2>1. \A a, e : Edit(a, e).edit = e
    BY DEF Edit
  <2> QED
    BY <1>2, <1>3, <2>1, ApiPosts DEF Implemented
<1> QED
  BY <1>1, <1>3, NextHolding

\* Every agent that the scheduler is asked for is in its table.
LEMMA NoPanic ==
  ASSUME TypeOK, AddressInv, Holding(Implemented)
  PROVE  ~SchedPanics
<1> SUFFICES ASSUME SchedPanics PROVE FALSE
  OBVIOUS
<1>1. /\ Len(mailbox) \in Nat /\ mailbox # <<>> /\ 1 \in 1..Len(mailbox)
      /\ Head(mailbox) = mailbox[1]
  BY DEF SchedPanics, Receive, TypeOK, QueueType
<1>2. Addressed(1)
  BY <1>1 DEF AddressInv
<1>3. mailbox[1].type \in {"Start", "Edit", "RunEnd"} => mailbox[1].id \in agents
  BY <1>1, <1>2 DEF Addressed
<1>4. /\ \A a : Start(a).type = "Start" /\ Start(a).id = a
      /\ \A a, e : Edit(a, e).type = "Edit" /\ Edit(a, e).id = a /\ Edit(a, e).edit = e
      /\ \A a, r : RunEnd(a, r).type = "RunEnd" /\ RunEnd(a, r).id = a
  BY DEF Start, Edit, RunEnd
<1>5. \A a : Receive(Start(a)) => a \in agents
  BY <1>1, <1>3, <1>4 DEF Receive
<1>6. \A a, e : Receive(Edit(a, e)) => a \in agents /\ e.kind # "unimplemented"
  BY <1>1, <1>3, <1>4 DEF Receive, Holding, Implemented
<1>7. \A a \in Agents : \A r : Receive(RunEnd(a, r)) =>
        a \in agents /\ ~FirstFailure(edit_msgs[a], "unimplemented")
  BY <1>1, <1>3, <1>4 DEF Receive, Holding, Implemented, FirstFailure
<1> QED
  BY <1>5, <1>6, <1>7 DEF SchedPanics

\* The scheduler's thread never panics for a graph that is built, started and
\* extended while it runs, as long as nothing is disconnected: no message names
\* an agent before the scheduler has it, whichever thread sends it.
THEOREM SchedulerLives ==
  ASSUME NoDisconnect
  PROVE  Spec => []SchedulerSurvives
<1> DEFINE Tame == /\ SchedulerSurvives
                   /\ \A c \in Clients : Connected(c)
                   /\ sched = "up" => Holding(Implemented)
<1>1. Init => Tame
  <2> SUFFICES ASSUME Init PROVE Tame
    OBVIOUS
  <2>1. Len(mailbox) = 0 /\ \A a \in Agents : Len(edit_msgs[a]) = 0
    BY DEF Init
  <2>2. ASSUME NEW c \in Clients PROVE Connected(c)
    <3>1. c \in Threads /\ c \notin Agents
      BY SetsAssumption DEF Threads
    <3>2. PICK s \in Scripts : todo[c] = s[c]
      BY <3>1 DEF Init
    <3> QED
      BY <3>2 DEF Connected, NoDisconnect
  <2> QED
    BY <2>1, <2>2 DEF Init, SchedulerSurvives, Holding
<1>2. IInv /\ IInv' /\ Tame /\ [Next]_vars => Tame'
  <2> SUFFICES ASSUME IInv, IInv', Tame, [Next]_vars PROVE Tame'
    OBVIOUS
  <2>1. \A c \in Clients : Connected(c)'
    <3>1. ASSUME NEW c \in Clients PROVE Connected(c)'
      BY CallsShrink DEF IInv, Connected
    <3> QED
      BY <3>1
  <2>2. SchedulerSurvives'
    <3>1. UNCHANGED sched \/ SchedStep
      BY DEF Next, StartJob, AgentStep, ClientStep, Put, PutFails, Get, GetFails, Notify, EndRun,
             AddNode, StartAgent, Connect, AddElement, SetReceiver, HandReceiver, Disconnect, BadReceiver, Join, Joined,
             ClientPanics, ApiFrame, Terminated, vars
    <3>2. CASE SchedStep
      <4>1. sched = "up"
        BY <3>2 DEF SchedStep, SchedNewAgent, SchedInc, SchedDec, SchedStart, SchedEdit,
             SchedRunEnd, SchedRunEndLoses, SchedHaltState, SchedHalt, SchedPanics, Receive
      <4>2. ~SchedPanics
        BY <4>1, NoPanic DEF IInv
      <4> QED
        BY <3>2, <4>1, <4>2 DEF SchedStep, SchedNewAgent, SchedInc, SchedDec, SchedStart,
             SchedEdit, SchedRunEnd, SchedRunEndLoses, SchedHaltState, SchedHalt, Stop,
             SchedulerSurvives
    <3> QED
      BY <3>1, <3>2 DEF SchedulerSurvives
  <2>3. sched' = "up" => Holding(Implemented)'
    BY StaysDown, NextImplemented DEF IInv
  <2> QED
    BY <2>1, <2>2, <2>3
<1>3. Tame => SchedulerSurvives
  OBVIOUS
<1> QED
  BY <1>1, <1>2, <1>3, Inductive, PTL DEF Spec
-----------------------------------------------------------------------------
(* The scheduler halts only when it is quiet.                               *)

\* Where a client calls join, it is the only one that calls anything.
JoinsAlone ==
  \A s \in Scripts : \A c \in Clients :
    (\E i \in 1..Len(s[c]) : s[c][i].op = "join") => \A d \in Clients \ {c} : s[d] = <<>>

NoJoin(c) == \A i \in 1..Len(todo[c]) : todo[c][i].op # "join"

Silenced(c) == todo[c] = <<>> /\ owes[c] = None

OwnerInv == \A c \in Clients : NoJoin(c) \/ \A d \in Clients \ {c} : Silenced(d)

\* What waits for join sends nothing.
QuietClient(c) == owes[c] = None /\ (todo[c] = <<>> \/ pc[c] = "joining")

HaltAsked == can_halt \/ \E i \in 1..Len(mailbox) : mailbox[i] = HaltState

AskedInv == HaltAsked => \A c \in Clients : QuietClient(c)

AskedOnce ==
  \A i, j \in 1..Len(mailbox) :
    mailbox[i] = HaltState => ~can_halt /\ (mailbox[j] = HaltState => j = i)

OwesInv == \A a \in Agents : owes[a] # None => pc[a] = "run"

\* Behind the last notice of a run comes its RunEnd.
LastInv ==
  HaltAsked /\ lost = {} /\ mailbox # <<>> /\ (\A a \in Agents : pc[a] # "run")
    => mailbox[Len(mailbox)].type \in {"RunEnd", "HaltState", "Halt"}

\* Halt is sent when every box is back, and nothing else is under way then.
HaltInv ==
  (\E i \in 1..Len(mailbox) : mailbox[i] = Halt)
    => Len(mailbox) = 1 /\ can_halt /\ agents \subseteq home

\* A client that is through sends nothing, as long as the scheduler is up.
LEMMA QuietStays ==
  ASSUME TypeOK, [Next]_vars, sched' = "up", NEW c \in Clients, QuietClient(c)
  PROVE  QuietClient(c)' /\ ~ApiStep(c) /\ (Silenced(c) => Silenced(c)')
<1> USE DEF TypeOK
<1>0. /\ c \in Threads /\ c \notin Agents /\ owes[c] = None
      /\ \A a \in Agents : a \in Threads /\ a # c
      /\ \A d \in Clients : d \in Threads /\ d \notin Agents
      /\ pc \in [Threads -> {"idle", "queued", "run", "joining", "joined", "panicked"}]
      /\ DOMAIN owes = Threads /\ sched = "up"
  BY SetsAssumption, StaysDown DEF Threads, RunType, QuietClient
<1>1. ~Ready(c)
  BY DEF Ready, QuietClient
<1>2. ~ApiStep(c)
  BY <1>1 DEF ApiStep, AddNode, StartAgent, Connect, AddElement, SetReceiver, HandReceiver, Disconnect, BadReceiver, Join, Calls
<1>3. ASSUME NEW t \in Threads, Put(t) \/ PutFails(t) \/ Get(t) \/ GetFails(t)
      PROVE  UNCHANGED pc /\ owes'[c] = owes[c]
  BY <1>0, <1>1, <1>3 DEF Put, PutFails, Get, GetFails
<1>4. ASSUME NEW t \in Threads, Notify(t)
      PROVE  UNCHANGED pc /\ owes'[c] = owes[c]
  BY <1>0, <1>4 DEF Notify
<1>5. ASSUME NEW a \in Agents, EndRun(a)
      PROVE  pc'[c] = pc[c] /\ UNCHANGED owes
  BY <1>0, <1>5 DEF EndRun
<1>6. StartJob => pc'[c] = pc[c] /\ UNCHANGED owes
  <2>1. StartJob => Head(pool) \in Agents
    BY DEF StartJob, QueueType
  <2> QED
    BY <1>0, <2>1 DEF StartJob
<1>7. ASSUME NEW d \in Clients, ApiStep(d)
      PROVE  pc'[c] = pc[c] /\ UNCHANGED owes
  <2>1. d # c
    BY <1>2, <1>7
  <2> QED
    BY <1>0, <1>7, <2>1
    DEF ApiStep, AddNode, StartAgent, Connect, AddElement, SetReceiver, HandReceiver, Disconnect, BadReceiver, Join, ApiFrame
<1>8. ASSUME NEW d \in Clients, Joined(d) \/ ClientPanics(d)
      PROVE  FALSE
  BY <1>0, <1>8 DEF Joined, ClientPanics
<1>9. SchedStep => pc'[c] = pc[c] /\ UNCHANGED owes
  BY <1>0
  DEF SchedStep, SchedNewAgent, SchedInc, SchedDec, SchedStart, SchedEdit, SchedRunEnd,
      SchedRunEndLoses, SchedHaltState, SchedHalt, SchedPanics, Stop, SchedFrame, Run, NoRun
<1>10. UNCHANGED vars => pc'[c] = pc[c] /\ UNCHANGED owes
  BY DEF vars
<1>11. pc'[c] = pc[c] /\ owes'[c] = owes[c]
  BY <1>0, <1>3, <1>4, <1>5, <1>6, <1>7, <1>8, <1>9, <1>10
  DEF Next, AgentStep, ClientStep, ApiStep, Terminated
<1>12. todo[c] = <<>> => todo'[c] = <<>>
  BY ScriptShrinks
<1> QED
  BY <1>0, <1>2, <1>11, <1>12 DEF QuietClient, Silenced

LEMMA NextOwner ==
  ASSUME TypeOK, [Next]_vars, sched' = "up", OwnerInv
  PROVE  OwnerInv'
<1>1. ASSUME NEW c \in Clients, NoJoin(c) PROVE NoJoin(c)'
  BY <1>1, CallsShrink DEF NoJoin
<1>2. ASSUME NEW d \in Clients, Silenced(d) PROVE Silenced(d)'
  <2>1. QuietClient(d)
    BY <1>2 DEF Silenced, QuietClient
  <2> QED
    BY <1>2, <2>1, QuietStays
<1> QED
  BY <1>1, <1>2 DEF OwnerInv

LEMMA NextOwes ==
  ASSUME TypeOK, BoxInv, [Next]_vars, sched = "up", sched' = "up", OwesInv
  PROVE  OwesInv'
<1> USE DEF TypeOK
<1>0. /\ \A a \in Agents : a \in Threads /\ a \in DOMAIN pc /\ a \notin Clients
      /\ \A c \in Clients : c \in Threads
      /\ DOMAIN owes = Threads /\ DOMAIN pc = Threads
  BY SetsAssumption DEF RunType, Threads
<1>1. ASSUME UNCHANGED owes, \A a \in Agents : pc[a] = "run" => pc'[a] = "run"
      PROVE  OwesInv'
  BY <1>1 DEF OwesInv
<1>2. ASSUME NEW t \in Threads, PutFails(t) \/ GetFails(t)
      PROVE  OwesInv'
  BY <1>1, <1>2 DEF PutFails, GetFails
<1>3. StartJob => OwesInv'
  <2>1. StartJob => Head(pool) \in Agents
    BY DEF StartJob, QueueType
  <2> QED
    BY <1>0, <1>1, <2>1 DEF StartJob
<1>4. ASSUME NEW t \in Threads, Put(t) \/ Get(t)
      PROVE  OwesInv'
  BY <1>0, <1>4 DEF Put, Get, Ready, OwesInv
<1>5. ASSUME NEW t \in Threads, Notify(t)
      PROVE  OwesInv'
  BY <1>0, <1>5 DEF Notify, OwesInv
<1>6. ASSUME NEW a \in Agents, EndRun(a)
      PROVE  OwesInv'
  BY <1>0, <1>6 DEF EndRun, OwesInv
<1>7. ASSUME NEW c \in Clients, ApiStep(c)
      PROVE  OwesInv'
  BY <1>1, <1>7, ApiStepIsCall DEF ApiCall
<1>8. ASSUME NEW c \in Clients, Joined(c) \/ ClientPanics(c)
      PROVE  OwesInv'
  BY <1>0, <1>1, <1>8 DEF Joined, ClientPanics
<1>9. SchedStep => OwesInv'
  BY <1>1, SchedRuns
<1>10. UNCHANGED vars => OwesInv'
  BY <1>1 DEF vars
<1> QED
  BY <1>0, <1>2, <1>3, <1>4, <1>5, <1>6, <1>7, <1>8, <1>9, <1>10
  DEF Next, AgentStep, ClientStep, ApiStep, Terminated

\* The first HaltState comes from a call of join.
LEMMA Asking ==
  ASSUME TypeOK, TypeOK', sched = "up", sched' = "up", [Next]_vars, ~HaltAsked, HaltAsked'
  PROVE  \E c \in Clients : Join(c) /\ Posted(HaltState)
<1>0. /\ Len(mailbox) \in Nat /\ Len(mailbox') \in Nat
      /\ HaltState.type = "HaltState" /\ Halt.type = "Halt"
      /\ \A a : Start(a).type = "Start" /\ NewAgent(a).type = "NewAgent"
      /\ \A a, e : Edit(a, e).type = "Edit" /\ RunEnd(a, e).type = "RunEnd"
  BY DEF TypeOK, QueueType, HaltState, Halt, Start, NewAgent, Edit, RunEnd
<1>1. ~can_halt /\ \A i \in 1..Len(mailbox) : mailbox[i] # HaltState
  BY DEF HaltAsked
<1>2. ~SchedHaltState
  <2>1. Took(HaltState) => mailbox[1] = HaltState /\ 1 \in 1..Len(mailbox)
    BY <1>0 DEF Took
  <2>2. SchedHaltState => Took(HaltState)
    BY TailTakes DEF TypeOK, SchedHaltState
  <2> QED
    BY <1>1, <2>1, <2>2
<1>3. UNCHANGED can_halt
  <2>1. SchedStep => UNCHANGED can_halt
    BY <1>2, SchedTakes DEF TypeOK, SchedNewAgent, SchedInc, SchedDec, SchedStart, SchedEdit,
       SchedRunEnd, SchedRunEndLoses
  <2> QED
    BY <2>1, PlainSteps DEF Plain, ApiCall, stateVars
<1>4. PICK i \in 1..Len(mailbox') : mailbox'[i] = HaltState
  BY <1>1, <1>3 DEF HaltAsked
<1>5. ASSUME NEW m, Posted(m) PROVE m = HaltState
  <2>1. i \in 1..Len(mailbox) \/ i = Len(mailbox) + 1
    BY <1>0, <1>5 DEF Posted
  <2> QED
    BY <1>1, <1>4, <1>5, <2>1 DEF Posted
<1>6. mailbox' # mailbox
  BY <1>1, <1>4
<1>7. ~SchedStep
  BY <1>0, <1>1, <1>4, TookPlaces
<1>8. ~Plain
  <2>1. \A t \in Threads : Notify(t) => owes[t].type \in {"Inc", "Dec"}
    BY DEF Notify, TypeOK, RunType, Notice
  <2> QED
    BY <1>0, <1>5, <1>6, <2>1 DEF Plain
<1>9. PICK c \in Clients : ApiStep(c)
  BY <1>7, <1>8, PlainSteps
<1>10. \A m : mailbox' = Append(mailbox, m) => Posted(m) /\ m = HaltState
  BY <1>5, AppendPosts DEF TypeOK
<1>11. Join(c)
  BY <1>0, <1>6, <1>9, <1>10
  DEF ApiStep, AddNode, StartAgent, Connect, AddElement, SetReceiver, HandReceiver, Disconnect, BadReceiver, Send
<1>12. Posted(HaltState)
  BY <1>10, <1>11 DEF Join, Send
<1> QED
  BY <1>11, <1>12

\* Once join was called, no client sends anything.
LEMMA NextAsked ==
  ASSUME TypeOK, TypeOK', sched = "up", sched' = "up", [Next]_vars, OwnerInv, AskedInv
  PROVE  AskedInv'
<1>1. CASE HaltAsked
  <2>1. ASSUME NEW c \in Clients PROVE QuietClient(c)'
    BY <1>1, QuietStays DEF AskedInv
  <2> QED
    BY <2>1 DEF AskedInv
<1>2. CASE ~HaltAsked'
  BY <1>2 DEF AskedInv
<1>3. CASE ~HaltAsked /\ HaltAsked'
  <2>1. PICK c \in Clients : Join(c)
    BY <1>3, Asking
  <2>2. /\ c \in Threads /\ todo[c] # <<>> /\ todo[c] \in Seq(OpsOf(c))
        /\ owes[c] = None /\ Op(c).op = "join" /\ UNCHANGED owes
        /\ pc' = [pc EXCEPT ![c] = "joining"] /\ c \in DOMAIN pc
    BY <2>1 DEF Join, Calls, Ready, ApiFrame, TypeOK, RunType, Threads
  <2>3. ~NoJoin(c)
    BY <2>2 DEF NoJoin, Op
  <2>4. ASSUME NEW d \in Clients PROVE QuietClient(d)'
    <3>1. CASE d = c
      BY <2>2, <3>1 DEF QuietClient
    <3>2. CASE d # c
      <4>1. Silenced(d)
        BY <2>3, <3>2 DEF OwnerInv
      <4>2. QuietClient(d)
        BY <4>1 DEF Silenced, QuietClient
      <4> QED
        BY <4>2, QuietStays
    <3> QED
      BY <3>1, <3>2
  <2> QED
    BY <2>4 DEF AskedInv
<1> QED
  BY <1>1, <1>2, <1>3

\* Then join is called once.
LEMMA NextOnce ==
  ASSUME TypeOK, TypeOK', sched = "up", sched' = "up", [Next]_vars, AskedInv, AskedOnce
  PROVE  AskedOnce'
<1>0. /\ Len(mailbox) \in Nat /\ Len(mailbox') \in Nat
      /\ HaltState.type = "HaltState" /\ Halt # HaltState
      /\ can_halt \in BOOLEAN /\ can_halt' \in BOOLEAN
  BY DEF TypeOK, QueueType, StateType, HaltState, Halt
<1>1. CASE HaltAsked
  <2>1. ~\E c \in Clients : ApiStep(c)
    BY <1>1, QuietStays DEF AskedInv
  <2>2. CASE Plain
    <3>1. \A t \in Threads : Notify(t) => owes[t] # HaltState
      BY <1>0 DEF Notify, TypeOK, RunType, Notice
    <3>2. \A a, r : RunEnd(a, r) # HaltState
      BY DEF RunEnd, HaltState
    <3>3. UNCHANGED mailbox /\ UNCHANGED can_halt => AskedOnce'
      BY DEF AskedOnce
    <3>4. ASSUME NEW m, Posted(m), m # HaltState, UNCHANGED can_halt
          PROVE  AskedOnce'
      <4>1. \A i \in 1..Len(mailbox') :
              mailbox'[i] = HaltState => i \in 1..Len(mailbox) /\ mailbox[i] = HaltState
        BY <1>0, <3>4 DEF Posted
      <4> QED
        BY <3>4, <4>1 DEF AskedOnce
    <3> QED
      BY <2>2, <3>1, <3>2, <3>3, <3>4 DEF Plain
  <2>3. CASE SchedStep
    <3>1. \A i \in 1..Len(mailbox') :
            mailbox'[i] = HaltState =>
              i + 1 \in 1..Len(mailbox) /\ mailbox[i + 1] = HaltState
      BY <1>0, <2>3, TookPlaces
    <3>2. \A i \in 1..Len(mailbox') : i \in Nat
      BY <1>0
    <3>3. UNCHANGED can_halt => AskedOnce'
      BY <3>1, <3>2 DEF AskedOnce
    <3>4. ASSUME SchedHaltState
          PROVE  AskedOnce'
      <4>1. 1 \in 1..Len(mailbox) /\ mailbox[1] = HaltState
        <5>1. Took(HaltState)
          BY <3>4, TailTakes DEF TypeOK, SchedHaltState
        <5> QED
          BY <1>0, <5>1 DEF Took
      <4>2. \A i \in 1..Len(mailbox') : mailbox'[i] # HaltState
        BY <3>1, <3>2, <4>1 DEF AskedOnce
      <4> QED
        BY <4>2 DEF AskedOnce
    <3> QED
      BY <2>3, <3>3, <3>4, SchedTakes
      DEF TypeOK, SchedNewAgent, SchedInc, SchedDec, SchedStart, SchedEdit, SchedRunEnd,
          SchedRunEndLoses
  <2> QED
    BY <2>1, <2>2, <2>3, PlainSteps
<1>2. CASE ~HaltAsked'
  BY <1>2 DEF HaltAsked, AskedOnce
<1>3. CASE ~HaltAsked /\ HaltAsked'
  <2>1. PICK c \in Clients : Join(c) /\ Posted(HaltState)
    BY <1>3, Asking
  <2>2. UNCHANGED can_halt
    BY <2>1 DEF Join, ApiFrame, stateVars
  <2>3. \A i \in 1..Len(mailbox') : mailbox'[i] = HaltState => i = Len(mailbox) + 1
    BY <1>0, <1>3, <2>1 DEF Posted, HaltAsked
  <2> QED
    BY <1>3, <2>2, <2>3 DEF AskedOnce, HaltAsked
<1> QED
  BY <1>1, <1>2, <1>3

\* What is last in the mailbox stays last, unless Halt comes behind it.
LEMMA TookLast ==
  ASSUME Len(mailbox) \in Nat, Len(mailbox') \in Nat, NEW m, Took(m), Len(mailbox') # 0
  PROVE  mailbox'[Len(mailbox')] \in {mailbox[Len(mailbox)], Halt}
<1> PICK n \in Nat : n = Len(mailbox')
  OBVIOUS
<1>1. n \in 1..n
  OBVIOUS
<1>2. CASE mailbox'[n] = Halt
  BY <1>2
<1>3. CASE n + 1 \in 1..Len(mailbox) /\ mailbox'[n] = mailbox[n + 1]
  <2>1. Len(mailbox) \in 2..Len(mailbox)
    BY <1>1, <1>3
  <2>2. Len(mailbox) - 1 \in 1..n
    BY <2>1 DEF Took
  <2>3. Len(mailbox) = n + 1
    BY <1>3, <2>2
  <2> QED
    BY <1>3, <2>3
<1> QED
  BY <1>1, <1>2, <1>3 DEF Took

\* What a step posts once join was called and no agent runs.
LEMMA NothingPosted ==
  ASSUME TypeOK, sched = "up", sched' = "up", [Next]_vars, AskedInv, OwesInv, HaltAsked
  PROVE  \/ SchedStep
         \/ Plain /\ \/ UNCHANGED mailbox
                     \/ \E a \in Agents : pc[a] = "run" /\ Notify(a)
                     \/ \E a \in Agents : pc[a] = "run" /\ \E r : Posted(RunEnd(a, r))
<1>1. \A c \in Clients : ~ApiStep(c) /\ owes[c] = None
  BY QuietStays DEF AskedInv, QuietClient
<1>2. ASSUME NEW t \in Threads, Notify(t) PROVE t \in Agents /\ pc[t] = "run"
  BY <1>1, <1>2 DEF Notify, OwesInv, Threads
<1>3. \A a \in Agents : EndRun(a) => pc[a] = "run"
  BY DEF EndRun
<1>4. Plain => \/ UNCHANGED mailbox
               \/ \E t \in Threads : Notify(t)
               \/ \E a \in Agents : EndRun(a) /\ \E r : Posted(RunEnd(a, r))
  BY DEF Plain
<1> QED
  BY <1>1, <1>2, <1>3, <1>4, PlainSteps

LEMMA NextLast ==
  ASSUME TypeOK, TypeOK', BoxInv, sched = "up", sched' = "up", [Next]_vars, AskedInv, OwesInv,
         LastInv
  PROVE  LastInv'
<1> SUFFICES ASSUME HaltAsked', lost' = {}, mailbox' # <<>>, \A a \in Agents : pc'[a] # "run"
             PROVE  mailbox'[Len(mailbox')].type \in {"RunEnd", "HaltState", "Halt"}
  BY DEF LastInv
<1>0. /\ Len(mailbox) \in Nat /\ Len(mailbox') \in Nat /\ Len(mailbox') # 0
      /\ \A a \in Agents : a \in DOMAIN pc
      /\ HaltState.type = "HaltState" /\ Halt.type = "Halt"
      /\ \A a, r : RunEnd(a, r).type = "RunEnd"
  BY DEF TypeOK, QueueType, RunType, Threads, HaltState, Halt, RunEnd
<1>1. lost = {}
  BY LostStays
<1>2. ASSUME NEW m, Took(m), \A a \in Agents : pc[a] # "run", HaltAsked
      PROVE  mailbox'[Len(mailbox')].type \in {"RunEnd", "HaltState", "Halt"}
  <2>1. mailbox # <<>>
    BY <1>2, <1>0 DEF Took
  <2>2. mailbox[Len(mailbox)].type \in {"RunEnd", "HaltState", "Halt"}
    BY <1>1, <1>2, <2>1 DEF LastInv
  <2> QED
    BY <1>0, <1>2, <2>2, TookLast
<1>3. CASE ~HaltAsked
  <2>1. Posted(HaltState)
    BY <1>3, Asking
  <2> QED
    BY <1>0, <2>1 DEF Posted
<1>4. CASE HaltAsked /\ SchedStep
  <2>1. \A a \in Agents : pc[a] # "run"
    BY <1>4, SchedRuns
  <2>2. \E m : Took(m)
    BY <1>4, SchedTakes DEF TypeOK
  <2> QED
    BY <1>2, <1>4, <2>1, <2>2
<1>5. CASE HaltAsked /\ Plain /\ ~SchedStep
  <2>1. ASSUME NEW a \in Agents, NEW r, Posted(RunEnd(a, r))
        PROVE  mailbox'[Len(mailbox')].type \in {"RunEnd", "HaltState", "Halt"}
    BY <1>0, <2>1 DEF Posted
  <2>2. \A a \in Agents : ~(pc[a] = "run" /\ Notify(a))
    BY DEF Notify
  <2>3. ASSUME UNCHANGED mailbox, BoxRests
        PROVE  mailbox'[Len(mailbox')].type \in {"RunEnd", "HaltState", "Halt"}
    BY <1>1, <1>5, <2>3 DEF BoxRests, LastInv
  <2>4. ASSUME NEW a \in Agents, BoxStarts(a) PROVE FALSE
    BY <1>0, <2>4 DEF BoxStarts
  <2>5. ASSUME NEW a \in Agents, BoxLeaves(a)
        PROVE  mailbox'[Len(mailbox')].type \in {"RunEnd", "HaltState", "Halt"}
    BY <2>1, <2>5 DEF BoxLeaves
  <2>6. ASSUME NEW a \in Agents, BoxComes(a) \/ BoxGoes(a) \/ BoxReturns(a)
        PROVE  mailbox'[Len(mailbox')].type \in {"RunEnd", "HaltState", "Halt"}
    <3>1. \E m : Took(m)
      BY <2>6 DEF BoxComes, BoxGoes, BoxReturns
    <3>2. \A b \in Agents : pc[b] # "run"
      BY <1>0, <2>6, GoesIdle DEF BoxComes, BoxGoes, BoxReturns, Run
    <3> QED
      BY <1>2, <1>5, <3>1, <3>2
  <2>7. \/ UNCHANGED mailbox
        \/ \E a \in Agents : pc[a] = "run" /\ \E r : Posted(RunEnd(a, r))
    BY <1>5, <2>2, NothingPosted
  <2> QED
    BY <2>1, <2>3, <2>4, <2>5, <2>6, <2>7, BoxSteps
<1> QED
  BY <1>3, <1>4, <1>5, NothingPosted

\* Where every box but that of a taken RunEnd is here, the message taken is
\* the only one.
LEMMA OnlyOne ==
  ASSUME TypeOK, BoxInv, AskedOnce, LastInv, HaltInv, NEW m, Took(m),
         \/ m = HaltState /\ agents \subseteq home
         \/ /\ can_halt
            /\ \E a \in Agents : (\E r : m = RunEnd(a, r)) /\ agents \subseteq home \cup {a}
  PROVE  Len(mailbox) = 1
<1>0. /\ Len(mailbox) \in Nat /\ Len(mailbox) >= 1 /\ mailbox[1] = m /\ mailbox # <<>>
      /\ 1 \in 1..Len(mailbox) /\ Len(mailbox) \in 1..Len(mailbox)
      /\ agents \subseteq Agents /\ HaltState.type = "HaltState"
      /\ \A a, r : RunEnd(a, r).type = "RunEnd" /\ RunEnd(a, r).id = a
      /\ mailbox[Len(mailbox)] \in CompMsg
  BY DEF TypeOK, QueueType, StateType, Took, HaltState, RunEnd
<1> DEFINE z == mailbox[Len(mailbox)]
<1>1. HaltAsked
  BY <1>0 DEF HaltAsked
<1>2. ASSUME NEW a \in Agents, NEW i \in 1..Len(mailbox), EndsAt(i, a)
      PROVE  /\ a \in agents \ (home \cup lost) /\ pc[a] = "idle"
             /\ \A j \in 1..Len(mailbox) : EndsAt(j, a) => j = i
  BY <1>2 DEF BoxInv, RunEndInv
<1>3. /\ lost = {} /\ \A a \in Agents : pc[a] # "run"
      /\ \A a \in Agents : EndsAt(Len(mailbox), a) => Len(mailbox) = 1
  <2>1. CASE m = HaltState /\ agents \subseteq home
    BY <1>2, <1>0, <2>1 DEF BoxInv, AwayInv
  <2>2. ASSUME NEW a \in Agents, NEW r, m = RunEnd(a, r), agents \subseteq home \cup {a}
        PROVE  /\ lost = {} /\ \A b \in Agents : pc[b] # "run"
               /\ \A b \in Agents : EndsAt(Len(mailbox), b) => Len(mailbox) = 1
    <3>1. EndsAt(1, a)
      BY <1>0, <2>2 DEF EndsAt
    <3>2. /\ a \in agents \ (home \cup lost) /\ pc[a] = "idle"
          /\ \A j \in 1..Len(mailbox) : EndsAt(j, a) => j = 1
      BY <1>0, <1>2, <3>1
    <3>3. \A b \in Agents : EndsAt(Len(mailbox), b) => b = a
      BY <1>0, <1>2, <2>2
    <3>4. lost = {} /\ \A b \in Agents : pc[b] # "run"
      BY <2>2, <3>2 DEF BoxInv, AwayInv
    <3> QED
      BY <1>0, <3>2, <3>3, <3>4
  <2> QED
    BY <2>1, <2>2
<1>4. z.type \in {"RunEnd", "HaltState", "Halt"}
  BY <1>0, <1>1, <1>3 DEF LastInv
<1>5. CASE z.type = "RunEnd"
  <2>1. z.id \in Agents /\ EndsAt(Len(mailbox), z.id)
    BY <1>0, <1>5 DEF CompMsg, Notice, EndsAt
  <2> QED
    BY <1>3, <2>1
<1>6. CASE z.type = "HaltState"
  <2>1. z = HaltState
    BY <1>0, <1>6 DEF CompMsg, Notice, HaltState
  <2>2. m = HaltState
    BY <1>0, <2>1 DEF AskedOnce
  <2> QED
    BY <1>0, <2>1, <2>2 DEF AskedOnce
<1>7. CASE z.type = "Halt"
  <2>1. z = Halt
    BY <1>0, <1>7 DEF CompMsg, Notice, Halt
  <2> QED
    BY <1>0, <2>1 DEF HaltInv
<1> QED
  BY <1>4, <1>5, <1>6, <1>7

\* Halt is posted when every box is back and the mailbox is empty, and then it
\* stays alone there.
LEMMA NextHalt ==
  ASSUME TypeOK, TypeOK', BoxInv, sched = "up", sched' = "up", [Next]_vars, AskedInv, AskedOnce,
         OwesInv, LastInv, HaltInv, RunningIsCount', MarkedInv'
  PROVE  HaltInv'
<1> SUFFICES ASSUME NEW i \in 1..Len(mailbox'), mailbox'[i] = Halt
             PROVE  (Len(mailbox) = 1 /\ can_halt /\ agents \subseteq home)'
  BY DEF HaltInv
<1>0. /\ Len(mailbox) \in Nat /\ Len(mailbox') \in Nat
      /\ mailbox \in Seq(CompMsg) /\ agents \subseteq Agents
      /\ Halt.type = "Halt" /\ HaltState.type = "HaltState"
      /\ \A a : Start(a).type = "Start" /\ NewAgent(a).type = "NewAgent"
      /\ \A a : Inc(a).type = "Inc" /\ Dec(a).type = "Dec"
      /\ \A a, e : Edit(a, e).type = "Edit" /\ RunEnd(a, e).type = "RunEnd"
  BY DEF TypeOK, QueueType, StateType, HaltState, Halt, Start, NewAgent, Inc, Dec, Edit, RunEnd
<1>1. CASE \E j \in 1..Len(mailbox) : mailbox[j] = Halt
  <2>1. Len(mailbox) = 1 /\ can_halt /\ agents \subseteq home /\ mailbox[1] = Halt
    BY <1>0, <1>1 DEF HaltInv
  <2>2. \A a \in Agents : pc[a] = "idle"
    BY <2>1 DEF BoxInv, AwayInv
  <2>3. ~SchedStep
    <3>1. \A m : Took(m) => m = Halt
      BY <2>1 DEF Took
    <3> QED
      BY <1>0, <3>1, SchedTakes DEF TypeOK
  <2>4. Plain /\ UNCHANGED mailbox
    BY <2>1, <2>2, <2>3, NothingPosted DEF HaltAsked
  <2> QED
    BY <2>1, <2>4 DEF Plain
<1>2. CASE \A j \in 1..Len(mailbox) : mailbox[j] # Halt
  <2>1. ASSUME NEW m, Posted(m) PROVE m = Halt
    <3>1. i \in 1..Len(mailbox) \/ i = Len(mailbox) + 1
      BY <1>0, <2>1 DEF Posted
    <3> QED
      BY <1>2, <2>1, <3>1 DEF Posted
  <2>2. ~Plain
    <3>1. \A t \in Threads : Notify(t) => owes[t].type \in {"Inc", "Dec"}
      BY DEF Notify, TypeOK, RunType, Notice
    <3> QED
      BY <1>0, <1>2, <2>1, <3>1 DEF Plain
  <2>3. ~ApiCall
    <3>1. \A m : mailbox' = Append(mailbox, m) => m = Halt
      BY <2>1, AppendPosts DEF TypeOK
    <3> QED
      BY <1>0, <1>2, <3>1 DEF ApiCall
  <2>4. SchedStep
    BY <2>2, <2>3, PlainSteps
  <2>5. ASSUME mailbox' = Tail(mailbox), mailbox # <<>> PROVE FALSE
    <3>1. i + 1 \in 1..Len(mailbox) /\ mailbox'[i] = mailbox[i + 1]
      BY <1>0, <2>5
    <3> QED
      BY <1>2, <3>1
  <2>6. ASSUME running' <= 0
        PROVE  agents' \subseteq home'
    <3>1. is_run' \subseteq Agents /\ IsFiniteSet(is_run') /\ running' = Cardinality(is_run')
      BY SetsAssumption, FS_Subset DEF RunningIsCount, TypeOK, StateType
    <3>2. Cardinality(is_run') \in Nat
      BY <3>1, FS_CardinalityType
    <3>3. Cardinality(is_run') = 0
      BY <2>6, <3>1, <3>2
    <3>4. is_run' = {}
      BY <3>1, <3>3, FS_EmptySet
    <3> QED
      BY <3>4 DEF MarkedInv
  <2>7. ASSUME mailbox' = Append(Tail(mailbox), Halt), mailbox # <<>>, Len(mailbox) = 1
        PROVE  Len(mailbox') = 1
    BY <1>0, <2>7
  <2>8. CASE SchedHaltState /\ Took(HaltState)
    <3>1. mailbox # <<>>
      BY <2>8 DEF SchedHaltState, Receive
    <3>2. mailbox' = Append(Tail(mailbox), Halt) /\ running' <= 0
      BY <2>5, <2>8, <3>1 DEF SchedHaltState, NoneRuns, NoRun
    <3>3. agents' \subseteq home' /\ UNCHANGED <<agents, home>> /\ can_halt'
      BY <2>6, <2>8, <3>2 DEF SchedHaltState, NoRun
    <3>4. Len(mailbox) = 1
      BY <2>8, <3>3, OnlyOne
    <3> QED
      BY <2>7, <3>1, <3>2, <3>3, <3>4
  <2>9. ASSUME NEW a \in Agents, NEW r \in Results, SchedRunEnd(a, r), Took(RunEnd(a, r))
        PROVE  (Len(mailbox) = 1 /\ can_halt /\ agents \subseteq home)'
    <3>1. mailbox # <<>>
      BY <2>9 DEF SchedRunEnd, Receive
    <3>2. /\ mailbox' = Append(Tail(mailbox), Halt) /\ running' <= 0
          /\ can_halt /\ UNCHANGED <<agents, can_halt>> /\ home' = home \cup {a}
      BY <2>5, <2>9, <3>1 DEF SchedRunEnd, NoneRuns
    <3>3. agents' \subseteq home'
      BY <2>6, <3>2
    <3>4. Len(mailbox) = 1
      BY <2>9, <3>2, <3>3, OnlyOne
    <3> QED
      BY <2>7, <3>1, <3>2, <3>3, <3>4
  <2>10. ASSUME NEW a \in Agents,
                \/ SchedNewAgent(a) \/ SchedInc(a) \/ SchedDec(a) \/ SchedStart(a)
                \/ \E e \in EditCmp : SchedEdit(a, e)
                \/ \E r \in Results : SchedRunEndLoses(a, r)
         PROVE  FALSE
    BY <2>5, <2>10
    DEF SchedNewAgent, SchedInc, SchedDec, SchedStart, SchedEdit, SchedRunEndLoses, Receive
  <2> QED
    BY <2>4, <2>8, <2>9, <2>10, SchedTakes DEF TypeOK
<1> QED
  BY <1>1, <1>2

\* The invariant behind a quiet halt, where no client sends anything once join
\* was called.
HaltingInv == AskedOnce /\ OwesInv /\ LastInv /\ HaltInv /\ MarkedInv

LEMMA InitHalting == Init => HaltingInv
<1>1. Init => mailbox = <<>> /\ \A a \in Agents : a \in Threads
  BY DEF Init, Threads
<1> QED
  BY <1>1 DEF HaltingInv, AskedOnce, OwesInv, LastInv, HaltInv, MarkedInv, HaltAsked, Init

LEMMA NextHalting ==
  ASSUME IInv, IInv', sched = "up", sched' = "up", [Next]_vars, AskedInv, HaltingInv
  PROVE  HaltingInv'
<1>1. TypeOK /\ TypeOK' /\ BoxInv /\ RunningIsCount'
  BY DEF IInv
<1>2. MarkedInv'
  BY <1>1, NextMarked DEF HaltingInv
<1>3. AskedOnce'
  BY <1>1, NextOnce DEF HaltingInv
<1>4. OwesInv'
  BY <1>1, NextOwes DEF HaltingInv
<1>5. LastInv'
  BY <1>1, NextLast DEF HaltingInv
<1>6. HaltInv'
  BY <1>1, <1>2, NextHalt DEF HaltingInv
<1> QED
  BY <1>2, <1>3, <1>4, <1>5, <1>6 DEF HaltingInv

\* When the scheduler takes Halt, nothing is left anywhere.
LEMMA HaltIsQuiet ==
  ASSUME IInv, sched = "up", AskedInv, HaltingInv, Receive(Halt)
  PROVE  (\A a \in Agents : pc[a] = "idle" /\ Queued(a) = 0) /\ Len(mailbox) = 1
<1>1. TypeOK /\ KnownInv /\ BoxInv /\ RestInv /\ Conservation
  BY DEF IInv
<1>2. Len(mailbox) = 1 /\ mailbox[1] = Halt /\ can_halt /\ agents \subseteq home
  BY <1>1 DEF HaltingInv, HaltInv, Receive, TypeOK, QueueType
<1>3. lost = {} /\ \A a \in Agents : pc[a] = "idle"
  BY <1>1, <1>2 DEF BoxInv, AwayInv
<1>4. \A t \in Threads : owes[t] = None
  BY <1>2, <1>3 DEF AskedInv, HaltAsked, QuietClient, HaltingInv, OwesInv, Threads
<1>5. ASSUME NEW a \in Agents PROVE Queued(a) = 0
  <2>1. Balance(a) /\ ips[a] <= 0
    BY <1>1, <1>2, <1>3 DEF Conservation, KnownInv, RestInv
  <2>2. ASSUME NEW m \in Notice PROVE Pending(m) = 0
    <3>1. m # Halt /\ m # None
      BY NoneAssumption DEF Notice, Halt
    <3>2. Owing(m) = {} /\ Positions(mailbox, m) = {}
      BY <1>2, <1>4, <3>1 DEF Owing, Positions
    <3> QED
      BY <3>2, FS_EmptySet DEF Pending, Count
  <2>3. Inc(a) \in Notice /\ Dec(a) \in Notice
    BY DEF Inc, Dec, Notice
  <2> QED
    BY <1>1, <2>1, <2>2, <2>3, BalanceType DEF Balance
<1> QED
  BY <1>2, <1>3, <1>5

\* If no client does anything once join was called, the scheduler's thread ends
\* only when no agent runs or waits for a worker, no message is left in a
\* channel that schedules, and the mailbox holds nothing but the Halt it takes.
THEOREM HaltsAreQuiet == Spec /\ [](sched = "up" => AskedInv) => HaltsQuiescent
<1> DEFINE Calm == sched = "up" => AskedInv
           Inv == sched = "up" => HaltingInv
<1>1. Init => Inv
  BY InitHalting
<1>2. IInv /\ IInv' /\ Calm /\ Inv /\ [Next]_vars => Inv'
  BY StaysDown, NextHalting DEF IInv
<1>3. IInv /\ Calm /\ Inv /\ [Next]_vars
        => [sched = "up" /\ sched' = "halted" =>
              /\ \A a \in Agents : pc[a] = "idle" /\ Queued(a) = 0
              /\ Len(mailbox) = 1]_vars
  <2> SUFFICES ASSUME IInv, Calm, Inv, [Next]_vars, sched = "up", sched' = "halted"
               PROVE  (\A a \in Agents : pc[a] = "idle" /\ Queued(a) = 0) /\ Len(mailbox) = 1
    OBVIOUS
  <2>1. SchedStep
    BY DEF Next, StartJob, AgentStep, ClientStep, Put, PutFails, Get, GetFails, Notify, EndRun,
           AddNode, StartAgent, Connect, AddElement, SetReceiver, HandReceiver, Disconnect, BadReceiver, Join, Joined,
           ClientPanics, ApiFrame, Terminated, vars
  <2>2. Receive(Halt)
    BY <2>1
    DEF SchedStep, SchedNewAgent, SchedInc, SchedDec, SchedStart, SchedEdit, SchedRunEnd,
        SchedRunEndLoses, SchedHaltState, SchedHalt, SchedPanics, Stop
  <2> QED
    BY <2>2, HaltIsQuiet
<1> QED
  BY <1>1, <1>2, <1>3, Inductive, PTL DEF Spec, HaltsQuiescent

\* That is so when the client that calls join is the only one.
LEMMA CalmIfAlone ==
  ASSUME JoinsAlone
  PROVE  Spec => [](sched = "up" => OwnerInv /\ AskedInv)
<1> DEFINE Inv == sched = "up" => OwnerInv /\ AskedInv
<1>1. Init => Inv
  <2> SUFFICES ASSUME Init PROVE OwnerInv /\ AskedInv
    OBVIOUS
  <2>0. mailbox = <<>> /\ \A c \in Clients : c \in Threads /\ c \notin Agents
    BY SetsAssumption DEF Init, Threads
  <2>1. PICK s \in Scripts : todo = [t \in Threads |-> IF t \in Agents THEN <<>> ELSE s[t]]
    BY DEF Init
  <2>2. \A c \in Clients : todo[c] = s[c] /\ owes[c] = None
    BY <2>0, <2>1 DEF Init
  <2> QED
    BY <2>0, <2>2 DEF OwnerInv, NoJoin, Silenced, JoinsAlone, AskedInv, HaltAsked, Init
<1>2. IInv /\ IInv' /\ Inv /\ [Next]_vars => Inv'
  BY StaysDown, NextOwner, NextAsked DEF IInv
<1> QED
  BY <1>1, <1>2, Inductive, PTL DEF Spec

\* A graph whose owner alone calls the scheduler ends quietly.
COROLLARY OwnerHaltsQuietly ==
  ASSUME JoinsAlone
  PROVE  Spec => HaltsQuiescent
<1>1. (sched = "up" => OwnerInv /\ AskedInv) => (sched = "up" => AskedInv)
  OBVIOUS
<1> QED
  BY <1>1, CalmIfAlone, HaltsAreQuiet, PTL

-----------------------------------------------------------------------------
(* The runtime implements the abstract scheduler: every step of it is one   *)
(* of module Dataflow, or a stutter.  Fairness is left to the model checker.*)

AbstractSafety == Abstract!Init /\ [][Abstract!Next]_(Abstract!vars)

\* Once the scheduler's thread ended, no agent runs and none waits for a worker.
DownInv == sched # "up" => pool = <<>> /\ \A a \in Agents : pc[a] = "idle"

\* A message that is no Start asks for nothing.
LEMMA PostAsks ==
  ASSUME QueueType, NEW m, Posted(m)
  PROVE  /\ (\A a : m # Start(a)) => AbstractAsked' = AbstractAsked
         /\ \A a \in Agents : m = Start(a) => AbstractAsked' = AbstractAsked \cup {a}
<1>0. PICK n \in Nat : n = Len(mailbox)
  BY DEF QueueType
<1>1. /\ Len(mailbox') = n + 1 /\ mailbox'[n + 1] = m
      /\ \A i \in 1..n : mailbox'[i] = mailbox[i]
  BY <1>0 DEF Posted
<1>2. \A x : Positions(mailbox', x) # {} <=> Positions(mailbox, x) # {} \/ m = x
  <2> TAKE x
  <2>1. \A i \in 1..(n + 1) : i \in 1..n \/ i = n + 1
    BY <1>0
  <2>2. n + 1 \in 1..(n + 1) /\ \A i \in 1..n : i \in 1..(n + 1)
    BY <1>0
  <2> QED
    BY <1>0, <1>1, <2>1, <2>2 DEF Positions
<1>3. \A a, b : Start(a) = Start(b) => a = b
  <2>1. \A a : Start(a).id = a
    BY DEF Start
  <2> QED
    BY <2>1
<1> QED
  BY <1>2, <1>3 DEF AbstractAsked

\* The message taken may be the only one like it.
LEMMA TookAsks ==
  ASSUME QueueType, QueueType', NEW m, Took(m)
  PROVE  /\ (\A a : m # Start(a)) => AbstractAsked' = AbstractAsked
         /\ \A a \in Agents : m = Start(a) =>
              /\ a \in AbstractAsked
              /\ AbstractAsked' \in {AbstractAsked, AbstractAsked \ {a}}
<1>0. /\ Len(mailbox) \in Nat /\ Len(mailbox') \in Nat /\ Len(mailbox) >= 1 /\ mailbox[1] = m
      /\ \A a, b : Start(a) = Start(b) => a = b
      /\ \A a : Start(a) # Halt
  <2>1. /\ \A a : Start(a).id = a /\ Start(a).type = "Start"
        /\ Halt.type = "Halt"
    BY DEF Start, Halt
  <2>2. (\A a, b : Start(a) = Start(b) => a = b) /\ \A a : Start(a) # Halt
    BY ONLY <2>1
  <2> QED
    BY <2>2 DEF QueueType, Took
<1>1. ASSUME NEW x, x # Halt, Positions(mailbox', x) # {}
      PROVE  Positions(mailbox, x) # {}
  <2>1. PICK i \in 1..Len(mailbox') : mailbox'[i] = x
    BY <1>1 DEF Positions
  <2>2. i + 1 \in 1..Len(mailbox) /\ mailbox[i + 1] = x
    BY <1>1, <2>1 DEF Took
  <2> QED
    BY <2>2 DEF Positions
<1>2. ASSUME NEW x, x # m, Positions(mailbox, x) # {}
      PROVE  Positions(mailbox', x) # {}
  <2>1. PICK i \in 1..Len(mailbox) : mailbox[i] = x
    BY <1>2 DEF Positions
  <2>2. i \in 2..Len(mailbox)
    BY <1>0, <1>2, <2>1
  <2>3. i - 1 \in 1..Len(mailbox') /\ mailbox'[i - 1] = x
    BY <2>1, <2>2 DEF Took
  <2> QED
    BY <2>3 DEF Positions
<1>3. Positions(mailbox, m) # {}
  BY <1>0 DEF Positions
<1>4. AbstractAsked' \subseteq AbstractAsked
  BY <1>0, <1>1 DEF AbstractAsked
<1>5. \A a \in AbstractAsked : m # Start(a) => a \in AbstractAsked'
  BY <1>2 DEF AbstractAsked
<1> QED
  BY <1>0, <1>3, <1>4, <1>5 DEF AbstractAsked

\* No Dec is under way from an agent whose last run was heard of.
LEMMA NoDecs ==
  ASSUME TypeOK, BoxInv, DecInv, NEW a \in Agents \ lost, pc[a] # "run",
         \A j \in 2..Len(mailbox) : ~EndsAt(j, a)
  PROVE  Pending(Dec(a)) = 0
<1>1. Owing(Dec(a)) = {}
  BY DEF DecInv, OwesDecInv, Owing
<1>2. ASSUME NEW i \in Positions(mailbox, Dec(a)) PROVE FALSE
  <2>1. i \in 1..Len(mailbox) /\ Holds(i, Dec(a))
    BY <1>2 DEF Positions, Holds
  <2>2. PICK j \in (i + 1)..Len(mailbox) : EndsAt(j, a)
    BY <2>1 DEF DecInv, SentDecInv
  <2>3. j \in 2..Len(mailbox)
    BY <2>1, <2>2
  <2> QED
    BY <2>2, <2>3
<1>3. Positions(mailbox, Dec(a)) = {}
  BY <1>2
<1> QED
  BY <1>1, <1>3, FS_EmptySet DEF Pending, Count

\* The message that wakes an agent waits in one of its channels.
LEMMA WakesForWork ==
  ASSUME IInv, sched = "up", NEW a \in Agents, Took(Inc(a)), Wakes(a)
  PROVE  Abstract!HasWork(a)
<1>0. TypeOK /\ BoxInv /\ DecInv /\ RestInv /\ Conservation
  BY DEF IInv
<1>1. a \in home /\ a \notin lost /\ pc[a] = "idle" /\ ips[a] + 1 > 0 /\ ips[a] <= 0
  BY <1>0 DEF Wakes, RestInv, BoxInv, AwayInv
<1>2. Balance(a)
  BY <1>0, <1>1 DEF Conservation
<1>3. Count(mailbox, Inc(a)) >= 1
  <2>1. 1 \in Positions(mailbox, Inc(a)) /\ IsFiniteSet(Positions(mailbox, Inc(a)))
    <3>1. mailbox \in Seq(CompMsg) /\ 1 \in 1..Len(mailbox) /\ mailbox[1] = Inc(a)
      BY <1>0 DEF TypeOK, QueueType, Took
    <3> QED
      BY <3>1, PositionsFinite DEF Positions
  <2>2. Positions(mailbox, Inc(a)) # {}
    BY <2>1
  <2>3. Cardinality(Positions(mailbox, Inc(a))) # 0 /\ Cardinality(Positions(mailbox, Inc(a))) \in Nat
    BY <2>1, <2>2, FS_EmptySet, FS_CardinalityType
  <2> QED
    BY <2>3 DEF Count
<1>4. Pending(Dec(a)) = 0
  <2>1. \A j \in 2..Len(mailbox) : ~EndsAt(j, a)
    BY <1>0, <1>1 DEF BoxInv, RunEndInv, EndsAt
  <2> QED
    BY <1>0, <1>1, <2>1, NoDecs
<1>5. Queued(a) # 0
  <2>1. /\ ips[a] \in Int /\ Cardinality(Owing(Inc(a))) \in Nat /\ Count(mailbox, Inc(a)) \in Nat
        /\ Queued(a) \in Nat
    BY <1>0, BalanceType
  <2> QED
    BY <1>1, <1>2, <1>3, <1>4, <2>1 DEF Balance, Pending
<1>6. Places(chan, Scheduling(a), Capacity) # {}
  BY <1>5, FS_EmptySet DEF Queued
<1>7. PICK w \in Scheduling(a) \X (1..Capacity) : w[2] <= chan[w[1]]
  BY <1>6 DEF Places
<1>8. w[1] \in Scheduling(a) /\ w[2] \in 1..Capacity
  BY <1>7
<1>9. w[1] \in InPorts \ Silent /\ Owner[w[1]] = a /\ chan[w[1]] \in Nat
  BY <1>0, <1>8, SizeAssumption DEF Scheduling, TypeOK, PortType
<1>10. chan[w[1]] > 0
  BY <1>7, <1>8, <1>9, SizeAssumption
<1> QED
  BY <1>9, <1>10 DEF Abstract!HasWork

\* Where nothing is queued for an agent, it has no work.
LEMMA NoWork ==
  ASSUME TypeOK, NEW a \in Agents, Queued(a) = 0
  PROVE  ~Abstract!HasWork(a)
<1> SUFFICES ASSUME NEW p \in InPorts \ Silent, Owner[p] = a, chan[p] > 0 PROVE FALSE
  BY DEF Abstract!HasWork
<1>1. p \in Scheduling(a) /\ chan[p] \in 0..Capacity /\ Capacity \in Nat
  BY SizeAssumption DEF Scheduling, TypeOK, PortType
<1>2. <<p, 1>> \in Places(chan, Scheduling(a), Capacity)
  BY <1>1 DEF Places
<1>3. IsFiniteSet(Places(chan, Scheduling(a), Capacity))
  BY <1>1, BalanceType, PlacesFinite
<1> QED
  BY <1>2, <1>3, FS_EmptySet DEF Queued

\* A step of a runtime whose scheduler goes on is one of the abstract scheduler.
LEMMA UpRefines ==
  ASSUME IInv, IInv', sched = "up", sched' = "up", [Next]_vars
  PROVE  [Abstract!Next]_(Abstract!vars)
<1> DEFINE Step == Abstract!Next \/ UNCHANGED Abstract!vars
<1> SUFFICES Step
  OBVIOUS
<1>0. /\ TypeOK /\ QueueType /\ QueueType' /\ KnownInv /\ BoxInv
      /\ agents \subseteq Agents /\ home \subseteq agents
      /\ AbstractActive = agents \ home /\ AbstractActive' = agents' \ home'
      /\ (sched # "up")' = (sched # "up")
  BY DEF IInv, TypeOK, StateType, AbstractActive
<1>1. ASSUME UNCHANGED <<chan, agents, home>>, AbstractAsked' = AbstractAsked
      PROVE  Step
  BY <1>0, <1>1 DEF Abstract!vars
<1>2. ASSUME UNCHANGED <<chan, agents, home, mailbox>>
      PROVE  Step
  BY <1>1, <1>2 DEF AbstractAsked
<1>3. /\ \A a, b : /\ Inc(a) # Start(b) /\ Dec(a) # Start(b) /\ NewAgent(a) # Start(b)
                   /\ HaltState # Start(b)
      /\ \A a, b, e : Edit(a, e) # Start(b) /\ RunEnd(a, e) # Start(b)
  <2>1. /\ \A a : /\ Inc(a).type = "Inc" /\ Dec(a).type = "Dec" /\ Start(a).type = "Start"
                  /\ HaltState.type = "HaltState" /\ NewAgent(a).type = "NewAgent"
        /\ \A a, e : Edit(a, e).type = "Edit" /\ RunEnd(a, e).type = "RunEnd"
    BY DEF Inc, Dec, Start, HaltState, NewAgent, Edit, RunEnd
  <2> QED
    BY ONLY <2>1
<1>4. ASSUME NEW t \in Threads, Put(t)
      PROVE  Step
  <2>1. PICK p \in InPorts : p = Target(t)
    BY <1>0, <1>4, TargetType DEF Put, Ready
  <2>2. /\ chan[p] < Capacity /\ chan' = [chan EXCEPT ![p] = @ + 1]
        /\ UNCHANGED <<agents, home, mailbox>>
    BY <1>4, <2>1 DEF Put, HasRoom, stateVars
  <2>3. Abstract!Deliver(p)
    BY <1>0, <2>2 DEF Abstract!Deliver, AbstractAsked
  <2> QED
    BY <2>3 DEF Abstract!Next
<1>5. ASSUME NEW a \in Agents, Get(a)
      PROVE  Step
  <2>1. a \in Threads
    BY DEF Threads
  <2>2. PICK p \in InPorts : /\ Owner[p] = a /\ chan[p] > 0
                              /\ chan' = [chan EXCEPT ![p] = @ - 1]
    BY <1>0, <1>5, GetPort DEF TypeOK
  <2>3. /\ chan[p] > 0 /\ chan' = [chan EXCEPT ![p] = @ - 1]
        /\ UNCHANGED <<agents, home, mailbox>> /\ pc[a] = "run"
    BY <1>5, <2>2 DEF Get, Ready, stateVars
  <2>4. a \in agents \ home
    BY <1>0, <2>3 DEF BoxInv, AwayInv
  <2>5. Abstract!Read(p)
    BY <1>0, <2>2, <2>3, <2>4 DEF Abstract!Read, AbstractAsked
  <2> QED
    BY <2>5 DEF Abstract!Next
<1>6. ASSUME \/ StartJob
             \/ \E t \in Threads : PutFails(t) \/ GetFails(t)
             \/ \E c \in Clients : Joined(c) \/ ClientPanics(c)
             \/ UNCHANGED vars
      PROVE  Step
  BY <1>2, <1>6 DEF StartJob, PutFails, GetFails, Joined, ClientPanics, stateVars, vars
<1>7. ASSUME NEW m, Posted(m), \A a : m # Start(a), UNCHANGED <<chan, agents, home>>
      PROVE  Step
  BY <1>0, <1>1, <1>7, PostAsks
<1>8. ASSUME NEW t \in Threads, Notify(t)
      PROVE  Step
  <2>1. owes[t] \in Notice /\ Posted(owes[t])
    BY <1>0, <1>8, AppendPosts DEF Notify, TypeOK, RunType
  <2>2. \A a : owes[t] # Start(a)
    BY <2>1 DEF Notice, Start
  <2> QED
    BY <1>7, <1>8, <2>1, <2>2 DEF Notify, stateVars
<1>9. ASSUME NEW a \in Agents, EndRun(a)
      PROVE  Step
  <2>1. mailbox' = Append(mailbox, RunEnd(a, res[a])) => Posted(RunEnd(a, res[a]))
    BY <1>0, AppendPosts
  <2> QED
    BY <1>2, <1>3, <1>7, <1>9, <2>1 DEF EndRun, stateVars
<1>10. ASSUME ApiCall
       PROVE  Step
  <2>1. UNCHANGED <<chan, agents, home>>
    BY <1>10 DEF ApiCall, stateVars
  <2>2. \A m : mailbox' = Append(mailbox, m) => Posted(m)
    BY <1>0, AppendPosts
  <2>3. \/ UNCHANGED mailbox
        \/ \E m : Posted(m) /\ \A a : m # Start(a)
        \/ \E a \in Agents : Posted(Start(a))
    <3>1. known \subseteq Agents
      BY <1>0 DEF TypeOK, PortType
    <3> QED
      BY <1>3, <1>10, <2>2, <3>1, ApiMail
  <2>4. ASSUME NEW a \in Agents, Posted(Start(a))
        PROVE  Step
    <3>1. AbstractAsked' = AbstractAsked \cup {a}
      BY <1>0, <2>4, PostAsks
    <3>2. Abstract!Ask({a})
      BY <1>0, <2>1, <3>1 DEF Abstract!Ask
    <3> QED
      BY <3>2 DEF Abstract!Next
  <2> QED
    BY <1>2, <1>7, <2>1, <2>3, <2>4
<1>11. ASSUME NEW m, Took(m), \A a : m # Start(a), UNCHANGED <<chan, agents, home>>
       PROVE  Step
  BY <1>0, <1>1, <1>11, TookAsks
<1>12. ASSUME NEW a \in Agents, SchedNewAgent(a), Took(NewAgent(a))
       PROVE  Step
  <2>1. a \notin agents
    <3>1. Holds(1, NewAgent(a)) /\ 1 \in 1..Len(mailbox)
      BY <1>0, <1>12 DEF Took, Holds, QueueType
    <3> QED
      BY <1>0, <3>1 DEF KnownInv
  <2>2. agents' \ home' = agents \ home /\ UNCHANGED chan
    BY <1>12, <2>1 DEF SchedNewAgent, SchedFrame
  <2>3. AbstractAsked' = AbstractAsked
    BY <1>0, <1>3, <1>12, TookAsks
  <2> QED
    BY <1>0, <2>2, <2>3 DEF Abstract!vars
<1>13. ASSUME NEW a \in Agents, SchedInc(a), Took(Inc(a))
       PROVE  Step
  <2>1. CASE ~Wakes(a)
    BY <1>3, <1>11, <1>13, <2>1 DEF SchedInc, NoRun, SchedFrame
  <2>2. CASE Wakes(a)
    <3>1. AbstractAsked' = AbstractAsked
      BY <1>0, <1>3, <1>13, TookAsks
    <3>2. a \in home /\ home' = home \ {a} /\ UNCHANGED <<agents, chan>>
      BY <1>13, <2>2 DEF SchedInc, Wakes, Run, SchedFrame
    <3>3. Abstract!HasWork(a)
      BY <1>13, <2>2, WakesForWork
    <3>4. Abstract!Activate(a)
      BY <1>0, <3>1, <3>2, <3>3 DEF Abstract!Activate
    <3> QED
      BY <3>4 DEF Abstract!Next
  <2> QED
    BY <2>1, <2>2
<1>14. ASSUME NEW a \in Agents, SchedDec(a), Took(Dec(a))
       PROVE  Step
  BY <1>3, <1>11, <1>14 DEF SchedDec, NoRun, SchedFrame
<1>15. ASSUME NEW a \in Agents, SchedStart(a), Took(Start(a))
       PROVE  Step
  <2>1. /\ a \in AbstractAsked
        /\ AbstractAsked' \in {AbstractAsked, AbstractAsked \ {a}}
    BY <1>0, <1>15, TookAsks
  <2>2. a \in agents /\ UNCHANGED <<agents, chan>>
    BY <1>15 DEF SchedStart, SchedFrame
  <2>3. CASE a \in home
    <3>1. home' = home \ {a}
      BY <1>15, <2>3 DEF SchedStart, Run
    <3>2. Abstract!Activate(a)
      BY <1>0, <2>1, <2>2, <2>3, <3>1 DEF Abstract!Activate
    <3> QED
      BY <3>2 DEF Abstract!Next
  <2>4. CASE a \notin home
    <3>1. UNCHANGED home
      BY <1>15, <2>4 DEF SchedStart, NoRun
    <3>2. CASE AbstractAsked' = AbstractAsked
      BY <1>1, <2>2, <3>1, <3>2
    <3>3. CASE AbstractAsked' = AbstractAsked \ {a}
      <4>1. Abstract!Ignore(a)
        BY <1>0, <2>2, <2>4, <3>1, <3>3 DEF Abstract!Ignore
      <4> QED
        BY <4>1 DEF Abstract!Next
    <3> QED
      BY <2>1, <3>2, <3>3
  <2> QED
    BY <2>3, <2>4
<1>16. ASSUME NEW a \in Agents, NEW e \in EditCmp, SchedEdit(a, e), Took(Edit(a, e))
       PROVE  Step
  BY <1>3, <1>11, <1>16 DEF SchedEdit, NoRun, SchedFrame
<1>17. ASSUME NEW a \in Agents, NEW r \in Results, Took(RunEnd(a, r)),
              SchedRunEnd(a, r) \/ SchedRunEndLoses(a, r)
       PROVE  Step
  <2>1. CASE SchedRunEndLoses(a, r)
    BY <1>3, <1>11, <1>17, <2>1 DEF SchedRunEndLoses, NoRun, SchedFrame
  <2>2. a \in agents \ home
    <3>1. EndsAt(1, a) /\ 1 \in 1..Len(mailbox)
      BY <1>0, <1>17 DEF Took, EndsAt, RunEnd, QueueType
    <3> QED
      BY <1>0, <3>1 DEF BoxInv, RunEndInv
  <2>3. CASE SchedRunEnd(a, r) /\ MustRestart(a)
    <3>1. UNCHANGED <<chan, agents, home>>
      BY <2>2, <2>3 DEF SchedRunEnd, Run, SchedFrame
    <3> QED
      BY <1>3, <1>11, <1>17, <3>1
  <2>4. CASE SchedRunEnd(a, r) /\ ~MustRestart(a)
    <3>1. AbstractAsked' = AbstractAsked
      BY <1>0, <1>3, <1>17, TookAsks
    <3>2. home' = home \cup {a} /\ UNCHANGED <<agents, chan>>
      BY <2>4 DEF SchedRunEnd, SchedFrame
    <3>3. Abstract!Rest(a)
      BY <1>0, <3>1, <3>2 DEF Abstract!Rest
    <3> QED
      BY <3>3 DEF Abstract!Next
  <2> QED
    BY <1>17, <2>1, <2>3, <2>4
<1>18. SchedHaltState /\ Took(HaltState) => Step
  BY <1>3, <1>11 DEF SchedHaltState, NoRun, SchedFrame
<1>19. SchedStep => Step
  BY <1>0, <1>12, <1>13, <1>14, <1>15, <1>16, <1>17, <1>18, SchedTakes
<1>20. ASSUME NEW c \in Clients, ApiStep(c)
       PROVE  Step
  BY <1>0, <1>10, <1>20, ApiStepIsCall
<1>21. \A t \in Agents \cup Clients : t \in Threads
  BY DEF Threads
<1> HIDE DEF Step
<1> QED
  BY <1>4, <1>5, <1>6, <1>8, <1>9, <1>19, <1>20, <1>21
  DEF Next, AgentStep, ClientStep, ApiStep, Terminated

\* The step that ends the scheduler's thread.
LEMMA HaltRefines ==
  ASSUME IInv, sched = "up", AskedInv, HaltingInv, SchedHalt
  PROVE  Abstract!Next /\ DownInv'
<1>1. (\A a \in Agents : pc[a] = "idle" /\ Queued(a) = 0) /\ Len(mailbox) = 1 /\ mailbox[1] = Halt
  BY HaltIsQuiet DEF SchedHalt, Receive, IInv, TypeOK, QueueType
<1>2. /\ sched' = "halted" /\ mailbox' = <<>> /\ UNCHANGED <<chan, pool, pc>>
  BY DEF SchedHalt, Stop, SchedFrame
<1>3. AbstractActive = {} /\ AbstractActive' = {}
  BY <1>1, <1>2 DEF HaltingInv, HaltInv, AbstractActive
<1>4. AbstractAsked = {} /\ AbstractAsked' = {}
  <2>1. \A a : Halt # Start(a)
    BY DEF Halt, Start
  <2>2. Len(mailbox') = 0
    BY <1>2
  <2> QED
    BY <1>1, <2>1, <2>2 DEF AbstractAsked, Positions
<1>5. \A a \in Agents : ~Abstract!HasWork(a)
  BY <1>1, NoWork DEF IInv
<1>6. Abstract!Finish
  BY <1>2, <1>3, <1>4, <1>5 DEF Abstract!Finish, Abstract!Quiet
<1>7. pool = <<>>
  BY <1>1 DEF IInv, BoxInv, PoolInv, TypeOK, QueueType
<1> QED
  BY <1>1, <1>2, <1>6, <1>7 DEF Abstract!Next, DownInv

\* Once the thread ended, a client may still fill a channel whose receiver it
\* has, and nothing else moves.
LEMMA DownRefines ==
  ASSUME TypeOK, sched # "up", DownInv, [Next]_vars
  PROVE  [Abstract!Next]_(Abstract!vars) /\ DownInv'
<1>0. /\ pool = <<>> /\ \A a \in Agents : pc[a] = "idle" /\ a \notin Clients /\ a \in Threads
      /\ \A c \in Clients : c \in Threads /\ c \notin Agents
      /\ pc \in [Threads -> {"idle", "queued", "run", "joining", "joined", "panicked"}]
  BY SetsAssumption DEF DownInv, Threads, TypeOK, RunType
<1>1. UNCHANGED sched /\ UNCHANGED <<pool, mailbox>> /\ \A a \in Agents : pc'[a] = "idle"
  <2>1. ~StartJob /\ ~SchedStep
    BY <1>0 DEF StartJob, SchedStep, SchedNewAgent, SchedInc, SchedDec, SchedStart,
                SchedHaltState, SchedHalt, SchedEdit, SchedRunEnd, SchedRunEndLoses,
                SchedPanics, Receive
  <2>2. ASSUME NEW a \in Agents, AgentStep(a)
        PROVE  UNCHANGED <<sched, pool, mailbox, pc>>
    BY <1>0, <2>2 DEF AgentStep, Put, PutFails, Get, GetFails, Notify, EndRun, Ready
  <2>3. ASSUME NEW c \in Clients, ClientStep(c)
        PROVE  UNCHANGED <<sched, pool, mailbox>> /\ \A a \in Agents : pc'[a] = pc[a]
    <3>1. ~ApiStep(c)
      BY DEF ApiStep, AddNode, StartAgent, Connect, AddElement, SetReceiver, Disconnect,
             BadReceiver, Join
    <3> QED
      BY <1>0, <2>3, <3>1 DEF ClientStep, ApiStep, Put, PutFails, Notify, Joined, ClientPanics
  <2> QED
    BY <1>0, <2>1, <2>2, <2>3 DEF Next, Terminated, vars
<1>2. DownInv'
  BY <1>0, <1>1 DEF DownInv
<1>3. /\ AbstractActive = {} /\ AbstractActive' = {} /\ AbstractAsked' = AbstractAsked
      /\ (sched # "up")' = (sched # "up")
  BY <1>1 DEF AbstractActive, AbstractAsked
<1>4. ASSUME NEW c \in Clients, Put(c)
      PROVE  Abstract!Next
  <2>1. PICK p \in InPorts : p = Target(c)
    BY <1>0, <1>4, TargetType DEF Put, Ready
  <2>2. Abstract!Deliver(p)
    BY <1>3, <1>4, <2>1 DEF Put, HasRoom, Abstract!Deliver
  <2> QED
    BY <2>2 DEF Abstract!Next
<1>5. UNCHANGED chan \/ \E c \in Clients : Put(c)
  BY <1>0
  DEF Next, StartJob, AgentStep, ClientStep, SchedStep, Put, PutFails, Get, GetFails,
      Notify, EndRun, AddNode, StartAgent, Connect, AddElement, SetReceiver, HandReceiver, Disconnect,
      BadReceiver, Join, Joined, ClientPanics, SchedNewAgent, SchedInc,
      SchedDec, SchedStart, SchedHaltState, SchedHalt, SchedEdit, SchedRunEnd,
      SchedRunEndLoses, SchedPanics, Receive, Terminated, vars, Ready
<1> QED
  BY <1>2, <1>3, <1>4, <1>5 DEF Abstract!vars

\* The interior scheduler, its mailbox and its counters implement the abstract
\* one, for every graph: an agent becomes active for a message that waits or for
\* a Start, reads only while active, and the whole stops when it is quiet, as
\* long as the thread does not panic and no client acts after join.
THEOREM RefinesDataflow ==
  Spec /\ [](sched = "up" => AskedInv) /\ []SchedulerSurvives => AbstractSafety
<1> DEFINE Calm == sched = "up" => AskedInv
           Inv == (sched = "up" => HaltingInv) /\ DownInv
<1>1. Init => Inv /\ Abstract!Init
  <2>1. Init => Inv
    BY InitHalting DEF DownInv, Init
  <2>2. Init => Abstract!Init
    <3>1. Init => \A a \in Agents : Positions(mailbox, Start(a)) = {}
      BY DEF Init, Positions
    <3> QED
      BY <3>1 DEF Init, Abstract!Init, AbstractActive, AbstractAsked
  <2> QED
    BY <2>1, <2>2
<1>2. /\ IInv /\ IInv' /\ Calm /\ SchedulerSurvives /\ SchedulerSurvives' /\ Inv /\ [Next]_vars
      => Inv' /\ [Abstract!Next]_(Abstract!vars)
  <2> SUFFICES ASSUME IInv, IInv', Calm, SchedulerSurvives', Inv, [Next]_vars
               PROVE  Inv' /\ [Abstract!Next]_(Abstract!vars)
    OBVIOUS
  <2>1. CASE sched = "up" /\ sched' = "up"
    BY <2>1, UpRefines, NextHalting DEF DownInv
  <2>2. CASE sched = "up" /\ sched' # "up"
    <3>1. SchedStep
      BY <2>2
      DEF Next, StartJob, AgentStep, ClientStep, Put, PutFails, Get, GetFails, Notify, EndRun,
          AddNode, StartAgent, Connect, AddElement, SetReceiver, HandReceiver, Disconnect, BadReceiver, Join, Joined,
          ClientPanics, ApiFrame, Terminated, vars
    <3>2. SchedHalt
      BY <2>2, <3>1
      DEF SchedStep, SchedNewAgent, SchedInc, SchedDec, SchedStart, SchedEdit, SchedRunEnd,
          SchedRunEndLoses, SchedHaltState, SchedPanics, Stop, SchedulerSurvives
    <3> QED
      BY <2>2, <3>2, HaltRefines
  <2>3. CASE sched # "up"
    BY <2>3, StaysDown, DownRefines DEF IInv
  <2> QED
    BY <2>1, <2>2, <2>3
<1> QED
  BY <1>1, <1>2, Inductive, PTL DEF Spec, AbstractSafety

\* So it is for an owner who adds, starts and connects agents, and then joins.
COROLLARY OwnerRefinesDataflow ==
  ASSUME JoinsAlone, NoDisconnect
  PROVE  Spec => AbstractSafety
<1>1. (sched = "up" => OwnerInv /\ AskedInv) => (sched = "up" => AskedInv)
  OBVIOUS
<1> QED
  BY <1>1, CalmIfAlone, SchedulerLives, RefinesDataflow, PTL

-----------------------------------------------------------------------------
(* No agent runs for nothing, and none for an element of an array port that *)
(* it was not handed yet.                                                   *)

\* The edit that hands its owner the receiver of the element p.
ElementEdit(p) == Edit(Owner[p], [kind |-> "element", port |-> p])

\* The elements of agent a that it is handed by the k-th message or a later one.
Coming(a, k) == {p \in Elements \ attached :
                   /\ Owner[p] = a
                   /\ \E i \in k..Len(mailbox) : mailbox[i] = ElementEdit(p)}

IncsFrom(a, k) == {i \in k..Len(mailbox) : mailbox[i] = Inc(a)}

Waiting(P) == Cardinality(Places(chan, P, Capacity))

\* What waits in the elements still to come was announced behind them, or will
\* be: a sender of an element is used after the edit was sent.
BehindInv ==
  \A a \in Agents : \A k \in Nat \ {0} :
    Waiting(Coming(a, k)) <= Cardinality(IncsFrom(a, k)) + Cardinality(Owing(Inc(a)))

\* An element that the owner created is with its agent, or on its way to it.
Placed(p) ==
  \/ Owner[p] \in lost
  \/ \E i \in 1..Len(mailbox) : mailbox[i] = ElementEdit(p)
  \/ \E i \in 1..Len(edit_msgs[Owner[p]]) :
       edit_msgs[Owner[p]][i] = [kind |-> "element", port |-> p]

ElementInv ==
  /\ InPorts \ Elements \subseteq attached
  /\ \A p \in Elements \ senders : chan[p] = 0
  /\ \A p \in (Elements \cap senders) \ attached : Placed(p)
  /\ \A a \in Agents : edit_msgs[a] # <<>> => a \in agents \ home

\* The notices behind the first messages are finitely many.
LEMMA IncsFinite ==
  ASSUME NEW a, NEW k \in Nat \ {0}
  PROVE  /\ Len(mailbox) \in Nat =>
              IsFiniteSet(IncsFrom(a, k)) /\ Cardinality(IncsFrom(a, k)) \in Nat
         /\ Len(mailbox') \in Nat =>
              IsFiniteSet(IncsFrom(a, k)') /\ Cardinality(IncsFrom(a, k)') \in Nat
<1>1. ASSUME NEW n \in Nat, NEW S, S \subseteq k..n
      PROVE  IsFiniteSet(S) /\ Cardinality(S) \in Nat
  <2>1. S \in SUBSET (1..n)
    BY ONLY <1>1, k \in Nat \ {0}, n \in Nat
  <2>2. IsFiniteSet(1..n)
    BY ONLY FS_Interval, n \in Nat
  <2> QED
    BY ONLY <2>1, <2>2, FS_Subset, FS_CardinalityType
<1>2. IncsFrom(a, k) \subseteq k..Len(mailbox) /\ IncsFrom(a, k)' \subseteq k..Len(mailbox')
  BY DEF IncsFrom
<1>3. \A n \in Nat : \A S : S \subseteq k..n => IsFiniteSet(S) /\ Cardinality(S) \in Nat
  BY ONLY <1>1
<1> QED
  BY ONLY <1>2, <1>3

\* The sets that are counted are finite.
LEMMA ComingFinite ==
  ASSUME TypeOK, NEW a, NEW k \in Nat \ {0}
  PROVE  /\ Coming(a, k) \subseteq InPorts /\ IsFiniteSet(Coming(a, k))
         /\ IsFiniteSet(IncsFrom(a, k)) /\ Cardinality(IncsFrom(a, k)) \in Nat
<1>1. Coming(a, k) \subseteq InPorts
  BY WiringAssumption DEF Coming
<1>2. Len(mailbox) \in Nat
  BY DEF TypeOK, QueueType
<1> QED
  BY <1>1, <1>2, SetsAssumption, IncsFinite, FS_Subset

\* Fewer ports hold fewer messages.
LEMMA WaitingLess ==
  ASSUME TypeOK, NEW P, P \subseteq InPorts, NEW Q, Q \subseteq InPorts,
         \A p \in Q : chan[p] > 0 => p \in P
  PROVE  /\ Waiting(P) \in Nat /\ Waiting(Q) \in Nat /\ Waiting(Q) <= Waiting(P)
         /\ P = {} => Waiting(P) = 0
<1>1. IsFiniteSet(P) /\ IsFiniteSet(Q) /\ Capacity \in Nat
  BY SetsAssumption, SizeAssumption, FS_Subset
<1>2. /\ IsFiniteSet(Places(chan, P, Capacity)) /\ Waiting(P) \in Nat
      /\ Waiting(Q) \in Nat
  BY <1>1, PlacesFinite DEF Waiting
<1>3. Places(chan, Q, Capacity) \in SUBSET Places(chan, P, Capacity)
  <2>1. ASSUME NEW w \in Q \X (1..Capacity), w[2] <= chan[w[1]]
        PROVE  w \in P \X (1..Capacity)
    <3>1. w[1] \in Q /\ w[2] \in 1..Capacity /\ chan[w[1]] \in 0..Capacity
      BY DEF TypeOK, PortType
    <3>2. chan[w[1]] > 0
      BY <1>1, <2>1, <3>1
    <3> QED
      BY <3>1, <3>2
  <2> QED
    BY <2>1 DEF Places
<1>4. P = {} => Places(chan, P, Capacity) = {}
  BY DEF Places
<1> QED
  BY <1>2, <1>3, <1>4, FS_Subset, FS_EmptySet DEF Waiting

\* The notices behind the first k messages are those behind k - 1 once one is
\* taken.
LEMMA IncsShift ==
  ASSUME TypeOK, TypeOK', NEW m, Took(m), NEW a, NEW k \in Nat \ {0}
  PROVE  Cardinality(IncsFrom(a, k + 1)) <= Cardinality(IncsFrom(a, k)')
<1> PICK S, T : S = IncsFrom(a, k + 1) /\ T = IncsFrom(a, k)'
  OBVIOUS
<1> DEFINE f == [i \in S |-> i - 1]
<1>0. Len(mailbox) \in Nat /\ Len(mailbox') \in Nat
  BY DEF TypeOK, QueueType
<1>1. IsFiniteSet(T)
  BY <1>0, IncsFinite
<1>2. \A i \in S : i \in Nat /\ i - 1 \in T
  <2> TAKE i \in S
  <2>1. i \in 2..Len(mailbox) /\ i - 1 >= k /\ mailbox[i] = Inc(a)
    BY <1>0 DEF IncsFrom
  <2>2. i - 1 \in 1..Len(mailbox') /\ mailbox'[i - 1] = Inc(a)
    BY <2>1 DEF Took
  <2> QED
    BY <1>0, <2>1, <2>2 DEF IncsFrom
<1>3. f \in Injection(S, T)
  BY <1>2 DEF Injection, IsInjective
<1> QED
  BY <1>1, <1>3, FS_Injection

\* A message may be posted, if it is no edit for an element that holds messages.
LEMMA PostBehind ==
  ASSUME TypeOK, TypeOK', BehindInv, NEW m, Posted(m), UNCHANGED <<chan, attached>>,
         \A p \in Elements : m = ElementEdit(p) => chan[p] = 0,
         \A a \in Agents : Cardinality(Owing(Inc(a)))
           <= Cardinality(Owing(Inc(a)))' + (IF m = Inc(a) THEN 1 ELSE 0)
  PROVE  BehindInv'
<1> SUFFICES ASSUME NEW a \in Agents, NEW k \in Nat \ {0}
             PROVE  (Waiting(Coming(a, k)) <= Cardinality(IncsFrom(a, k))
                                                + Cardinality(Owing(Inc(a))))'
  BY DEF BehindInv
<1> PICK Q, C, I, O, J, n :
      /\ Q = Coming(a, k)' /\ C = Coming(a, k) /\ I = IncsFrom(a, k) /\ J = IncsFrom(a, k)'
      /\ O = Cardinality(Owing(Inc(a)))' /\ n = Len(mailbox)
  OBVIOUS
<1>0. /\ n \in Nat /\ Len(mailbox') = n + 1 /\ mailbox'[n + 1] = m
      /\ \A i \in 1..n : mailbox'[i] = mailbox[i]
  BY DEF TypeOK, QueueType, Posted
<1>1. Q \subseteq InPorts /\ C \subseteq InPorts
  BY WiringAssumption DEF Coming
<1>2. \A p \in Q : chan[p] > 0 => k <= n /\ p \in C
  <2> TAKE p \in Q
  <2>1. p \in Elements \ attached /\ Owner[p] = a
    BY DEF Coming
  <2>2. PICK i \in k..(n + 1) : mailbox'[i] = ElementEdit(p)
    BY <1>0 DEF Coming, ElementEdit
  <2>3. i # n + 1 \/ chan[p] = 0
    BY <1>0, <2>1, <2>2
  <2>4. CASE i # n + 1
    <3>1. i \in 1..n /\ i \in k..n
      BY <1>0, <2>2, <2>4
    <3> QED
      BY <1>0, <2>1, <2>2, <3>1 DEF Coming
  <2>5. CASE chan[p] = 0
    BY <2>5
  <2> QED
    BY <2>3, <2>4, <2>5
<1>3. O \in Nat /\ Cardinality(Owing(Inc(a))) \in Nat
  <2>1. IsFiniteSet(Threads)
    BY SetsAssumption, FS_Union DEF Threads
  <2>2. Owing(Inc(a))' \in SUBSET Threads
    BY DEF Owing
  <2> QED
    BY <2>1, <2>2, OwingFinite, FS_Subset, FS_CardinalityType
<1>4. IsFiniteSet(I) /\ Cardinality(I) \in Nat
  BY ComingFinite
<1>5. J = I \cup (IF m = Inc(a) /\ k <= n + 1 THEN {n + 1} ELSE {})
  BY <1>0 DEF IncsFrom
<1>6. Cardinality(J) = Cardinality(I) + (IF m = Inc(a) /\ k <= n + 1 THEN 1 ELSE 0)
  <2>1. n + 1 \notin I
    BY <1>0 DEF IncsFrom
  <2>2. CASE m = Inc(a) /\ k <= n + 1
    <3>1. J = I \cup {n + 1}
      BY <1>5, <2>2
    <3> QED
      BY <1>4, <2>1, <2>2, <3>1, FS_AddElement
  <2>3. CASE ~(m = Inc(a) /\ k <= n + 1)
    <3>1. J = I
      BY <1>5, <2>3
    <3> QED
      BY <1>4, <2>3, <3>1
  <2> QED
    BY <2>2, <2>3
<1>7. Waiting(Q) \in Nat /\ Waiting(C) \in Nat
  BY <1>1, WaitingLess
<1>8. CASE k <= n
  <2>1. Waiting(Q) <= Waiting(C)
    BY <1>1, <1>2, WaitingLess
  <2>2. Waiting(C) <= Cardinality(I) + Cardinality(Owing(Inc(a)))
    BY DEF BehindInv
  <2>3. Cardinality(Owing(Inc(a))) <= O + (IF m = Inc(a) THEN 1 ELSE 0)
    OBVIOUS
  <2>4. Waiting(Q) <= Cardinality(J) + O
    BY <1>0, <1>3, <1>4, <1>6, <1>7, <1>8, <2>1, <2>2, <2>3
  <2> QED
    BY <2>4 DEF Waiting
<1>9. CASE ~(k <= n)
  <2>1. Waiting(Q) <= 0
    BY <1>1, <1>2, <1>9, WaitingLess
  <2>2. Waiting(Q) <= Cardinality(J) + O
    BY <1>3, <1>4, <1>6, <1>7, <2>1
  <2> QED
    BY <2>2 DEF Waiting
<1> QED
  BY <1>8, <1>9

\* A message may be taken.
LEMMA TookBehind ==
  ASSUME TypeOK, TypeOK', BehindInv, NEW m, Took(m), UNCHANGED <<chan, owes>>,
         attached \subseteq attached'
  PROVE  BehindInv'
<1> SUFFICES ASSUME NEW a \in Agents, NEW k \in Nat \ {0}
             PROVE  (Waiting(Coming(a, k)) <= Cardinality(IncsFrom(a, k))
                                                + Cardinality(Owing(Inc(a))))'
  BY DEF BehindInv
<1> PICK Q, C, I, J, O :
      /\ Q = Coming(a, k)' /\ C = Coming(a, k + 1)
      /\ I = Cardinality(IncsFrom(a, k + 1)) /\ J = Cardinality(IncsFrom(a, k))'
      /\ O = Cardinality(Owing(Inc(a)))
  OBVIOUS
<1>0. Len(mailbox) \in Nat /\ Len(mailbox') \in Nat /\ k + 1 \in Nat \ {0}
  BY DEF TypeOK, QueueType
<1>1. Q \subseteq InPorts /\ C \subseteq InPorts
  BY WiringAssumption DEF Coming
<1>2. Q \subseteq C
  <2> SUFFICES ASSUME NEW p \in Q PROVE p \in C
    OBVIOUS
  <2>1. p \in Elements \ attached /\ Owner[p] = a
    BY DEF Coming
  <2>2. PICK i \in k..Len(mailbox') : mailbox'[i] = ElementEdit(p)
    BY DEF Coming, ElementEdit
  <2>3. ElementEdit(p) # Halt
    BY DEF ElementEdit, Edit, Halt
  <2>4. i + 1 \in 1..Len(mailbox) /\ mailbox[i + 1] = ElementEdit(p)
    BY <1>0, <2>2, <2>3 DEF Took
  <2>5. i + 1 \in (k + 1)..Len(mailbox)
    BY <1>0, <2>2, <2>4
  <2> QED
    BY <2>1, <2>4, <2>5 DEF Coming
<1>3. Waiting(Q) \in Nat /\ Waiting(C) \in Nat /\ Waiting(Q) <= Waiting(C)
  BY <1>1, <1>2, WaitingLess
<1>4. Waiting(C) <= I + O
  BY <1>0 DEF BehindInv
<1>5. I <= J /\ I \in Nat /\ J \in Nat
  <2>1. \A S : S = IncsFrom(a, k)' => IsFiniteSet(S) /\ Cardinality(S) \in Nat
    BY <1>0, IncsFinite
  <2> QED
    BY <1>0, <2>1, IncsShift, ComingFinite
<1>6. O \in Nat /\ O = Cardinality(Owing(Inc(a)))'
  BY OwingFinite DEF Owing
<1>7. Waiting(Q) <= J + O
  BY <1>3, <1>4, <1>5, <1>6
<1> QED
  BY <1>6, <1>7 DEF Waiting

\* A message enters a channel: the Inc for it is owed.
LEMMA PutBehind ==
  ASSUME TypeOK, TypeOK', BehindInv, NEW t \in Threads, Put(t)
  PROVE  BehindInv'
<1> SUFFICES ASSUME NEW a \in Agents, NEW k \in Nat \ {0}
             PROVE  (Waiting(Coming(a, k)) <= Cardinality(IncsFrom(a, k))
                                                + Cardinality(Owing(Inc(a))))'
  BY DEF BehindInv
<1> PICK C, I : C = Coming(a, k) /\ I = Cardinality(IncsFrom(a, k))
  OBVIOUS
<1>0. PICK p \in InPorts : p = Target(t)
  BY TargetType DEF Put, Ready, TypeOK
<1>1. /\ owes[t] = None /\ chan[p] < Capacity
      /\ chan' = [chan EXCEPT ![p] = @ + 1]
      /\ owes' = [owes EXCEPT ![t] = IncDue(p)]
      /\ UNCHANGED <<mailbox, attached>>
  BY <1>0 DEF Put, Ready, HasRoom, stateVars
<1>2. Coming(a, k)' = C /\ Cardinality(IncsFrom(a, k))' = I
  BY <1>1 DEF Coming, IncsFrom
<1>3. p \in C => IncDue(p) = Inc(a)
  BY WiringAssumption DEF Coming, IncDue
<1>4. Inc(a) # None
  BY NoticeIs, NoneAssumption
<1>5. Cardinality(Owing(Inc(a)))' = Cardinality(Owing(Inc(a))) + (IF IncDue(p) = Inc(a) THEN 1 ELSE 0)
  BY <1>1, <1>4, OwingMore DEF TypeOK
<1>6. /\ chan \in [InPorts -> 0..Capacity] /\ Capacity \in Nat
      /\ C \subseteq InPorts /\ IsFiniteSet(C) /\ I \in Nat
      /\ Cardinality(Owing(Inc(a))) \in Nat
  BY ComingFinite, OwingFinite, SizeAssumption DEF TypeOK, PortType
<1>7. Cardinality(Places(chan', C, Capacity))
        = Cardinality(Places(chan, C, Capacity)) + (IF p \in C THEN 1 ELSE 0)
  <2>1. Capacity \in Nat /\ \A q \in C : chan[q] \in 0..Capacity
    BY <1>6
  <2>2. /\ chan[p] \in Nat /\ chan[p] < Capacity /\ chan'[p] = chan[p] + 1
        /\ \A q \in C \ {p} : chan'[q] = chan[q]
    BY <1>1, <1>6
  <2> QED
    BY <1>6, <2>1, <2>2, PlacesPut
<1>8. Waiting(C) <= I + Cardinality(Owing(Inc(a))) /\ Waiting(C) \in Nat
  BY <1>6, WaitingLess DEF BehindInv
<1>9. Cardinality(Places(chan', C, Capacity)) <= I + Cardinality(Owing(Inc(a)))'
  BY <1>3, <1>5, <1>6, <1>7, <1>8 DEF Waiting
<1> QED
  BY <1>2, <1>9 DEF Waiting

\* What leaves a channel was in one whose receiver the agent has.
LEMMA GetBehind ==
  ASSUME TypeOK, TypeOK', BehindInv, NEW b \in Agents, Get(b)
  PROVE  BehindInv'
<1> SUFFICES ASSUME NEW a \in Agents, NEW k \in Nat \ {0}
             PROVE  (Waiting(Coming(a, k)) <= Cardinality(IncsFrom(a, k))
                                                + Cardinality(Owing(Inc(a))))'
  BY DEF BehindInv
<1> PICK C, I : C = Coming(a, k) /\ I = Cardinality(IncsFrom(a, k))
  OBVIOUS
<1>0. b \in Threads
  BY DEF Threads
<1>1. PICK p \in attached :
        /\ owes[b] = None
        /\ chan' = [chan EXCEPT ![p] = @ - 1]
        /\ owes' = [owes EXCEPT ![b] = DecDue(p)]
        /\ UNCHANGED <<mailbox, attached>>
  <2>1. owes[b] = None /\ UNCHANGED <<mailbox, attached>>
    BY DEF Get, Ready
  <2> QED
    BY <2>1, GetPort DEF TypeOK
<1>2. Coming(a, k)' = C /\ Cardinality(IncsFrom(a, k))' = I
  BY <1>1 DEF Coming, IncsFrom
<1>3. p \notin C
  BY DEF Coming
<1>4. Inc(a) # None /\ DecDue(p) # Inc(a)
  BY NoticeIs, NoneAssumption DEF DecDue
<1>5. Cardinality(Owing(Inc(a)))' = Cardinality(Owing(Inc(a)))
  <2>1. Cardinality(Owing(Inc(a))) \in Nat
    BY OwingFinite
  <2>2. \A m : m # None => Cardinality(Owing(m))' = Cardinality(Owing(m))
                                                   + (IF DecDue(p) = m THEN 1 ELSE 0)
    BY <1>0, <1>1, OwingMore DEF TypeOK
  <2> QED
    BY <1>4, <2>1, <2>2
<1>6. Waiting(C) <= I + Cardinality(Owing(Inc(a)))
  BY DEF BehindInv
<1>7. Places(chan', C, Capacity) = Places(chan, C, Capacity)
  <2>1. \A q \in C : chan'[q] = chan[q]
    BY <1>1, <1>3 DEF Coming, TypeOK, PortType
  <2> QED
    BY <2>1 DEF Places
<1> QED
  BY <1>2, <1>5, <1>6, <1>7 DEF Waiting

\* The edit of an element is sent when the owner creates its sender.
LEMMA ApiElement ==
  ASSUME TypeOK, ApiCall, NEW p, Posted(ElementEdit(p))
  PROVE  p \in Elements \ senders /\ senders' = senders \cup {p}
<1>1. ElementEdit(p).type = "Edit" /\ ElementEdit(p).edit = [kind |-> "element", port |-> p]
  BY DEF ElementEdit, Edit
<1>2. PICK a \in known, e \in EditCmp :
        /\ ElementEdit(p) = Edit(a, e)
        /\ e.kind = "element" => /\ a = Owner[e.port] /\ e.port \in Elements \ senders
                                 /\ senders' = senders \cup {e.port}
  BY <1>1, ApiPosts
<1>3. e = [kind |-> "element", port |-> p]
  BY <1>1, <1>2 DEF Edit
<1>4. e.kind = "element" /\ e.port = p
  BY <1>3
<1> QED
  BY <1>2, <1>4

\* Receivers are handed out and never taken back.
LEMMA AttachedGrows ==
  ASSUME TypeOK, sched = "up", sched' = "up", [Next]_vars
  PROVE  attached \subseteq attached' /\ (UNCHANGED attached \/ SchedStep)
<1>1. UNCHANGED attached \/ SchedStep
  BY PlainSteps DEF Plain, ApiCall
<1>2. ASSUME SchedStep
      PROVE  attached \subseteq attached'
  <2>1. ASSUME NEW a, NEW e, SchedEdit(a, e) PROVE attached \subseteq attached'
    BY <2>1 DEF SchedEdit, Apply
  <2>2. ASSUME NEW a, NEW r, SchedRunEnd(a, r) PROVE attached \subseteq attached'
    BY <2>2 DEF SchedRunEnd, ApplyAll
  <2>3. ASSUME NEW a, NEW r,
               \/ SchedNewAgent(a) \/ SchedInc(a) \/ SchedDec(a) \/ SchedStart(a)
               \/ SchedRunEndLoses(a, r) \/ SchedHaltState
        PROVE  attached \subseteq attached'
    BY <2>3 DEF SchedNewAgent, SchedInc, SchedDec, SchedStart, SchedRunEndLoses, SchedHaltState
  <2> QED
    BY <1>2, <2>1, <2>2, <2>3, SchedTakes DEF TypeOK
<1> QED
  BY <1>1, <1>2

\* Every step that leaves the scheduler running keeps BehindInv.
LEMMA NextBehind ==
  ASSUME TypeOK, TypeOK', BoxInv, sched = "up", sched' = "up", [Next]_vars, ElementInv, BehindInv
  PROVE  BehindInv'
<1>0. /\ \A a \in Agents : Inc(a) # None
      /\ \A t \in Agents \cup Clients : t \in Threads
      /\ QueueType /\ RunType
      /\ \A a : Cardinality(Owing(Inc(a))) \in Nat
      /\ \A p : ElementEdit(p).type = "Edit"
      /\ \A a : Start(a).type = "Start" /\ NewAgent(a).type = "NewAgent" /\ Inc(a).type = "Inc"
      /\ \A a, e : Edit(a, e).type = "Edit" /\ RunEnd(a, e).type = "RunEnd"
      /\ HaltState.type = "HaltState"
  BY NoneAssumption, NoticeIs, OwingFinite
  DEF Threads, TypeOK, ElementEdit, Edit, Start, NewAgent, RunEnd, HaltState
<1>1. ASSUME UNCHANGED <<chan, owes, attached, mailbox>>
      PROVE  BehindInv'
  BY <1>1 DEF BehindInv, Waiting, Coming, IncsFrom, Owing
<1>2. ASSUME NEW m, Posted(m), UNCHANGED <<chan, owes, attached>>, \A a : m # Inc(a),
             \A p \in Elements : m = ElementEdit(p) => chan[p] = 0
      PROVE  BehindInv'
  <2>1. \A a \in Agents : Cardinality(Owing(Inc(a)))' = Cardinality(Owing(Inc(a)))
    BY <1>2 DEF Owing
  <2> QED
    BY <1>0, <1>2, <2>1, PostBehind
<1>3. ASSUME \/ StartJob
             \/ \E t \in Threads : PutFails(t) \/ GetFails(t)
             \/ \E c \in Clients : Joined(c) \/ ClientPanics(c)
             \/ UNCHANGED vars
      PROVE  BehindInv'
  BY <1>1, <1>3 DEF StartJob, PutFails, GetFails, Joined, ClientPanics, stateVars, vars
<1>4. ASSUME NEW t \in Threads, Notify(t)
      PROVE  BehindInv'
  <2>1. owes[t] \in Notice /\ Posted(owes[t]) /\ UNCHANGED <<chan, attached>>
        /\ owes' = [owes EXCEPT ![t] = None]
    BY <1>0, <1>4, AppendPosts DEF Notify, RunType
  <2>2. \A p : owes[t] # ElementEdit(p)
    BY <1>0, <2>1 DEF Notice
  <2>3. ASSUME NEW a \in Agents
        PROVE  Cardinality(Owing(Inc(a)))
                 <= Cardinality(Owing(Inc(a)))' + (IF owes[t] = Inc(a) THEN 1 ELSE 0)
    <3>1. Cardinality(Owing(Inc(a)))'
            = Cardinality(Owing(Inc(a))) - (IF owes[t] = Inc(a) THEN 1 ELSE 0)
      BY <1>0, <2>1, OwingLess
    <3> QED
      BY <1>0, <3>1
  <2> QED
    BY <2>1, <2>2, <2>3, PostBehind
<1>5. ASSUME NEW a \in Agents, EndRun(a)
      PROVE  BehindInv'
  <2>1. mailbox' = Append(mailbox, RunEnd(a, res[a])) => Posted(RunEnd(a, res[a]))
    BY <1>0, AppendPosts
  <2>2. \A p : RunEnd(a, res[a]) # ElementEdit(p) /\ RunEnd(a, res[a]) # Inc(p)
    BY ONLY <1>0
  <2> QED
    BY <1>1, <1>2, <1>5, <2>1, <2>2 DEF EndRun
<1>6. ASSUME ApiCall
      PROVE  BehindInv'
  <2>1. UNCHANGED <<chan, owes, attached>>
    BY <1>6 DEF ApiCall
  <2>2. \A m : mailbox' = Append(mailbox, m) => Posted(m)
    BY <1>0, AppendPosts
  <2>3. /\ \A a, b : Start(a) # Inc(b) /\ NewAgent(a) # Inc(b) /\ HaltState # Inc(b)
        /\ \A a, b, e : Edit(a, e) # Inc(b)
    BY ONLY <1>0
  <2>4. UNCHANGED mailbox \/ \E m : Posted(m) /\ \A a : m # Inc(a)
    BY <1>6, <2>2, <2>3, ApiMail
  <2>5. \A m : Posted(m) => \A p \in Elements : m = ElementEdit(p) => chan[p] = 0
    BY <1>6, ApiElement DEF ElementInv
  <2> QED
    BY <1>1, <1>2, <2>1, <2>4, <2>5
<1>7. ASSUME SchedStep
      PROVE  BehindInv'
  <2>1. UNCHANGED <<chan, owes>>
    BY <1>7 DEF SchedStep, SchedNewAgent, SchedInc, SchedDec, SchedStart, SchedEdit,
       SchedRunEnd, SchedRunEndLoses, SchedHaltState, SchedHalt, SchedPanics, Stop, SchedFrame
  <2>2. \E m : Took(m)
    BY <1>0, <1>7, SchedTakes
  <2> QED
    BY <2>1, <2>2, AttachedGrows, TookBehind
<1>8. ASSUME NEW c \in Clients, ApiStep(c)
      PROVE  BehindInv'
  BY <1>6, <1>8, ApiStepIsCall
<1> QED
  BY <1>0, <1>3, <1>4, <1>5, <1>7, <1>8, PutBehind, GetBehind
  DEF Next, AgentStep, ClientStep, ApiStep, Terminated

\* The element that a call creates is sent to its owner.
LEMMA ApiPlaces ==
  ASSUME TypeOK, NEW c \in Clients, ApiStep(c),
         NEW p \in Elements, p \in senders', p \notin senders
  PROVE  Posted(ElementEdit(p))
<1>1. (AddElement(c) \/ SetReceiver(c)) /\ Op(c).port = p
  BY DEF ApiStep, AddNode, StartAgent, Connect, AddElement, SetReceiver, HandReceiver, Disconnect, BadReceiver,
         Join, apiVars
<1>2. mailbox' = Append(mailbox, ElementEdit(p))
  BY <1>1 DEF AddElement, SetReceiver, HandReceiver, Send, ElementEdit
<1> QED
  BY <1>2, AppendPosts DEF TypeOK

\* An element whose sender nobody has stays empty.
LEMMA ElementsEmpty ==
  ASSUME TypeOK, SenderInv, [Next]_vars, NEW p \in Elements \ senders, chan[p] = 0
  PROVE  chan'[p] = 0
<1>0. p \in InPorts \ Silent /\ chan \in [InPorts -> 0..Capacity]
      /\ \A t \in Agents \cup Clients : t \in Threads
  BY WiringAssumption DEF TypeOK, PortType, Threads
<1>1. ASSUME NEW t \in Threads, Put(t)
      PROVE  chan'[p] = 0
  <2>1. Target(t) # p
    BY <1>0, <1>1, TargetSender
  <2> QED
    BY <1>0, <1>1, <2>1 DEF Put
<1>2. ASSUME NEW a \in Agents, Get(a)
      PROVE  chan'[p] = 0
  <2>1. PICK q \in InPorts : chan[q] > 0 /\ chan' = [chan EXCEPT ![q] = @ - 1]
    BY <1>2, GetPort DEF TypeOK
  <2> QED
    BY <1>0, <2>1
<1>3. UNCHANGED chan \/ (\E t \in Threads : Put(t)) \/ (\E a \in Agents : Get(a))
  BY <1>0
  DEF Next, StartJob, AgentStep, ClientStep, SchedStep, PutFails, GetFails, Notify, EndRun,
      AddNode, StartAgent, Connect, AddElement, SetReceiver, HandReceiver, Disconnect, BadReceiver, Join, Joined,
      ClientPanics, ApiFrame, SchedNewAgent, SchedInc, SchedDec, SchedStart, SchedHaltState,
      SchedHalt, SchedEdit, SchedRunEnd, SchedRunEndLoses, SchedPanics, Stop, SchedFrame,
      Terminated, vars
<1> QED
  BY <1>1, <1>2, <1>3

\* Edits are kept only for an agent whose box is away.
LEMMA NextKept ==
  ASSUME TypeOK, sched = "up", sched' = "up", [Next]_vars,
         \A a \in Agents : edit_msgs[a] # <<>> => a \in agents \ home
  PROVE  \A a \in Agents : edit_msgs'[a] # <<>> => a \in agents' \ home'
<1>1. Plain \/ ApiCall => UNCHANGED <<edit_msgs, agents, home>>
  BY DEF Plain, ApiCall, stateVars
<1>2. ASSUME SchedStep
      PROVE  \A a \in Agents : edit_msgs'[a] # <<>> => a \in agents' \ home'
  <2>0. edit_msgs \in [Agents -> Seq(EditCmp)] /\ agents \subseteq Agents
    BY DEF TypeOK, StateType
  <2>1. \/ UNCHANGED <<edit_msgs, agents>> /\ home' \subseteq home
        \/ \E a \in Agents : /\ edit_msgs' = [edit_msgs EXCEPT ![a] = <<>>]
                             /\ agents \subseteq agents' /\ home' \subseteq home \cup {a}
        \/ \E a \in agents \ home : \E e \in EditCmp :
             /\ edit_msgs' = [edit_msgs EXCEPT ![a] = Append(@, e)]
             /\ UNCHANGED <<agents, home>>
    <3>1. \A a : Run(a) \/ NoRun => home' \subseteq home
      BY DEF Run, NoRun
    <3>2. ASSUME NEW a \in Agents, NEW e \in EditCmp, SchedEdit(a, e)
          PROVE  /\ UNCHANGED <<agents, home>>
                 /\ UNCHANGED edit_msgs \/ (a \in agents \ home
                      /\ edit_msgs' = [edit_msgs EXCEPT ![a] = Append(@, e)])
      BY <3>2 DEF SchedEdit, EditsNow, NoRun
    <3>3. ASSUME NEW a, SchedInc(a) \/ SchedDec(a) \/ SchedStart(a) \/ SchedHaltState
          PROVE  UNCHANGED <<edit_msgs, agents>> /\ home' \subseteq home
      BY <3>1, <3>3 DEF SchedInc, SchedDec, SchedStart, SchedHaltState
    <3>4. ASSUME NEW a, NEW r, SchedNewAgent(a) \/ SchedRunEnd(a, r) \/ SchedRunEndLoses(a, r)
          PROVE  /\ edit_msgs' = [edit_msgs EXCEPT ![a] = <<>>]
                 /\ agents \subseteq agents' /\ home' \subseteq home \cup {a}
      BY <3>1, <3>4 DEF SchedNewAgent, SchedRunEnd, SchedRunEndLoses
    <3> QED
      BY <1>2, <3>2, <3>3, <3>4, SchedTakes DEF TypeOK
  <2> QED
    BY <2>0, <2>1
<1> QED
  BY <1>1, <1>2, PlainSteps

\* A message that is posted moves no other.
LEMMA PostPlaces ==
  ASSUME TypeOK, UNCHANGED mailbox \/ \E m : Posted(m), lost \subseteq lost',
         UNCHANGED edit_msgs, NEW p, Placed(p)
  PROVE  Placed(p)'
<1>1. Len(mailbox) \in Nat
  BY DEF TypeOK, QueueType
<1>2. \A i \in 1..Len(mailbox) : i \in 1..Len(mailbox') /\ mailbox'[i] = mailbox[i]
  BY <1>1 DEF Posted
<1>3. ElementEdit(p)' = ElementEdit(p)
  BY DEF ElementEdit, Edit
<1> QED
  BY <1>2, <1>3 DEF Placed

\* The scheduler hands an agent its element, or keeps the edit for the end of
\* the run.
LEMMA SchedPlaces ==
  ASSUME TypeOK, KnownInv, BoxInv, ElementInv, sched = "up", sched' = "up", SchedStep,
         lost \subseteq lost', NEW p \in Elements, p \notin attached', Placed(p)
  PROVE  Placed(p)'
<1>0. /\ p \in InPorts /\ Owner[p] \in Agents /\ Len(mailbox) \in Nat
      /\ edit_msgs \in [Agents -> Seq(EditCmp)]
  BY WiringAssumption DEF TypeOK, StateType, QueueType
<1>1. PICK a \in Agents : a = Owner[p]
  BY <1>0
<1>2. PICK m : m = ElementEdit(p)
  OBVIOUS
<1>3. ElementEdit(p)' = m /\ m = Edit(a, [kind |-> "element", port |-> p])
  BY <1>1, <1>2 DEF ElementEdit, Edit
<1>4. CASE a \in lost
  BY <1>1, <1>4 DEF Placed
<1>5. ASSUME NEW i \in 2..Len(mailbox), mailbox[i] = m
      PROVE  Placed(p)'
  <2>1. \E n : Took(n)
    BY SchedTakes DEF TypeOK
  <2>2. i - 1 \in 1..Len(mailbox') /\ mailbox'[i - 1] = m
    BY <1>5, <2>1 DEF Took
  <2> QED
    BY <1>3, <2>2 DEF Placed
<1>6. ASSUME Took(m)
      PROVE  Placed(p)'
  <2>1. PICK e \in EditCmp : SchedEdit(a, e) /\ e = [kind |-> "element", port |-> p]
    <3>1. /\ m.type = "Edit" /\ m.id = a /\ m.edit = [kind |-> "element", port |-> p]
          /\ mailbox[1] = m
      BY <1>3, <1>6 DEF Edit, Took
    <3>2. \E b \in Agents : \E e \in EditCmp : SchedEdit(b, e) /\ mailbox[1] = Edit(b, e)
      BY <3>1, SchedTakes
      DEF TypeOK, Took, NewAgent, Inc, Dec, Start, RunEnd, HaltState
    <3>3. PICK b \in Agents, e \in EditCmp : SchedEdit(b, e) /\ m = Edit(b, e)
      BY <3>1, <3>2
    <3>4. b = a /\ e = [kind |-> "element", port |-> p]
      BY <3>1, <3>3 DEF Edit
    <3> QED
      BY <3>3, <3>4
  <2>2. edit_msgs' = [edit_msgs EXCEPT ![a] = Append(@, e)]
    BY <2>1 DEF SchedEdit, Succeeds, Apply
  <2>3. PICK n \in Nat : n = Len(edit_msgs[a]) + 1
    BY <1>0
  <2>4. n \in 1..Len(edit_msgs'[a]) /\ edit_msgs'[a][n] = e
    BY <1>0, <2>2, <2>3
  <2> QED
    BY <1>1, <2>1, <2>4 DEF Placed
<1>7. ASSUME NEW i \in 1..Len(edit_msgs[a]), edit_msgs[a][i] = [kind |-> "element", port |-> p]
      PROVE  Placed(p)'
  <2>0. a \in agents \ home
    BY <1>0, <1>7 DEF ElementInv
  <2>1. ASSUME UNCHANGED edit_msgs
        PROVE  Placed(p)'
    BY <1>1, <1>7, <2>1 DEF Placed
  <2>2. ASSUME NEW b \in Agents, b # a, edit_msgs' = [edit_msgs EXCEPT ![b] = <<>>]
        PROVE  Placed(p)'
    <3>1. edit_msgs'[a] = edit_msgs[a]
      BY <1>0, <2>2
    <3> QED
      BY <1>1, <1>7, <3>1 DEF Placed
  <2>3. ASSUME NEW b \in Agents, NEW e, edit_msgs' = [edit_msgs EXCEPT ![b] = Append(@, e)],
               e \in EditCmp
        PROVE  Placed(p)'
    <3>1. i \in 1..Len(edit_msgs'[a]) /\ edit_msgs'[a][i] = edit_msgs[a][i]
      BY <1>0, <1>7, <2>3
    <3> QED
      BY <1>1, <1>7, <3>1 DEF Placed
  <2>4. ~SchedNewAgent(a)
    BY <2>0, SchedTakes DEF SchedNewAgent, Receive, KnownInv, Holds, TypeOK, QueueType
  <2>5. \A r : ~SchedRunEnd(a, r)
    BY <1>7, <1>0 DEF SchedRunEnd, ApplyAll
  <2>6. \A r : SchedRunEndLoses(a, r) => a \in lost'
    BY DEF SchedRunEndLoses
  <2>7. \/ UNCHANGED edit_msgs
        \/ \E b \in Agents : /\ edit_msgs' = [edit_msgs EXCEPT ![b] = <<>>]
                             /\ b # a \/ a \in lost'
        \/ \E b \in Agents : \E e \in EditCmp :
             edit_msgs' = [edit_msgs EXCEPT ![b] = Append(@, e)]
    <3>1. \A b \in Agents : SchedInc(b) \/ SchedDec(b) \/ SchedStart(b) => UNCHANGED edit_msgs
      BY DEF SchedInc, SchedDec, SchedStart
    <3>2. \A b \in Agents : SchedNewAgent(b) => /\ edit_msgs' = [edit_msgs EXCEPT ![b] = <<>>]
                                               /\ b # a
      BY <2>4 DEF SchedNewAgent
    <3>3. \A b \in Agents : \A r : SchedRunEnd(b, r) \/ SchedRunEndLoses(b, r)
            => edit_msgs' = [edit_msgs EXCEPT ![b] = <<>>] /\ (b # a \/ a \in lost')
      BY <2>5, <2>6 DEF SchedRunEnd, SchedRunEndLoses
    <3>4. \A b \in Agents : \A e \in EditCmp : SchedEdit(b, e)
            => UNCHANGED edit_msgs \/ edit_msgs' = [edit_msgs EXCEPT ![b] = Append(@, e)]
      BY DEF SchedEdit
    <3>5. SchedHaltState => UNCHANGED edit_msgs
      BY DEF SchedHaltState
    <3> QED
      BY <3>1, <3>2, <3>3, <3>4, <3>5, SchedTakes DEF TypeOK
  <2>8. a \in lost' => Placed(p)'
    BY <1>1 DEF Placed
  <2> QED
    BY <2>1, <2>2, <2>3, <2>7, <2>8
<1>8. \/ a \in lost \/ (\E i \in 2..Len(mailbox) : mailbox[i] = m) \/ mailbox[1] = m
      \/ \E i \in 1..Len(edit_msgs[a]) : edit_msgs[a][i] = [kind |-> "element", port |-> p]
  BY <1>0, <1>1, <1>2 DEF Placed
<1>9. mailbox[1] = m => Took(m)
  BY SchedTakes DEF TypeOK, Took
<1> QED
  BY <1>4, <1>5, <1>6, <1>7, <1>8, <1>9

\* Every step that leaves the scheduler running keeps ElementInv.
LEMMA NextElement ==
  ASSUME TypeOK, KnownInv, BoxInv, SenderInv, sched = "up", sched' = "up", [Next]_vars, ElementInv
  PROVE  ElementInv'
<1>0. attached \subseteq attached' /\ senders \subseteq senders' /\ lost \subseteq lost'
  BY AttachedGrows, KnownGrows, LostStays
<1>1. InPorts \ Elements \subseteq attached'
  BY <1>0 DEF ElementInv
<1>2. \A p \in Elements \ senders' : chan'[p] = 0
  BY <1>0, ElementsEmpty DEF ElementInv
<1>3. \A a \in Agents : edit_msgs'[a] # <<>> => a \in agents' \ home'
  BY NextKept DEF ElementInv
<1>4. ASSUME NEW p \in Elements, p \in senders', p \notin attached'
      PROVE  Placed(p)'
  <2>1. CASE SchedStep
    <3>1. UNCHANGED senders
      BY <2>1 DEF SchedStep, SchedNewAgent, SchedInc, SchedDec, SchedStart, SchedEdit,
         SchedRunEnd, SchedRunEndLoses, SchedHaltState, SchedHalt, SchedPanics, Stop,
         SchedFrame, apiVars
    <3>2. Placed(p)
      BY <1>0, <1>4, <3>1 DEF ElementInv
    <3> QED
      BY <1>0, <1>4, <2>1, <3>2, SchedPlaces
  <2>2. CASE Plain
    <3>1. UNCHANGED <<senders, edit_msgs>> /\ (UNCHANGED mailbox \/ \E m : Posted(m))
      BY <2>2 DEF Plain
    <3>2. Placed(p)
      BY <1>0, <1>4, <3>1 DEF ElementInv
    <3> QED
      BY <1>0, <3>1, <3>2, PostPlaces
  <2>3. CASE ApiCall /\ \E c \in Clients : ApiStep(c)
    <3>1. UNCHANGED edit_msgs /\ (UNCHANGED mailbox \/ \E m : Posted(m))
      <4>1. \A m : mailbox' = Append(mailbox, m) => Posted(m)
        BY AppendPosts DEF TypeOK
      <4> QED
        BY <2>3, <4>1, ApiMail DEF ApiCall, stateVars
    <3>2. CASE p \in senders
      <4>1. Placed(p)
        BY <1>0, <1>4, <3>2 DEF ElementInv
      <4> QED
        BY <1>0, <3>1, <4>1, PostPlaces
    <3>3. CASE p \notin senders
      <4>1. Posted(ElementEdit(p))
        BY <1>4, <2>3, <3>3, ApiPlaces
      <4>2. Len(mailbox) \in Nat
        BY DEF TypeOK, QueueType
      <4>3. \E i \in 1..Len(mailbox') : mailbox'[i] = ElementEdit(p)
        BY <4>1, <4>2 DEF Posted
      <4> QED
        BY <4>3 DEF Placed, ElementEdit, Edit
    <3> QED
      BY <3>2, <3>3
  <2> QED
    BY <2>1, <2>2, <2>3, PlainSteps
<1> QED
  BY <1>1, <1>2, <1>3, <1>4 DEF ElementInv

\* The Incs behind the head are among those of the mailbox.
LEMMA IncsCounted ==
  ASSUME TypeOK, NEW a \in Agents
  PROVE  /\ Cardinality(IncsFrom(a, 2)) <= Count(mailbox, Inc(a))
         /\ Took(Inc(a)) => Cardinality(IncsFrom(a, 2)) + 1 <= Count(mailbox, Inc(a))
         /\ Cardinality(IncsFrom(a, 2)) \in Nat
<1>0. /\ mailbox \in Seq(CompMsg) /\ Len(mailbox) \in Nat
      /\ IsFiniteSet(Positions(mailbox, Inc(a))) /\ Count(mailbox, Inc(a)) \in Nat
      /\ IsFiniteSet(IncsFrom(a, 2)) /\ Cardinality(IncsFrom(a, 2)) \in Nat
  BY PositionsFinite, ComingFinite, FS_CardinalityType DEF TypeOK, QueueType, Count
<1>1. IncsFrom(a, 2) \in SUBSET Positions(mailbox, Inc(a)) /\ 1 \notin IncsFrom(a, 2)
  BY <1>0 DEF IncsFrom, Positions
<1>2. Cardinality(IncsFrom(a, 2)) <= Count(mailbox, Inc(a))
  BY <1>0, <1>1, FS_Subset DEF Count
<1>3. ASSUME Took(Inc(a))
      PROVE  Cardinality(IncsFrom(a, 2)) + 1 <= Count(mailbox, Inc(a))
  <2>1. IncsFrom(a, 2) \cup {1} \in SUBSET Positions(mailbox, Inc(a))
    BY <1>0, <1>1, <1>3 DEF Took, Positions
  <2>2. Cardinality(IncsFrom(a, 2) \cup {1}) = Cardinality(IncsFrom(a, 2)) + 1
    BY <1>0, <1>1, FS_AddElement
  <2> QED
    BY <1>0, <2>1, <2>2, FS_Subset DEF Count
<1> QED
  BY <1>0, <1>2, <1>3

\* When nothing waits on the ports T of an agent, and an edit brings it every
\* other element that the owner created, what its ips counts is announced
\* behind the head of the mailbox.
LEMMA WaitsBehind ==
  ASSUME TypeOK, BehindInv, ElementInv, NEW a \in Agents, Balance(a), Pending(Dec(a)) = 0,
         NEW T, attached \subseteq T, \A p \in T \ Silent : ~(Owner[p] = a /\ chan[p] > 0),
         \A p \in (Elements \cap senders) \ T : Owner[p] = a =>
           \E i \in 2..Len(mailbox) : mailbox[i] = ElementEdit(p)
  PROVE  ips[a] + Count(mailbox, Inc(a)) <= Cardinality(IncsFrom(a, 2))
<1>1. /\ Coming(a, 2) \subseteq InPorts /\ Scheduling(a) \subseteq InPorts
      /\ chan \in [InPorts -> 0..Capacity]
  BY ComingFinite, BalanceType DEF TypeOK, PortType
<1>2. ASSUME NEW p \in Scheduling(a), chan[p] > 0
      PROVE  p \in Coming(a, 2)
  <2>1. p \in InPorts \ Silent /\ Owner[p] = a /\ p \notin T
    BY <1>2 DEF Scheduling
  <2>2. p \in Elements /\ p \in senders
    BY <1>2, <2>1 DEF ElementInv
  <2> QED
    BY <2>1, <2>2 DEF Coming
<1>3. Waiting(Scheduling(a)) <= Waiting(Coming(a, 2)) /\ Waiting(Coming(a, 2)) \in Nat
      /\ Waiting(Scheduling(a)) \in Nat
  BY <1>1, <1>2, WaitingLess
<1>4. Waiting(Coming(a, 2)) <= Cardinality(IncsFrom(a, 2)) + Cardinality(Owing(Inc(a)))
  BY DEF BehindInv
<1>5. /\ ips[a] \in Int /\ Count(mailbox, Inc(a)) \in Nat /\ Cardinality(Owing(Inc(a))) \in Nat
      /\ Cardinality(IncsFrom(a, 2)) \in Nat
  BY BalanceType, IncsCounted
<1>6. ips[a] + (Count(mailbox, Inc(a)) + Cardinality(Owing(Inc(a)))) = Waiting(Scheduling(a))
  <2>1. Queued(a) = Waiting(Scheduling(a)) /\ Waiting(Scheduling(a)) + 0 = Waiting(Scheduling(a))
    BY <1>3 DEF Queued, Waiting
  <2> QED
    BY <2>1 DEF Balance, Pending
<1> QED
  BY <1>3, <1>4, <1>5, <1>6

\* The Inc that wakes an agent finds a message where the agent can read it.
LEMMA WakesForMessage ==
  ASSUME IInv, ElementInv, BehindInv, sched = "up", NEW a \in Agents, Took(Inc(a)), Wakes(a)
  PROVE  \E p \in attached \ Silent : Owner[p] = a /\ chan[p] > 0
<1> SUFFICES ASSUME \A p \in attached \ Silent : ~(Owner[p] = a /\ chan[p] > 0)
             PROVE  FALSE
  OBVIOUS
<1>0. TypeOK /\ BoxInv /\ DecInv /\ Conservation
  BY DEF IInv
<1>1. a \in home /\ a \notin lost /\ pc[a] = "idle" /\ ips[a] + 1 > 0
  BY <1>0 DEF Wakes, BoxInv, AwayInv
<1>2. Balance(a)
  BY <1>0, <1>1 DEF Conservation
<1>3. Pending(Dec(a)) = 0
  <2>1. \A j \in 2..Len(mailbox) : ~EndsAt(j, a)
    BY <1>0, <1>1 DEF BoxInv, RunEndInv, EndsAt
  <2> QED
    BY <1>0, <1>1, <2>1, NoDecs
<1>4. ASSUME NEW p \in (Elements \cap senders) \ attached, Owner[p] = a
      PROVE  \E i \in 2..Len(mailbox) : mailbox[i] = ElementEdit(p)
  <2>1. edit_msgs[a] = <<>>
    BY <1>1 DEF ElementInv
  <2>2. PICK i \in 1..Len(mailbox) : mailbox[i] = ElementEdit(p)
    <3>1. Placed(p)
      BY <1>4 DEF ElementInv
    <3>2. 1..Len(edit_msgs[Owner[p]]) = {}
      BY <1>4, <2>1
    <3> QED
      BY <1>1, <1>4, <3>1, <3>2 DEF Placed
  <2>3. i # 1
    BY <2>2 DEF Took, ElementEdit, Edit, Inc
  <2>4. Len(mailbox) \in Nat
    BY <1>0 DEF TypeOK, QueueType
  <2> QED
    BY <2>2, <2>3, <2>4
<1>5. ips[a] + Count(mailbox, Inc(a)) <= Cardinality(IncsFrom(a, 2))
  BY <1>0, <1>2, <1>3, <1>4, WaitsBehind
<1>6. ips[a] \in Int /\ Count(mailbox, Inc(a)) \in Nat
  BY <1>0, BalanceType
<1> QED
  BY <1>0, <1>1, <1>5, <1>6, IncsCounted

\* So does a run that is followed by another.
LEMMA RestartsForMessage ==
  ASSUME IInv, ElementInv, BehindInv, sched = "up", NEW a \in Agents, NEW r \in Results,
         SchedRunEnd(a, r), MustRestart(a)
  PROVE  \E p \in attached' \ Silent : Owner[p] = a /\ chan[p] > 0
<1> SUFFICES ASSUME \A p \in attached' \ Silent : ~(Owner[p] = a /\ chan[p] > 0)
             PROVE  FALSE
  OBVIOUS
<1>0. TypeOK /\ BoxInv /\ DecInv /\ Conservation
  BY DEF IInv
<1>1. /\ mailbox \in Seq(CompMsg) /\ Len(mailbox) \in Nat /\ 1 \in 1..Len(mailbox)
      /\ mailbox[1] = RunEnd(a, r) /\ RunEnd(a, r).type = "RunEnd" /\ RunEnd(a, r).id = a
  BY <1>0 DEF SchedRunEnd, Receive, TypeOK, QueueType, RunEnd
<1>2. EndsAt(1, a)
  BY <1>1 DEF EndsAt
<1>3. a \notin lost /\ pc[a] = "idle" /\ ips[a] > 0 /\ \A j \in 2..Len(mailbox) : ~EndsAt(j, a)
  BY <1>0, <1>1, <1>2 DEF BoxInv, RunEndInv, MustRestart, EndsAt
<1>4. Balance(a) /\ Pending(Dec(a)) = 0
  BY <1>0, <1>3, NoDecs DEF Conservation
<1>5. attached \subseteq attached' /\ \A i \in 1..Len(edit_msgs[a]) :
        \A p : edit_msgs[a][i] = [kind |-> "element", port |-> p] => p \in attached'
  BY DEF SchedRunEnd, ApplyAll
<1>6. ASSUME NEW p \in (Elements \cap senders) \ attached', Owner[p] = a
      PROVE  \E i \in 2..Len(mailbox) : mailbox[i] = ElementEdit(p)
  <2>1. PICK i \in 1..Len(mailbox) : mailbox[i] = ElementEdit(p)
    BY <1>3, <1>5, <1>6 DEF ElementInv, Placed
  <2>2. i # 1
    BY <1>1, <2>1 DEF ElementEdit, Edit
  <2> QED
    BY <1>1, <2>1, <2>2
<1>7. ips[a] + Count(mailbox, Inc(a)) <= Cardinality(IncsFrom(a, 2))
  <2>1. PICK T : T = attached'
    OBVIOUS
  <2> QED
    BY <1>0, <1>4, <1>5, <1>6, <2>1, WaitsBehind
<1>8. ips[a] \in Int /\ Count(mailbox, Inc(a)) \in Nat
  BY <1>0, BalanceType
<1> QED
  BY <1>0, <1>3, <1>7, <1>8, IncsCounted

\* An agent that no Start asked for is given to the pool only for a message
\* that waits where it can read it, whatever the order in which the Incs, the
\* Decs and the edits of its array ports come: no run for nothing.
THEOREM NoRunForNothing == Spec => RunsForMessage
<1> DEFINE Inv == sched = "up" => ElementInv /\ BehindInv
           Runs == \A a \in Agents :
                     pc[a] = "idle" /\ pc'[a] = "queued" /\ Head(mailbox) # Start(a)
                       => Waits(a)' \/ Spoiled(a)'
<1>1. Init => Inv
  <2> SUFFICES ASSUME Init PROVE ElementInv /\ BehindInv
    OBVIOUS
  <2>1. TypeOK /\ mailbox = <<>>
    BY InitType DEF Init
  <2>2. ElementInv
    <3>1. /\ attached = InPorts \ Elements /\ senders = {} /\ chan = [p \in InPorts |-> 0]
          /\ edit_msgs = [a \in Agents |-> <<>>] /\ Elements \subseteq InPorts
      BY WiringAssumption DEF Init
    <3>2. \A p \in Elements : chan[p] = 0
      BY <3>1
    <3>3. Elements \cap senders = {} /\ \A a \in Agents : edit_msgs[a] = <<>>
      BY <3>1
    <3> QED
      BY <3>1, <3>2, <3>3 DEF ElementInv
  <2>3. ASSUME NEW a \in Agents, NEW k \in Nat \ {0}
        PROVE  Waiting(Coming(a, k)) <= Cardinality(IncsFrom(a, k)) + Cardinality(Owing(Inc(a)))
    <3>1. Coming(a, k) = {}
      BY <2>1 DEF Coming
    <3>2. Waiting(Coming(a, k)) = 0 /\ Cardinality(IncsFrom(a, k)) \in Nat
          /\ Cardinality(Owing(Inc(a))) \in Nat
      BY <2>1, <3>1, ComingFinite, WaitingLess, OwingFinite
    <3> QED
      BY <3>2
  <2> QED
    BY <2>2, <2>3 DEF BehindInv
<1>2. IInv /\ IInv' /\ Inv /\ [Next]_vars => Inv'
  BY StaysDown, NextElement, NextBehind DEF IInv
<1>3. IInv /\ Inv /\ [Next]_vars => [Runs]_vars
  <2> SUFFICES ASSUME IInv, Inv, [Next]_vars, NEW a \in Agents,
                      pc[a] = "idle", pc'[a] = "queued", Head(mailbox) # Start(a)
               PROVE  Waits(a)' \/ Spoiled(a)'
    OBVIOUS
  <2>0. TypeOK /\ a \in Threads /\ a \notin Clients /\ pc \in [Threads ->
          {"idle", "queued", "run", "joining", "joined", "panicked"}]
    BY SetsAssumption DEF IInv, TypeOK, RunType, Threads
  <2>1. SchedStep
    <3>1. \A c \in Clients : ApiStep(c) => pc'[a] = pc[a]
      BY <2>0, ApiStepIsCall DEF TypeOK, ApiCall
    <3> QED
      BY <2>0, <3>1
      DEF Next, StartJob, AgentStep, ClientStep, ApiStep, Put, PutFails, Get, GetFails, Notify,
          EndRun, Joined, ClientPanics, Terminated, vars
  <2>2. sched = "up" /\ sched' = "up"
    BY <2>0, <2>1
    DEF SchedStep, SchedNewAgent, SchedInc, SchedDec, SchedStart, SchedEdit, SchedRunEnd,
        SchedRunEndLoses, SchedHaltState, SchedHalt, SchedPanics, Stop, Receive
  <2>3. \A b \in Agents : Run(b) => b = a
    BY <2>0 DEF Run
  <2>4. \/ SchedInc(a) /\ Took(Inc(a)) /\ Wakes(a)
        \/ \E r \in Results : SchedRunEnd(a, r) /\ MustRestart(a)
    <3>1. \A b \in Agents : SchedNewAgent(b) => pc'[a] = pc[a]
      BY DEF SchedNewAgent
    <3>2. \A b \in Agents : SchedInc(b) => b = a /\ Wakes(a)
      BY <2>3 DEF SchedInc, NoRun
    <3>3. \A b \in Agents : SchedDec(b) => pc'[a] = pc[a]
      BY DEF SchedDec, NoRun
    <3>4. \A b \in Agents : ~SchedStart(b)
      BY <2>3 DEF SchedStart, NoRun, Receive
    <3>5. \A b \in Agents : \A e \in EditCmp : SchedEdit(b, e) => pc'[a] = pc[a]
      BY DEF SchedEdit, NoRun
    <3>6. \A b \in Agents : \A r \in Results : /\ SchedRunEnd(b, r) => b = a /\ MustRestart(a)
                                               /\ SchedRunEndLoses(b, r) => pc'[a] = pc[a]
      BY <2>3 DEF SchedRunEnd, SchedRunEndLoses, NoRun
    <3>7. SchedHaltState => pc'[a] = pc[a]
      BY DEF SchedHaltState, NoRun
    <3> QED
      BY <2>0, <2>1, <2>2, <3>1, <3>2, <3>3, <3>4, <3>5, <3>6, <3>7, SchedTakes DEF TypeOK
  <2>5. ASSUME SchedInc(a) /\ Took(Inc(a)) /\ Wakes(a)
        PROVE  \E p \in attached' \ Silent : Owner[p] = a /\ chan[p] > 0
    <3>1. attached' = attached
      BY <2>5 DEF SchedInc
    <3> QED
      BY <2>2, <2>5, <3>1, WakesForMessage
  <2>6. \E p \in attached' \ Silent : Owner[p] = a /\ chan[p] > 0
    BY <2>2, <2>4, <2>5, RestartsForMessage
  <2>7. UNCHANGED chan
    BY <2>4 DEF SchedInc, SchedRunEnd, SchedFrame
  <2> QED
    BY <2>6, <2>7 DEF Waits, Spoiled
<1> QED
  BY <1>1, <1>2, <1>3, Inductive, PTL DEF Spec, RunsForMessage
=============================================================================
