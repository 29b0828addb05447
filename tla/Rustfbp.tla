------------------------------- MODULE Rustfbp -------------------------------
(***************************************************************************)
(* The Rust runtime of Fractalide, modules/rs/rustfbp: the interior        *)
(* scheduler (one thread that owns SchedState and takes CompMsg messages   *)
(* from one FIFO mailbox), its thread pool, the bounded channels between   *)
(* agents (MsgSender, MsgReceiver), the agents that run in the pool, and   *)
(* the exterior API through which the owner of the Scheduler and holders   *)
(* of a MsgSender reach it.                                                *)
(*                                                                         *)
(* A channel operation and the Inc or Dec it owes the scheduler are two    *)
(* steps, as in ports.rs; everything the scheduler does for one message is *)
(* one step, because SchedState belongs to its thread alone.  Payloads are *)
(* left out: a channel is the number of messages it holds.                 *)
(***************************************************************************)
EXTENDS Counting

CONSTANTS
  Agents,     \* the agents that the owner of the Scheduler may add
  Clients,    \* threads outside the pool: the owner, holders of a MsgSender
  InPorts,    \* receiving ends: the channels of input ports and of elements
  OutPorts,   \* sending ends: output ports, elements of array output ports
  Owner,      \* [InPorts -> Agents]: MsgReceiver.id and MsgSender.dest
  From,       \* [OutPorts -> Agents]: the agent that has the output port
  Silent,     \* option and accumulator ports: must_sched is false
  Elements,   \* channels for elements of array input ports, made after the agent
  Slot,       \* [InPorts -> Any]: the port or element that a channel is for
  Wired,      \* [OutPorts -> InPorts \cup {None}]: wiring at creation
  Capacity,   \* messages a channel holds, 25 in ports.rs
  PoolSize,   \* worker threads, 8 in scheduler.rs
  Bodies,     \* [Agents -> set of bodies]: what one run of the agent may do
  Scripts,    \* the calls the clients make: each [Clients -> Seq(ClientOp)]
  None

Threads == Agents \cup Clients

Results == {"End", "Continue", "Err", "panic"}

\* What one run does: port operations in order, then its result.
AgentOp == [op : {"recv", "try_recv"}, port : InPorts]
             \cup [op : {"send"}, port : OutPorts]

Body == [ops : Seq(AgentOp), res : Results]

\* Calls on the Scheduler (by its owner) and on a MsgSender obtained from it.
ClientOp == [op : {"add_node", "start_agent", "bad_receiver"}, agent : Agents]
              \cup [op : {"connect"}, port : OutPorts, to : InPorts]
              \cup [op : {"disconnect"}, port : OutPorts]
              \cup [op : {"add_element", "soft_add_element", "set_receiver"},
                    port : Elements]
              \cup [op : {"send"}, port : InPorts]
              \cup [op : {"join"}]

ASSUME SetsAssumption ==
  /\ IsFiniteSet(Agents) /\ IsFiniteSet(Clients) /\ IsFiniteSet(InPorts)
  /\ Agents \cap Clients = {}
  /\ None \notin Agents \cup InPorts

ASSUME WiringAssumption ==
  /\ Owner \in [InPorts -> Agents]
  /\ From \in [OutPorts -> Agents]
  /\ Silent \subseteq InPorts
  /\ Elements \subseteq InPorts \ Silent
  /\ Wired \in [OutPorts -> Silent \cup {None}]

\* Only an element gets channel after channel, all of them of one agent.
ASSUME SlotAssumption ==
  \A p, q \in InPorts :
    Slot[p] = Slot[q] => p = q \/ ({p, q} \subseteq Elements /\ Owner[p] = Owner[q])

ASSUME SizeAssumption ==
  /\ Capacity \in Nat \ {0}
  /\ PoolSize \in Nat \ {0}

\* A body sends on its own output ports and reads its own input ports.
ASSUME ProgramAssumption ==
  /\ Bodies \in [Agents -> SUBSET Body]
  /\ \A a \in Agents : \A b \in Bodies[a] : \A i \in 1..Len(b.ops) :
       IF b.ops[i].op = "send" THEN From[b.ops[i].port] = a
                               ELSE Owner[b.ops[i].port] = a
  /\ Scripts \subseteq [Clients -> Seq(ClientOp)]

-----------------------------------------------------------------------------
(* The messages of the mailbox: CompMsg.  The eight variants that edit an   *)
(* agent are one message here, with the EditCmp it becomes.                 *)

NewAgent(a)  == [type |-> "NewAgent", id |-> a]
Start(a)     == [type |-> "Start", id |-> a]
Inc(a)       == [type |-> "Inc", id |-> a]
Dec(a)       == [type |-> "Dec", id |-> a]
RunEnd(a, r) == [type |-> "RunEnd", id |-> a, res |-> r]
Edit(a, e)   == [type |-> "Edit", id |-> a, edit |-> e]
HaltState    == [type |-> "HaltState"]
Halt         == [type |-> "Halt"]

\* "element" hands the agent a receiver, "unknown_port" one for a port the
\* agent lacks, "unimplemented" stands for the variants that panic.
EditCmp == [kind : {"connect"}, port : OutPorts, to : InPorts]
             \cup [kind : {"element"}, port : InPorts]
             \cup [kind : {"unknown_port", "unimplemented"}]

Notice == [type : {"Inc", "Dec"}, id : Agents]

ASSUME NoneAssumption == None \notin Notice

CompMsg == [type : {"NewAgent", "Start"}, id : Agents]
             \cup Notice
             \cup [type : {"RunEnd"}, id : Agents, res : Results \ {"panic"}]
             \cup [type : {"Edit"}, id : Agents, edit : EditCmp]
             \cup [type : {"HaltState", "Halt"}]

-----------------------------------------------------------------------------
VARIABLES
  agents,     \* SchedState.agents: the agents the interior scheduler knows
  home,       \* the agents whose CompState.comp is Some
  is_run,     \* CompState.is_run, as the set of the agents that have it set
  can_run,    \* CompState.can_run, likewise
  ips,        \* CompState.ips
  edit_msgs,  \* CompState.edit_msgs
  running,    \* SchedState.running
  can_halt,   \* SchedState.can_halt
  sched,      \* the scheduler's thread: "up", "halted" or "panicked"
  mailbox,    \* the channel of CompMsg the scheduler's thread reads
  pool,       \* jobs given to ThreadPool::execute and not yet taken
  pc,         \* what a thread does; an agent without a job is "idle"
  todo,       \* the operations left of the current run, or of a script
  res,        \* what the current run returns
  owes,       \* the Inc or Dec a thread sends next, None if none is due
  chan,       \* messages in each channel; in one of dropped, those it lost
  conn,       \* the input port whose MsgSender an output port has
  attached,   \* the channels whose MsgReceiver the agent was handed
  dropped,    \* those of them whose MsgReceiver another one replaced
  senders,    \* the channels whose MsgSender a client has got
  unlisted,   \* those of them that are not in the owner's table of senders
  known,      \* Scheduler.agents: the agents added through the API
  lost        \* agents whose boxed value was dropped

stateVars == <<agents, home, is_run, can_run, ips, edit_msgs, running, can_halt>>
apiVars   == <<senders, unlisted, known>>
vars == <<stateVars, sched, mailbox, pool, pc, todo, res, owes, chan, conn,
          attached, dropped, apiVars, lost>>

Init ==
  /\ agents = {} /\ home = {} /\ is_run = {} /\ can_run = {}
  /\ ips = [a \in Agents |-> 0]
  /\ edit_msgs = [a \in Agents |-> <<>>]
  /\ running = 0 /\ can_halt = FALSE
  /\ sched = "up" /\ mailbox = <<>> /\ pool = <<>>
  /\ pc = [t \in Threads |-> IF t \in Agents THEN "idle" ELSE "run"]
  /\ todo \in {[t \in Threads |-> IF t \in Agents THEN <<>> ELSE s[t]] : s \in Scripts}
  /\ res = [t \in Threads |-> "End"]
  /\ owes = [t \in Threads |-> None]
  /\ chan = [p \in InPorts |-> 0]
  /\ conn = Wired
  /\ attached = InPorts \ Elements /\ dropped = {}
  /\ senders = {} /\ unlisted = {} /\ known = {} /\ lost = {}

-----------------------------------------------------------------------------
(* Threads: agents in the pool, clients outside it.                         *)

Ready(t) == pc[t] = "run" /\ owes[t] = None /\ todo[t] # <<>>

Op(t) == Head(todo[t])

Pop(t) == todo' = [todo EXCEPT ![t] = Tail(@)]

\* An operation returned Err: the body goes on with rest, or returns the error
\* with the ? operator.
Errs(t, rest) ==
  \/ todo' = [todo EXCEPT ![t] = rest] /\ UNCHANGED res
  \/ todo' = [todo EXCEPT ![t] = <<>>] /\ res' = [res EXCEPT ![t] = "Err"]

\* A free worker takes the oldest job.
StartJob ==
  /\ pool # <<>>
  /\ Cardinality({a \in Agents : pc[a] = "run"}) < PoolSize
  /\ LET a == Head(pool) IN
     \E b \in Bodies[a] :
       /\ pc' = [pc EXCEPT ![a] = "run"]
       /\ todo' = [todo EXCEPT ![a] = b.ops]
       /\ res' = [res EXCEPT ![a] = b.res]
  /\ pool' = Tail(pool)
  /\ UNCHANGED <<stateVars, sched, mailbox, owes, chan, conn, attached, dropped,
                 apiVars, lost>>

\* The port a send reaches: through the wiring for an agent, directly for a
\* client that holds the sender.
Target(t) == IF t \in Agents THEN conn[Op(t).port] ELSE Op(t).port

\* The MsgReceiver was dropped, in its agent's box or when another replaced it.
ReceiverGone(p) == p \in dropped \/ Owner[p] \in lost

\* sync_channel(25): a send waits while the channel is full.
HasRoom_mut(p) == chan[p] <= Capacity
HasRoom(p) == chan[p] < Capacity

\* must_sched: the notice a channel operation owes, none on a silent port.
IncDue_mut(p) == Inc(Owner[p])
IncDue(p) == IF p \in Silent THEN None ELSE Inc(Owner[p])
DecDue_mut(p) == None
DecDue(p) == IF p \in Silent THEN None ELSE Dec(Owner[p])

\* First half of MsgSender::send: the message enters the channel, when there
\* is room and the receiver exists.
Put(t) ==
  /\ Ready(t) /\ Op(t).op = "send"
  /\ LET p == Target(t) IN
     /\ p # None
     /\ t \in Clients => p \in senders
     /\ ~ReceiverGone(p)
     /\ HasRoom(p)
     /\ chan' = [chan EXCEPT ![p] = @ + 1]
     /\ owes' = [owes EXCEPT ![t] = IncDue(p)]
  /\ Pop(t)
  /\ UNCHANGED <<stateVars, sched, mailbox, pool, pc, res, conn, attached, dropped,
                 apiVars, lost>>

\* OutputNotConnected, or the receiver was dropped: send returns Err.
PutFails(t) ==
  /\ Ready(t) /\ Op(t).op = "send"
  /\ LET p == Target(t) IN
     \/ p = None
     \/ p # None /\ ReceiverGone(p)
  /\ Errs(t, Tail(todo[t]))
  /\ UNCHANGED <<stateVars, sched, mailbox, pool, pc, owes, chan, conn,
                 attached, dropped, apiVars, lost>>

\* The receiver that the agent has for the port of p, if any: of those handed to
\* it for an element, the last one.
Receivers(p) == {q \in attached \ dropped : Slot[q] = Slot[p]}

\* First half of recv and try_recv: a message leaves the channel.
Get(a) ==
  /\ Ready(a) /\ Op(a).op \in {"recv", "try_recv"}
  /\ \E p \in Receivers(Op(a).port) :
     /\ chan[p] > 0
     /\ chan' = [chan EXCEPT ![p] = @ - 1]
     /\ owes' = [owes EXCEPT ![a] = DecDue(p)]
  /\ Pop(a)
  /\ UNCHANGED <<stateVars, sched, mailbox, pool, pc, res, conn, attached, dropped,
                 apiVars, lost>>

\* try_recv on an empty channel returns Err; an element that the agent was not
\* given is not in its map, whatever the body does with that.
GetFails(a) ==
  /\ Ready(a)
  /\ \/ Op(a).op = "try_recv" /\ \E p \in Receivers(Op(a).port) : chan[p] = 0
     \/ Op(a).op \in {"recv", "try_recv"} /\ Receivers(Op(a).port) = {}
  /\ Errs(a, Tail(todo[a]))
  /\ UNCHANGED <<stateVars, sched, mailbox, pool, pc, owes, chan, conn,
                 attached, dropped, apiVars, lost>>

\* Second half of send and recv: the scheduler is told.
Notify(t) ==
  /\ owes[t] # None
  /\ owes' = [owes EXCEPT ![t] = None]
  /\ IF sched = "up"
     THEN mailbox' = Append(mailbox, owes[t]) /\ UNCHANGED <<todo, res>>
     ELSE Errs(t, todo[t]) /\ UNCHANGED mailbox
  /\ UNCHANGED <<stateVars, sched, pool, pc, chan, conn, attached, dropped, apiVars, lost>>

\* The job returns: it sends RunEnd with the box, unless the body panicked or
\* the mailbox is gone, and then the box is dropped.
EndRun(a) ==
  /\ pc[a] = "run" /\ owes[a] = None /\ todo[a] = <<>>
  /\ pc' = [pc EXCEPT ![a] = "idle"]
  /\ IF sched = "up" /\ res[a] # "panic"
     THEN mailbox' = Append(mailbox, RunEnd(a, res[a])) /\ UNCHANGED lost
     ELSE lost' = lost \cup {a} /\ UNCHANGED mailbox
  /\ UNCHANGED <<stateVars, sched, pool, todo, res, owes, chan, conn, attached,
                 dropped, apiVars>>

-----------------------------------------------------------------------------
(* The exterior API.  Each call checks the owner's own tables and then      *)
(* sends one message; an expect fails when the scheduler's thread is gone.  *)

Calls(c, name) == Ready(c) /\ Op(c).op = name

Send(m) == mailbox' = Append(mailbox, m)

ApiFrame == UNCHANGED <<stateVars, sched, pool, res, owes, chan, conn, attached,
                        dropped, lost>>

\* self.agents.get(name), else AgentNotFound.
IsKnown_mut(a) == TRUE
IsKnown(a) == a \in known

\* A name the owner adds is new: add_node takes a fresh id for every call.
AddNode(c) ==
  /\ Calls(c, "add_node") /\ sched = "up"
  /\ LET a == Op(c).agent IN
     /\ a \notin known
     /\ Send(NewAgent(a))
     /\ known' = known \cup {a}
     /\ senders' = senders \cup {p \in InPorts \ Elements : Owner[p] = a}
  /\ Pop(c) /\ UNCHANGED <<pc, unlisted>> /\ ApiFrame

\* The agent must be known to the owner: AgentNotFound is returned otherwise.
StartAgent(c) ==
  /\ Calls(c, "start_agent") /\ sched = "up"
  /\ LET a == Op(c).agent IN
     IF IsKnown(a) THEN Send(Start(a)) ELSE UNCHANGED mailbox
  /\ Pop(c) /\ UNCHANGED <<pc, apiVars>> /\ ApiFrame

\* connect and its array forms: both agents known, the sender available.
Connect(c) ==
  /\ Calls(c, "connect") /\ sched = "up"
  /\ LET o == Op(c).port  p == Op(c).to IN
     IF IsKnown(From[o]) /\ IsKnown(Owner[p]) /\ p \in senders \ unlisted
     THEN Send(Edit(From[o], [kind |-> "connect", port |-> o, to |-> p]))
     ELSE UNCHANGED mailbox
  /\ Pop(c) /\ UNCHANGED <<pc, apiVars>> /\ ApiFrame

\* The senders that the owner's table has for the port or element of p.
Listed(p) == {q \in senders \ unlisted : Slot[q] = Slot[p]}

\* A new channel p is made for an element of an agent, which is sent its receiver.
HandReceiver(p) ==
  /\ p \notin senders
  /\ senders' = senders \cup {p}
  /\ Send(Edit(Owner[p], [kind |-> "element", port |-> p]))

\* add_input_array_element puts a new channel in the place of the one that the
\* element may have; soft_add_input_array_element leaves an element it finds.
AddElement(c) ==
  /\ Ready(c) /\ Op(c).op \in {"add_element", "soft_add_element"} /\ sched = "up"
  /\ LET p == Op(c).port IN
     IF IsKnown(Owner[p]) /\ (Op(c).op = "soft_add_element" => Listed(p) = {})
     THEN HandReceiver(p) /\ unlisted' = unlisted \cup Listed(p)
     ELSE UNCHANGED <<mailbox, senders, unlisted>>
  /\ Pop(c) /\ UNCHANGED <<pc, known>> /\ ApiFrame

\* set_array_receiver: the caller made the channel and keeps its sender, and the
\* owner's table stays as it is.
SetReceiver(c) ==
  /\ Calls(c, "set_receiver") /\ sched = "up"
  /\ LET p == Op(c).port IN
     IF IsKnown(Owner[p])
     THEN HandReceiver(p) /\ unlisted' = unlisted \cup {p}
     ELSE UNCHANGED <<mailbox, senders, unlisted>>
  /\ Pop(c) /\ UNCHANGED <<pc, known>> /\ ApiFrame

\* disconnect, disconnect_array, add_output_array_element and set_receiver.
Disconnect(c) ==
  /\ Calls(c, "disconnect") /\ sched = "up"
  /\ LET a == From[Op(c).port] IN
     IF IsKnown(a) THEN Send(Edit(a, [kind |-> "unimplemented"]))
                    ELSE UNCHANGED mailbox
  /\ Pop(c) /\ UNCHANGED <<pc, apiVars>> /\ ApiFrame

\* set_array_receiver with a port the agent does not have: nothing checks it.
BadReceiver(c) ==
  /\ Calls(c, "bad_receiver") /\ sched = "up"
  /\ LET a == Op(c).agent IN
     IF IsKnown(a) THEN Send(Edit(a, [kind |-> "unknown_port"]))
                    ELSE UNCHANGED mailbox
  /\ Pop(c) /\ UNCHANGED <<pc, apiVars>> /\ ApiFrame

Join(c) ==
  /\ Calls(c, "join") /\ sched = "up"
  /\ Send(HaltState)
  /\ pc' = [pc EXCEPT ![c] = "joining"]
  /\ Pop(c) /\ UNCHANGED apiVars /\ ApiFrame

\* The scheduler's thread ended: th.join() returns.
Joined(c) ==
  /\ pc[c] = "joining" /\ sched = "halted"
  /\ pc' = [pc EXCEPT ![c] = "joined"]
  /\ UNCHANGED <<stateVars, sched, mailbox, pool, todo, res, owes, chan, conn,
                 attached, dropped, apiVars, lost>>

\* An expect of the exterior API fails, or that of join on a panicked thread.
ClientPanics(c) ==
  /\ \/ Ready(c) /\ Op(c).op # "send" /\ sched # "up"
     \/ pc[c] = "joining" /\ sched = "panicked"
  /\ pc' = [pc EXCEPT ![c] = "panicked"]
  /\ UNCHANGED <<stateVars, sched, mailbox, pool, todo, res, owes, chan, conn,
                 attached, dropped, apiVars, lost>>

-----------------------------------------------------------------------------
(* The interior scheduler: one action per message it takes.                 *)

Receive(m) == sched = "up" /\ mailbox # <<>> /\ Head(mailbox) = m

SchedFrame == UNCHANGED <<todo, res, owes, chan, apiVars>>

\* fn run: the box leaves SchedState in a job for the pool.
Run_mut_keeps(a) ==
  /\ UNCHANGED home
  /\ running' = IF a \in is_run THEN running ELSE running + 1
  /\ is_run' = is_run \cup {a}
  /\ pool' = Append(pool, a)
  /\ pc' = [pc EXCEPT ![a] = "queued"]

Run_mut_counts(a) ==
  /\ home' = home \ {a}
  /\ running' = running + 1
  /\ is_run' = is_run \cup {a}
  /\ pool' = Append(pool, a)
  /\ pc' = [pc EXCEPT ![a] = "queued"]

Run(a) ==
  /\ home' = home \ {a}
  /\ running' = IF a \in is_run THEN running ELSE running + 1
  /\ is_run' = is_run \cup {a}
  /\ pool' = Append(pool, a)
  /\ pc' = [pc EXCEPT ![a] = "queued"]

NoRun == UNCHANGED <<home, running, is_run, pool, pc>>

SchedNewAgent(a) ==
  /\ Receive(NewAgent(a))
  /\ agents' = agents \cup {a}
  /\ home' = home \cup {a}
  /\ is_run' = is_run \ {a}
  /\ can_run' = can_run \ {a}
  /\ ips' = [ips EXCEPT ![a] = 0]
  /\ edit_msgs' = [edit_msgs EXCEPT ![a] = <<>>]
  /\ mailbox' = Tail(mailbox)
  /\ UNCHANGED <<running, can_halt, sched, pool, pc, conn, attached, dropped, lost>>
  /\ SchedFrame

\* fn inc: the message that makes ips positive wakes the agent that is here.
Wakes_mut(a) == a \in agents \cap home /\ ips[a] + 1 >= 0
Wakes(a) == a \in agents \cap home /\ ips[a] + 1 > 0

\* Unknown ids are ignored: senders of exterior ports use them.
SchedInc(a) ==
  /\ Receive(Inc(a))
  /\ ips' = IF a \in agents THEN [ips EXCEPT ![a] = @ + 1] ELSE ips
  /\ IF Wakes(a) THEN Run(a) ELSE NoRun
  /\ mailbox' = Tail(mailbox)
  /\ UNCHANGED <<agents, can_run, edit_msgs, can_halt, sched, conn, attached, dropped, lost>>
  /\ SchedFrame

SchedDec(a) ==
  /\ Receive(Dec(a))
  /\ ips' = IF a \in agents THEN [ips EXCEPT ![a] = @ - 1] ELSE ips
  /\ mailbox' = Tail(mailbox)
  /\ NoRun
  /\ UNCHANGED <<agents, can_run, edit_msgs, can_halt, sched, conn, attached, dropped, lost>>
  /\ SchedFrame

SchedStart(a) ==
  /\ Receive(Start(a)) /\ a \in agents
  /\ can_run' = can_run \cup {a}
  /\ IF a \in home THEN Run(a) ELSE NoRun
  /\ mailbox' = Tail(mailbox)
  /\ UNCHANGED <<agents, ips, edit_msgs, can_halt, sched, conn, attached, dropped, lost>>
  /\ SchedFrame

\* The test of running, a usize, before Halt is sent.
NoneRuns_mut(n) == n <= 1
NoneRuns_mut_never(n) == n < 0
NoneRuns(n) == n <= 0

SchedHaltState ==
  /\ Receive(HaltState)
  /\ can_halt' = TRUE
  /\ mailbox' = IF NoneRuns(running) THEN Append(Tail(mailbox), Halt) ELSE Tail(mailbox)
  /\ NoRun
  /\ UNCHANGED <<agents, can_run, ips, edit_msgs, sched, conn, attached, dropped, lost>>
  /\ SchedFrame

\* The thread ends: SchedState and the mailbox are dropped with every box in
\* them; a job that was given to the pool still runs.
Stop(how) ==
  /\ sched' = how
  /\ mailbox' = <<>>
  /\ home' = {}
  /\ lost' = lost \cup {a \in Agents : pc[a] = "idle"}
  /\ UNCHANGED <<agents, is_run, can_run, ips, edit_msgs, running, can_halt, pool,
                 pc, conn, attached, dropped>>
  /\ SchedFrame

SchedHalt == Receive(Halt) /\ Stop("halted")

\* What an edit does to the agent: connect and element succeed.
Succeeds(e) == e.kind \in {"connect", "element"}

\* The receiver of p and that of q are for one element, whose map has one place.
Replaces(p, q) == p # q /\ Slot[p] = Slot[q]

Apply(e) ==
  /\ conn' = IF e.kind = "connect" THEN [conn EXCEPT ![e.port] = e.to] ELSE conn
  /\ attached' = IF e.kind = "element" THEN attached \cup {e.port} ELSE attached
  /\ dropped' = IF e.kind = "element"
                THEN dropped \cup {q \in attached : Replaces(e.port, q)} ELSE dropped

EditsNow_mut(a) == a \in agents
EditsNow(a) == a \in home

\* fn edit_agent: apply now when the box is here, else keep for the end of the
\* run.  A failed edit of a box that is here only reports its error.
SchedEdit(a, e) ==
  /\ Receive(Edit(a, e)) /\ a \in agents
  /\ EditsNow(a) => e.kind # "unimplemented"
  /\ IF EditsNow(a)
     THEN /\ UNCHANGED edit_msgs
          /\ IF Succeeds(e) THEN Apply(e) ELSE UNCHANGED <<conn, attached, dropped>>
     ELSE /\ edit_msgs' = [edit_msgs EXCEPT ![a] = Append(@, e)]
          /\ UNCHANGED <<conn, attached, dropped>>
  /\ mailbox' = Tail(mailbox)
  /\ NoRun
  /\ UNCHANGED <<agents, can_run, ips, can_halt, sched, lost>>
  /\ SchedFrame

\* The edits kept during a run, applied in order: the last connect of a port
\* is the one that stays, and so is the last receiver of an element.
ApplyAll(es) ==
  LET Connects(o) == {j \in 1..Len(es) : es[j].kind = "connect" /\ es[j].port = o}
      Hands == {j \in 1..Len(es) : es[j].kind = "element"}
  IN /\ conn' = [o \in OutPorts |-> IF Connects(o) = {} THEN conn[o]
                                    ELSE es[Greatest(Connects(o))].to]
     /\ attached' = attached \cup {es[j].port : j \in Hands}
     /\ dropped' = dropped
          \cup {q \in attached : \E j \in Hands : Replaces(es[j].port, q)}
          \cup {es[i].port : i \in {h \in Hands : \E j \in Hands :
                                    j > h /\ Replaces(es[j].port, es[h].port)}}

AllSucceed(es) == \A j \in 1..Len(es) : Succeeds(es[j])

\* The first edit that does not succeed has this kind.
FirstFailure(es, kind) ==
  \E j \in 1..Len(es) : /\ es[j].kind = kind
                        /\ \A k \in 1..(j - 1) : Succeeds(es[k])

MustRestart_mut(a) == ips[a] > 1
MustRestart_mut_always(a) == TRUE
MustRestart(a) == ips[a] > 0

\* fn run_end, the box is kept: run again when messages wait, else put the box
\* back, and halt when this was the last one.
SchedRunEnd(a, r) ==
  /\ Receive(RunEnd(a, r)) /\ a \in agents
  /\ AllSucceed(edit_msgs[a])
  /\ ApplyAll(edit_msgs[a])
  /\ edit_msgs' = [edit_msgs EXCEPT ![a] = <<>>]
  /\ IF MustRestart(a)
     THEN Run(a) /\ mailbox' = Tail(mailbox)
     ELSE LET stops == r = "End" /\ a \in is_run IN
          /\ home' = home \cup {a}
          /\ running' = IF stops THEN running - 1 ELSE running
          /\ is_run' = IF stops THEN is_run \ {a} ELSE is_run
          /\ mailbox' = IF NoneRuns(running') /\ can_halt
                        THEN Append(Tail(mailbox), Halt) ELSE Tail(mailbox)
          /\ UNCHANGED <<pool, pc>>
  /\ UNCHANGED <<agents, can_run, ips, can_halt, sched, lost>>
  /\ SchedFrame

\* fn run_end, an edit fails: the early return drops the box, and the counters
\* stay as they were.
SchedRunEndLoses(a, r) ==
  /\ Receive(RunEnd(a, r)) /\ a \in agents
  /\ FirstFailure(edit_msgs[a], "unknown_port")
  /\ edit_msgs' = [edit_msgs EXCEPT ![a] = <<>>]
  /\ lost' = lost \cup {a}
  /\ mailbox' = Tail(mailbox)
  /\ NoRun
  /\ UNCHANGED <<agents, can_run, ips, can_halt, sched, conn, attached, dropped>>
  /\ SchedFrame

\* unimplemented!(), or an expect on an agent that is not in the table.
SchedPanics ==
  /\ \E a \in Agents :
       \/ Receive(Start(a)) /\ a \notin agents
       \/ \E e \in EditCmp :
            /\ Receive(Edit(a, e))
            /\ a \notin agents \/ (EditsNow(a) /\ e.kind = "unimplemented")
       \/ \E r \in Results :
            /\ Receive(RunEnd(a, r))
            /\ a \notin agents \/ FirstFailure(edit_msgs[a], "unimplemented")
  /\ Stop("panicked")

-----------------------------------------------------------------------------
AgentStep(a) == Put(a) \/ PutFails(a) \/ Get(a) \/ GetFails(a) \/ Notify(a) \/ EndRun(a)

ClientStep(c) ==
  \/ Put(c) \/ PutFails(c) \/ Notify(c)
  \/ AddNode(c) \/ StartAgent(c) \/ Connect(c)
  \/ AddElement(c) \/ SetReceiver(c)
  \/ Disconnect(c) \/ BadReceiver(c) \/ Join(c) \/ Joined(c) \/ ClientPanics(c)

SchedStep ==
  \/ \E a \in Agents : \/ SchedNewAgent(a) \/ SchedInc(a) \/ SchedDec(a) \/ SchedStart(a)
                       \/ \E e \in EditCmp : SchedEdit(a, e)
                       \/ \E r \in Results : SchedRunEnd(a, r) \/ SchedRunEndLoses(a, r)
  \/ SchedHaltState \/ SchedHalt \/ SchedPanics

\* Nothing is left to do: every client is through, no job, no message.
Terminated ==
  /\ \A c \in Clients : pc[c] # "joining" /\ ~Ready(c)
  /\ \A t \in Threads : owes[t] = None
  /\ \A a \in Agents : pc[a] = "idle"
  /\ mailbox = <<>>
  /\ UNCHANGED vars

Next ==
  \/ StartJob
  \/ \E a \in Agents : AgentStep(a)
  \/ \E c \in Clients : ClientStep(c)
  \/ SchedStep
  \/ Terminated

Spec == Init /\ [][Next]_vars

\* Threads are scheduled by the operating system: one that can go on does.
Fairness ==
  /\ WF_vars(StartJob)
  /\ \A a \in Agents : WF_vars(AgentStep(a))
  /\ \A c \in Clients : WF_vars(ClientStep(c))
  /\ WF_vars(SchedStep)

FairSpec == Spec /\ Fairness
=============================================================================
