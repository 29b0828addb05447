------------------------------- MODULE Rktfbp -------------------------------
(***************************************************************************)
(* The Racket runtime (modules/rkt/rkt-fbp): a scheduler's thread with one *)
(* mailbox, a thread for each run of an agent, and bounded channels.       *)
(*                                                                         *)
(* A run works with the agent as it was in the table when the run began:   *)
(* edits change the table only.  A channel is the port or the element that *)
(* it was made for, with a number, since an element may be made again.     *)
(* A run that raises an exception is a body that is cut short, for its     *)
(* thread posts its msg-run-end all the same.                              *)
(*                                                                         *)
(* An agent is what one msg-add-agent makes: a name that is added again    *)
(* stands for another agent from then on, with ports of its own.  Of the   *)
(* earlier one its thread, its senders and its notices may be left; the    *)
(* notices say the name only, and the later agent takes them for its own.  *)
(***************************************************************************)
EXTENDS Integers, Sequences, FiniteSets

CONSTANTS
  Agents, InPorts, OutPorts,
  Name,       \* [Agents -> names]
  Owner,      \* [InPorts -> Agents]
  From,       \* [OutPorts -> Agents]
  Silent,     \* the acc and option ports, which are not sync
  Options,    \* the option ports
  Elements,   \* the input ports that are elements of array ports
  NoInput,    \* the agents with no input port: msg-start starts them
  Wired,      \* [OutPorts -> the channels of acc ports, or None]
  Capacity,   \* of a channel, 30 in the code
  Messages,   \* what the channels carry
  Bodies,     \* [Agents -> sets of sequences]: what a run may do
  Scripts,    \* what the holder of the scheduler posts: each a sequence
  None, False \* no value; the message #f

VARIABLES
  agents,          \* the agents in the table
  number_ips, is_running,   \* of an agent-state; left as they were, and of no
                            \* effect, when the agent is no longer in the table
  outport, in_array,        \* of an agent: its senders; its elements
  number_running, will_stop, mail_box,
  sched,           \* "up", "stopped", or "dead" of an exception
  starting,        \* in msg-start: the agents still to start
  chan,            \* the messages in each channel
  made,            \* how often an element was made
  pc, todo, input, \* of an agent's thread; input: the agent as it was then
  acc,             \* the value that recv-option holds
  owes,            \* the message that a thread is about to post
  script, client,  \* what is left to post; "posts", "waits" or "returned"
  missed,          \* history: the messages #f that try-recv took
  strays,          \* history: by how much the notices that an agent took of
                   \* others of its name changed its count, less what these took
  strayed          \* history: the agents that took such a notice, or lost one

table == <<agents, number_ips, is_running, outport, in_array, number_running, will_stop, made,
           strays, strayed>>
runs == <<pc, todo, input, acc>>
vars == <<table, mail_box, sched, starting, chan, runs, owes, script, client, missed>>

Inc(a) == [type |-> "inc-ip", agt |-> a]
Dec(a) == [type |-> "dec-ip", agt |-> a]
RunEnd(a) == [type |-> "run-end", agt |-> a]

Notice == [type : {"inc-ip", "dec-ip"}, agt : Agents]

\* What the holder of the scheduler may post.
ClientMsg ==
  [type : {"add-agent", "remove-agent", "start-agent"}, agt : Agents]
    \cup [type : {"connect", "raw-connect"}, out : OutPorts, in : InPorts \ Elements]
    \cup [type : {"disconnect"}, out : OutPorts]
    \cup [type : {"connect-to-array", "disconnect-to-array"}, out : OutPorts, in : Elements]
    \cup [type : {"mesg"}, in : InPorts \ Elements, msg : Messages]
    \cup [type : {"start", "stop"}]

\* What the procedure of an agent may call.
AgentOp(a) ==
  [op : {"send"}, port : {o \in OutPorts : From[o] = a}, msg : Messages]
    \cup [op : {"recv", "try-recv"}, port : {p \in InPorts : Owner[p] = a}]

Simple(p) == <<p, 0>>

ASSUME AgentsAssumption ==
  IsFiniteSet(Agents) /\ "sched" \notin Agents /\ NoInput \subseteq Agents /\ DOMAIN Name = Agents

ASSUME PortsAssumption ==
  /\ IsFiniteSet(InPorts) /\ IsFiniteSet(OutPorts)
  /\ Owner \in [InPorts -> Agents] /\ From \in [OutPorts -> Agents]
  /\ Elements \subseteq InPorts /\ Silent \subseteq InPorts \ Elements /\ Options \subseteq Silent
  /\ Wired \in [OutPorts -> {Simple(p) : p \in Silent} \cup {None}]
  /\ Capacity \in Nat \ {0}

\* No value is neither a channel nor a notice.
ASSUME ValuesAssumption == False \in Messages /\ None \notin InPorts \X Nat /\ None \notin Notice

\* The agents whose names a message for the scheduler has, notices apart.
Names(m) ==
  IF m.type \in {"connect", "connect-to-array", "disconnect-to-array"}
  THEN {From[m.out], Owner[m.in]}
  ELSE IF m.type \in {"disconnect", "raw-connect"} THEN {From[m.out]}
  ELSE IF m.type = "mesg" THEN {Owner[m.in]}
  ELSE IF m.type = "start-agent" THEN {m.agt}
  ELSE {}

\* The script s adds the agent a at i.
AddsAt(s, i, a) == s[i] = [type |-> "add-agent", agt |-> a]

\* An agent's procedure uses its own ports.  Each msg-add-agent makes an agent of
\* its own, and a name in a script stands for the agent that was added last.
ASSUME ProgramAssumption ==
  /\ \A a \in Agents : Bodies[a] \subseteq Seq(AgentOp(a))
  /\ Scripts \subseteq Seq(ClientMsg)
  /\ \A s \in Scripts : \A i, j \in 1..Len(s) : s[i].type = "add-agent" /\ s[i] = s[j] => i = j
  /\ \A s \in Scripts : \A i \in 1..Len(s) : \A a \in Names(s[i]), b \in Agents :
       \A j \in 1..i : b # a /\ Name[b] = Name[a] /\ AddsAt(s, j, b) =>
         \E k \in j..i : AddsAt(s, k, a)

Channels == DOMAIN chan
Sync(c) == c[1] \notin Silent

Gone == [nbr |-> 0, port |-> None]

Init ==
  /\ agents = {} /\ is_running = {} /\ number_ips = [a \in Agents |-> 0]
  /\ outport = Wired /\ in_array = [e \in Elements |-> Gone]
  /\ number_running = 0 /\ will_stop = FALSE /\ mail_box = <<>>
  /\ sched = "up" /\ starting = {}
  /\ chan = [c \in {Simple(p) : p \in InPorts \ Elements} |-> <<>>]
  /\ made = [e \in Elements |-> 0]
  /\ pc = [a \in Agents |-> "idle"] /\ todo = [a \in Agents |-> <<>>]
  /\ input = [a \in Agents |-> None] /\ acc = [a \in Agents |-> False]
  /\ owes = [t \in Agents \cup {"sched"} |-> None]
  /\ script \in Scripts /\ client = "posts"
  /\ missed = [a \in Agents |-> 0] /\ strays = [a \in Agents |-> 0] /\ strayed = {}

Post(m) == mail_box' = Append(mail_box, m)

-----------------------------------------------------------------------------
(* The thread of a run.                                                     *)

Op(a) == Head(todo[a])
May(a, op) == pc[a] = "run" /\ owes[a] = None /\ todo[a] # <<>> /\ Op(a).op = op

\* The operation is over; what is left of it is the operation op.
Done(a) == todo' = [todo EXCEPT ![a] = Tail(@)]
GoesOn(a, op) == todo' = [todo EXCEPT ![a] = <<[op |-> op, port |-> Op(a).port]>> \o Tail(@)]

In(a) == IF Op(a).port \in Elements THEN input[a].in_array[Op(a).port] ELSE Simple(Op(a).port)
Holds(a) == In(a) # None /\ chan[In(a)] # <<>>
First(a) == Head(chan[In(a)])
Taken(a) == chan' = [chan EXCEPT ![In(a)] = Tail(@)]

ThreadFrame == UNCHANGED <<table, sched, starting, pc, input, script, client>>

\* send: the message, then the msg-inc-ip.  A port that is not connected
\* swallows it.
Send(a) ==
  /\ May(a, "send")
  /\ LET c == input[a].outport[Op(a).port] IN
     \/ c = None /\ UNCHANGED <<chan, owes>>
     \/ /\ c # None /\ Len(chan[c]) < Capacity
        /\ chan' = [chan EXCEPT ![c] = Append(@, Op(a).msg)]
        /\ owes' = [owes EXCEPT ![a] = IF Sync(c) THEN Inc(Owner[c[1]]) ELSE None]
  /\ Done(a)
  /\ ThreadFrame /\ UNCHANGED <<mail_box, acc, missed>>

\* recv: the msg-dec-ip, then the message.
Recv(a) ==
  /\ May(a, "recv") /\ Op(a).port \notin Options /\ In(a) # None
  /\ IF Sync(In(a)) THEN Post(Dec(a)) ELSE UNCHANGED mail_box
  /\ GoesOn(a, "get")
  /\ ThreadFrame /\ UNCHANGED <<chan, acc, owes, missed>>

Get(a) ==
  /\ May(a, "get") /\ Holds(a) /\ Taken(a) /\ Done(a)
  /\ ThreadFrame /\ UNCHANGED <<mail_box, acc, owes, missed>>

\* try-recv: a message, and its msg-dec-ip; or none, or the message #f, which is
\* taken for none.
TryRecv_mut(a) ==
  /\ May(a, "try-recv") /\ Op(a).port \notin Options /\ In(a) # None
  /\ \/ ~Holds(a) /\ UNCHANGED <<chan, owes, missed>>
     \/ /\ Holds(a) /\ Taken(a)
        /\ owes' = [owes EXCEPT ![a] = None]
        /\ missed' = missed
  /\ Done(a)
  /\ ThreadFrame /\ UNCHANGED <<mail_box, acc>>
TryRecv(a) ==
  /\ May(a, "try-recv") /\ Op(a).port \notin Options /\ In(a) # None
  /\ \/ ~Holds(a) /\ UNCHANGED <<chan, owes, missed>>
     \/ /\ Holds(a) /\ Taken(a)
        /\ owes' = [owes EXCEPT ![a] = IF First(a) # False /\ Sync(In(a)) THEN Dec(a) ELSE None]
        /\ missed' = IF First(a) = False /\ Sync(In(a)) THEN [missed EXCEPT ![a] = @ + 1] ELSE missed
  /\ Done(a)
  /\ ThreadFrame /\ UNCHANGED <<mail_box, acc>>

\* An element that is not there: the body goes over those that are, or asks for
\* this one and raises.
NoElement(a) ==
  /\ May(a, "recv") \/ May(a, "try-recv")
  /\ In(a) = None
  /\ Done(a) \/ todo' = [todo EXCEPT ![a] = <<>>]
  /\ ThreadFrame /\ UNCHANGED <<mail_box, chan, acc, owes, missed>>

\* recv-option: the first message, if it is to be waited for or is there, then
\* all that are there; the last is put back.
RecvOption(a) ==
  /\ May(a, "recv") \/ May(a, "try-recv")
  /\ Op(a).port \in Options
  /\ \/ /\ Holds(a) /\ Taken(a)
        /\ acc' = [acc EXCEPT ![a] = First(a)]
        /\ IF First(a) = False THEN Done(a) ELSE GoesOn(a, "drain")
     \/ /\ Op(a).op = "try-recv" /\ ~Holds(a)
        /\ Done(a) /\ UNCHANGED <<chan, acc>>
  /\ ThreadFrame /\ UNCHANGED <<mail_box, owes, missed>>

Drain(a) ==
  /\ May(a, "drain")
  /\ \/ /\ ~Holds(a) /\ GoesOn(a, "put back") /\ UNCHANGED <<chan, acc>>
     \/ /\ Holds(a) /\ Taken(a) /\ First(a) = False
        /\ GoesOn(a, "put back") /\ UNCHANGED acc
     \/ /\ Holds(a) /\ Taken(a) /\ First(a) # False
        /\ acc' = [acc EXCEPT ![a] = First(a)] /\ UNCHANGED todo
  /\ ThreadFrame /\ UNCHANGED <<mail_box, owes, missed>>

PutBack_mut(a) ==
  /\ May(a, "put back") /\ Done(a)
  /\ ThreadFrame /\ UNCHANGED <<chan, mail_box, acc, owes, missed>>
PutBack(a) ==
  /\ May(a, "put back") /\ Len(chan[In(a)]) < Capacity
  /\ chan' = [chan EXCEPT ![In(a)] = Append(@, acc[a])]
  /\ Done(a)
  /\ ThreadFrame /\ UNCHANGED <<mail_box, acc, owes, missed>>

\* What a thread owes is posted.
Notify(t) ==
  /\ owes[t] # None
  /\ Post(owes[t]) /\ owes' = [owes EXCEPT ![t] = None]
  /\ UNCHANGED <<table, sched, starting, chan, runs, script, client, missed>>

\* The procedure returned or raised.
EndRun(a) ==
  /\ pc[a] = "run" /\ owes[a] = None /\ todo[a] = <<>>
  /\ pc' = [pc EXCEPT ![a] = "idle"] /\ Post(RunEnd(a))
  /\ UNCHANGED <<table, sched, starting, chan, todo, input, acc, owes, script, client, missed>>

Thread(a) ==
  \/ Send(a) \/ Recv(a) \/ Get(a) \/ TryRecv(a) \/ NoElement(a)
  \/ RecvOption(a) \/ Drain(a) \/ PutBack(a) \/ Notify(a) \/ EndRun(a)

-----------------------------------------------------------------------------
(* The scheduler's thread.                                                  *)

\* exec-agent, for an agent with ips messages; ran is the running ones before.  An
\* agent that an earlier one's msg-run-end unmarked may get a second thread: that
\* is not followed, here the scheduler waits for the end of the first.
Starts(a, ran, ips, force) == a \notin ran /\ (force \/ ips > 0)

Snapshot(a) ==
  [outport |-> [o \in {o \in OutPorts : From[o] = a} |-> outport[o]],
   in_array |-> [e \in {e \in Elements : Owner[e] = a} |-> in_array[e].port]]

Exec(a, ran, count, ips, force) ==
  IF Starts(a, ran, ips, force)
  THEN /\ pc[a] = "idle"
       /\ is_running' = ran \cup {a} /\ number_running' = count + 1
       /\ pc' = [pc EXCEPT ![a] = "run"]
       /\ \E body \in Bodies[a] : todo' = [todo EXCEPT ![a] = body]
       /\ input' = [input EXCEPT ![a] = Snapshot(a)]
       /\ UNCHANGED acc
  ELSE is_running' = ran /\ number_running' = count /\ UNCHANGED runs

\* The next message, of this type; its agents are in the table.
Takes(type) ==
  /\ sched = "up" /\ owes["sched"] = None /\ starting = {}
  /\ mail_box # <<>> /\ Head(mail_box).type = type

Msg == Head(mail_box)

Handles(type) == Takes(type) /\ Names(Msg) \subseteq agents /\ mail_box' = Tail(mail_box)

MatchFrame == UNCHANGED <<sched, chan, owes, script, client, missed>>
Edits ==
  MatchFrame /\ UNCHANGED <<starting, runs, is_running, number_running, will_stop, strays, strayed>>

\* The agents in the table with other names.
Others(a) == {b \in agents : Name[b] # Name[a]}

AddAgent ==
  /\ Handles("add-agent")
  /\ agents' = Others(Msg.agt) \cup {Msg.agt}
  /\ number_ips' = [number_ips EXCEPT ![Msg.agt] = 0]
  /\ Edits /\ UNCHANGED <<outport, in_array, made>>

RemoveAgent ==
  /\ Handles("remove-agent")
  /\ agents' = Others(Msg.agt)
  /\ Edits /\ UNCHANGED <<number_ips, outport, in_array, made>>

AgentConnect(out, c) == outport' = [outport EXCEPT ![out] = c]
AgentDisconnect(out) == outport' = [outport EXCEPT ![out] = None]

\* msg-connect and msg-connect-array-to.
Connect ==
  /\ Handles("connect")
  /\ AgentConnect(Msg.out, Simple(Msg.in))
  /\ Edits /\ UNCHANGED <<agents, number_ips, in_array, made>>

\* msg-raw-connect: the sender is in the message, its agent in the table or not.
RawConnect ==
  /\ Handles("raw-connect")
  /\ AgentConnect(Msg.out, Simple(Msg.in))
  /\ Edits /\ UNCHANGED <<agents, number_ips, in_array, made>>

\* msg-disconnect and msg-disconnect-array-to.
Disconnect ==
  /\ Handles("disconnect")
  /\ AgentDisconnect(Msg.out)
  /\ Edits /\ UNCHANGED <<agents, number_ips, in_array, made>>

\* The table gets the receiver, then the sender, both made from the agents that
\* it had before: if they are one, only the sender is changed.
Receives(m, array) == IF Owner[m.in] = From[m.out] THEN in_array
                      ELSE [in_array EXCEPT ![m.in] = array]

\* One more output for the element e, which is made by the first.
Entered(e) ==
  IF in_array[e] # Gone THEN [in_array[e] EXCEPT !.nbr = @ + 1]
  ELSE [nbr |-> 1, port |-> <<e, made[e] + 1>>]

\* msg-connect-to-array and msg-connect-array-to-array.
ConnectToArray ==
  /\ Handles("connect-to-array")
  /\ LET e == Msg.in
         new == Entered(e) IN
     /\ in_array' = Receives(Msg, new)
     /\ AgentConnect(Msg.out, new.port)
     /\ IF in_array[e] # Gone THEN UNCHANGED <<made, chan>>
        ELSE /\ made' = [made EXCEPT ![e] = @ + 1]
             /\ chan' = [c \in Channels \cup {new.port} |-> IF c = new.port THEN <<>> ELSE chan[c]]
  /\ UNCHANGED <<agents, number_ips, is_running, number_running, will_stop, strays, strayed>>
  /\ UNCHANGED <<sched, starting, runs, owes, script, client, missed>>

\* msg-disconnect-to-array and msg-disconnect-array-to-array: the last removes it.
Left_mut(array) == IF array.nbr >= 1 THEN Gone ELSE array
Left(array) == IF array.nbr = 1 THEN Gone ELSE [array EXCEPT !.nbr = @ - 1]

DisconnectToArray ==
  /\ Handles("disconnect-to-array") /\ in_array[Msg.in] # Gone
  /\ in_array' = Receives(Msg, Left(in_array[Msg.in]))
  /\ AgentDisconnect(Msg.out)
  /\ Edits /\ UNCHANGED <<agents, number_ips, made>>

\* msg-mesg: the scheduler's own thread sends, and waits for room.
Mesg ==
  /\ Handles("mesg")
  /\ LET c == Simple(Msg.in) IN
     /\ Len(chan[c]) < Capacity
     /\ chan' = [chan EXCEPT ![c] = Append(@, Msg.msg)]
     /\ owes' = [owes EXCEPT !["sched"] = IF Sync(c) THEN Inc(Owner[Msg.in]) ELSE None]
  /\ UNCHANGED <<table, sched, starting, runs, script, client, missed>>

\* A notice is for the agent in the table that has the name in it, a; of is the
\* one that it was posted for.
Meets(a, type) == Handles(type) /\ Name[a] = Name[Msg.agt]
Strays(a, of, by) ==
  IF a = of THEN UNCHANGED <<strays, strayed>>
  ELSE /\ strays' = [strays EXCEPT ![a] = @ + by, ![of] = @ - by]
       /\ strayed' = strayed \cup {a, of}

IncIp ==
  \E a \in agents :
    /\ Meets(a, "inc-ip") /\ Strays(a, Msg.agt, 1)
    /\ number_ips' = [number_ips EXCEPT ![a] = @ + 1]
    /\ Exec(a, is_running, number_running, number_ips'[a], FALSE)
    /\ MatchFrame /\ UNCHANGED <<agents, outport, in_array, will_stop, made, starting>>

DecIp ==
  \E a \in agents :
    /\ Meets(a, "dec-ip") /\ Strays(a, Msg.agt, -1)
    /\ number_ips' = [number_ips EXCEPT ![a] = @ - 1]
    /\ MatchFrame /\ UNCHANGED <<agents, is_running, outport, in_array, number_running, will_stop, made>>
    /\ UNCHANGED <<starting, runs>>

\* The agent is run again at once for what came in meanwhile.
RunEnds(a, count, ips) ==
  /\ Meets(a, "run-end") /\ Strays(a, Msg.agt, 0)
  /\ Exec(a, is_running \ {a, Msg.agt}, count, ips, FALSE)
  /\ MatchFrame /\ UNCHANGED <<agents, number_ips, outport, in_array, will_stop, made, starting>>

HandleRunEnd_mut == \E a \in agents : RunEnds(a, number_running - 1, 0)
HandleRunEnd_mut_counts == \E a \in agents : RunEnds(a, number_running, number_ips[a])
HandleRunEnd == \E a \in agents : RunEnds(a, number_running - 1, number_ips[a])

\* msg-start starts the agents without inputs, one after the other.
Start ==
  /\ Handles("start")
  /\ starting' = agents \cap NoInput
  /\ MatchFrame /\ UNCHANGED <<table, runs>>

StartNext ==
  /\ sched = "up"
  /\ \E a \in starting :
       /\ Exec(a, is_running, number_running, number_ips[a], TRUE)
       /\ starting' = starting \ {a}
  /\ UNCHANGED <<agents, number_ips, outport, in_array, will_stop, made, mail_box, strays, strayed>>
  /\ MatchFrame

StartAgent ==
  /\ Handles("start-agent")
  /\ Exec(Msg.agt, is_running, number_running, number_ips[Msg.agt], TRUE)
  /\ MatchFrame
  /\ UNCHANGED <<agents, number_ips, outport, in_array, will_stop, made, starting, strays, strayed>>

Stop ==
  /\ Handles("stop")
  /\ will_stop' = TRUE
  /\ MatchFrame
  /\ UNCHANGED <<agents, number_ips, is_running, outport, in_array, number_running, made, starting>>
  /\ UNCHANGED <<runs, strays, strayed>>

\* hash-ref finds no agent, or no element: the exception ends the thread.
Raise ==
  /\ mail_box # <<>> /\ Takes(Msg.type)
  /\ \/ ~(Names(Msg) \subseteq agents)
     \/ Msg \in Notice \cup [type : {"run-end"}, agt : Agents] /\ \A a \in agents : Name[a] # Name[Msg.agt]
     \/ Msg.type = "disconnect-to-array" /\ in_array[Msg.in] = Gone
  /\ sched' = "dead" /\ mail_box' = Tail(mail_box)
  /\ UNCHANGED <<table, starting, chan, runs, owes, script, client, missed>>

\* scheduler-loop, when there is no message.
MayStop_mut == will_stop
MayStop == will_stop /\ number_running = 0

LoopEnds ==
  /\ sched = "up" /\ owes["sched"] = None /\ starting = {}
  /\ mail_box = <<>> /\ MayStop
  /\ sched' = "stopped"
  /\ UNCHANGED <<table, mail_box, starting, chan, runs, owes, script, client, missed>>

Scheduler ==
  \/ AddAgent \/ RemoveAgent \/ Connect \/ RawConnect \/ Disconnect \/ ConnectToArray \/ DisconnectToArray
  \/ Mesg \/ Notify("sched") \/ IncIp \/ DecIp \/ HandleRunEnd \/ Start \/ StartNext
  \/ StartAgent \/ Stop \/ Raise \/ LoopEnds

-----------------------------------------------------------------------------
(* The holder of the scheduler: it posts, and waits for the thread after    *)
(* msg-stop.                                                                *)

ClientPosts ==
  /\ client = "posts" /\ script # <<>>
  /\ Post(Head(script)) /\ script' = Tail(script)
  /\ client' = IF Head(script).type = "stop" THEN "waits" ELSE "posts"
  /\ UNCHANGED <<table, sched, starting, chan, runs, owes, missed>>

ClientReturns ==
  /\ client = "waits" /\ sched # "up" /\ client' = "returned"
  /\ UNCHANGED <<table, mail_box, sched, starting, chan, runs, owes, script, missed>>

Client == ClientPosts \/ ClientReturns

Next == Scheduler \/ Client \/ \E a \in Agents : Thread(a)

Spec == Init /\ [][Next]_vars

\* Racket's threads are preempted: each that can go on does.
FairSpec ==
  Spec /\ WF_vars(Scheduler) /\ WF_vars(Client) /\ \A a \in Agents : WF_vars(Thread(a))
=============================================================================
