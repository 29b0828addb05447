------------------------------ MODULE Exterior ------------------------------
(***************************************************************************)
(* The exterior scheduler of rustfbp: what its calls answer, and what they *)
(* make of the agents.  Its tables are the owner's; the agents belong to   *)
(* the interior scheduler, which edits them as the messages of the calls   *)
(* come in, or at the end of a run.  (Module Rustfbp has the runs, the     *)
(* messages between agents and the end; it takes the answers as given.)    *)
(*                                                                         *)
(* A simple port is an element "-" of itself.                              *)
(***************************************************************************)
EXTENDS Naturals, Sequences, SequencesExt

CONSTANTS
  Sorts,     \* the agents that can be loaded
  input, inarr, output, outarr,  \* for each sort, the schemas of its ports
  Loadable   \* the sorts whose dynamic library loads

BAny == "BAny"
Simple == "-"

VARIABLES
  agents,    \* HashMap: what the owner knows of the agent of each name
  id,        \* the next agent's
  made,      \* channels made for elements of array ports
  client,    \* the owner: "up", or "panicked"
  answer,    \* of its last call: "Ok" or the Error
  mailbox,   \* messages to the interior scheduler
  boxes      \* the agents, by id

vars == <<agents, id, made, client, answer, mailbox, boxes>>

Extend(f, x, v) == [y \in DOMAIN f \cup {x} |-> IF y = x THEN v ELSE f[y]]
Empty == [x \in {} |-> 0]

Init ==
  /\ agents = Empty /\ id = 0 /\ made = 0
  /\ client = "up" /\ answer = "Ok"
  /\ mailbox = <<>> /\ boxes = Empty

-----------------------------------------------------------------------------
(* The ports that a sort declares.  Every agent has the input ports option  *)
(* and accumulator, declared or not; only a declared one has a schema.      *)

InSchemas(sort, elem) == IF elem = Simple THEN input[sort] ELSE inarr[sort]
OutSchemas_mut(sort, elem) == output[sort]
OutSchemas(sort, elem) == IF elem = Simple THEN output[sort] ELSE outarr[sort]

Silent == {"option", "accumulator"}
IsInputPorts(sort) ==
  DOMAIN input[sort] \ Silent # {} \/ DOMAIN inarr[sort] # {}

\* The schemas match: they are the same or one of them is BAny.
Match_mut(in, out) == BAny \in {in, out} \/ in # out
Match(in, out) == BAny \in {in, out} \/ in = out

\* Channel n of an element; a simple port has one from the start.
Channel(i, port, elem, n) == [id |-> i, port |-> port, elem |-> elem, n |-> n]

-----------------------------------------------------------------------------
(* The calls.                                                               *)

Post(m) == mailbox' = Append(mailbox, m)
Answer(a) == client = "up" /\ answer' = a /\ UNCHANGED <<client, boxes>>
NoChange == UNCHANGED <<agents, id, made, mailbox>>
Fails(e) == Answer(e) /\ NoChange
Panics == client = "up" /\ client' = "panicked" /\ UNCHANGED <<answer, boxes>> /\ NoChange

Known(name) == name \in DOMAIN agents

\* add_node, with the cache's create_comp and the agent's new.
AddNode(name, sort) ==
  \/ sort \notin Loadable /\ Panics
  \/ /\ sort \in Loadable /\ Answer("Ok")
     /\ agents' = Extend(agents, name,
          [id |-> id, sort |-> sort, start |-> ~IsInputPorts(sort), elements |-> Empty])
     /\ Post([type |-> "NewAgent", id |-> id, sort |-> sort])
     /\ id' = id + 1 /\ UNCHANGED made

\* get_sender and get_array_sender, once the agent is known: the channel, if
\* there is one.
HasSender(name, port, elem) ==
  IF elem = Simple THEN port \in DOMAIN input[agents[name].sort] \cup Silent
  ELSE <<port, elem>> \in DOMAIN agents[name].elements

Sender(name, port, elem) ==
  IF elem = Simple THEN Channel(agents[name].id, port, elem, 0)
  ELSE agents[name].elements[<<port, elem>>]

SenderError(port, name) ==
  IF \E e \in DOMAIN agents[name].elements : e[1] = port THEN "ElementNotFound"
  ELSE "PortNotFound"

\* connect, connect_array, connect_to_array and connect_array_to_array: out and
\* in are an agent's name, its port and its element.
Connect(out, in) ==
  \/ ~(Known(out.comp) /\ Known(in.comp)) /\ Fails("AgentNotFound")
  \/ /\ Known(out.comp) /\ Known(in.comp)
     /\ LET ins == InSchemas(agents[in.comp].sort, in.elem)
            outs == OutSchemas(agents[out.comp].sort, out.elem)
        IN \/ ~(in.port \in DOMAIN ins /\ out.port \in DOMAIN outs) /\ Panics
           \/ /\ in.port \in DOMAIN ins /\ out.port \in DOMAIN outs
              /\ \/ ~Match(ins[in.port], outs[out.port]) /\ Fails("BadSchema")
                 \/ /\ Match(ins[in.port], outs[out.port])
                    /\ ~HasSender(in.comp, in.port, in.elem)
                    /\ Fails(SenderError(in.port, in.comp))
                 \/ /\ Match(ins[in.port], outs[out.port])
                    /\ HasSender(in.comp, in.port, in.elem)
                    /\ Answer("Ok")
                    /\ Post([type |-> "Connect", id |-> agents[out.comp].id, port |-> out.port,
                             elem |-> out.elem, chan |-> Sender(in.comp, in.port, in.elem)])
                    /\ UNCHANGED <<agents, id, made>>

\* add_input_array_element: the channel of an element that is there is replaced.
AddElement(name, port, elem) ==
  \/ ~Known(name) /\ Fails("AgentNotFound")
  \/ Known(name) /\ port \notin DOMAIN inarr[agents[name].sort] /\ Panics
  \/ /\ Known(name) /\ port \in DOMAIN inarr[agents[name].sort] /\ Answer("Ok")
     /\ LET chan == Channel(agents[name].id, port, elem, made) IN
        /\ agents' = [agents EXCEPT ![name].elements = Extend(@, <<port, elem>>, chan)]
        /\ Post([type |-> "AddInputArrayElement", id |-> agents[name].id, port |-> port,
                 elem |-> elem, chan |-> chan])
     /\ made' = made + 1 /\ UNCHANGED id

IsThere_mut(name, port, elem) == FALSE
IsThere(name, port, elem) == Known(name) /\ <<port, elem>> \in DOMAIN agents[name].elements

SoftAddElement(name, port, elem) ==
  \/ IsThere(name, port, elem) /\ Fails("Ok")
  \/ ~IsThere(name, port, elem) /\ AddElement(name, port, elem)

\* start_if_needed, start_agent.
StartIfNeeded(name) ==
  \/ ~Known(name) /\ Fails("AgentNotFound")
  \/ Known(name) /\ ~agents[name].start /\ Fails("Ok")
  \/ /\ Known(name) /\ agents[name].start /\ Answer("Ok")
     /\ Post([type |-> "Start", id |-> agents[name].id])
     /\ UNCHANGED <<agents, id, made>>

StartAgent(name) ==
  \/ ~Known(name) /\ Fails("AgentNotFound")
  \/ /\ Known(name) /\ Answer("Ok")
     /\ Post([type |-> "Start", id |-> agents[name].id])
     /\ UNCHANGED <<agents, id, made>>

\* get_sender or get_array_sender, and a message sent with it.  An undeclared
\* option or accumulator is found, but not cloned.
Clones(name, port, elem) == port \in DOMAIN InSchemas(agents[name].sort, elem)

Send(name, port, elem) ==
  \/ ~Known(name) /\ Fails("AgentNotFound")
  \/ /\ Known(name) /\ ~HasSender(name, port, elem)
     /\ Fails(IF elem = Simple THEN "PortNotFound" ELSE SenderError(port, name))
  \/ Known(name) /\ HasSender(name, port, elem) /\ ~Clones(name, port, elem) /\ Panics
  \/ /\ Known(name) /\ HasSender(name, port, elem) /\ Clones(name, port, elem)
     /\ Answer("Ok")
     /\ IF port \in Silent THEN UNCHANGED mailbox
        ELSE Post([type |-> "Inc", id |-> agents[name].id])
     /\ UNCHANGED <<agents, id, made>>

-----------------------------------------------------------------------------
(* The interior scheduler.                                                  *)

\* An agent: outs and ins are its senders and its receivers of elements, edits
\* what waits for the end of its run, ran whether it was ever run.
NewBox(sort) ==
  [sort |-> sort, outs |-> Empty, ins |-> Empty, edits |-> <<>>, busy |-> FALSE, ran |-> FALSE]

\* The edits es of this type, made in order: the last of a place stays.
Changed(f, es, type) ==
  LET Of(e) == {k \in 1..Len(es) : es[k].type = type /\ <<es[k].port, es[k].elem>> = e}
      Final(e) == CHOOSE k \in Of(e) : \A j \in Of(e) : j <= k
      New == {<<es[k].port, es[k].elem>> : k \in {k \in 1..Len(es) : es[k].type = type}}
  IN [e \in DOMAIN f \cup New |-> IF Of(e) = {} THEN f[e] ELSE es[Final(e)].chan]

\* edit_one_comp, for each of them.
Edited(b, es) ==
  [b EXCEPT !.outs = Changed(@, es, "Connect"), !.ins = Changed(@, es, "AddInputArrayElement")]

\* The edit m is kept for the end of the run.
Waits(b, m) == [b EXCEPT !.edits = Append(@, m)]

\* connect, connect_array, add_inarr_element: the agent has the port.
Takes(b, m) ==
  IF m.type = "Connect" THEN m.port \in DOMAIN OutSchemas(b.sort, m.elem)
  ELSE m.port \in DOMAIN inarr[b.sort]

IsEdit(m) == m.type \in {"Connect", "AddInputArrayElement"}

\* A message that is known to do harm elsewhere (an agent that is not there, an
\* edit that fails) is not received here: EditsSucceed says there is none.
Receive ==
  /\ mailbox # <<>>
  /\ LET m == Head(mailbox) IN
     \/ m.type = "NewAgent" /\ boxes' = Extend(boxes, m.id, NewBox(m.sort))
     \/ /\ m.type \in {"Start", "Inc"} /\ m.id \in DOMAIN boxes
        /\ boxes' = [boxes EXCEPT ![m.id].busy = TRUE, ![m.id].ran = TRUE]
     \/ /\ IsEdit(m) /\ m.id \in DOMAIN boxes /\ Takes(boxes[m.id], m)
        /\ boxes' = [boxes EXCEPT ![m.id] =
                       IF @.busy THEN Waits(@, m)
                       ELSE Edited(@, <<m>>)]
  /\ mailbox' = Tail(mailbox)
  /\ UNCHANGED <<agents, id, made, client, answer>>

\* A run ends: the edits are made, and the agent is run again or not.
RunEnd_mut(i, again) ==
  /\ i \in DOMAIN boxes /\ boxes[i].busy
  /\ boxes' = [boxes EXCEPT ![i] =
                 [Edited(@, Reverse(@.edits)) EXCEPT !.edits = <<>>, !.busy = again]]
  /\ UNCHANGED <<agents, id, made, client, answer, mailbox>>
RunEnd(i, again) ==
  /\ i \in DOMAIN boxes /\ boxes[i].busy
  /\ boxes' = [boxes EXCEPT ![i] =
                 [Edited(@, @.edits) EXCEPT !.edits = <<>>, !.busy = again]]
  /\ UNCHANGED <<agents, id, made, client, answer, mailbox>>

Interior == Receive \/ \E i \in DOMAIN boxes, again \in BOOLEAN : RunEnd(i, again)
=============================================================================
