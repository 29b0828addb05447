--------------------------- MODULE ExteriorClient ---------------------------
(***************************************************************************)
(* An owner who makes any calls of the exterior scheduler, and what the    *)
(* calls promise.                                                          *)
(***************************************************************************)
EXTENDS Exterior

CONSTANTS
  Names,      \* the names the owner uses
  Places,     \* the ports and elements: <<port, elem>>
  MaxCalls,   \* bound: calls of the owner
  MaxAgents   \* bound: agents added

ASSUME PlacesAssumption == \A p \in Places : p = <<p[1], p[2]>>

VARIABLES
  calls,      \* calls made
  wanted      \* history: for each output, the input that the owner connected last,
              \* unless the owner replaced that element since

clientVars == <<vars, calls, wanted>>

At(name, place) == [comp |-> name, port |-> place[1], elem |-> place[2]]

ClientInit == Init /\ calls = 0 /\ wanted = Empty

Connects ==
  \E out, in \in Names, p, q \in Places :
    /\ Connect(At(out, p), At(in, q))
    /\ wanted' = IF answer' = "Ok" /\ mailbox' # mailbox
                 THEN Extend(wanted, <<agents[out].id, p>>, <<agents[in].id, q>>)
                 ELSE wanted

OtherCall ==
  /\ \E name \in Names :
       \/ id < MaxAgents /\ \E sort \in Sorts : AddNode(name, sort)
       \/ \E p \in Places : p[2] # Simple /\ SoftAddElement(name, p[1], p[2])
       \/ StartIfNeeded(name) \/ StartAgent(name)
       \/ \E p \in Places : Send(name, p[1], p[2])
  /\ UNCHANGED wanted

\* add_input_array_element on its own: who was connected to the element is cut off.
Replaces ==
  \E name \in Names, p \in Places :
    /\ p[2] # Simple /\ AddElement(name, p[1], p[2])
    /\ LET cut == {o \in DOMAIN wanted :
                    Known(name) /\ wanted[o] = <<agents[name].id, p>>} IN
       wanted' = [o \in DOMAIN wanted \ cut |-> wanted[o]]

Call == calls < MaxCalls /\ calls' = calls + 1 /\ (Connects \/ OtherCall \/ Replaces)

ClientNext == Call \/ (Interior /\ UNCHANGED <<calls, wanted>>)

ClientSpec == ClientInit /\ [][ClientNext]_clientVars

-----------------------------------------------------------------------------
Settled == mailbox = <<>> /\ \A i \in DOMAIN boxes : boxes[i].edits = <<>>

\* The channel's receiver is in the agent that it was made for.
Held(c) == c.elem # Simple =>
  <<c.port, c.elem>> \in DOMAIN boxes[c.id].ins /\ boxes[c.id].ins[<<c.port, c.elem>>] = c

\* What was connected with the answer Ok is connected once all calls have come
\* in and the runs under way are over, even if a name was given to another agent
\* since, and however often the element was added again with the soft form: the
\* output holds a sender whose receiver the wanted agent holds.
Wired ==
  Settled => \A o \in DOMAIN wanted :
    /\ o[2] \in DOMAIN boxes[o[1]].outs
    /\ LET c == boxes[o[1]].outs[o[2]] IN
       <<c.id, <<c.port, c.elem>>>> = wanted[o] /\ Held(c)

\* A sender that get_array_sender hands out reaches the agent, however often the
\* element was added again: the owner's table and the agent agree on the last.
TablesAgree ==
  Settled => \A n \in DOMAIN agents : \A e \in DOMAIN agents[n].elements :
    Held(agents[n].elements[e])

\* No two ports are ever joined whose schemas differ, neither of them BAny.
SchemasAgree ==
  \A i \in DOMAIN boxes : \A o \in DOMAIN boxes[i].outs :
    LET c == boxes[i].outs[o]
        in == InSchemas(boxes[c.id].sort, c.elem)[c.port]
        out == (IF o[2] = Simple THEN output ELSE outarr)[boxes[i].sort][o[1]]
    IN BAny \in {in, out} \/ in = out

\* The messages of calls never fail in the interior scheduler: they are for
\* agents that are there by then, and the edits for ports that these have.
EditsSucceed ==
  \A k \in 1..Len(mailbox) :
    LET m == mailbox[k]
        before == {mailbox[j] : j \in {j \in 1..(k - 1) : mailbox[j].type = "NewAgent"}}
        sorts == {n.sort : n \in {n \in before : n.id = m.id}}
                   \cup (IF m.id \in DOMAIN boxes THEN {boxes[m.id].sort} ELSE {})
    IN m.type # "NewAgent" =>
         /\ sorts # {}
         /\ m.type = "Connect" =>
              \A s \in sorts : m.port \in DOMAIN (IF m.elem = Simple THEN output ELSE outarr)[s]
         /\ m.type = "AddInputArrayElement" => \A s \in sorts : m.port \in DOMAIN inarr[s]
=============================================================================
