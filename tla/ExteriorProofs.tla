---------------------------- MODULE ExteriorProofs ----------------------------
(***************************************************************************)
(* The proofs that the exterior scheduler of rustfbp keeps its word, for   *)
(* every set of names and sorts, any number of calls and of agents: what   *)
(* it answers with Ok happens, whatever the runs under way.  And that the  *)
(* agent that loads a graph with its calls has made every edge of it when  *)
(* the first agent runs.                                                   *)
(***************************************************************************)
EXTENDS ExteriorClient, Loader, TLAPS

-----------------------------------------------------------------------------
(* What the tables and the messages are made of.                            *)

Ports == {p[1] : p \in Places}
Elems == {p[2] : p \in Places}

Channels == [id : Nat, port : Ports, elem : Elems, n : Nat]

Edits == [type : {"Connect", "AddInputArrayElement"}, id : Nat, port : Ports, elem : Elems,
          chan : Channels]

Messages == [type : {"NewAgent"}, id : Nat, sort : Sorts]
              \cup [type : {"Start", "Inc"}, id : Nat]
              \cup Edits

TypeInv ==
  /\ id \in Nat /\ made \in Nat
  /\ mailbox \in Seq(Messages)
  /\ \A n \in DOMAIN agents :
       /\ DOMAIN agents[n] = {"id", "sort", "start", "elements"}
       /\ agents[n].id \in Nat
       /\ \A e \in DOMAIN agents[n].elements : agents[n].elements[e] \in Channels
  /\ \A i \in DOMAIN boxes :
       /\ DOMAIN boxes[i] = {"sort", "outs", "ins", "edits", "busy", "ran"}
       /\ i \in Nat /\ boxes[i].edits \in Seq(Edits)
       /\ ~boxes[i].busy => boxes[i].edits = <<>>

-----------------------------------------------------------------------------
(* Who is who: an id stands for one agent, of one sort, whose NewAgent is   *)
(* in front of whatever is about it.                                        *)

Adds(k, i) == k \in 1..Len(mailbox) /\ mailbox[k].type = "NewAgent" /\ mailbox[k].id = i

HasSort(i, s) ==
  \/ i \in DOMAIN boxes /\ boxes[i].sort = s
  \/ \E k \in 1..Len(mailbox) : Adds(k, i) /\ mailbox[k].sort = s

IdInv ==
  /\ \A i \in DOMAIN boxes : i < id
  /\ \A k \in 1..Len(mailbox) : \A i : Adds(k, i) =>
       /\ i < id /\ i \notin DOMAIN boxes
       /\ \A j \in 1..Len(mailbox) : Adds(j, i) => j = k
  /\ \A n \in DOMAIN agents : HasSort(agents[n].id, agents[n].sort)
  /\ \A m, n \in DOMAIN agents : agents[m].id = agents[n].id => m = n
  /\ \A n \in DOMAIN agents : \A e \in DOMAIN agents[n].elements :
       LET c == agents[n].elements[e] IN c.id = agents[n].id /\ <<c.port, c.elem>> = e

\* The agent i is there when the message at k is taken.
Created(k, i) == i \in DOMAIN boxes \/ \E j \in 1..(k - 1) : Adds(j, i)

\* An edit is one that the agent takes, and joins ports whose schemas match.
Fits(e) ==
  \A s, t : HasSort(e.id, s) /\ HasSort(e.chan.id, t) =>
    /\ e.type = "Connect" =>
         /\ e.port \in DOMAIN OutSchemas(s, e.elem)
         /\ Match(InSchemas(t, e.chan.elem)[e.chan.port], OutSchemas(s, e.elem)[e.port])
    /\ e.type = "AddInputArrayElement" => e.port \in DOMAIN inarr[s]

Delivers(k, m) ==
  /\ m.type # "NewAgent" => Created(k, m.id)
  /\ IsEdit(m) => Created(k, m.chan.id) /\ Fits(m)

MailInv == \A k \in 1..Len(mailbox) : \A m \in {mailbox[k]} : Delivers(k, m)

\* An edit that agent i keeps, and a channel c of its output o.
Waiting(i, m) == m.id = i /\ m.chan.id \in DOMAIN boxes /\ Fits(m)

Plugged(i, o, c) ==
  /\ c.id \in DOMAIN boxes
  /\ Match(InSchemas(boxes[c.id].sort, c.elem)[c.port], OutSchemas(boxes[i].sort, o[2])[o[1]])

BoxInv ==
  \A i \in DOMAIN boxes :
    /\ \A k \in 1..Len(boxes[i].edits) : \A m \in {boxes[i].edits[k]} : Waiting(i, m)
    /\ \A o \in DOMAIN boxes[i].outs : \A c \in {boxes[i].outs[o]} : Plugged(i, o, c)

-----------------------------------------------------------------------------
(* What a place of an agent will hold, once the edits under way are made.   *)

\* The edits of type t for the place e of agent i: in the mailbox, and kept.
Mailed(k, i, t, e) ==
  /\ k \in 1..Len(mailbox) /\ mailbox[k].type = t /\ mailbox[k].id = i
  /\ <<mailbox[k].port, mailbox[k].elem>> = e

Kept(k, i, t, e) ==
  /\ k \in 1..Len(boxes[i].edits) /\ boxes[i].edits[k].type = t
  /\ <<boxes[i].edits[k].port, boxes[i].edits[k].elem>> = e

Now(i, t) == IF t = "Connect" THEN boxes[i].outs ELSE boxes[i].ins

\* The channel c, after the edits that agent i keeps.
Later(i, t, e, c) ==
  /\ i \in DOMAIN boxes
  /\ \/ \E k \in Nat : /\ Kept(k, i, t, e) /\ boxes[i].edits[k].chan = c
                       /\ \A j \in Nat : Kept(j, i, t, e) => j <= k
     \/ /\ \A k \in Nat : ~Kept(k, i, t, e)
        /\ e \in DOMAIN Now(i, t) /\ Now(i, t)[e] = c

\* The channel c, after those of the mailbox too.
Ends(i, t, e, c) ==
  \/ \E k \in Nat : /\ Mailed(k, i, t, e) /\ mailbox[k].chan = c
                    /\ \A j \in Nat : Mailed(j, i, t, e) => j <= k
  \/ (\A k \in Nat : ~Mailed(k, i, t, e)) /\ Later(i, t, e, c)

\* The receiver of the element's channel c is on its way to the agent it is for.
WillBeHeld(c) ==
  c.elem # Simple => Ends(c.id, "AddInputArrayElement", <<c.port, c.elem>>, c)

TablesInv ==
  \A n \in DOMAIN agents : \A e \in DOMAIN agents[n].elements :
    \A c \in {agents[n].elements[e]} : WillBeHeld(c)

\* The output o will have a sender of the input w.
Serves(o, w) ==
  \E c \in Channels : /\ Ends(o[1], "Connect", o[2], c) /\ WillBeHeld(c)
                      /\ w = <<c.id, <<c.port, c.elem>>>>

\* The owner knows the input w, or has given its agent's name to another one.
Remembers(w) ==
  \A n \in DOMAIN agents : agents[n].id = w[1] /\ w[2][2] # Simple => w[2] \in DOMAIN agents[n].elements

\* Every output will have a sender of the input that was connected last.
WantedInv ==
  \A o \in DOMAIN wanted :
    /\ o = <<o[1], o[2]>> /\ o[1] \in Nat /\ o[1] < id
    /\ \A w \in {wanted[o]} : /\ w[1] \in Nat /\ w[1] < id
                             /\ Serves(o, w) /\ Remembers(w)

IInv == TypeInv /\ IdInv /\ MailInv /\ BoxInv /\ TablesInv /\ WantedInv

-----------------------------------------------------------------------------
(* The steps.                                                               *)

Posts(m) == mailbox' = Append(mailbox, m) /\ UNCHANGED boxes

\* The owner adds agent n.
AddsNode(n, s) ==
  /\ Posts([type |-> "NewAgent", id |-> id, sort |-> s])
  /\ \E b : agents' = Extend(agents, n, [id |-> id, sort |-> s, start |-> b, elements |-> Empty])
  /\ id' = id + 1 /\ UNCHANGED <<made, wanted>>

\* A call about an agent posts a Start or an Inc.
Wakes(n) ==
  /\ \E t \in {"Start", "Inc"} : Posts([type |-> t, id |-> agents[n].id])
  /\ UNCHANGED <<agents, id, made, wanted>>

\* An output of agent m is connected to an input of agent n.
Joins(m, p, n, q) ==
  LET c == Sender(n, q[1], q[2]) IN
  /\ HasSender(n, q[1], q[2])
  /\ p[1] \in DOMAIN OutSchemas(agents[m].sort, p[2])
  /\ Match(InSchemas(agents[n].sort, q[2])[q[1]], OutSchemas(agents[m].sort, p[2])[p[1]])
  /\ Posts([type |-> "Connect", id |-> agents[m].id, port |-> p[1], elem |-> p[2], chan |-> c])
  /\ wanted' = Extend(wanted, <<agents[m].id, p>>, <<agents[n].id, q>>)
  /\ UNCHANGED <<agents, id, made>>

\* Fewer wishes.
Fewer == /\ DOMAIN wanted' \subseteq DOMAIN wanted
         /\ \A o \in DOMAIN wanted' : wanted'[o] = wanted[o]

\* The element p of agent n is added, and nobody is connected to an older one.
Grows(n, p) ==
  LET c == Channel(agents[n].id, p[1], p[2], made) IN
  /\ p[1] \in DOMAIN inarr[agents[n].sort]
  /\ agents' = [agents EXCEPT ![n].elements = Extend(@, <<p[1], p[2]>>, c)]
  /\ Posts([type |-> "AddInputArrayElement", id |-> agents[n].id, port |-> p[1],
            elem |-> p[2], chan |-> c])
  /\ made' = made + 1 /\ UNCHANGED id
  /\ Fewer /\ p[2] # Simple
  /\ \A o \in DOMAIN wanted' : wanted[o] # <<agents[n].id, p>>

\* Every call is one of these.
LEMMA CallSteps ==
  ASSUME TypeInv, WantedInv, Call
  PROVE  \/ Fewer /\ UNCHANGED <<agents, id, made, mailbox, boxes>>
         \/ \E n \in Names : \E s \in Sorts : AddsNode(n, s)
         \/ \E n \in DOMAIN agents : Wakes(n)
         \/ \E m, n \in DOMAIN agents : \E p, q \in Places : Joins(m, p, n, q)
         \/ \E n \in DOMAIN agents : \E p \in Places : Grows(n, p)
<1> USE DEF Answer, Fails, NoChange, Known
<1>0. \A m : Append(mailbox, m) # mailbox
  BY DEF TypeInv
<1>1. CASE Connects
  <2>1. PICK m, n \in Names, p, q \in Places :
          /\ Connect(At(m, p), At(n, q))
          /\ wanted' = IF answer' = "Ok" /\ mailbox' # mailbox
                       THEN Extend(wanted, <<agents[m].id, p>>, <<agents[n].id, q>>)
                       ELSE wanted
    BY <1>1 DEF Connects
  <2>2. CASE UNCHANGED <<agents, id, made, mailbox, boxes>>
    BY <2>1, <2>2 DEF Fewer
  <2>3. ASSUME ~UNCHANGED <<agents, id, made, mailbox, boxes>>
        PROVE  m \in DOMAIN agents /\ n \in DOMAIN agents /\ Joins(m, p, n, q)
    <3>1. /\ m \in DOMAIN agents /\ n \in DOMAIN agents
          /\ HasSender(n, q[1], q[2])
          /\ p[1] \in DOMAIN OutSchemas(agents[m].sort, p[2])
          /\ Match(InSchemas(agents[n].sort, q[2])[q[1]],
                   OutSchemas(agents[m].sort, p[2])[p[1]])
          /\ Posts([type |-> "Connect", id |-> agents[m].id, port |-> p[1], elem |-> p[2],
                    chan |-> Sender(n, q[1], q[2])])
          /\ answer' = "Ok" /\ UNCHANGED <<agents, id, made>>
      BY <2>1, <2>3 DEF Connect, At, Panics, Post, Posts
    <3>2. wanted' = Extend(wanted, <<agents[m].id, p>>, <<agents[n].id, q>>)
      BY <1>0, <2>1, <3>1 DEF Posts
    <3> QED
      BY <3>1, <3>2 DEF Joins
  <2> QED
    BY <2>2, <2>3
<1>2. ASSUME NEW n \in Names, NEW p \in Places, AddElement(n, p[1], p[2]), p[2] # Simple,
             Fewer,
             n \in DOMAIN agents => \A o \in DOMAIN wanted' : wanted[o] # <<agents[n].id, p>>
      PROVE  \/ Fewer /\ UNCHANGED <<agents, id, made, mailbox, boxes>>
             \/ n \in DOMAIN agents /\ Grows(n, p)
  BY <1>2 DEF AddElement, Panics, Grows, Post, Posts
<1>3. CASE Replaces
  <2>1. PICK n \in Names, p \in Places :
          /\ p[2] # Simple /\ AddElement(n, p[1], p[2])
          /\ LET cut == {o \in DOMAIN wanted :
                           Known(n) /\ wanted[o] = <<agents[n].id, p>>} IN
             wanted' = [o \in DOMAIN wanted \ cut |-> wanted[o]]
    BY <1>3 DEF Replaces
  <2>2. Fewer /\ (n \in DOMAIN agents =>
                    \A o \in DOMAIN wanted' : wanted[o] # <<agents[n].id, p>>)
    BY <2>1 DEF Fewer
  <2> QED
    BY <1>2, <2>1, <2>2
<1>4. CASE OtherCall
  <2>0. wanted' = wanted /\ Fewer
    BY <1>4 DEF OtherCall, Fewer
  <2>1. ASSUME NEW n \in Names, NEW s \in Sorts, AddNode(n, s)
        PROVE  AddsNode(n, s) \/ UNCHANGED <<agents, id, made, mailbox, boxes>>
    BY <2>0, <2>1 DEF AddNode, AddsNode, Panics, Post, Posts
  <2>2. ASSUME NEW n \in Names, StartIfNeeded(n) \/ StartAgent(n)
        PROVE  (n \in DOMAIN agents /\ Wakes(n)) \/ UNCHANGED <<agents, id, made, mailbox, boxes>>
    BY <2>0, <2>2 DEF StartIfNeeded, StartAgent, Wakes, Post, Posts
  <2>3. ASSUME NEW n \in Names, NEW p \in Places, Send(n, p[1], p[2])
        PROVE  (n \in DOMAIN agents /\ Wakes(n)) \/ UNCHANGED <<agents, id, made, mailbox, boxes>>
    BY <2>0, <2>3 DEF Send, Wakes, Post, Posts, Panics
  <2>4. ASSUME NEW n \in Names, NEW p \in Places, p[2] # Simple, SoftAddElement(n, p[1], p[2])
        PROVE  \/ UNCHANGED <<agents, id, made, mailbox, boxes>>
               \/ n \in DOMAIN agents /\ Grows(n, p)
    <3>1. CASE IsThere(n, p[1], p[2])
      BY <2>4, <3>1 DEF SoftAddElement
    <3>2. CASE ~IsThere(n, p[1], p[2])
      <4>1. n \in DOMAIN agents => \A o \in DOMAIN wanted' : wanted[o] # <<agents[n].id, p>>
        BY <2>0, <2>4, <3>2, PlacesAssumption DEF IsThere, WantedInv, Remembers
      <4> QED
        BY <1>2, <2>0, <2>4, <3>2, <4>1 DEF SoftAddElement
    <3> QED
      BY <3>1, <3>2
  <2> QED
    BY <1>4, <2>0, <2>1, <2>2, <2>3, <2>4 DEF OtherCall
<1> QED
  BY <1>1, <1>3, <1>4 DEF Call

\* The interior scheduler takes the first message.
Took(m) ==
  /\ Len(mailbox) >= 1 /\ mailbox[1] = m
  /\ Len(mailbox') = Len(mailbox) - 1
  /\ \A k \in 1..Len(mailbox') : k + 1 \in 1..Len(mailbox) /\ mailbox'[k] = mailbox[k + 1]

Alike(i) == /\ boxes'[i].sort = boxes[i].sort /\ boxes'[i].outs = boxes[i].outs
            /\ boxes'[i].ins = boxes[i].ins /\ boxes'[i].edits = boxes[i].edits

\* Agent i keeps the edit m, or makes the edits es.
Keeps(i, m) ==
  /\ i \in DOMAIN boxes /\ DOMAIN boxes' = DOMAIN boxes /\ \A j \in DOMAIN boxes \ {i} : Alike(j)
  /\ boxes'[i].sort = boxes[i].sort /\ boxes'[i].outs = boxes[i].outs
  /\ boxes'[i].ins = boxes[i].ins /\ boxes'[i].edits = Append(boxes[i].edits, m)

Makes(i, es) ==
  /\ i \in DOMAIN boxes /\ DOMAIN boxes' = DOMAIN boxes /\ \A j \in DOMAIN boxes \ {i} : Alike(j)
  /\ boxes'[i].sort = boxes[i].sort /\ boxes'[i].edits = <<>>
  /\ boxes'[i].outs = Changed(boxes[i].outs, es, "Connect")
  /\ boxes'[i].ins = Changed(boxes[i].ins, es, "AddInputArrayElement")

\* The steps of the interior scheduler.
InteriorStep ==
  \/ \E m \in Messages : Took(m) /\ m.type = "NewAgent" /\ boxes' = Extend(boxes, m.id, NewBox(m.sort))
  \/ \E m \in Messages : /\ Took(m) /\ m.type \in {"Start", "Inc"} /\ m.id \in DOMAIN boxes
                         /\ DOMAIN boxes' = DOMAIN boxes /\ \A i \in DOMAIN boxes : Alike(i)
  \/ \E m \in Edits : Took(m) /\ (Keeps(m.id, m) \/ (Makes(m.id, <<m>>) /\ boxes[m.id].edits = <<>>))
  \/ \E i \in DOMAIN boxes : UNCHANGED mailbox /\ Makes(i, boxes[i].edits)

LEMMA InteriorSteps ==
  ASSUME TypeInv, Interior
  PROVE  InteriorStep /\ UNCHANGED <<agents, id, made>>
<1> DEFINE Fields == {"sort", "outs", "ins", "edits", "busy", "ran"}
<1>0. \A i \in DOMAIN boxes : DOMAIN boxes[i] = Fields /\ (~boxes[i].busy => boxes[i].edits = <<>>)
  BY DEF TypeInv
<1>1. CASE Receive
  <2>1. PICK m \in Messages : m = Head(mailbox) /\ Took(m)
    <3>1. mailbox \in Seq(Messages) /\ mailbox # <<>> /\ mailbox' = Tail(mailbox)
      BY <1>1 DEF TypeInv, Receive
    <3> QED
      BY <3>1 DEF Took
  <2>2. \/ m.type = "NewAgent" /\ boxes' = Extend(boxes, m.id, NewBox(m.sort))
        \/ /\ m.type \in {"Start", "Inc"} /\ m.id \in DOMAIN boxes
           /\ boxes' = [boxes EXCEPT ![m.id].busy = TRUE, ![m.id].ran = TRUE]
        \/ /\ IsEdit(m) /\ m.id \in DOMAIN boxes
           /\ boxes' = [boxes EXCEPT ![m.id] =
                          IF @.busy THEN Waits(@, m)
                          ELSE Edited(@, <<m>>)]
    BY <1>1, <2>1 DEF Receive
  <2>3. CASE m.type = "NewAgent" /\ boxes' = Extend(boxes, m.id, NewBox(m.sort))
    BY <1>1, <2>1, <2>3 DEF InteriorStep, Receive
  <2>4. CASE /\ m.type \in {"Start", "Inc"} /\ m.id \in DOMAIN boxes
             /\ boxes' = [boxes EXCEPT ![m.id].busy = TRUE, ![m.id].ran = TRUE]
    <3>1. DOMAIN boxes' = DOMAIN boxes /\ \A i \in DOMAIN boxes : Alike(i)
      BY <1>0, <2>4 DEF Alike
    <3> QED
      BY <1>1, <2>1, <2>4, <3>1 DEF InteriorStep, Receive
  <2>5. CASE /\ IsEdit(m) /\ m.id \in DOMAIN boxes /\ boxes[m.id].busy
             /\ boxes' = [boxes EXCEPT ![m.id] = Waits(@, m)]
    <3>1. m \in Edits
      BY <2>5 DEF IsEdit, Messages
    <3>2. Keeps(m.id, m)
      BY <1>0, <2>5 DEF Keeps, Alike, Waits
    <3> QED
      BY <1>1, <2>1, <3>1, <3>2 DEF InteriorStep, Receive
  <2>6. CASE /\ IsEdit(m) /\ m.id \in DOMAIN boxes /\ ~boxes[m.id].busy
             /\ boxes' = [boxes EXCEPT ![m.id] = Edited(@, <<m>>)]
    <3>1. m \in Edits
      BY <2>6 DEF IsEdit, Messages
    <3>2. boxes[m.id].edits = <<>> /\ Makes(m.id, <<m>>)
      BY <1>0, <2>6 DEF Makes, Alike, Edited
    <3> QED
      BY <1>1, <2>1, <3>1, <3>2 DEF InteriorStep, Receive
  <2>7. ASSUME IsEdit(m), m.id \in DOMAIN boxes,
               boxes' = [boxes EXCEPT ![m.id] = IF @.busy THEN Waits(@, m)
                                                ELSE Edited(@, <<m>>)]
        PROVE  InteriorStep /\ UNCHANGED <<agents, id, made>>
    <3>1. CASE boxes[m.id].busy
      <4>1. boxes' = [boxes EXCEPT ![m.id] = Waits(@, m)]
        BY ONLY <2>7, <3>1
      <4> QED
        BY <2>5, <2>7, <3>1, <4>1
    <3>2. CASE ~boxes[m.id].busy
      <4>1. boxes' = [boxes EXCEPT ![m.id] = Edited(@, <<m>>)]
        BY ONLY <2>7, <3>2
      <4> QED
        BY <2>6, <2>7, <3>2, <4>1
    <3> QED
      BY <3>1, <3>2
  <2> QED
    BY ONLY <2>2, <2>3, <2>4, <2>7
<1>2. ASSUME NEW i \in DOMAIN boxes, NEW again \in BOOLEAN, RunEnd(i, again)
      PROVE  InteriorStep /\ UNCHANGED <<agents, id, made>>
  <2>1. Makes(i, boxes[i].edits)
    BY <1>0, <1>2 DEF RunEnd, Edited, Makes, Alike
  <2> QED
    BY <1>2, <2>1 DEF RunEnd, InteriorStep
<1> QED
  BY <1>1, <1>2 DEF Interior

\* What a table of channels holds after some edits.
LEMMA ChangedOther ==
  ASSUME NEW f, NEW es \in Seq(Edits), NEW t, NEW e,
         \A k \in 1..Len(es) : ~(es[k].type = t /\ <<es[k].port, es[k].elem>> = e)
  PROVE  /\ e \in DOMAIN Changed(f, es, t) <=> e \in DOMAIN f
         /\ e \in DOMAIN f => Changed(f, es, t)[e] = f[e]
<1> DEFINE Of == {n \in 1..Len(es) : es[n].type = t /\ <<es[n].port, es[n].elem>> = e}
           Most == CHOOSE n \in Of : \A j \in Of : j <= n
           New == {<<es[n].port, es[n].elem>> : n \in {n \in 1..Len(es) : es[n].type = t}}
<1>0. Len(es) \in Nat
  OBVIOUS
<1>1. /\ DOMAIN Changed(f, es, t) = DOMAIN f \cup New
      /\ e \in DOMAIN f \cup New =>
           Changed(f, es, t)[e] = IF Of = {} THEN f[e] ELSE es[Most].chan
  BY DEF Changed
<1>2. e \in New <=> Of # {}
  OBVIOUS
<1> QED
  BY <1>1, <1>2

\* The last edit of the place e.
IsLast(es, t, e, k) ==
  /\ k \in 1..Len(es) /\ es[k].type = t /\ <<es[k].port, es[k].elem>> = e
  /\ \A j \in 1..Len(es) : es[j].type = t /\ <<es[j].port, es[j].elem>> = e => j <= k

LEMMA ChangedLast ==
  ASSUME NEW f, NEW es \in Seq(Edits), NEW t, NEW e, NEW k, IsLast(es, t, e, k)
  PROVE  e \in DOMAIN Changed(f, es, t) /\ Changed(f, es, t)[e] = es[k].chan
<1> DEFINE Of == {n \in 1..Len(es) : es[n].type = t /\ <<es[n].port, es[n].elem>> = e}
           Most == CHOOSE n \in Of : \A j \in Of : j <= n
           New == {<<es[n].port, es[n].elem>> : n \in {n \in 1..Len(es) : es[n].type = t}}
<1>0. Len(es) \in Nat
  OBVIOUS
<1>1. /\ DOMAIN Changed(f, es, t) = DOMAIN f \cup New
      /\ e \in DOMAIN f \cup New =>
           Changed(f, es, t)[e] = IF Of = {} THEN f[e] ELSE es[Most].chan
  BY DEF Changed
<1>2. e \in New <=> Of # {}
  OBVIOUS
<1>3. k \in Of /\ \A j \in Of : j <= k
  BY DEF IsLast
<1>4. Most = k
  <2>1. Most \in Of /\ \A j \in Of : j <= Most
    BY <1>3
  <2> QED
    BY <1>0, <1>3, <2>1
<1> QED
  BY <1>1, <1>2, <1>3, <1>4

C == INSTANCE CountingProofs

\* Every channel of a table was in it, or comes with an edit.
LEMMA ChangedFrom ==
  ASSUME NEW f, NEW es \in Seq(Edits), NEW t, NEW e, e \in DOMAIN Changed(f, es, t)
  PROVE  \/ e \in DOMAIN f /\ Changed(f, es, t)[e] = f[e]
         \/ \E k \in 1..Len(es) : /\ es[k].type = t /\ <<es[k].port, es[k].elem>> = e
                                  /\ Changed(f, es, t)[e] = es[k].chan
<1> DEFINE Of == {n \in 1..Len(es) : es[n].type = t /\ <<es[n].port, es[n].elem>> = e}
           Most == CHOOSE n \in Of : \A j \in Of : j <= n
           New == {<<es[n].port, es[n].elem>> : n \in {n \in 1..Len(es) : es[n].type = t}}
<1>0. Len(es) \in Nat
  OBVIOUS
<1>1. /\ DOMAIN Changed(f, es, t) = DOMAIN f \cup New
      /\ e \in DOMAIN f \cup New =>
           Changed(f, es, t)[e] = IF Of = {} THEN f[e] ELSE es[Most].chan
  BY DEF Changed
<1>2. e \in New <=> Of # {}
  OBVIOUS
<1>3. CASE Of = {}
  BY <1>1, <1>2, <1>3
<1>4. ASSUME Of # {}
      PROVE  Most \in Of
  <2>1. PICK k \in Of : \A j \in Of : j <= k
    BY <1>0, <1>4, C!GreatestIsIn
  <2> QED
    BY <2>1
<1> QED
  BY <1>1, <1>2, <1>3, <1>4

-----------------------------------------------------------------------------
(* The ids and the sorts.                                                   *)

\* What a call's message adds to the mailbox.
LEMMA PostsLast ==
  ASSUME TypeInv, NEW m, Posts(m)
  PROVE  /\ Len(mailbox) \in Nat /\ Len(mailbox') = Len(mailbox) + 1
         /\ \A k \in 1..Len(mailbox) : mailbox'[k] = mailbox[k]
         /\ mailbox'[Len(mailbox) + 1] = m
         /\ \A k : k \in 1..Len(mailbox') <=> k \in 1..Len(mailbox) \/ k = Len(mailbox) + 1
         /\ m \in Messages => mailbox' \in Seq(Messages)
<1>1. mailbox \in Seq(Messages) /\ mailbox' = Append(mailbox, m)
  BY DEF TypeInv, Posts
<1>2. Len(mailbox) \in Nat /\ Len(mailbox') = Len(mailbox) + 1
  BY <1>1
<1> QED
  BY <1>1, <1>2

\* An id that has a sort is an old one, and has one sort only.
LEMMA SortUnique ==
  ASSUME IdInv, NEW i, NEW s, HasSort(i, s)
  PROVE  i < id /\ \A t : HasSort(i, t) => t = s
BY DEF IdInv, HasSort, Adds

LEMMA CreatedSort ==
  ASSUME IdInv, NEW k \in 1..Len(mailbox), NEW i, Created(k, i), Len(mailbox) \in Nat
  PROVE  \E s : HasSort(i, s)
BY DEF Created, HasSort, Adds

\* A message other than NewAgent says nothing of the sorts.
LEMMA PostsSort ==
  ASSUME TypeInv, NEW m, Posts(m), m.type # "NewAgent"
  PROVE  /\ \A i, s : HasSort(i, s)' <=> HasSort(i, s)
         /\ \A k, i : Adds(k, i)' <=> Adds(k, i)
<1>1. \A k, i : Adds(k, i)' <=> Adds(k, i)
  BY PostsLast DEF Adds
<1> QED
  BY <1>1, PostsLast DEF HasSort, Adds, Posts

\* A NewAgent gives the next id its sort.
LEMMA AddsSort ==
  ASSUME TypeInv, NEW n, NEW s, AddsNode(n, s)
  PROVE  /\ \A i, t : HasSort(i, t)' <=> HasSort(i, t) \/ (i = id /\ t = s)
         /\ \A k, i : Adds(k, i)' <=> Adds(k, i) \/ (k = Len(mailbox) + 1 /\ i = id)
<1> DEFINE m == [type |-> "NewAgent", id |-> id, sort |-> s]
<1>0. Posts(m) /\ UNCHANGED boxes
  BY DEF AddsNode, Posts
<1>2. /\ Len(mailbox) \in Nat /\ Len(mailbox') = Len(mailbox) + 1
      /\ \A k \in 1..Len(mailbox) : mailbox'[k] = mailbox[k]
      /\ mailbox'[Len(mailbox) + 1] = m
      /\ \A k : k \in 1..Len(mailbox') <=> k \in 1..Len(mailbox) \/ k = Len(mailbox) + 1
  BY <1>0, PostsLast
<1>1. \A k, i : Adds(k, i)' <=> Adds(k, i) \/ (k = Len(mailbox) + 1 /\ i = id)
  BY <1>2 DEF Adds
<1> QED
  BY <1>0, <1>1, <1>2 DEF HasSort, Adds

\* Nothing that the interior scheduler does changes a sort.
LEMMA TookSort ==
  ASSUME TypeInv, IdInv, InteriorStep
  PROVE  \A i, s : HasSort(i, s)' <=> HasSort(i, s)
<1>0. Len(mailbox) \in Nat
  BY DEF TypeInv
<1>1. ASSUME NEW m \in Messages, Took(m)
      PROVE  /\ \A k, i : Adds(k, i)' => Adds(k + 1, i) /\ mailbox'[k] = mailbox[k + 1]
             /\ \A k, i : Adds(k, i) /\ k # 1 => Adds(k - 1, i)' /\ mailbox[k] = mailbox'[k - 1]
             /\ mailbox[1] = m
  BY <1>0, <1>1 DEF Adds, Took
<1>2. ASSUME NEW m \in Messages, Took(m), m.type # "NewAgent",
             DOMAIN boxes' = DOMAIN boxes, \A i \in DOMAIN boxes : boxes'[i].sort = boxes[i].sort
      PROVE  \A i, s : HasSort(i, s)' <=> HasSort(i, s)
  BY <1>0, <1>1, <1>2 DEF HasSort, Adds
<1>3. ASSUME NEW m \in Messages, Took(m), m.type = "NewAgent",
             boxes' = Extend(boxes, m.id, NewBox(m.sort))
      PROVE  \A i, s : HasSort(i, s)' <=> HasSort(i, s)
  <2>1. 1 \in 1..Len(mailbox) /\ Adds(1, m.id) /\ m.id \notin DOMAIN boxes
    BY <1>0, <1>3 DEF Took, Adds, IdInv
  <2>2. /\ DOMAIN boxes' = DOMAIN boxes \cup {m.id} /\ boxes'[m.id].sort = m.sort
        /\ \A i \in DOMAIN boxes : boxes'[i] = boxes[i]
    BY <1>3, <2>1 DEF Extend, NewBox
  <2>3. \A i : Adds(1, i) <=> i = m.id
    BY <1>3, <2>1 DEF Adds, Took
  <2>4. ASSUME NEW i, NEW s
        PROVE  HasSort(i, s)' <=> HasSort(i, s)
    <3>1. CASE i = m.id
      BY <1>0, <1>1, <1>3, <2>1, <2>2, <3>1 DEF HasSort, Adds, IdInv
    <3>2. CASE i # m.id
      <4>1. i \in DOMAIN boxes' /\ boxes'[i].sort = s <=> i \in DOMAIN boxes /\ boxes[i].sort = s
        BY <2>2, <3>2
      <4>2. ASSUME NEW k \in 1..Len(mailbox), Adds(k, i), mailbox[k].sort = s
            PROVE  \E j \in 1..Len(mailbox') : Adds(j, i)' /\ mailbox'[j].sort = s
        <5>1. k # 1
          BY <2>3, <3>2, <4>2
        <5>2. Adds(k - 1, i)' /\ mailbox'[k - 1].sort = s
          BY <1>1, <1>3, <4>2, <5>1
        <5> QED
          BY <5>2 DEF Adds
      <4>3. ASSUME NEW k \in 1..Len(mailbox'), Adds(k, i)', mailbox'[k].sort = s
            PROVE  \E j \in 1..Len(mailbox) : Adds(j, i) /\ mailbox[j].sort = s
        <5>1. Adds(k + 1, i) /\ mailbox[k + 1].sort = s
          BY <1>1, <1>3, <4>3
        <5> QED
          BY <5>1 DEF Adds
      <4> QED
        BY <4>1, <4>2, <4>3 DEF HasSort
    <3> QED
      BY <3>1, <3>2
  <2> QED
    BY <2>4
<1>4. ASSUME NEW i \in DOMAIN boxes, UNCHANGED mailbox, Makes(i, boxes[i].edits)
      PROVE  \A j, s : HasSort(j, s)' <=> HasSort(j, s)
  BY <1>4 DEF HasSort, Adds, Makes, Alike
<1>5. ASSUME NEW m \in Messages, Took(m), m.type \in {"Start", "Inc"}, m.id \in DOMAIN boxes,
             DOMAIN boxes' = DOMAIN boxes, \A i \in DOMAIN boxes : Alike(i)
      PROVE  \A i, s : HasSort(i, s)' <=> HasSort(i, s)
  BY <1>2, <1>5 DEF Alike
<1>6. ASSUME NEW m \in Edits, Took(m), Keeps(m.id, m) \/ (Makes(m.id, <<m>>) /\ boxes[m.id].edits = <<>>)
      PROVE  \A i, s : HasSort(i, s)' <=> HasSort(i, s)
  <2>1. m \in Messages /\ m.type # "NewAgent"
    BY DEF Messages, Edits
  <2> QED
    BY <1>2, <1>6, <2>1 DEF Keeps, Makes, Alike
<1> QED
  BY <1>3, <1>4, <1>5, <1>6 DEF InteriorStep

-----------------------------------------------------------------------------
(* Each part is kept: the types.                                            *)

\* The messages of the calls are messages.
LEMMA CallMessages ==
  ASSUME TypeInv
  PROVE  /\ \A s \in Sorts : [type |-> "NewAgent", id |-> id, sort |-> s] \in Messages
         /\ \A n \in DOMAIN agents : \A t \in {"Start", "Inc"} : [type |-> t, id |-> agents[n].id] \in Messages
         /\ \A n \in DOMAIN agents : \A q \in Places :
              HasSender(n, q[1], q[2]) => Sender(n, q[1], q[2]) \in Channels
         /\ \A n \in DOMAIN agents : \A p \in Places :
              Channel(agents[n].id, p[1], p[2], made) \in Channels
         /\ \A n \in DOMAIN agents : \A p \in Places : \A c \in Channels :
              \A t \in {"Connect", "AddInputArrayElement"} :
                [type |-> t, id |-> agents[n].id, port |-> p[1], elem |-> p[2], chan |-> c] \in Edits
<1>1. \A p \in Places : p[1] \in Ports /\ p[2] \in Elems
  BY DEF Ports, Elems
<1>2. 0 \in Nat /\ made \in Nat /\ id \in Nat /\ \A n \in DOMAIN agents : agents[n].id \in Nat
  BY DEF TypeInv
<1>3. \A n \in DOMAIN agents : \A q \in Places : HasSender(n, q[1], q[2]) => Sender(n, q[1], q[2]) \in Channels
  BY <1>1, <1>2 DEF HasSender, Sender, Channel, Channels, TypeInv
<1>4. \A n \in DOMAIN agents : \A p \in Places : Channel(agents[n].id, p[1], p[2], made) \in Channels
  BY <1>1, <1>2 DEF Channel, Channels
<1>5. \A n \in DOMAIN agents : \A p \in Places : \A c \in Channels :
        \A t \in {"Connect", "AddInputArrayElement"} :
          [type |-> t, id |-> agents[n].id, port |-> p[1], elem |-> p[2], chan |-> c] \in Edits
  BY <1>1, <1>2 DEF Edits
<1> QED
  BY <1>2, <1>3, <1>4, <1>5 DEF Messages

LEMMA TypeStep ==
  ASSUME TypeInv, WantedInv, Call \/ Interior
  PROVE  TypeInv'
<1> DEFINE Owners == \A n \in DOMAIN agents :
                       /\ DOMAIN agents[n] = {"id", "sort", "start", "elements"}
                       /\ agents[n].id \in Nat
                       /\ \A e \in DOMAIN agents[n].elements : agents[n].elements[e] \in Channels
           Boxed(i) == /\ DOMAIN boxes[i] = {"sort", "outs", "ins", "edits", "busy", "ran"}
                       /\ i \in Nat /\ boxes[i].edits \in Seq(Edits)
                       /\ ~boxes[i].busy => boxes[i].edits = <<>>
           Boxes == \A i \in DOMAIN boxes : Boxed(i)
<1>0. id \in Nat /\ made \in Nat /\ mailbox \in Seq(Messages) /\ Owners /\ Boxes
  BY DEF TypeInv
<1>1. CASE Call
  <2>1. CASE Fewer /\ UNCHANGED <<agents, id, made, mailbox, boxes>>
    BY <1>0, <2>1 DEF TypeInv
  <2>2. ASSUME NEW n \in Names, NEW s \in Sorts, AddsNode(n, s)
        PROVE  TypeInv'
    <3>1. PICK b : agents' = Extend(agents, n, [id |-> id, sort |-> s, start |-> b, elements |-> Empty])
      BY <2>2 DEF AddsNode
    <3>2. Owners'
      BY <1>0, <3>1 DEF Extend, Empty
    <3>3. mailbox' \in Seq(Messages) /\ UNCHANGED <<boxes, made>> /\ id' \in Nat
      BY <1>0, <2>2, CallMessages, PostsLast DEF AddsNode, Posts
    <3> QED
      BY <1>0, <3>2, <3>3 DEF TypeInv
  <2>3. ASSUME NEW n \in DOMAIN agents, Wakes(n)
        PROVE  TypeInv'
    <3>1. mailbox' \in Seq(Messages) /\ UNCHANGED <<boxes, made, id, agents>>
      BY <2>3, CallMessages, PostsLast DEF Wakes, Posts
    <3> QED
      BY <1>0, <3>1 DEF TypeInv
  <2>4. ASSUME NEW m \in DOMAIN agents, NEW n \in DOMAIN agents, NEW p \in Places, NEW q \in Places,
               Joins(m, p, n, q)
        PROVE  TypeInv'
    <3>1. [type |-> "Connect", id |-> agents[m].id, port |-> p[1], elem |-> p[2],
           chan |-> Sender(n, q[1], q[2])] \in Messages
      BY <2>4, CallMessages DEF Joins, Messages
    <3>2. mailbox' \in Seq(Messages) /\ UNCHANGED <<boxes, made, id, agents>>
      BY <2>4, <3>1, PostsLast DEF Joins, Posts
    <3> QED
      BY <1>0, <3>2 DEF TypeInv
  <2>5. ASSUME NEW n \in DOMAIN agents, NEW p \in Places, Grows(n, p)
        PROVE  TypeInv'
    <3> DEFINE c == Channel(agents[n].id, p[1], p[2], made)
    <3>1. c \in Channels /\ [type |-> "AddInputArrayElement", id |-> agents[n].id, port |-> p[1],
                             elem |-> p[2], chan |-> c] \in Messages
      BY <2>5, CallMessages DEF Messages
    <3>2. mailbox' \in Seq(Messages) /\ UNCHANGED <<boxes, id>> /\ made' \in Nat
          /\ agents' = [agents EXCEPT ![n].elements = Extend(@, <<p[1], p[2]>>, c)]
      BY <1>0, <2>5, <3>1, PostsLast DEF Grows, Posts
    <3>3. Owners'
      <4> HIDE DEF c
      <4> QED
        BY <1>0, <3>1, <3>2 DEF Extend
    <3> QED
      BY <1>0, <3>2, <3>3 DEF TypeInv
  <2> QED
    BY <1>1, <2>1, <2>2, <2>3, <2>4, <2>5, CallSteps
<1>2. CASE Receive
  <2>1. /\ mailbox # <<>> /\ mailbox' = Tail(mailbox) /\ UNCHANGED <<agents, id, made>>
        /\ mailbox' \in Seq(Messages) /\ Head(mailbox) \in Messages
    BY <1>0, <1>2 DEF Receive
  <2>2. PICK m \in Messages : m = Head(mailbox)
    BY <2>1
  <2>3. \/ m.type = "NewAgent" /\ boxes' = Extend(boxes, m.id, NewBox(m.sort))
        \/ /\ m.type \in {"Start", "Inc"} /\ m.id \in DOMAIN boxes
           /\ boxes' = [boxes EXCEPT ![m.id].busy = TRUE, ![m.id].ran = TRUE]
        \/ /\ IsEdit(m) /\ m.id \in DOMAIN boxes
           /\ boxes' = [boxes EXCEPT ![m.id] = IF @.busy THEN Waits(@, m) ELSE Edited(@, <<m>>)]
    BY <1>2, <2>2 DEF Receive
  <2>4. Boxes'
    <3>1. CASE m.type = "NewAgent" /\ boxes' = Extend(boxes, m.id, NewBox(m.sort))
      <4>1. m.id \in Nat /\ <<>> \in Seq(Edits)
        BY DEF Messages, Edits
      <4>2. \A i \in DOMAIN boxes' : (i = m.id /\ boxes'[i] = NewBox(m.sort))
                                       \/ (i \in DOMAIN boxes /\ boxes'[i] = boxes[i])
        BY <3>1 DEF Extend
      <4>3. /\ DOMAIN NewBox(m.sort) = {"sort", "outs", "ins", "edits", "busy", "ran"}
            /\ NewBox(m.sort).edits = <<>>
        BY DEF NewBox
      <4> QED
        BY <1>0, <4>1, <4>2, <4>3
    <3>2. CASE /\ m.type \in {"Start", "Inc"} /\ m.id \in DOMAIN boxes
               /\ boxes' = [boxes EXCEPT ![m.id].busy = TRUE, ![m.id].ran = TRUE]
      <4>1. Boxed(m.id)
        BY <1>0, <3>2
      <4>2. DOMAIN boxes' = DOMAIN boxes /\ \A i \in DOMAIN boxes : i # m.id => boxes'[i] = boxes[i]
        BY <3>2
      <4>3. /\ DOMAIN boxes'[m.id] = DOMAIN boxes[m.id] /\ boxes'[m.id].edits = boxes[m.id].edits
            /\ boxes'[m.id].busy = TRUE
        BY <3>2, <4>1
      <4> QED
        BY <1>0, <4>1, <4>2, <4>3
    <3>3. CASE /\ IsEdit(m) /\ m.id \in DOMAIN boxes
               /\ boxes' = [boxes EXCEPT ![m.id] = IF @.busy THEN Waits(@, m) ELSE Edited(@, <<m>>)]
      <4>1. m \in Edits
        BY <3>3 DEF IsEdit, Messages
      <4>2. CASE boxes[m.id].busy
        <5>1. boxes' = [boxes EXCEPT ![m.id] = Waits(@, m)]
          BY ONLY <3>3, <4>2
        <5>2. Append(boxes[m.id].edits, m) \in Seq(Edits)
          BY <1>0, <3>3, <4>1
        <5> QED
          BY <1>0, <3>3, <4>2, <5>1, <5>2 DEF Waits
      <4>3. CASE ~boxes[m.id].busy
        <5>1. boxes' = [boxes EXCEPT ![m.id] = Edited(@, <<m>>)]
          BY ONLY <3>3, <4>3
        <5> QED
          BY <1>0, <3>3, <4>3, <5>1 DEF Edited
      <4> QED
        BY <4>2, <4>3
    <3> QED
      BY <2>3, <3>1, <3>2, <3>3
  <2> QED
    BY <1>0, <2>1, <2>4 DEF TypeInv
<1>3. ASSUME NEW i \in DOMAIN boxes, NEW again \in BOOLEAN, RunEnd(i, again)
      PROVE  TypeInv'
  <2>1. <<>> \in Seq(Edits)
    OBVIOUS
  <2> DEFINE b == Edited(boxes[i], boxes[i].edits)
  <2>3. DOMAIN b = DOMAIN boxes[i]
    BY DEF Edited
  <2>4. boxes' = [boxes EXCEPT ![i] = [b EXCEPT !.edits = <<>>, !.busy = again]]
    BY <1>3 DEF RunEnd
  <2>2. UNCHANGED <<agents, id, made, mailbox>> /\ Boxes'
    <3> HIDE DEF b
    <3>1. UNCHANGED <<agents, id, made, mailbox>>
      BY <1>3 DEF RunEnd
    <3>2. DOMAIN boxes' = DOMAIN boxes /\ Boxed(i)'
      BY <1>0, <2>1, <2>3, <2>4
    <3>3. \A j \in DOMAIN boxes \ {i} : boxes'[j] = boxes[j]
      BY <2>4
    <3> QED
      BY <1>0, <3>1, <3>2, <3>3
  <2> QED
    BY <1>0, <2>2 DEF TypeInv
<1> QED
  BY <1>1, <1>2, <1>3 DEF Interior

-----------------------------------------------------------------------------
(* The ids: each is of one agent, known before anything else is about it.   *)

\* What the steps do to the ids and the sorts.
LEMMA SortsGrow ==
  ASSUME TypeInv, IdInv, WantedInv, Call \/ InteriorStep
  PROVE  \A i, s : /\ HasSort(i, s) => HasSort(i, s)'
                   /\ HasSort(i, s)' /\ i # id => HasSort(i, s)
<1>1. CASE InteriorStep
  BY <1>1, TookSort
<1>2. CASE Call
  <2>1. CASE UNCHANGED <<mailbox, boxes>>
    BY <2>1 DEF HasSort, Adds
  <2>2. ASSUME NEW n \in Names, NEW s \in Sorts, AddsNode(n, s)
        PROVE  \A i, t : /\ HasSort(i, t) => HasSort(i, t)'
                         /\ HasSort(i, t)' /\ i # id => HasSort(i, t)
    BY <2>2, AddsSort
  <2>3. ASSUME NEW m, Posts(m), m.type # "NewAgent"
        PROVE  \A i, t : /\ HasSort(i, t) => HasSort(i, t)'
                         /\ HasSort(i, t)' /\ i # id => HasSort(i, t)
    BY <2>3, PostsSort
  <2>4. ASSUME NEW n \in DOMAIN agents, Wakes(n)
        PROVE  \E m : Posts(m) /\ m.type # "NewAgent"
    BY <2>4 DEF Wakes
  <2>5. ASSUME NEW m \in DOMAIN agents, NEW n \in DOMAIN agents, NEW p \in Places, NEW q \in Places,
               Joins(m, p, n, q)
        PROVE  \E e : Posts(e) /\ e.type # "NewAgent"
    BY <2>5 DEF Joins
  <2>6. ASSUME NEW n \in DOMAIN agents, NEW p \in Places, Grows(n, p)
        PROVE  \E e : Posts(e) /\ e.type # "NewAgent"
    BY <2>6 DEF Grows
  <2> QED
    BY <1>2, <2>1, <2>2, <2>3, <2>4, <2>5, <2>6, CallSteps
<1> QED
  BY <1>1, <1>2

\* Messages other than NewAgent leave the ids as they are.
LEMMA IdPost ==
  ASSUME TypeInv, IdInv, NEW m, Posts(m), m.type # "NewAgent", UNCHANGED id,
         DOMAIN agents' = DOMAIN agents,
         \A n \in DOMAIN agents : agents'[n].id = agents[n].id /\ agents'[n].sort = agents[n].sort,
         \A n \in DOMAIN agents : \A e \in DOMAIN agents'[n].elements :
           LET c == agents'[n].elements[e] IN c.id = agents[n].id /\ <<c.port, c.elem>> = e
  PROVE  IdInv'
<1>1. \A i, s : HasSort(i, s)' <=> HasSort(i, s)
  BY PostsSort
<1>2. \A k, i : Adds(k, i)' <=> Adds(k, i)
  BY PostsSort
<1>3. (\A n \in DOMAIN agents : HasSort(agents[n].id, agents[n].sort))'
  <2>1. \A n \in DOMAIN agents : HasSort(agents[n].id, agents[n].sort)
    BY DEF IdInv
  <2>2. \A n \in DOMAIN agents' : \A i, s : i = agents'[n].id /\ s = agents'[n].sort => HasSort(i, s)
    BY <2>1
  <2>3. \A n \in DOMAIN agents' : \A i, s : i = agents'[n].id /\ s = agents'[n].sort => HasSort(i, s)'
    BY <1>1, <2>2
  <2> QED
    BY <2>3 DEF HasSort, Adds
<1>4. \A k \in 1..Len(mailbox') : \A i : Adds(k, i)' =>
        /\ i < id /\ i \notin DOMAIN boxes
        /\ \A j \in 1..Len(mailbox') : Adds(j, i)' => j = k
  <2>1. \A k, i : Adds(k, i) => k \in 1..Len(mailbox)
    BY DEF Adds
  <2> QED
    BY <1>2, <2>1 DEF IdInv
<1>5. UNCHANGED boxes /\ \A i \in DOMAIN boxes : i < id
  BY DEF Posts, IdInv
<1>6. \A m2, n \in DOMAIN agents' : agents'[m2].id = agents'[n].id => m2 = n
  BY DEF IdInv
<1> QED
  BY <1>3, <1>4, <1>5, <1>6 DEF IdInv

LEMMA IdCall ==
  ASSUME TypeInv, IdInv, WantedInv, Call
  PROVE  IdInv'
<1>0. id \in Nat /\ \A n \in DOMAIN agents : DOMAIN agents[n] = {"id", "sort", "start", "elements"}
  BY DEF TypeInv
<1>1. CASE Fewer /\ UNCHANGED <<agents, id, made, mailbox, boxes>>
  BY <1>1 DEF IdInv, HasSort, Adds
<1>2. ASSUME NEW n \in Names, NEW s \in Sorts, AddsNode(n, s)
      PROVE  IdInv'
  <2>1. PICK b : agents' = Extend(agents, n, [id |-> id, sort |-> s, start |-> b, elements |-> Empty])
    BY <1>2 DEF AddsNode
  <2>2. \A k \in DOMAIN agents' :
          \/ k = n /\ agents'[k].id = id /\ agents'[k].sort = s /\ DOMAIN agents'[k].elements = {}
          \/ k \in DOMAIN agents /\ agents'[k] = agents[k]
    BY <2>1 DEF Extend, Empty
  <2>3. \A i, t : HasSort(i, t)' <=> HasSort(i, t) \/ (i = id /\ t = s)
    BY <1>2, AddsSort
  <2>4. \A k, i : Adds(k, i)' <=> Adds(k, i) \/ (k = Len(mailbox) + 1 /\ i = id)
    BY <1>2, AddsSort
  <2>5. \A i \in DOMAIN boxes : i \in Nat /\ i < id
    BY DEF IdInv, TypeInv
  <2>6. \A k, i : Adds(k, i) => k \in 1..Len(mailbox) /\ i \in Nat /\ i < id
    <3>1. \A k, i : Adds(k, i) => k \in 1..Len(mailbox) /\ mailbox[k] \in Messages /\ mailbox[k].id = i /\ i < id
      BY DEF Adds, TypeInv, IdInv
    <3> QED
      BY <3>1 DEF Messages, Edits
  <2>7. id' = id + 1 /\ UNCHANGED boxes
    BY <1>2 DEF AddsNode, Posts
  <2>8. \A k \in 1..Len(mailbox') : \A i : Adds(k, i)' =>
          /\ i < id' /\ i \notin DOMAIN boxes'
          /\ \A j \in 1..Len(mailbox') : Adds(j, i)' => j = k
    <3>1. \A k, i : Adds(k, i) => i \notin DOMAIN boxes /\ \A j : Adds(j, i) => j = k
      BY <2>6 DEF IdInv
    <3>2. \A k, i : Adds(k, i) => i < id'
      BY <1>0, <2>6, <2>7
    <3>3. id \notin DOMAIN boxes /\ id < id' /\ \A k : ~Adds(k, id)
      BY <1>0, <2>5, <2>6, <2>7
    <3> QED
      BY <2>4, <2>7, <3>1, <3>2, <3>3
  <2>9. \A i \in DOMAIN boxes' : i < id'
    BY <1>0, <2>5, <2>7
  <2>10. (\A k \in DOMAIN agents : HasSort(agents[k].id, agents[k].sort))'
    <3>1. \A k \in DOMAIN agents : HasSort(agents[k].id, agents[k].sort)
      BY DEF IdInv
    <3>2. \A k \in DOMAIN agents' : \A i, t : i = agents'[k].id /\ t = agents'[k].sort =>
            HasSort(i, t) \/ (i = id /\ t = s)
      BY <2>2, <3>1
    <3>3. \A k \in DOMAIN agents' : \A i, t : i = agents'[k].id /\ t = agents'[k].sort => HasSort(i, t)'
      BY <2>3, <3>2
    <3> QED
      BY <3>3 DEF HasSort, Adds
  <2>11. \A k, l \in DOMAIN agents' : agents'[k].id = agents'[l].id => k = l
    <3>1. \A k \in DOMAIN agents : agents[k].id < id /\ agents[k].id \in Nat
      BY SortUnique DEF IdInv, TypeInv
    <3> QED
      BY <1>0, <2>2, <3>1 DEF IdInv
  <2>12. \A k \in DOMAIN agents' : \A e \in DOMAIN agents'[k].elements :
           LET c == agents'[k].elements[e] IN c.id = agents'[k].id /\ <<c.port, c.elem>> = e
    BY <2>2 DEF IdInv
  <2> QED
    BY <2>8, <2>9, <2>10, <2>11, <2>12 DEF IdInv
<1>3. ASSUME NEW n \in DOMAIN agents, Wakes(n)
      PROVE  IdInv'
  <2>1. \E m : Posts(m) /\ m.type # "NewAgent"
    BY <1>3 DEF Wakes
  <2>2. UNCHANGED <<agents, id>>
    BY <1>3 DEF Wakes
  <2> QED
    BY <2>1, <2>2, IdPost DEF IdInv
<1>4. ASSUME NEW m \in DOMAIN agents, NEW n \in DOMAIN agents, NEW p \in Places, NEW q \in Places,
             Joins(m, p, n, q)
      PROVE  IdInv'
  <2>1. \E e : Posts(e) /\ e.type # "NewAgent"
    BY <1>4 DEF Joins
  <2>2. UNCHANGED <<agents, id>>
    BY <1>4 DEF Joins
  <2> QED
    BY <2>1, <2>2, IdPost DEF IdInv
<1>5. ASSUME NEW n \in DOMAIN agents, NEW p \in Places, Grows(n, p)
      PROVE  IdInv'
  <2> DEFINE c == Channel(agents[n].id, p[1], p[2], made)
  <2>1. \E e : Posts(e) /\ e.type # "NewAgent"
    BY <1>5 DEF Grows
  <2>2. UNCHANGED id /\ agents' = [agents EXCEPT ![n].elements = Extend(@, <<p[1], p[2]>>, c)]
    BY <1>5 DEF Grows
  <2>3. c.id = agents[n].id /\ c.port = p[1] /\ c.elem = p[2]
    BY DEF Channel
  <2>4. /\ DOMAIN agents' = DOMAIN agents
        /\ \A k \in DOMAIN agents : agents'[k].id = agents[k].id /\ agents'[k].sort = agents[k].sort
    BY <1>0, <2>2
  <2>5. \A k \in DOMAIN agents : \A e \in DOMAIN agents'[k].elements :
          \/ k = n /\ e = <<p[1], p[2]>> /\ agents'[k].elements[e] = c
          \/ e \in DOMAIN agents[k].elements /\ agents'[k].elements[e] = agents[k].elements[e]
    <3> HIDE DEF c
    <3> QED
      BY <1>0, <2>2 DEF Extend
  <2>6. \A k \in DOMAIN agents : \A e \in DOMAIN agents'[k].elements :
          LET d == agents'[k].elements[e] IN d.id = agents[k].id /\ <<d.port, d.elem>> = e
    <3> HIDE DEF c
    <3> QED
      BY <2>3, <2>5 DEF IdInv
  <2> QED
    BY <2>1, <2>2, <2>4, <2>6, IdPost
<1> QED
  BY <1>1, <1>2, <1>3, <1>4, <1>5, CallSteps

LEMMA IdTook ==
  ASSUME TypeInv, IdInv, InteriorStep, UNCHANGED <<agents, id>>
  PROVE  IdInv'
<1>0. Len(mailbox) \in Nat
  BY DEF TypeInv
<1>1. \A i, s : HasSort(i, s)' <=> HasSort(i, s)
  BY TookSort
<1>2. (\A n \in DOMAIN agents : HasSort(agents[n].id, agents[n].sort))'
  <2>1. \A n \in DOMAIN agents : HasSort(agents[n].id, agents[n].sort)
    BY DEF IdInv
  <2>2. \A n \in DOMAIN agents' : \A i, s : i = agents'[n].id /\ s = agents'[n].sort => HasSort(i, s)
    BY <2>1
  <2>3. \A n \in DOMAIN agents' : \A i, s : i = agents'[n].id /\ s = agents'[n].sort => HasSort(i, s)'
    BY <1>1, <2>2
  <2> QED
    BY <2>3 DEF HasSort, Adds
<1>3. \A i, s : HasSort(i, s)' => i < id
  BY <1>1, SortUnique
<1>4. \A i \in DOMAIN boxes' : i < id'
  BY <1>3 DEF HasSort
<1>5. \A k, i : Adds(k, i)' => i < id'
  BY <1>3 DEF HasSort, Adds
<1>6. \A k, i : Adds(k, i) => i \notin DOMAIN boxes /\ \A j : Adds(j, i) => j = k
  BY DEF IdInv, Adds
<1>7. \A k, i : Adds(k, i)' => i \notin DOMAIN boxes' /\ \A j : Adds(j, i)' => j = k
  <2>1. ASSUME NEW m \in Messages, Took(m), DOMAIN boxes' \subseteq DOMAIN boxes \cup {m.id},
               m.type = "NewAgent" \/ DOMAIN boxes' = DOMAIN boxes
        PROVE  \A k, i : Adds(k, i)' => i \notin DOMAIN boxes' /\ \A j : Adds(j, i)' => j = k
    <3>1. \A k, i : Adds(k, i)' => k \in 1..Len(mailbox') /\ k + 1 # 1 /\ Adds(k + 1, i)
      BY <1>0, <2>1 DEF Adds, Took
    <3>2. m.type = "NewAgent" => Adds(1, m.id)
      BY <1>0, <2>1 DEF Adds, Took
    <3>3. \A k, i, j : Adds(k, i)' /\ Adds(j, i)' => k + 1 = j + 1 /\ k \in Nat /\ j \in Nat
      BY <1>0, <1>6, <2>1, <3>1 DEF Took
    <3> QED
      BY <1>6, <2>1, <3>1, <3>2, <3>3
  <2>2. ASSUME NEW i \in DOMAIN boxes, UNCHANGED mailbox, Makes(i, boxes[i].edits)
        PROVE  \A k, j : Adds(k, j)' => j \notin DOMAIN boxes' /\ \A l : Adds(l, j)' => l = k
    BY <1>6, <2>2 DEF Adds, Makes
  <2>3. ASSUME NEW m \in Messages, boxes' = Extend(boxes, m.id, NewBox(m.sort))
        PROVE  DOMAIN boxes' \subseteq DOMAIN boxes \cup {m.id}
    BY <2>3 DEF Extend
  <2>4. ASSUME NEW m \in Edits, Keeps(m.id, m) \/ Makes(m.id, <<m>>)
        PROVE  m \in Messages /\ DOMAIN boxes' = DOMAIN boxes
    BY <2>4 DEF Messages, Keeps, Makes
  <2> QED
    BY <2>1, <2>2, <2>3, <2>4 DEF InteriorStep
<1> QED
  BY <1>2, <1>4, <1>5, <1>7 DEF IdInv

-----------------------------------------------------------------------------
(* The mailbox: its messages are about agents that are there by then, and   *)
(* its edits fit.                                                           *)

\* An edit between old agents fits as before.
LEMMA FitsKept ==
  ASSUME TypeInv, IdInv, WantedInv, Call \/ InteriorStep, NEW e, Fits(e), e.id # id, e.chan.id # id
  PROVE  Fits(e)'
<1>1. \A i, s : HasSort(i, s)' /\ i # id => HasSort(i, s)
  BY SortsGrow
<1>2. \A s, t : HasSort(e.id, s)' /\ HasSort(e.chan.id, t)' => HasSort(e.id, s) /\ HasSort(e.chan.id, t)
  BY <1>1
<1> QED
  BY <1>2, Zenon DEF Fits

\* An id with a sort is there once the mailbox is empty.
LEMMA SortCreated ==
  ASSUME TypeInv, NEW i, NEW s, HasSort(i, s)
  PROVE  Created(Len(mailbox) + 1, i)
<1>1. Len(mailbox) \in Nat
  BY DEF TypeInv
<1>2. Len(mailbox) + 1 - 1 = Len(mailbox)
  BY <1>1
<1> QED
  BY <1>2 DEF HasSort, Created, Adds

LEMMA CreatedPost ==
  ASSUME TypeInv, IdInv, WantedInv, Call
  PROVE  /\ \A k, i : Adds(k, i) => Adds(k, i)'
         /\ \A k, i : Created(k, i) => Created(k, i)'
<1>0. ASSUME \A k, i : Adds(k, i) => Adds(k, i)', UNCHANGED boxes
      PROVE  \A k, i : Created(k, i) => Created(k, i)'
  BY <1>0 DEF Created
<1>1. CASE Fewer /\ UNCHANGED <<agents, id, made, mailbox, boxes>>
  BY <1>0, <1>1 DEF Adds
<1>2. ASSUME NEW n \in Names, NEW s \in Sorts, AddsNode(n, s)
      PROVE  (\A k, i : Adds(k, i) => Adds(k, i)') /\ UNCHANGED boxes
  BY <1>2, AddsSort DEF AddsNode, Posts
<1>3. ASSUME NEW m, Posts(m), m.type # "NewAgent"
      PROVE  (\A k, i : Adds(k, i) => Adds(k, i)') /\ UNCHANGED boxes
  BY <1>3, PostsSort DEF Posts
<1>4. ASSUME NEW n \in DOMAIN agents, Wakes(n)
      PROVE  \E m : Posts(m) /\ m.type # "NewAgent"
  BY <1>4 DEF Wakes
<1>5. ASSUME NEW m \in DOMAIN agents, NEW n \in DOMAIN agents, NEW p \in Places, NEW q \in Places,
             Joins(m, p, n, q)
      PROVE  \E e : Posts(e) /\ e.type # "NewAgent"
  BY <1>5 DEF Joins
<1>6. ASSUME NEW n \in DOMAIN agents, NEW p \in Places, Grows(n, p)
      PROVE  \E e : Posts(e) /\ e.type # "NewAgent"
  BY <1>6 DEF Grows
<1>7. (\A k, i : Adds(k, i) => Adds(k, i)') /\ UNCHANGED boxes
  BY <1>1, <1>2, <1>3, <1>4, <1>5, <1>6, CallSteps DEF Adds
<1> QED
  BY <1>0, <1>7

\* What the mailbox holds stays deliverable while a call posts.
LEMMA DeliversKept ==
  ASSUME TypeInv, IdInv, WantedInv, MailInv, Call
  PROVE  \A k \in 1..Len(mailbox) : \A m : m = mailbox[k] => Delivers(k, m)'
<1>1. SUFFICES ASSUME NEW k \in 1..Len(mailbox), NEW m, m = mailbox[k]
               PROVE  Delivers(k, m)'
  OBVIOUS
<1>2. Delivers(k, m)
  BY <1>1 DEF MailInv
<1>3. id \in Nat /\ Len(mailbox) \in Nat
  BY DEF TypeInv
<1>4. \A i : Created(k, i) => i # id
  BY <1>3, CreatedSort, SortUnique
<1>5. (m.type # "NewAgent" => Created(k, m.id)) /\ (IsEdit(m) => Created(k, m.chan.id) /\ Fits(m))
  BY <1>2 DEF Delivers
<1>6. m.type # "NewAgent" => Created(k, m.id)'
  BY <1>5, CreatedPost
<1>7. ASSUME IsEdit(m)
      PROVE  Created(k, m.chan.id)' /\ Fits(m)'
  <2>1. Created(k, m.id) /\ Created(k, m.chan.id) /\ Fits(m) /\ m.id # id /\ m.chan.id # id
    BY <1>4, <1>5, <1>7 DEF IsEdit
  <2> QED
    BY <2>1, CreatedPost, FitsKept
<1> QED
  BY <1>6, <1>7 DEF Delivers, IsEdit

LEMMA MailPost ==
  ASSUME TypeInv, IdInv, WantedInv, MailInv, Call, NEW m, Posts(m),
         NEW last, last = Len(mailbox) + 1, Delivers(last, m)'
  PROVE  MailInv'
<1>1. \A k \in 1..Len(mailbox') : \A e : e = mailbox'[k] =>
        (k \in 1..Len(mailbox) /\ e = mailbox[k]) \/ (k = last /\ e = m)
  BY PostsLast
<1>2. \A k \in 1..Len(mailbox') : \A e : e = mailbox'[k] => Delivers(k, e)'
  BY <1>1, DeliversKept
<1> QED
  BY <1>2 DEF MailInv

LEMMA MailCall ==
  ASSUME TypeInv, IdInv, WantedInv, MailInv, Call
  PROVE  MailInv'
<1>0. PICK last : last = Len(mailbox) + 1
  OBVIOUS
<1>1. \A n \in DOMAIN agents : \A i : i = agents[n].id =>
        /\ i # id /\ HasSort(i, agents[n].sort) /\ Created(last, i)
        /\ \A s : HasSort(i, s) => s = agents[n].sort
  <2>1. \A n \in DOMAIN agents : HasSort(agents[n].id, agents[n].sort)
    BY DEF IdInv
  <2>2. id \in Nat
    BY DEF TypeInv
  <2> QED
    BY <1>0, <2>1, <2>2, SortUnique, SortCreated
<1>2. CASE Fewer /\ UNCHANGED <<agents, id, made, mailbox, boxes>>
  <2>1. \A k \in 1..Len(mailbox') : \A e : e = mailbox'[k] => Delivers(k, e)'
    BY <1>2, DeliversKept
  <2> QED
    BY <2>1 DEF MailInv
<1>3. ASSUME NEW n \in Names, NEW s \in Sorts, AddsNode(n, s)
      PROVE  MailInv'
  <2>1. PICK m : Posts(m) /\ m = [type |-> "NewAgent", id |-> id, sort |-> s]
    BY <1>3 DEF AddsNode
  <2>2. m.type = "NewAgent"
    BY <2>1
  <2>3. Delivers(last, m)'
    BY <2>2 DEF Delivers, IsEdit
  <2> QED
    BY <1>0, <2>1, <2>3, MailPost
<1>4. ASSUME NEW n \in DOMAIN agents, Wakes(n)
      PROVE  MailInv'
  <2>1. PICK m, i : Posts(m) /\ m.type \in {"Start", "Inc"} /\ m.id = i /\ i = agents[n].id
    BY <1>4 DEF Wakes
  <2>2. Created(last, i)'
    BY <1>1, <2>1, CreatedPost
  <2>3. Delivers(last, m)'
    BY <2>1, <2>2 DEF Delivers, IsEdit
  <2> QED
    BY <1>0, <2>1, <2>3, MailPost
<1>5. ASSUME NEW e, Posts(e), e.type # "NewAgent", NEW i, NEW j, e.id = i, e.chan.id = j,
             Created(last, i), Created(last, j), Fits(e), i # id, j # id
      PROVE  MailInv'
  <2>1. Created(last, i)' /\ Created(last, j)'
    BY <1>5, CreatedPost
  <2>2. Fits(e)'
    BY <1>5, FitsKept
  <2>3. Delivers(last, e)'
    BY <1>5, <2>1, <2>2 DEF Delivers, IsEdit
  <2> QED
    BY <1>0, <1>5, <2>3, MailPost
<1>6. ASSUME NEW m \in DOMAIN agents, NEW n \in DOMAIN agents, NEW p \in Places, NEW q \in Places,
             Joins(m, p, n, q)
      PROVE  MailInv'
  <2>1. PICK e, c : /\ Posts(e) /\ c = Sender(n, q[1], q[2])
                    /\ e = [type |-> "Connect", id |-> agents[m].id, port |-> p[1], elem |-> p[2], chan |-> c]
    BY <1>6 DEF Joins
  <2>2. c.id = agents[n].id /\ c.port = q[1] /\ c.elem = q[2]
    BY <1>6, <2>1 DEF Joins, HasSender, Sender, Channel, IdInv
  <2>3. Fits(e)
    <3>1. \A s, t : HasSort(e.id, s) /\ HasSort(e.chan.id, t) => s = agents[m].sort /\ t = agents[n].sort
      BY <1>1, <2>1, <2>2
    <3>2. p[1] \in DOMAIN OutSchemas(agents[m].sort, p[2])
          /\ Match(InSchemas(agents[n].sort, q[2])[q[1]], OutSchemas(agents[m].sort, p[2])[p[1]])
      BY <1>6 DEF Joins
    <3> QED
      BY <2>1, <2>2, <3>1, <3>2 DEF Fits
  <2> QED
    BY <1>1, <1>5, <2>1, <2>2, <2>3
<1>7. ASSUME NEW n \in DOMAIN agents, NEW p \in Places, Grows(n, p)
      PROVE  MailInv'
  <2>1. PICK e, c : /\ Posts(e) /\ c.id = agents[n].id
                    /\ e = [type |-> "AddInputArrayElement", id |-> agents[n].id, port |-> p[1],
                            elem |-> p[2], chan |-> c]
    BY <1>7 DEF Grows, Channel
  <2>2. Fits(e)
    <3>1. \A s : HasSort(e.id, s) => s = agents[n].sort
      BY <1>1, <2>1
    <3>2. p[1] \in DOMAIN inarr[agents[n].sort]
      BY <1>7 DEF Grows
    <3> QED
      BY <2>1, <3>1, <3>2 DEF Fits
  <2> QED
    BY <1>1, <1>5, <2>1, <2>2
<1> QED
  BY <1>2, <1>3, <1>4, <1>6, <1>7, CallSteps

\* When the head is taken, the others come one nearer.
LEMMA CreatedTook ==
  ASSUME TypeInv, NEW m \in Messages, Took(m), DOMAIN boxes \subseteq DOMAIN boxes',
         m.type = "NewAgent" => m.id \in DOMAIN boxes'
  PROVE  \A k \in 1..Len(mailbox') : \A n, i : n = k + 1 /\ Created(n, i) => Created(k, i)'
<1>0. Len(mailbox) \in Nat
  BY DEF TypeInv
<1>1. ASSUME NEW k \in 1..Len(mailbox'), NEW i, NEW j \in 1..k, Adds(j, i)
      PROVE  Created(k, i)'
  <2>1. CASE j = 1
    <3>1. i \in DOMAIN boxes'
      BY <1>1, <2>1 DEF Adds, Took
    <3> QED
      BY <3>1 DEF Created
  <2>2. ASSUME j # 1
        PROVE  Created(k, i)'
    <3>1. PICK l : l = j - 1 /\ l \in 1..(k - 1)
      BY <1>0, <2>2, <1>1 DEF Took
    <3>2. Adds(l, i)'
      <4>1. l \in 1..Len(mailbox') /\ j = l + 1
        BY <1>0, <1>1, <3>1 DEF Took
      <4>2. mailbox'[l] = mailbox[j]
        BY <4>1 DEF Took
      <4> QED
        BY <1>1, <4>1, <4>2 DEF Adds
    <3> QED
      BY <3>1, <3>2 DEF Created
  <2> QED
    BY <2>1, <2>2
<1>2. ASSUME NEW k \in 1..Len(mailbox'), NEW n, n = k + 1, NEW i, Created(n, i)
      PROVE  Created(k, i)'
  <2>1. CASE i \in DOMAIN boxes
    <3>1. i \in DOMAIN boxes'
      BY <2>1
    <3> QED
      BY <3>1 DEF Created
  <2>2. CASE \E j \in 1..(n - 1) : Adds(j, i)
    <3>1. n - 1 = k
      BY <1>0, <1>2 DEF Took
    <3> QED
      BY <1>1, <2>2, <3>1
  <2> QED
    BY <1>2, <2>1, <2>2 DEF Created
<1> QED
  BY <1>2

LEMMA MailTook ==
  ASSUME TypeInv, IdInv, WantedInv, MailInv, InteriorStep, UNCHANGED id
  PROVE  MailInv'
<1>0. id \in Nat /\ Len(mailbox) \in Nat
  BY DEF TypeInv
<1>1. \A k \in 1..Len(mailbox) : \A m : m = mailbox[k] =>
        /\ m.type # "NewAgent" => Created(k, m.id)
        /\ IsEdit(m) => Created(k, m.chan.id) /\ Fits(m)'
  <2>1. ASSUME NEW k \in 1..Len(mailbox), NEW m, m = mailbox[k], IsEdit(m)
        PROVE  Fits(m)'
    <3>1. Created(k, m.id) /\ Created(k, m.chan.id) /\ Fits(m)
      BY <2>1 DEF MailInv, Delivers, IsEdit
    <3>2. m.id # id /\ m.chan.id # id
      BY <1>0, <3>1, CreatedSort, SortUnique
    <3> QED
      BY <3>1, <3>2, FitsKept
  <2> QED
    BY <2>1 DEF MailInv, Delivers
<1>2. ASSUME NEW m \in Messages, Took(m), DOMAIN boxes \subseteq DOMAIN boxes',
             m.type = "NewAgent" => m.id \in DOMAIN boxes'
      PROVE  MailInv'
  <2>1. ASSUME NEW k \in 1..Len(mailbox'), NEW e, e = mailbox'[k]
        PROVE  Delivers(k, e)'
    <3>1. PICK n : n = k + 1 /\ n \in 1..Len(mailbox) /\ e = mailbox[n]
      BY <1>2, <2>1 DEF Took
    <3>2. \A i : Created(n, i) => Created(k, i)'
      BY <1>2, <3>1, CreatedTook
    <3>3. e.type # "NewAgent" => Created(k, e.id)'
      BY <1>1, <3>1, <3>2
    <3>4. IsEdit(e) => Created(k, e.chan.id)' /\ Fits(e)'
      BY <1>1, <3>1, <3>2
    <3> QED
      BY <3>3, <3>4 DEF Delivers, IsEdit
  <2> QED
    BY <2>1 DEF MailInv
<1>3. ASSUME NEW i \in DOMAIN boxes, UNCHANGED mailbox, Makes(i, boxes[i].edits)
      PROVE  MailInv'
  <2>1. ASSUME NEW k \in 1..Len(mailbox'), NEW e, e = mailbox'[k]
        PROVE  Delivers(k, e)'
    <3>1. \A j : Created(k, j) => Created(k, j)'
      BY <1>3 DEF Created, Adds, Makes
    <3> QED
      BY <1>1, <1>3, <2>1, <3>1 DEF Delivers, IsEdit
  <2> QED
    BY <2>1 DEF MailInv
<1>4. ASSUME NEW m \in Messages, boxes' = Extend(boxes, m.id, NewBox(m.sort))
      PROVE  DOMAIN boxes \subseteq DOMAIN boxes' /\ m.id \in DOMAIN boxes'
  BY <1>4 DEF Extend
<1>5. ASSUME NEW m \in Edits, Keeps(m.id, m) \/ Makes(m.id, <<m>>)
      PROVE  m \in Messages /\ m.type # "NewAgent" /\ DOMAIN boxes' = DOMAIN boxes
  BY <1>5 DEF Messages, Edits, Keeps, Makes
<1> QED
  BY <1>2, <1>3, <1>4, <1>5 DEF InteriorStep

-----------------------------------------------------------------------------
(* The agents: the edits they keep fit, and what is joined may be.          *)

LEMMA WaitingKept ==
  ASSUME TypeInv, IdInv, WantedInv, Call \/ InteriorStep, DOMAIN boxes \subseteq DOMAIN boxes',
         NEW i \in DOMAIN boxes, NEW m, Waiting(i, m)
  PROVE  Waiting(i, m)'
<1>1. \A j \in DOMAIN boxes : j # id
  BY DEF IdInv, TypeInv
<1>2. m.id = i /\ m.chan.id \in DOMAIN boxes /\ Fits(m) /\ m.id # id /\ m.chan.id # id
  BY <1>1 DEF Waiting
<1>3. Fits(m)'
  BY <1>2, FitsKept
<1> QED
  BY <1>2, <1>3 DEF Waiting

\* It is enough to look at what is new.
LEMMA BoxKept ==
  ASSUME TypeInv, IdInv, WantedInv, BoxInv, Call \/ InteriorStep,
         DOMAIN boxes \subseteq DOMAIN boxes', \A i \in DOMAIN boxes : boxes'[i].sort = boxes[i].sort,
         \A i \in DOMAIN boxes' \ DOMAIN boxes : boxes'[i].edits = <<>> /\ DOMAIN boxes'[i].outs = {},
         \A i \in DOMAIN boxes : \A k \in 1..Len(boxes'[i].edits) :
           \/ k \in 1..Len(boxes[i].edits) /\ boxes'[i].edits[k] = boxes[i].edits[k]
           \/ \E m : m = boxes'[i].edits[k] /\ Waiting(i, m),
         \A i \in DOMAIN boxes : \A o \in DOMAIN boxes'[i].outs :
           \/ o \in DOMAIN boxes[i].outs /\ boxes'[i].outs[o] = boxes[i].outs[o]
           \/ \E c : c = boxes'[i].outs[o] /\ Plugged(i, o, c)
  PROVE  BoxInv'
<1>1. \A i \in DOMAIN boxes' : \A k \in 1..Len(boxes'[i].edits) : \A m : m = boxes'[i].edits[k] => Waiting(i, m)'
  <2>1. SUFFICES ASSUME NEW i \in DOMAIN boxes', NEW k \in 1..Len(boxes'[i].edits), NEW m,
                        m = boxes'[i].edits[k]
                 PROVE  Waiting(i, m)'
    OBVIOUS
  <2>2. i \in DOMAIN boxes
    BY <2>1
  <2>3. Waiting(i, m)
    BY <2>1, <2>2 DEF BoxInv
  <2> QED
    BY <2>2, <2>3, WaitingKept
<1>2. \A i \in DOMAIN boxes' : \A o \in DOMAIN boxes'[i].outs : \A c : c = boxes'[i].outs[o] => Plugged(i, o, c)'
  <2>1. SUFFICES ASSUME NEW i \in DOMAIN boxes', NEW o \in DOMAIN boxes'[i].outs, NEW c,
                        c = boxes'[i].outs[o]
                 PROVE  Plugged(i, o, c)'
    OBVIOUS
  <2>2. i \in DOMAIN boxes
    BY <2>1
  <2>3. Plugged(i, o, c)
    BY <2>1, <2>2 DEF BoxInv
  <2> QED
    BY <2>2, <2>3 DEF Plugged
<1>3. (\A i \in DOMAIN boxes : \A k \in 1..Len(boxes[i].edits) : \A m \in {boxes[i].edits[k]} : Waiting(i, m))'
  BY ONLY <1>1
<1>4. (\A i \in DOMAIN boxes : \A o \in DOMAIN boxes[i].outs : \A c \in {boxes[i].outs[o]} : Plugged(i, o, c))'
  BY ONLY <1>2
<1> QED
  BY ONLY <1>3, <1>4 DEF BoxInv

LEMMA BoxStep ==
  ASSUME TypeInv, IdInv, WantedInv, MailInv, BoxInv, Call \/ InteriorStep
  PROVE  BoxInv'
<1>0. Len(mailbox) \in Nat /\ \A i \in DOMAIN boxes : boxes[i].edits \in Seq(Edits)
  BY DEF TypeInv
<1>1. CASE Call
  <2>1. UNCHANGED boxes
    BY <1>1, CallSteps DEF AddsNode, Wakes, Joins, Grows, Posts
  <2> QED
    BY <1>1, <2>1, BoxKept
<1>2. ASSUME NEW m \in Messages, Took(m), m.type = "NewAgent",
             boxes' = Extend(boxes, m.id, NewBox(m.sort))
      PROVE  BoxInv'
  <2>1. m.id \notin DOMAIN boxes
    BY <1>0, <1>2 DEF Took, Adds, IdInv
  <2>2. /\ DOMAIN boxes' = DOMAIN boxes \cup {m.id}
        /\ boxes'[m.id].edits = <<>> /\ DOMAIN boxes'[m.id].outs = {}
        /\ \A i \in DOMAIN boxes : boxes'[i] = boxes[i]
    BY <1>2, <2>1 DEF Extend, NewBox, Empty
  <2>3. InteriorStep
    BY <1>2 DEF InteriorStep
  <2> QED
    BY <2>2, <2>3, BoxKept
<1>3. ASSUME NEW m \in Messages, Took(m), m.type \in {"Start", "Inc"}, m.id \in DOMAIN boxes,
             DOMAIN boxes' = DOMAIN boxes, \A i \in DOMAIN boxes : Alike(i)
      PROVE  BoxInv'
  <2>1. InteriorStep
    BY <1>3 DEF InteriorStep
  <2>2. \A i \in DOMAIN boxes : /\ boxes'[i].sort = boxes[i].sort /\ boxes'[i].outs = boxes[i].outs
                                /\ boxes'[i].edits = boxes[i].edits
    BY <1>3 DEF Alike
  <2> QED
    BY <1>3, <2>1, <2>2, BoxKept
<1>4. ASSUME NEW m \in Edits, Took(m)
      PROVE  m.id \in DOMAIN boxes => Waiting(m.id, m)
  <2>1. 1 \in 1..Len(mailbox) /\ mailbox[1] = m
    BY <1>0, <1>4 DEF Took
  <2>2. m.type \in {"Connect", "AddInputArrayElement"}
    BY DEF Edits
  <2>3. Delivers(1, m)
    BY <2>1 DEF MailInv
  <2>4. Created(1, m.chan.id) /\ Fits(m)
    BY <2>2, <2>3 DEF Delivers, IsEdit
  <2>5. m.chan.id \in DOMAIN boxes
    BY <2>4 DEF Created
  <2> QED
    BY <2>4, <2>5 DEF Waiting
<1>5. ASSUME NEW m \in Edits, Took(m), Keeps(m.id, m)
      PROVE  BoxInv'
  <2>1. InteriorStep
    BY <1>5 DEF InteriorStep
  <2>2. \A i \in DOMAIN boxes : /\ boxes'[i].sort = boxes[i].sort /\ boxes'[i].outs = boxes[i].outs
                                /\ boxes'[i].edits = IF i = m.id THEN Append(boxes[i].edits, m) ELSE boxes[i].edits
    BY <1>5 DEF Keeps, Alike
  <2>3. ASSUME NEW i \in DOMAIN boxes, NEW k \in 1..Len(boxes'[i].edits)
        PROVE  \/ k \in 1..Len(boxes[i].edits) /\ boxes'[i].edits[k] = boxes[i].edits[k]
               \/ \E e : e = boxes'[i].edits[k] /\ Waiting(i, e)
    <3>1. CASE i # m.id
      BY <2>2, <2>3, <3>1
    <3>2. CASE i = m.id
      <4>1. \/ k \in 1..Len(boxes[i].edits) /\ boxes'[i].edits[k] = boxes[i].edits[k]
            \/ boxes'[i].edits[k] = m
        <5>1. PICK es \in Seq(Edits) : es = boxes[i].edits /\ boxes'[i].edits = Append(es, m)
          BY <1>0, <2>2, <3>2
        <5>2. k \in 1..Len(Append(es, m))
          BY <5>1
        <5> QED
          BY ONLY <5>1, <5>2
      <4> QED
        BY <1>4, <1>5, <3>2, <4>1
    <3> QED
      BY <3>1, <3>2
  <2>4. DOMAIN boxes' = DOMAIN boxes
    BY <1>5 DEF Keeps
  <2> HIDE DEF InteriorStep
  <2> QED
    BY <2>1, <2>2, <2>3, <2>4, BoxKept
<1>6. ASSUME NEW i \in DOMAIN boxes, NEW es \in Seq(Edits), Makes(i, es), InteriorStep,
             \A k \in 1..Len(es) : \A e : e = es[k] => Waiting(i, e)
      PROVE  BoxInv'
  <2>1. /\ DOMAIN boxes' = DOMAIN boxes
        /\ \A j \in DOMAIN boxes : boxes'[j].sort = boxes[j].sort
        /\ \A j \in DOMAIN boxes \ {i} : boxes'[j].outs = boxes[j].outs /\ boxes'[j].edits = boxes[j].edits
        /\ boxes'[i].edits = <<>> /\ boxes'[i].outs = Changed(boxes[i].outs, es, "Connect")
    BY <1>6 DEF Makes, Alike
  <2>2. ASSUME NEW o \in DOMAIN boxes'[i].outs
        PROVE  \/ o \in DOMAIN boxes[i].outs /\ boxes'[i].outs[o] = boxes[i].outs[o]
               \/ \E c : c = boxes'[i].outs[o] /\ Plugged(i, o, c)
    <3>1. \/ o \in DOMAIN boxes[i].outs /\ boxes'[i].outs[o] = boxes[i].outs[o]
          \/ \E k \in 1..Len(es) : /\ es[k].type = "Connect" /\ <<es[k].port, es[k].elem>> = o
                                   /\ boxes'[i].outs[o] = es[k].chan
      BY <2>1, <2>2, ChangedFrom
    <3>2. ASSUME NEW k \in 1..Len(es), es[k].type = "Connect", <<es[k].port, es[k].elem>> = o
          PROVE  Plugged(i, o, es[k].chan)
      <4>1. PICK e : e = es[k] /\ Waiting(i, e)
        BY <1>6
      <4>2. /\ HasSort(e.id, boxes[i].sort) /\ HasSort(e.chan.id, boxes[e.chan.id].sort)
            /\ e.chan.id \in DOMAIN boxes /\ Fits(e)
        BY <4>1 DEF Waiting, HasSort
      <4>3. Match(InSchemas(boxes[e.chan.id].sort, e.chan.elem)[e.chan.port],
                  OutSchemas(boxes[i].sort, e.elem)[e.port])
        BY <3>2, <4>1, <4>2 DEF Fits
      <4> QED
        BY <3>2, <4>1, <4>2, <4>3 DEF Plugged
    <3> QED
      BY <3>1, <3>2
  <2> HIDE DEF InteriorStep
  <2> QED
    BY <1>6, <2>1, <2>2, BoxKept
<1>7. ASSUME NEW i \in DOMAIN boxes, UNCHANGED mailbox, Makes(i, boxes[i].edits)
      PROVE  BoxInv'
  <2>1. InteriorStep
    BY <1>7 DEF InteriorStep
  <2>2. \A k \in 1..Len(boxes[i].edits) : \A e : e = boxes[i].edits[k] => Waiting(i, e)
    BY DEF BoxInv
  <2> QED
    BY <1>0, <1>6, <1>7, <2>1, <2>2
<1>8. ASSUME NEW m \in Edits, Took(m), Makes(m.id, <<m>>), boxes[m.id].edits = <<>>
      PROVE  BoxInv'
  <2>1. InteriorStep
    BY <1>8 DEF InteriorStep
  <2>2. m.id \in DOMAIN boxes
    BY <1>8 DEF Makes
  <2>3. Waiting(m.id, m)
    BY <1>4, <1>8, <2>2
  <2>4. <<m>> \in Seq(Edits) /\ \A k \in 1..Len(<<m>>) : \A e : e = <<m>>[k] => Waiting(m.id, e)
    BY <2>3
  <2> QED
    BY <1>6, <1>8, <2>1, <2>2, <2>4
<1> QED
  BY <1>1, <1>2, <1>3, <1>5, <1>7, <1>8 DEF InteriorStep

-----------------------------------------------------------------------------
(* What a place will hold in the end.                                       *)

\* A call's message about another place changes nothing of this one.
LEMMA EndsOther ==
  ASSUME TypeInv, NEW m, Posts(m), NEW i, NEW t, NEW e, NEW c, Ends(i, t, e, c),
         ~(m.type = t /\ m.id = i /\ <<m.port, m.elem>> = e)
  PROVE  Ends(i, t, e, c)'
<1>1. \A k \in Nat : Mailed(k, i, t, e)' <=> Mailed(k, i, t, e)
  BY PostsLast DEF Mailed
<1>2. \A k \in Nat : Mailed(k, i, t, e) => mailbox'[k] = mailbox[k]
  BY PostsLast DEF Mailed
<1>3. Later(i, t, e, c)' <=> Later(i, t, e, c)
  BY DEF Posts, Later, Kept, Now
<1> QED
  BY <1>1, <1>2, <1>3 DEF Ends

\* An edit that a call posts is the last of its place.
LEMMA EndsPosted ==
  ASSUME TypeInv, NEW m, Posts(m), NEW i, NEW t, NEW e, NEW c,
         m.type = t, m.id = i, <<m.port, m.elem>> = e, m.chan = c
  PROVE  Ends(i, t, e, c)'
<1>1. PICK last \in Nat : last = Len(mailbox) + 1
  BY DEF TypeInv
<1>2. Mailed(last, i, t, e)' /\ mailbox'[last].chan = c
  BY <1>1, PostsLast DEF Mailed
<1>3. \A j \in Nat : Mailed(j, i, t, e)' => j <= last
  BY <1>1, PostsLast DEF Mailed
<1> QED
  BY <1>2, <1>3 DEF Ends

\* Nor do the steps of the interior scheduler.
LEMMA LaterSame ==
  ASSUME NEW i \in DOMAIN boxes, i \in DOMAIN boxes', boxes'[i].outs = boxes[i].outs,
         boxes'[i].ins = boxes[i].ins, boxes'[i].edits = boxes[i].edits,
         NEW t, NEW e, NEW c
  PROVE  Later(i, t, e, c)' <=> Later(i, t, e, c)
BY DEF Later, Kept, Now

LEMMA LaterAlike ==
  ASSUME NEW i, NEW t, NEW e, NEW c, Later(i, t, e, c),
         i \in DOMAIN boxes => i \in DOMAIN boxes' /\ Alike(i)
  PROVE  Later(i, t, e, c)'
<1>1. i \in DOMAIN boxes
  BY DEF Later
<1>2. /\ i \in DOMAIN boxes' /\ boxes'[i].outs = boxes[i].outs
      /\ boxes'[i].ins = boxes[i].ins /\ boxes'[i].edits = boxes[i].edits
  BY <1>1 DEF Alike
<1> QED
  BY <1>1, <1>2, LaterSame

\* Nothing of the mailbox or of the agents that are there is changed.
LEMMA EndsSame ==
  ASSUME UNCHANGED <<mailbox, boxes>>
  PROVE  \A i, t, e, c : Ends(i, t, e, c) => Ends(i, t, e, c)'
<1> SUFFICES ASSUME NEW i, NEW t, NEW e, NEW c, Ends(i, t, e, c) PROVE Ends(i, t, e, c)'
  OBVIOUS
<1>1. \A k : Mailed(k, i, t, e)' <=> Mailed(k, i, t, e)
  BY DEF Mailed
<1>2. Later(i, t, e, c) => Later(i, t, e, c)'
  BY LaterAlike DEF Alike
<1> QED
  BY <1>1, <1>2 DEF Ends

\* Edits made take the place of those kept.
LEMMA LaterMade ==
  ASSUME NEW i, NEW es \in Seq(Edits), Makes(i, es),
         NEW t \in {"Connect", "AddInputArrayElement"}, NEW e, NEW c,
         \/ \E k \in 1..Len(es) : /\ es[k].type = t /\ <<es[k].port, es[k].elem>> = e /\ es[k].chan = c
                                  /\ \A j \in 1..Len(es) :
                                       es[j].type = t /\ <<es[j].port, es[j].elem>> = e => j <= k
         \/ /\ \A k \in 1..Len(es) : ~(es[k].type = t /\ <<es[k].port, es[k].elem>> = e)
            /\ e \in DOMAIN Now(i, t) /\ Now(i, t)[e] = c
  PROVE  Later(i, t, e, c)'
<1>1. PICK f : f = Now(i, t)
  OBVIOUS
<1>2. e \in DOMAIN Changed(f, es, t) /\ Changed(f, es, t)[e] = c
  <2>1. CASE \E k \in 1..Len(es) : /\ es[k].type = t /\ <<es[k].port, es[k].elem>> = e /\ es[k].chan = c
                                   /\ \A j \in 1..Len(es) :
                                        es[j].type = t /\ <<es[j].port, es[j].elem>> = e => j <= k
    <3>1. PICK k \in 1..Len(es) :
            /\ es[k].type = t /\ <<es[k].port, es[k].elem>> = e /\ es[k].chan = c
            /\ \A j \in 1..Len(es) : es[j].type = t /\ <<es[j].port, es[j].elem>> = e => j <= k
      BY <2>1
    <3>2. IsLast(es, t, e, k)
      BY <3>1 DEF IsLast
    <3>3. e \in DOMAIN Changed(f, es, t) /\ Changed(f, es, t)[e] = es[k].chan
      BY <3>2, ChangedLast
    <3> QED
      BY <3>1, <3>3
  <2>2. CASE /\ \A k \in 1..Len(es) : ~(es[k].type = t /\ <<es[k].port, es[k].elem>> = e)
             /\ e \in DOMAIN Now(i, t) /\ Now(i, t)[e] = c
    BY <1>1, <2>2, ChangedOther
  <2> QED
    BY <2>1, <2>2
<1>3. (IF t = "Connect" THEN boxes'[i].outs ELSE boxes'[i].ins) = Changed(f, es, t)
  BY <1>1 DEF Makes, Now
<1>4. i \in DOMAIN boxes' /\ boxes'[i].edits = <<>>
  BY DEF Makes
<1> QED
  BY <1>2, <1>3, <1>4 DEF Later, Kept, Now

\* What is left in the mailbox is still the last.
LEMMA EndsAfterHead ==
  ASSUME TypeInv, NEW m, Took(m), NEW i, NEW t, NEW e, NEW c, Ends(i, t, e, c),
         \/ /\ ~(m.type = t /\ m.id = i /\ <<m.port, m.elem>> = e)
            /\ Later(i, t, e, c) => Later(i, t, e, c)'
         \/ m.type = t /\ m.id = i /\ <<m.port, m.elem>> = e /\ (m.chan = c => Later(i, t, e, c)')
  PROVE  Ends(i, t, e, c)'
<1>0. Len(mailbox) \in Nat
  BY DEF TypeInv
<1>1. \A k \in Nat : Mailed(k, i, t, e)' <=> Mailed(k + 1, i, t, e) /\ k # 0
  BY <1>0 DEF Mailed, Took
<1>2. \A k \in Nat : Mailed(k, i, t, e) => k \in 1..Len(mailbox)
  BY DEF Mailed
<1>3. \A k \in Nat : Mailed(k, i, t, e)' => mailbox'[k] = mailbox[k + 1]
  BY DEF Mailed, Took
<1>4. Mailed(1, i, t, e) <=> m.type = t /\ m.id = i /\ <<m.port, m.elem>> = e
  BY <1>0 DEF Mailed, Took
<1>5. ASSUME NEW k \in Nat, Mailed(k, i, t, e), mailbox[k].chan = c, k # 1,
             \A j \in Nat : Mailed(j, i, t, e) => j <= k
      PROVE  Ends(i, t, e, c)'
  <2>1. PICK n \in Nat : n = k - 1 /\ k = n + 1 /\ n # 0
    BY <1>2, <1>5
  <2>2. Mailed(n, i, t, e)' /\ mailbox'[n].chan = c
    BY <1>1, <1>3, <1>5, <2>1
  <2>3. \A j \in Nat : Mailed(j, i, t, e)' => j <= n
    BY <1>1, <1>5, <2>1
  <2> QED
    BY <2>2, <2>3 DEF Ends
<1>6. ASSUME Mailed(1, i, t, e), m.chan = c, \A j \in Nat : Mailed(j, i, t, e) => j <= 1
      PROVE  Ends(i, t, e, c)'
  <2>1. Later(i, t, e, c)'
    BY <1>4, <1>6
  <2>2. \A k \in Nat : ~Mailed(k, i, t, e)'
    BY <1>1, <1>6
  <2> QED
    BY <2>1, <2>2 DEF Ends
<1>7. ASSUME \A k \in Nat : ~Mailed(k, i, t, e), Later(i, t, e, c)
      PROVE  Ends(i, t, e, c)'
  <2>1. Later(i, t, e, c)'
    BY <1>4, <1>7
  <2>2. \A k \in Nat : ~Mailed(k, i, t, e)'
    BY <1>1, <1>7
  <2> QED
    BY <2>1, <2>2 DEF Ends
<1>8. mailbox[1] = m
  BY DEF Took
<1> QED
  BY <1>5, <1>6, <1>7, <1>8 DEF Ends

LEMMA EndsTook ==
  ASSUME TypeInv, IdInv, InteriorStep,
         NEW i, NEW t \in {"Connect", "AddInputArrayElement"}, NEW e, NEW c, Ends(i, t, e, c)
  PROVE  Ends(i, t, e, c)'
<1>0. /\ Len(mailbox) \in Nat
      /\ \A j \in DOMAIN boxes : boxes[j].edits \in Seq(Edits) /\ Len(boxes[j].edits) \in Nat
  BY DEF TypeInv
<1>1. ASSUME NEW m \in Messages, Took(m), m.type \notin {"Connect", "AddInputArrayElement"},
             \A j \in DOMAIN boxes : j \in DOMAIN boxes' /\ Alike(j)
      PROVE  Ends(i, t, e, c)'
  <2>1. Later(i, t, e, c) => Later(i, t, e, c)'
    BY <1>1, LaterAlike
  <2> QED
    BY <1>1, <2>1, EndsAfterHead
<1>2. ASSUME NEW m \in Messages, Took(m), m.type = "NewAgent",
             boxes' = Extend(boxes, m.id, NewBox(m.sort))
      PROVE  Ends(i, t, e, c)'
  <2>1. m.id \notin DOMAIN boxes
    BY <1>0, <1>2 DEF Took, Adds, IdInv
  <2>2. \A j \in DOMAIN boxes : j \in DOMAIN boxes' /\ Alike(j)
    BY <1>2, <2>1 DEF Extend, Alike
  <2> QED
    BY <1>1, <1>2, <2>2
<1>3. ASSUME NEW m \in Edits, Took(m), Keeps(m.id, m)
      PROVE  Ends(i, t, e, c)'
  <2> DEFINE Matches == m.type = t /\ m.id = i /\ <<m.port, m.elem>> = e
  <2>1. PICK es : /\ es = boxes[m.id].edits /\ es \in Seq(Edits) /\ Len(es) \in Nat
                  /\ boxes'[m.id].edits = Append(es, m)
    BY <1>0, <1>3 DEF Keeps
  <2>2. /\ Len(Append(es, m)) = Len(es) + 1 /\ Append(es, m)[Len(es) + 1] = m
        /\ \A k \in 1..Len(es) : Append(es, m)[k] = es[k]
        /\ \A k \in Nat : k \in 1..(Len(es) + 1) <=> k \in 1..Len(es) \/ k = Len(es) + 1
        /\ Len(es) + 1 \in Nat
    BY ONLY <2>1
  <2>3. /\ m.id \in DOMAIN boxes /\ m.id \in DOMAIN boxes'
        /\ boxes'[m.id].outs = boxes[m.id].outs /\ boxes'[m.id].ins = boxes[m.id].ins
        /\ \A j \in DOMAIN boxes \ {m.id} : j \in DOMAIN boxes' /\ Alike(j)
    BY <1>3 DEF Keeps
  <2>4. ASSUME Matches, m.chan = c
        PROVE  Later(i, t, e, c)'
    <3>1. Kept(Len(es) + 1, m.id, t, e)' /\ boxes'[m.id].edits[Len(es) + 1].chan = c
      BY <2>1, <2>2, <2>4 DEF Kept
    <3>2. \A j \in Nat : Kept(j, i, t, e)' => j <= Len(es) + 1
      BY <2>1, <2>2, <2>4 DEF Kept
    <3> QED
      BY <2>2, <2>3, <2>4, <3>1, <3>2 DEF Later
  <2>5. ASSUME ~Matches, Later(i, t, e, c)
        PROVE  Later(i, t, e, c)'
    <3>1. CASE i # m.id
      BY <2>3, <2>5, <3>1, LaterAlike
    <3>2. CASE i = m.id
      <4>1. \A k \in Nat : Kept(k, i, t, e)' <=> Kept(k, i, t, e)
        BY <2>1, <2>2, <2>5, <3>2 DEF Kept
      <4>2. \A k \in Nat : Kept(k, i, t, e) => boxes'[i].edits[k] = boxes[i].edits[k]
        BY <2>1, <2>2, <3>2 DEF Kept
      <4>3. Now(i, t)' = Now(i, t) /\ i \in DOMAIN boxes'
        BY <2>3, <3>2 DEF Now
      <4> QED
        BY <2>5, <4>1, <4>2, <4>3 DEF Later
    <3> QED
      BY <3>1, <3>2
  <2> QED
    BY <1>3, <2>4, <2>5, EndsAfterHead
<1>4. ASSUME NEW m \in Edits, Took(m), Makes(m.id, <<m>>), boxes[m.id].edits = <<>>
      PROVE  Ends(i, t, e, c)'
  <2> DEFINE Matches == m.type = t /\ m.id = i /\ <<m.port, m.elem>> = e
  <2>1. <<m>> \in Seq(Edits) /\ Len(<<m>>) = 1 /\ <<m>>[1] = m /\ 1..1 = {1}
    OBVIOUS
  <2>2. ASSUME Matches, m.chan = c
        PROVE  Later(i, t, e, c)'
    <3>1. \E k \in 1..Len(<<m>>) :
            /\ <<m>>[k].type = t /\ <<<<m>>[k].port, <<m>>[k].elem>> = e /\ <<m>>[k].chan = c
            /\ \A j \in 1..Len(<<m>>) :
                 <<m>>[j].type = t /\ <<<<m>>[j].port, <<m>>[j].elem>> = e => j <= k
      BY <2>1, <2>2
    <3> QED
      BY <1>4, <2>1, <2>2, <3>1, LaterMade
  <2>3. ASSUME ~Matches, Later(i, t, e, c)
        PROVE  Later(i, t, e, c)'
    <3>1. CASE i # m.id
      BY <1>4, <2>3, <3>1, LaterAlike DEF Makes
    <3>2. CASE i = m.id
      <4>1. e \in DOMAIN Now(i, t) /\ Now(i, t)[e] = c
        <5>1. \A k \in Nat : ~Kept(k, i, t, e)
          BY <1>4, <3>2 DEF Kept
        <5> QED
          BY <2>3, <5>1 DEF Later
      <4>2. \A k \in 1..Len(<<m>>) : ~(<<m>>[k].type = t /\ <<<<m>>[k].port, <<m>>[k].elem>> = e)
        BY <2>1, <2>3, <3>2
      <4> QED
        BY <1>4, <2>1, <3>2, <4>1, <4>2, LaterMade
    <3> QED
      BY <3>1, <3>2
  <2> QED
    BY <1>4, <2>2, <2>3, EndsAfterHead
<1>5. ASSUME NEW n \in DOMAIN boxes, UNCHANGED mailbox, Makes(n, boxes[n].edits)
      PROVE  Ends(i, t, e, c)'
  <2>1. ASSUME Later(i, t, e, c)
        PROVE  Later(i, t, e, c)'
    <3>1. CASE i # n
      BY <1>5, <2>1, <3>1, LaterAlike DEF Makes
    <3>2. CASE i = n
      <4>1. PICK es \in Seq(Edits) : es = boxes[i].edits /\ Len(es) \in Nat
        BY <1>0, <3>2
      <4>2. \A k \in Nat : Kept(k, i, t, e) <=>
              k \in 1..Len(es) /\ es[k].type = t /\ <<es[k].port, es[k].elem>> = e
        BY <4>1 DEF Kept
      <4>3. \/ \E k \in 1..Len(es) :
                 /\ es[k].type = t /\ <<es[k].port, es[k].elem>> = e /\ es[k].chan = c
                 /\ \A j \in 1..Len(es) :
                      es[j].type = t /\ <<es[j].port, es[j].elem>> = e => j <= k
            \/ /\ \A k \in 1..Len(es) : ~(es[k].type = t /\ <<es[k].port, es[k].elem>> = e)
               /\ e \in DOMAIN Now(i, t) /\ Now(i, t)[e] = c
        <5>1. 1..Len(es) \subseteq Nat
          BY <4>1
        <5> QED
          BY <2>1, <4>1, <4>2, <5>1 DEF Later
      <4>4. Makes(i, es)
        BY <1>5, <3>2, <4>1
      <4> QED
        BY <4>3, <4>4, LaterMade
    <3> QED
      BY <3>1, <3>2
  <2>2. \A k \in Nat : Mailed(k, i, t, e)' <=> Mailed(k, i, t, e)
    BY <1>5 DEF Mailed
  <2> QED
    BY <1>5, <2>1, <2>2 DEF Ends
<1>6. ASSUME NEW m \in Messages, Took(m), m.type \in {"Start", "Inc"}, m.id \in DOMAIN boxes,
             DOMAIN boxes' = DOMAIN boxes, \A j \in DOMAIN boxes : Alike(j)
      PROVE  Ends(i, t, e, c)'
  BY <1>1, <1>6
<1> QED
  BY <1>2, <1>3, <1>4, <1>5, <1>6 DEF InteriorStep

\* A step posts one message at most.
LEMMA PostsOne ==
  ASSUME TypeInv, NEW m, Posts(m), NEW n, Posts(n)
  PROVE  m = n
BY PostsLast

\* The place keeps its channel unless an edit of it is posted.
LEMMA EndsKept ==
  ASSUME TypeInv, IdInv, WantedInv, Call \/ InteriorStep,
         NEW i, NEW t \in {"Connect", "AddInputArrayElement"}, NEW e, NEW c, Ends(i, t, e, c),
         \A m : Posts(m) => ~(m.type = t /\ m.id = i /\ <<m.port, m.elem>> = e)
  PROVE  Ends(i, t, e, c)'
<1>1. CASE InteriorStep
  BY <1>1, EndsTook
<1>2. CASE Call
  <2>1. CASE UNCHANGED <<mailbox, boxes>>
    BY <2>1, EndsSame
  <2>2. ASSUME NEW m, Posts(m)
        PROVE  Ends(i, t, e, c)'
    BY <2>2, EndsOther
  <2>3. ASSUME NEW n \in Names, NEW s \in Sorts, AddsNode(n, s)
        PROVE  \E m : Posts(m)
    BY <2>3 DEF AddsNode
  <2>4. ASSUME NEW n \in DOMAIN agents, Wakes(n)
        PROVE  \E m : Posts(m)
    BY <2>4 DEF Wakes
  <2>5. ASSUME NEW m \in DOMAIN agents, NEW n \in DOMAIN agents, NEW p \in Places, NEW q \in Places,
               Joins(m, p, n, q)
        PROVE  \E b : Posts(b)
    BY <2>5 DEF Joins
  <2>6. ASSUME NEW n \in DOMAIN agents, NEW p \in Places, Grows(n, p)
        PROVE  \E b : Posts(b)
    BY <2>6 DEF Grows
  <2> QED
    BY <1>2, <2>1, <2>2, <2>3, <2>4, <2>5, <2>6, CallSteps
<1> QED
  BY <1>1, <1>2

LEMMA HeldKept ==
  ASSUME TypeInv, IdInv, WantedInv, Call \/ InteriorStep, NEW c, WillBeHeld(c),
         \A m : Posts(m) => ~(/\ m.type = "AddInputArrayElement" /\ m.id = c.id
                              /\ <<m.port, m.elem>> = <<c.port, c.elem>>)
  PROVE  WillBeHeld(c)'
<1>1. CASE c.elem = Simple
  BY <1>1 DEF WillBeHeld
<1>2. CASE c.elem # Simple
  <2>1. Ends(c.id, "AddInputArrayElement", <<c.port, c.elem>>, c)
    BY <1>2 DEF WillBeHeld
  <2>2. PICK i, e : i = c.id /\ e = <<c.port, c.elem>>
    OBVIOUS
  <2>3. Ends(i, "AddInputArrayElement", e, c)'
    BY <2>1, <2>2, EndsKept
  <2> QED
    BY <2>2, <2>3 DEF WillBeHeld
<1> QED
  BY <1>1, <1>2

LEMMA ServesKept ==
  ASSUME TypeInv, IdInv, WantedInv, Call \/ InteriorStep, NEW o, NEW w, Serves(o, w),
         \A m : Posts(m) => ~(m.type = "Connect" /\ m.id = o[1] /\ <<m.port, m.elem>> = o[2]),
         \A m : Posts(m) => ~(/\ m.type = "AddInputArrayElement" /\ m.id = w[1]
                              /\ <<m.port, m.elem>> = w[2])
  PROVE  Serves(o, w)'
<1>1. PICK c \in Channels : /\ Ends(o[1], "Connect", o[2], c) /\ WillBeHeld(c)
                            /\ w = <<c.id, <<c.port, c.elem>>>>
  BY DEF Serves
<1>2. PICK i, e : i = o[1] /\ e = o[2]
  OBVIOUS
<1>3. Ends(i, "Connect", e, c)'
  BY <1>1, <1>2, EndsKept
<1>4. WillBeHeld(c)'
  BY <1>1, HeldKept
<1> QED
  BY <1>1, <1>2, <1>3, <1>4 DEF Serves

-----------------------------------------------------------------------------
(* The owner's table, and what the owner wants.                             *)

LEMMA TablesStep ==
  ASSUME TypeInv, IdInv, WantedInv, TablesInv, Call \/ (InteriorStep /\ UNCHANGED agents)
  PROVE  TablesInv'
<1>0. \A n \in DOMAIN agents : DOMAIN agents[n] = {"id", "sort", "start", "elements"}
  BY DEF TypeInv
<1>1. ASSUME \A n \in DOMAIN agents' : \A e \in DOMAIN agents'[n].elements :
               n \in DOMAIN agents /\ e \in DOMAIN agents[n].elements
                 /\ agents'[n].elements[e] = agents[n].elements[e],
             \A m : Posts(m) => m.type # "AddInputArrayElement"
      PROVE  TablesInv'
  <2>1. ASSUME NEW n \in DOMAIN agents', NEW e \in DOMAIN agents'[n].elements, NEW c,
               c = agents'[n].elements[e]
        PROVE  WillBeHeld(c)'
    <3>1. WillBeHeld(c)
      BY <1>1, <2>1 DEF TablesInv
    <3> QED
      BY <1>1, <3>1, HeldKept
  <2> QED
    BY <2>1 DEF TablesInv
<1>2. CASE InteriorStep /\ UNCHANGED agents
  <2>1. ASSUME NEW n \in DOMAIN agents', NEW e \in DOMAIN agents'[n].elements, NEW c,
               c = agents'[n].elements[e]
        PROVE  WillBeHeld(c)'
    <3>1. WillBeHeld(c)
      BY <1>2, <2>1 DEF TablesInv
    <3>2. c.elem # Simple => Ends(c.id, "AddInputArrayElement", <<c.port, c.elem>>, c)
      BY <3>1 DEF WillBeHeld
    <3>3. PICK i, d : i = c.id /\ d = <<c.port, c.elem>>
      OBVIOUS
    <3>4. c.elem # Simple => Ends(i, "AddInputArrayElement", d, c)'
      BY <1>2, <3>2, <3>3, EndsTook
    <3> QED
      BY <3>3, <3>4 DEF WillBeHeld
  <2> QED
    BY <2>1 DEF TablesInv
<1>3. CASE Call
  <2>1. CASE UNCHANGED <<agents, mailbox, boxes>>
    <3>1. \A m : ~Posts(m)
      BY <2>1 DEF Posts, TypeInv
    <3> QED
      BY <1>1, <2>1, <3>1
  <2>2. ASSUME NEW n \in Names, NEW s \in Sorts, AddsNode(n, s)
        PROVE  TablesInv'
    <3>1. PICK m : Posts(m) /\ m.type = "NewAgent"
      BY <2>2 DEF AddsNode
    <3>2. PICK b : agents' = Extend(agents, n, [id |-> id, sort |-> s, start |-> b, elements |-> Empty])
      BY <2>2 DEF AddsNode
    <3>3. \A k \in DOMAIN agents' : DOMAIN agents'[k].elements = {}
                                      \/ (k \in DOMAIN agents /\ agents'[k] = agents[k])
      BY <3>2 DEF Extend, Empty
    <3> QED
      BY <1>1, <3>1, <3>3, PostsOne
  <2>3. ASSUME NEW m, Posts(m), m.type # "AddInputArrayElement", UNCHANGED agents
        PROVE  TablesInv'
    BY <1>1, <2>3, PostsOne
  <2>4. ASSUME NEW n \in DOMAIN agents, Wakes(n)
        PROVE  TablesInv'
    <3>1. \E m : Posts(m) /\ m.type # "AddInputArrayElement"
      BY <2>4 DEF Wakes
    <3> QED
      BY <2>3, <2>4, <3>1 DEF Wakes
  <2>5. ASSUME NEW m \in DOMAIN agents, NEW n \in DOMAIN agents, NEW p \in Places, NEW q \in Places,
               Joins(m, p, n, q)
        PROVE  TablesInv'
    <3>1. \E b : Posts(b) /\ b.type # "AddInputArrayElement"
      BY <2>5 DEF Joins
    <3> QED
      BY <2>3, <2>5, <3>1 DEF Joins
  <2>6. ASSUME NEW n \in DOMAIN agents, NEW p \in Places, Grows(n, p)
        PROVE  TablesInv'
    <3>1. PICK c, m : /\ c = Channel(agents[n].id, p[1], p[2], made) /\ Posts(m)
                      /\ m = [type |-> "AddInputArrayElement", id |-> agents[n].id, port |-> p[1],
                              elem |-> p[2], chan |-> c]
                      /\ agents' = [agents EXCEPT ![n].elements = Extend(@, <<p[1], p[2]>>, c)]
      BY <2>6 DEF Grows
    <3>2. c.id = agents[n].id /\ c.port = p[1] /\ c.elem = p[2]
      BY <3>1 DEF Channel
    <3>3. \A k \in DOMAIN agents' : \A e \in DOMAIN agents'[k].elements :
            /\ k \in DOMAIN agents
            /\ \/ agents'[k].elements[e] = c
               \/ /\ e \in DOMAIN agents[k].elements /\ agents'[k].elements[e] = agents[k].elements[e]
                  /\ k # n \/ e # <<p[1], p[2]>>
      BY <1>0, <3>1 DEF Extend
    <3>4. WillBeHeld(c)'
      <4>1. PICK i, e : i = agents[n].id /\ e = <<p[1], p[2]>>
        OBVIOUS
      <4>2. Ends(i, "AddInputArrayElement", e, c)'
        BY <3>1, <4>1, EndsPosted
      <4> QED
        BY <3>2, <4>1, <4>2 DEF WillBeHeld
    <3>5. ASSUME NEW k \in DOMAIN agents, NEW e \in DOMAIN agents[k].elements,
                 k # n \/ e # <<p[1], p[2]>>, NEW d, d = agents[k].elements[e]
          PROVE  WillBeHeld(d)'
      <4>1. WillBeHeld(d)
        BY <3>5 DEF TablesInv
      <4>2. d.id = agents[k].id /\ <<d.port, d.elem>> = e /\ (k # n => agents[k].id # agents[n].id)
        BY <3>5 DEF IdInv
      <4>3. \A b : Posts(b) => b = m
        BY <3>1, PostsOne
      <4>4. ~(m.id = d.id /\ <<m.port, m.elem>> = <<d.port, d.elem>>)
        BY <3>1, <3>5, <4>2
      <4> QED
        BY <1>3, <4>1, <4>3, <4>4, HeldKept
    <3>6. ASSUME NEW k \in DOMAIN agents', NEW e \in DOMAIN agents'[k].elements, NEW d,
                 d = agents'[k].elements[e]
          PROVE  WillBeHeld(d)'
      BY <3>3, <3>4, <3>5, <3>6
    <3> QED
      BY <3>6 DEF TablesInv
  <2> QED
    BY <1>3, <2>1, <2>2, <2>4, <2>5, <2>6, CallSteps
<1> QED
  BY <1>2, <1>3

\* The wishes that were there, the agents known as before or more.
LEMMA WishKept ==
  ASSUME TypeInv, IdInv, WantedInv, Call \/ InteriorStep, id' \in Nat, id <= id',
         NEW o \in DOMAIN wanted, NEW w, w = wanted[o],
         \A n \in DOMAIN agents' :
           agents'[n].id # w[1] \/ (/\ n \in DOMAIN agents /\ agents'[n].id = agents[n].id
                                    /\ DOMAIN agents[n].elements \subseteq DOMAIN agents'[n].elements),
         \A m : Posts(m) => ~(m.type = "Connect" /\ m.id = o[1] /\ <<m.port, m.elem>> = o[2]),
         \A m : Posts(m) => ~(/\ m.type = "AddInputArrayElement" /\ m.id = w[1]
                              /\ <<m.port, m.elem>> = w[2])
  PROVE  w[1] \in Nat /\ w[1] < id' /\ Serves(o, w)' /\ Remembers(w)'
<1>1. w[1] \in Nat /\ w[1] < id /\ Serves(o, w) /\ Remembers(w)
  BY DEF WantedInv
<1>2. Serves(o, w)'
  BY <1>1, ServesKept
<1>3. Remembers(w)'
  BY <1>1 DEF Remembers
<1>4. id \in Nat
  BY DEF TypeInv
<1> QED
  BY <1>1, <1>2, <1>3, <1>4

LEMMA WantedSame ==
  ASSUME TypeInv, IdInv, WantedInv, Call \/ InteriorStep, UNCHANGED <<agents, id>>, Fewer,
         \A m : Posts(m) => m.type \notin {"Connect", "AddInputArrayElement"}
  PROVE  WantedInv'
<1>1. id \in Nat
  BY DEF TypeInv
<1>2. ASSUME NEW o \in DOMAIN wanted', NEW w, w = wanted'[o]
      PROVE  /\ o = <<o[1], o[2]>> /\ o[1] \in Nat /\ o[1] < id'
             /\ w[1] \in Nat /\ w[1] < id' /\ Serves(o, w)' /\ Remembers(w)'
  <2>1. o \in DOMAIN wanted /\ w = wanted[o]
    BY <1>2 DEF Fewer
  <2>2. o = <<o[1], o[2]>> /\ o[1] \in Nat /\ o[1] < id'
    BY <2>1 DEF WantedInv
  <2>3. w[1] \in Nat /\ w[1] < id' /\ Serves(o, w)' /\ Remembers(w)'
    BY <1>1, <2>1, WishKept
  <2> QED
    BY <2>2, <2>3
<1> QED
  BY <1>2 DEF WantedInv

LEMMA WantedStep ==
  ASSUME TypeInv, IdInv, WantedInv, TablesInv,
         Call \/ (InteriorStep /\ UNCHANGED <<agents, id, wanted>>)
  PROVE  WantedInv'
<1>0. /\ id \in Nat
      /\ \A n \in DOMAIN agents : /\ DOMAIN agents[n] = {"id", "sort", "start", "elements"}
                                  /\ agents[n].id \in Nat
  BY DEF TypeInv
<1>1. \A n \in DOMAIN agents : agents[n].id < id
  BY SortUnique DEF IdInv
<1>2. CASE InteriorStep /\ UNCHANGED <<agents, id, wanted>>
  <2>1. \A m : ~Posts(m)
    <3>1. SUFFICES ASSUME NEW m, Posts(m)
                   PROVE  FALSE
      OBVIOUS
    <3>2. Len(mailbox') = Len(mailbox) + 1 /\ Len(mailbox) \in Nat
      BY <3>1, PostsLast
    <3>3. Len(mailbox') = Len(mailbox) - 1 \/ Len(mailbox') = Len(mailbox)
      BY <1>2 DEF InteriorStep, Took
    <3> QED
      BY <3>2, <3>3
  <2>2. Fewer
    BY <1>2 DEF Fewer
  <2> QED
    BY <1>2, <2>1, <2>2, WantedSame
<1>3. CASE Call
  <2>1. CASE Fewer /\ UNCHANGED <<agents, id, made, mailbox, boxes>>
    <3>1. \A m : ~Posts(m)
      BY <2>1 DEF Posts, TypeInv
    <3> QED
      BY <1>3, <2>1, <3>1, WantedSame
  <2>2. ASSUME NEW n \in Names, NEW s \in Sorts, AddsNode(n, s)
        PROVE  WantedInv'
    <3>1. PICK m : Posts(m) /\ m.type = "NewAgent"
      BY <2>2 DEF AddsNode
    <3>2. PICK b : agents' = Extend(agents, n, [id |-> id, sort |-> s, start |-> b, elements |-> Empty])
      BY <2>2 DEF AddsNode
    <3>3. \A k \in DOMAIN agents' : agents'[k].id = id \/ (k \in DOMAIN agents /\ agents'[k] = agents[k])
      BY <3>2 DEF Extend
    <3>4. wanted' = wanted /\ id' = id + 1
      BY <2>2 DEF AddsNode
    <3>5. \A e : Posts(e) => e = m
      BY <3>1, PostsOne
    <3>6. ASSUME NEW o \in DOMAIN wanted', NEW w, w = wanted'[o]
          PROVE  /\ o = <<o[1], o[2]>> /\ o[1] \in Nat /\ o[1] < id'
                 /\ w[1] \in Nat /\ w[1] < id' /\ Serves(o, w)' /\ Remembers(w)'
      <4>1. o \in DOMAIN wanted /\ w = wanted[o]
        BY <3>4, <3>6
      <4>2. o = <<o[1], o[2]>> /\ o[1] \in Nat /\ o[1] < id /\ w[1] \in Nat /\ w[1] < id
        BY <4>1 DEF WantedInv
      <4>3. w[1] \in Nat /\ w[1] < id' /\ Serves(o, w)' /\ Remembers(w)'
        BY <1>0, <1>3, <3>1, <3>3, <3>4, <3>5, <4>1, <4>2, WishKept
      <4> QED
        BY <1>0, <3>4, <4>2, <4>3
    <3> QED
      BY <3>6 DEF WantedInv
  <2>3. ASSUME NEW n \in DOMAIN agents, Wakes(n)
        PROVE  WantedInv'
    <3>1. PICK m : Posts(m) /\ m.type \in {"Start", "Inc"}
      BY <2>3 DEF Wakes
    <3>2. Fewer /\ UNCHANGED <<agents, id>>
      BY <2>3 DEF Wakes, Fewer
    <3>3. \A e : Posts(e) => e = m
      BY <3>1, PostsOne
    <3> QED
      BY <1>3, <3>1, <3>2, <3>3, WantedSame
  <2>4. ASSUME NEW m \in DOMAIN agents, NEW n \in DOMAIN agents, NEW p \in Places, NEW q \in Places,
               Joins(m, p, n, q)
        PROVE  WantedInv'
    <3>1. PICK e, c : /\ Posts(e) /\ c = Sender(n, q[1], q[2])
                      /\ e = [type |-> "Connect", id |-> agents[m].id, port |-> p[1], elem |-> p[2], chan |-> c]
      BY <2>4 DEF Joins
    <3>2. c \in Channels /\ c.id = agents[n].id /\ c.port = q[1] /\ c.elem = q[2]
      <4>1. c \in Channels
        BY <2>4, <3>1, CallMessages DEF Joins
      <4> QED
        BY <2>4, <3>1, <4>1 DEF Joins, HasSender, Sender, Channel, IdInv
    <3>3. WillBeHeld(c)
      BY <2>4, <3>1 DEF Joins, HasSender, Sender, Channel, TablesInv, WillBeHeld
    <3>4. \A b : Posts(b) => b = e
      BY <3>1, PostsOne
    <3>5. e.type = "Connect" /\ e.id = agents[m].id /\ <<e.port, e.elem>> = p /\ e.chan = c
      BY <3>1, PlacesAssumption
    <3>6. /\ UNCHANGED <<agents, id>>
          /\ DOMAIN wanted' = DOMAIN wanted \cup {<<agents[m].id, p>>}
          /\ wanted'[<<agents[m].id, p>>] = <<agents[n].id, q>>
          /\ \A o \in DOMAIN wanted : o # <<agents[m].id, p>> => wanted'[o] = wanted[o]
      BY <2>4 DEF Joins, Extend
    <3>7. ASSUME NEW o \in DOMAIN wanted', NEW w, w = wanted'[o], o # <<agents[m].id, p>>
          PROVE  /\ o = <<o[1], o[2]>> /\ o[1] \in Nat /\ o[1] < id'
                 /\ w[1] \in Nat /\ w[1] < id' /\ Serves(o, w)' /\ Remembers(w)'
      <4>1. o \in DOMAIN wanted /\ w = wanted[o]
        BY <3>6, <3>7
      <4>2. o = <<o[1], o[2]>> /\ o[1] \in Nat /\ o[1] < id'
        BY <3>6, <4>1 DEF WantedInv
      <4>3. ~(e.id = o[1] /\ <<e.port, e.elem>> = o[2])
        BY <3>5, <3>7, <4>2
      <4>4. w[1] \in Nat /\ w[1] < id' /\ Serves(o, w)' /\ Remembers(w)'
        BY <1>0, <1>3, <3>4, <3>5, <3>6, <4>1, <4>3, WishKept
      <4> QED
        BY <4>2, <4>4
    <3>8. ASSUME NEW o, o = <<agents[m].id, p>>, NEW w, w = wanted'[o]
          PROVE  /\ o = <<o[1], o[2]>> /\ o[1] \in Nat /\ o[1] < id'
                 /\ w[1] \in Nat /\ w[1] < id' /\ Serves(o, w)' /\ Remembers(w)'
      <4>1. PICK i, d : i = agents[m].id /\ d = p /\ o = <<i, d>>
        BY <3>8
      <4>2. w = <<agents[n].id, q>> /\ w[1] = agents[n].id /\ w[2] = q /\ q = <<q[1], q[2]>>
        BY <3>6, <3>8, PlacesAssumption
      <4>3. Ends(i, "Connect", d, c)'
        BY <3>1, <3>5, <4>1, EndsPosted
      <4>4. WillBeHeld(c)'
        <5>1. e.type # "AddInputArrayElement"
          BY <3>5
        <5> QED
          BY <1>3, <3>3, <3>4, <5>1, HeldKept
      <4>5. Serves(o, w)'
        <5>1. w = <<c.id, <<c.port, c.elem>>>> /\ o[1] = i /\ o[2] = d
          BY <3>2, <4>1, <4>2
        <5> QED
          BY <3>2, <4>3, <4>4, <5>1 DEF Serves
      <4>6. Remembers(w)'
        <5>1. q[2] # Simple => q \in DOMAIN agents[n].elements
          BY <2>4, <4>2 DEF Joins, HasSender
        <5>2. \A k \in DOMAIN agents : agents[k].id = agents[n].id => k = n
          BY DEF IdInv
        <5> QED
          BY <3>6, <4>2, <5>1, <5>2 DEF Remembers
      <4> QED
        BY <1>0, <1>1, <3>6, <4>1, <4>2, <4>5, <4>6
    <3> QED
      BY <3>6, <3>7, <3>8 DEF WantedInv
  <2>5. ASSUME NEW n \in DOMAIN agents, NEW p \in Places, Grows(n, p)
        PROVE  WantedInv'
    <3>1. PICK c, m : /\ Posts(m)
                      /\ m = [type |-> "AddInputArrayElement", id |-> agents[n].id, port |-> p[1],
                              elem |-> p[2], chan |-> c]
                      /\ agents' = [agents EXCEPT ![n].elements = Extend(@, <<p[1], p[2]>>, c)]
      BY <2>5 DEF Grows
    <3>2. \A b : Posts(b) => b = m
      BY <3>1, PostsOne
    <3>3. m.type = "AddInputArrayElement" /\ m.id = agents[n].id /\ <<m.port, m.elem>> = p
      BY <3>1, PlacesAssumption
    <3>4. \A k \in DOMAIN agents' : /\ k \in DOMAIN agents /\ agents'[k].id = agents[k].id
                                    /\ DOMAIN agents[k].elements \subseteq DOMAIN agents'[k].elements
      BY <1>0, <3>1 DEF Extend
    <3>5. ASSUME NEW o \in DOMAIN wanted', NEW w, w = wanted'[o]
          PROVE  /\ o = <<o[1], o[2]>> /\ o[1] \in Nat /\ o[1] < id'
                 /\ w[1] \in Nat /\ w[1] < id' /\ Serves(o, w)' /\ Remembers(w)'
      <4>1. o \in DOMAIN wanted /\ w = wanted[o] /\ w # <<agents[n].id, p>> /\ id' = id
        BY <2>5, <3>5 DEF Grows, Fewer
      <4>2. o = <<o[1], o[2]>> /\ o[1] \in Nat /\ o[1] < id'
        BY <4>1 DEF WantedInv
      <4>3. ~(m.id = w[1] /\ <<m.port, m.elem>> = w[2])
        <5>1. Serves(o, w)
          BY <4>1 DEF WantedInv
        <5>2. w = <<w[1], w[2]>>
          BY <5>1 DEF Serves
        <5> QED
          BY <3>3, <4>1, <5>2
      <4>4. w[1] \in Nat /\ w[1] < id' /\ Serves(o, w)' /\ Remembers(w)'
        BY <1>0, <1>3, <3>2, <3>3, <3>4, <4>1, <4>3, WishKept
      <4> QED
        BY <4>2, <4>4
    <3> QED
      BY <3>5 DEF WantedInv
  <2> QED
    BY <1>3, <2>1, <2>2, <2>3, <2>4, <2>5, CallSteps
<1> QED
  BY <1>2, <1>3

-----------------------------------------------------------------------------
(* The invariant, and what it is for.                                       *)

LEMMA Initially == ClientInit => IInv
<1> SUFFICES ASSUME ClientInit
             PROVE  IInv
  OBVIOUS
<1>1. /\ id = 0 /\ made = 0 /\ mailbox = <<>> /\ Len(mailbox) = 0
      /\ DOMAIN agents = {} /\ DOMAIN boxes = {} /\ DOMAIN wanted = {}
  BY DEF ClientInit, Init, Empty
<1>2. TypeInv
  BY <1>1 DEF TypeInv
<1>3. IdInv
  BY <1>1 DEF IdInv
<1>4. MailInv /\ BoxInv /\ TablesInv /\ WantedInv
  BY <1>1 DEF MailInv, BoxInv, TablesInv, WantedInv
<1> QED
  BY <1>2, <1>3, <1>4 DEF IInv

LEMMA Unchanged ==
  ASSUME UNCHANGED clientVars, IInv
  PROVE  IInv'
<1> USE DEF clientVars, vars
<1>1. TypeInv'
  BY DEF IInv, TypeInv
<1>2. /\ \A k, i : Adds(k, i)' <=> Adds(k, i)
      /\ \A i, s : HasSort(i, s)' <=> HasSort(i, s)
  BY DEF HasSort, Adds
<1>3. IdInv'
  BY DEF IInv, IdInv, HasSort, Adds
<1>4. /\ \A e : Fits(e) => Fits(e)'
      /\ \A k, i : Created(k, i) => Created(k, i)'
  BY <1>2 DEF Fits, Created
<1>5. /\ \A k, m : Delivers(k, m) => Delivers(k, m)'
      /\ \A i, m : Waiting(i, m) => Waiting(i, m)'
      /\ \A i, o, c : Plugged(i, o, c) => Plugged(i, o, c)'
  BY <1>4 DEF Delivers, Waiting, Plugged, IsEdit
<1>6. MailInv' /\ BoxInv'
  BY <1>5 DEF IInv, MailInv, BoxInv
<1>7. \A i, t, e, c : Ends(i, t, e, c) => Ends(i, t, e, c)'
  BY EndsSame
<1>8. \A c : WillBeHeld(c) => WillBeHeld(c)'
  <2>1. SUFFICES ASSUME NEW c, WillBeHeld(c), c.elem # Simple
                 PROVE  WillBeHeld(c)'
    BY DEF WillBeHeld
  <2>2. PICK i, e : i = c.id /\ e = <<c.port, c.elem>>
    OBVIOUS
  <2>3. Ends(i, "AddInputArrayElement", e, c)'
    BY <1>7, <2>1, <2>2 DEF WillBeHeld
  <2> QED
    BY <2>2, <2>3 DEF WillBeHeld
<1>9. \A o, w : Serves(o, w) => Serves(o, w)'
  <2>1. SUFFICES ASSUME NEW o, NEW w, Serves(o, w)
                 PROVE  Serves(o, w)'
    OBVIOUS
  <2>2. PICK i, e : i = o[1] /\ e = o[2]
    OBVIOUS
  <2>3. PICK c \in Channels : /\ Ends(i, "Connect", e, c) /\ WillBeHeld(c)
                              /\ w = <<c.id, <<c.port, c.elem>>>>
    BY <2>1, <2>2 DEF Serves
  <2>4. Ends(i, "Connect", e, c)' /\ WillBeHeld(c)'
    BY <1>7, <1>8, <2>3
  <2> QED
    BY <2>2, <2>3, <2>4 DEF Serves
<1>10. TablesInv' /\ WantedInv'
  BY <1>8, <1>9 DEF IInv, TablesInv, WantedInv, Remembers
<1> QED
  BY <1>1, <1>3, <1>6, <1>10 DEF IInv

LEMMA Invariance == IInv /\ [ClientNext]_clientVars => IInv'
<1> SUFFICES ASSUME IInv, [ClientNext]_clientVars
             PROVE  IInv'
  OBVIOUS
<1>0. TypeInv /\ IdInv /\ MailInv /\ BoxInv /\ TablesInv /\ WantedInv
  BY DEF IInv
<1>1. CASE Call
  <2>1. TypeInv'
    BY <1>0, <1>1, TypeStep
  <2>2. IdInv'
    BY <1>0, <1>1, IdCall
  <2>3. MailInv'
    BY <1>0, <1>1, MailCall
  <2>4. BoxInv'
    BY <1>0, <1>1, BoxStep
  <2>5. TablesInv'
    BY <1>0, <1>1, TablesStep
  <2>6. WantedInv'
    BY <1>0, <1>1, WantedStep
  <2> QED
    BY <2>1, <2>2, <2>3, <2>4, <2>5, <2>6 DEF IInv
<1>2. CASE Interior /\ UNCHANGED <<calls, wanted>>
  <2>0. InteriorStep /\ UNCHANGED <<agents, id, made, wanted>>
    BY <1>0, <1>2, InteriorSteps
  <2>1. TypeInv'
    BY <1>0, <1>2, TypeStep
  <2>2. IdInv'
    BY <1>0, <2>0, IdTook
  <2>3. MailInv'
    BY <1>0, <2>0, MailTook
  <2>4. BoxInv'
    BY <1>0, <2>0, BoxStep
  <2>5. TablesInv'
    BY <1>0, <2>0, TablesStep
  <2>6. WantedInv'
    BY <1>0, <2>0, WantedStep
  <2> QED
    BY <2>1, <2>2, <2>3, <2>4, <2>5, <2>6 DEF IInv
<1>3. CASE UNCHANGED clientVars
  BY <1>3, Unchanged
<1> QED
  BY <1>1, <1>2, <1>3 DEF ClientNext

\* The inductive invariant of the calls.
THEOREM InductiveInvariant == ClientSpec => []IInv
<1> QED
  BY Initially, Invariance, PTL DEF ClientSpec

\* No message that a call posts is refused: the agent is there when the message
\* is taken, and has the port of the edit.
THEOREM MessagesSucceed == ClientSpec => []EditsSucceed
<1>1. IInv => EditsSucceed
  <2> SUFFICES ASSUME IInv, NEW k \in 1..Len(mailbox), mailbox[k].type # "NewAgent"
               PROVE  LET m == mailbox[k]
                          before == {mailbox[j] : j \in {j \in 1..(k - 1) : mailbox[j].type = "NewAgent"}}
                          sorts == {n.sort : n \in {n \in before : n.id = m.id}}
                                     \cup (IF m.id \in DOMAIN boxes THEN {boxes[m.id].sort} ELSE {})
                      IN /\ sorts # {}
                         /\ m.type = "Connect" =>
                              \A s \in sorts : m.port \in DOMAIN (IF m.elem = Simple THEN output ELSE outarr)[s]
                         /\ m.type = "AddInputArrayElement" => \A s \in sorts : m.port \in DOMAIN inarr[s]
    BY DEF EditsSucceed
  <2> DEFINE m == mailbox[k]
             before == {mailbox[j] : j \in {j \in 1..(k - 1) : mailbox[j].type = "NewAgent"}}
             sorts == {n.sort : n \in {n \in before : n.id = m.id}}
                        \cup (IF m.id \in DOMAIN boxes THEN {boxes[m.id].sort} ELSE {})
  <2>1. Delivers(k, m) /\ Created(k, m.id) /\ Len(mailbox) \in Nat
    BY DEF IInv, MailInv, Delivers, TypeInv
  <2>2. sorts # {}
    BY <2>1 DEF Created, Adds
  <2>3. \A s \in sorts : HasSort(m.id, s)
    BY <2>1 DEF HasSort, Adds
  <2>4. ASSUME IsEdit(m)
        PROVE  \A s \in sorts : /\ m.type = "Connect" => m.port \in DOMAIN OutSchemas(s, m.elem)
                                /\ m.type = "AddInputArrayElement" => m.port \in DOMAIN inarr[s]
    <3>1. Created(k, m.chan.id) /\ Fits(m)
      BY <2>1, <2>4 DEF Delivers
    <3>2. PICK t : HasSort(m.chan.id, t)
      BY <2>1, <3>1, CreatedSort DEF IInv
    <3> HIDE DEF sorts, m
    <3> QED
      BY <2>3, <3>1, <3>2 DEF Fits
  <2>5. \A s : OutSchemas(s, m.elem) = (IF m.elem = Simple THEN output ELSE outarr)[s]
    BY DEF OutSchemas
  <2> HIDE DEF sorts, m
  <2>6. m.type = "Connect" => \A s \in sorts : m.port \in DOMAIN (IF m.elem = Simple THEN output ELSE outarr)[s]
    BY <2>4, <2>5 DEF IsEdit
  <2>7. m.type = "AddInputArrayElement" => \A s \in sorts : m.port \in DOMAIN inarr[s]
    BY <2>4 DEF IsEdit
  <2> QED
    BY <2>2, <2>6, <2>7 DEF sorts, m
<1> QED
  BY <1>1, InductiveInvariant, PTL

\* No output is ever joined to an input of another schema, even by an edit that
\* was kept while its agent ran.
THEOREM SchemasMatch == ClientSpec => []SchemasAgree
<1>1. IInv => SchemasAgree
  BY DEF IInv, BoxInv, Plugged, SchemasAgree, Match, OutSchemas
<1> QED
  BY <1>1, InductiveInvariant, PTL

\* Once the calls have come in and the runs are over, there is nothing to come.
LEMMA SettledHolds ==
  ASSUME Settled, NEW i, NEW t, NEW e, NEW c, Ends(i, t, e, c)
  PROVE  i \in DOMAIN boxes /\ e \in DOMAIN Now(i, t) /\ Now(i, t)[e] = c
<1>1. Len(mailbox) = 0 /\ \A j \in DOMAIN boxes : Len(boxes[j].edits) = 0
  BY DEF Settled
<1> QED
  BY <1>1 DEF Ends, Mailed, Later, Kept

LEMMA SettledHeld ==
  ASSUME Settled, NEW c, WillBeHeld(c)
  PROVE  Held(c)
BY SettledHolds DEF WillBeHeld, Held, Now

\* The senders that the owner has reach the agents, however often an element was
\* added again, before, in or after a run.
THEOREM OwnerAgrees == ClientSpec => []TablesAgree
<1>1. IInv => TablesAgree
  BY SettledHeld DEF IInv, TablesInv, TablesAgree
<1> QED
  BY <1>1, InductiveInvariant, PTL

\* What was connected with the answer Ok is connected, to what the owner meant.
THEOREM ConnectionsHold == ClientSpec => []Wired
<1>1. IInv => Wired
  <2> SUFFICES ASSUME IInv, Settled, NEW o \in DOMAIN wanted
               PROVE  /\ o[2] \in DOMAIN boxes[o[1]].outs
                      /\ LET c == boxes[o[1]].outs[o[2]] IN
                         <<c.id, <<c.port, c.elem>>>> = wanted[o] /\ Held(c)
    BY DEF Wired
  <2>1. PICK c \in Channels : /\ Ends(o[1], "Connect", o[2], c) /\ WillBeHeld(c)
                              /\ wanted[o] = <<c.id, <<c.port, c.elem>>>>
    BY DEF IInv, WantedInv, Serves
  <2>2. o[2] \in DOMAIN boxes[o[1]].outs /\ boxes[o[1]].outs[o[2]] = c
    BY <2>1, SettledHolds DEF Now
  <2>3. Held(c)
    BY <2>1, SettledHeld
  <2> QED
    BY <2>1, <2>2, <2>3
<1> QED
  BY <1>1, InductiveInvariant, PTL

-----------------------------------------------------------------------------
(* The loader: what it posts, and in which order.                           *)

Mail ==
  [type : {"NewAgent"}, id : Nat, sort : Loadable]
    \cup [type : {"Connect"}, id : Nat, port : STRING, elem : STRING,
          chan : [id : Nat, port : STRING, elem : STRING, n : Nat]]
    \cup [type : {"Start", "Inc"}, id : Nat]

\* Agents first, then edges, then what makes the agents run.
Rank(m) == IF m.type = "NewAgent" THEN 1 ELSE IF m.type = "Connect" THEN 2 ELSE 3

Ran == \E i \in DOMAIN boxes : boxes[i].ran
Linked == \E i \in DOMAIN boxes : DOMAIN boxes[i].outs # {}

LoaderType ==
  /\ graph \in Graphs /\ at \in Nat \ {0} /\ id \in Nat
  /\ pc \in {"nodes", "edges", "imsgs", "start", "idle", "joining", "ended"}
  /\ \A n \in DOMAIN agents : agents[n].id \in Nat /\ agents[n].id < id /\ agents[n].elements = Empty
  /\ \A m, n \in DOMAIN agents : agents[m].id = agents[n].id => m = n

\* An agent that was not run is not busy, and no edit waits for the end of a run.
BoxType ==
  \A i \in DOMAIN boxes :
    /\ DOMAIN boxes[i] = {"sort", "outs", "ins", "edits", "busy", "ran"}
    /\ boxes[i].edits = <<>> /\ (boxes[i].busy => boxes[i].ran)

\* The messages come in that order, after those that were taken.
Ordered ==
  /\ mailbox \in Seq(Mail)
  /\ \A j, k \in 1..Len(mailbox) : j < k => Rank(mailbox[j]) <= Rank(mailbox[k])
  /\ \A k \in 1..Len(mailbox) : /\ Ran => Rank(mailbox[k]) = 3
                                /\ Linked => Rank(mailbox[k]) >= 2
                                /\ pc = "nodes" => Rank(mailbox[k]) = 1
                                /\ pc = "edges" => Rank(mailbox[k]) <= 2
  /\ pc = "nodes" => ~Linked
  /\ pc \in {"nodes", "edges"} => ~Ran

\* The channel c, for the output key of agent i, is that of an edge.
OfEdge(i, key, c) ==
  \E k \in DOMAIN graph.edges :
    LET e == graph.edges[k] IN
    /\ {e.out.comp, e.in.comp} \subseteq DOMAIN agents
    /\ i = agents[e.out.comp].id /\ key = <<e.out.port, e.out.elem>>
    /\ c.id = agents[e.in.comp].id

OfEdges ==
  /\ \A k \in 1..Len(mailbox) : \A m \in {mailbox[k]} :
       m.type = "Connect" => OfEdge(m.id, <<m.port, m.elem>>, m.chan)
  /\ \A i \in DOMAIN boxes : \A key \in DOMAIN boxes[i].outs : \A c \in {boxes[i].outs[key]} :
       OfEdge(i, key, c)

\* The output key of agent i is connected, or will be.
Served(i, key) ==
  \/ \E k \in 1..Len(mailbox) : /\ mailbox[k].type = "Connect" /\ mailbox[k].id = i
                               /\ <<mailbox[k].port, mailbox[k].elem>> = key
  \/ i \in DOMAIN boxes /\ key \in DOMAIN boxes[i].outs

Promised(k) ==
  LET out == graph.edges[k].out IN
  out.comp \in DOMAIN agents /\ Served(agents[out.comp].id, <<out.port, out.elem>>)

Begun == Ran \/ \E k \in 1..Len(mailbox) : Rank(mailbox[k]) = 3

\* Edges are made one by one, all of them before anything is sent or started.
EdgesMade ==
  /\ pc = "edges" /\ client = "up" => \A k \in DOMAIN graph.edges : k < at => Promised(k)
  /\ (pc \in {"imsgs", "start"} /\ client = "up") \/ Begun => \A k \in DOMAIN graph.edges : Promised(k)

LoaderInv == LoaderType /\ BoxType /\ Ordered /\ OfEdges /\ EdgesMade

-----------------------------------------------------------------------------
(* The loader: what each of the steps keeps.                                *)

\* Nothing is posted or taken.
LEMMA StillOrdered ==
  ASSUME Ordered, UNCHANGED <<mailbox, boxes>>,
         pc' = "nodes" => pc = "nodes", pc' = "edges" => pc \in {"nodes", "edges"}
  PROVE  Ordered'
<1>1. (Ran' <=> Ran) /\ (Linked' <=> Linked)
  BY DEF Ran, Linked
<1>2. \A k \in 1..Len(mailbox) : Rank(mailbox[k]) \in 1..3
  BY DEF Rank
<1> QED
  BY <1>1, <1>2 DEF Ordered

LEMMA StillMade ==
  ASSUME UNCHANGED <<mailbox, boxes, agents, graph>>
  PROVE  /\ BoxType => BoxType'
         /\ OfEdges => OfEdges'
         /\ Begun' <=> Begun
         /\ \A k : Promised(k)' <=> Promised(k)
<1>1. BoxType => BoxType'
  BY DEF BoxType
<1>2. \A i, key, c : OfEdge(i, key, c)' <=> OfEdge(i, key, c)
  BY DEF OfEdge
<1>3. OfEdges => OfEdges'
  BY <1>2 DEF OfEdges
<1>4. Begun' <=> Begun
  BY DEF Begun, Ran
<1>5. \A i, key : Served(i, key)' <=> Served(i, key)
  BY DEF Served
<1>6. \A k : Promised(k)' <=> Promised(k)
  BY <1>5 DEF Promised
<1> QED
  BY <1>1, <1>3, <1>4, <1>6

\* A message is posted behind those before it.
LEMMA PostOrdered ==
  ASSUME Ordered, NEW m \in Mail, Post(m), UNCHANGED <<boxes, pc>>,
         \/ pc = "nodes" /\ Rank(m) = 1
         \/ pc = "edges" /\ Rank(m) = 2
         \/ pc \notin {"nodes", "edges"} /\ Rank(m) = 3
  PROVE  Ordered'
<1>1. (Ran' <=> Ran) /\ (Linked' <=> Linked)
  BY DEF Ran, Linked
<1>2. /\ mailbox' \in Seq(Mail) /\ Len(mailbox) \in Nat /\ Len(mailbox') = Len(mailbox) + 1
      /\ mailbox'[Len(mailbox) + 1] = m
      /\ \A k \in 1..Len(mailbox) : mailbox'[k] = mailbox[k] /\ Rank(mailbox[k]) \in 1..3
  BY DEF Ordered, Post, Rank
<1>3. \A k \in 1..Len(mailbox') : k \in 1..Len(mailbox) \/ k = Len(mailbox) + 1
  BY <1>2
<1>4. \A k \in 1..Len(mailbox) : Rank(mailbox[k]) <= Rank(m)
  BY <1>2 DEF Ordered
<1>5. ASSUME NEW j \in 1..Len(mailbox'), NEW k \in 1..Len(mailbox'), j < k
      PROVE  Rank(mailbox'[j]) <= Rank(mailbox'[k])
  <2>1. j \in 1..Len(mailbox)
    BY <1>2, <1>5
  <2>2. k \in 1..Len(mailbox) \/ k = Len(mailbox) + 1
    BY <1>3
  <2>3. CASE k \in 1..Len(mailbox)
    BY <1>2, <1>5, <2>1, <2>3 DEF Ordered
  <2>4. CASE k = Len(mailbox) + 1
    BY <1>2, <1>4, <2>1, <2>4
  <2> QED
    BY <2>2, <2>3, <2>4
<1>6. ASSUME NEW k \in 1..Len(mailbox')
      PROVE  /\ Ran => Rank(mailbox'[k]) = 3
             /\ Linked => Rank(mailbox'[k]) >= 2
             /\ pc = "nodes" => Rank(mailbox'[k]) = 1
             /\ pc = "edges" => Rank(mailbox'[k]) <= 2
  <2>1. CASE k \in 1..Len(mailbox)
    BY <1>2, <2>1 DEF Ordered
  <2>2. CASE k = Len(mailbox) + 1
    BY <1>2, <2>2 DEF Ordered
  <2> QED
    BY <1>3, <2>1, <2>2
<1> QED
  BY <1>1, <1>2, <1>5, <1>6 DEF Ordered

\* What is posted is for an edge, or for none.
LEMMA PostMade ==
  ASSUME Ordered, NEW m \in Mail, Post(m), UNCHANGED <<boxes, agents, graph>>
  PROVE  /\ BoxType => BoxType'
         /\ OfEdges /\ (m.type = "Connect" => OfEdge(m.id, <<m.port, m.elem>>, m.chan)) => OfEdges'
         /\ Begun' <=> Begun \/ Rank(m) = 3
         /\ \A k : Promised(k) => Promised(k)'
         /\ m.type = "Connect" => Served(m.id, <<m.port, m.elem>>)'
<1>1. /\ Len(mailbox) \in Nat /\ Len(mailbox') = Len(mailbox) + 1
      /\ mailbox'[Len(mailbox) + 1] = m
      /\ \A k \in 1..Len(mailbox) : mailbox'[k] = mailbox[k] /\ k \in 1..Len(mailbox')
      /\ \A k \in 1..Len(mailbox') : k \in 1..Len(mailbox) \/ k = Len(mailbox) + 1
  BY DEF Ordered, Post
<1>2. BoxType => BoxType'
  BY DEF BoxType
<1>3. \A i, key, c : OfEdge(i, key, c)' <=> OfEdge(i, key, c)
  BY DEF OfEdge
<1>4. ASSUME OfEdges, m.type = "Connect" => OfEdge(m.id, <<m.port, m.elem>>, m.chan)
      PROVE  OfEdges'
  <2>1. ASSUME NEW k \in 1..Len(mailbox'), mailbox'[k].type = "Connect"
        PROVE  OfEdge(mailbox'[k].id, <<mailbox'[k].port, mailbox'[k].elem>>, mailbox'[k].chan)
    <3>1. CASE k \in 1..Len(mailbox)
      BY <1>1, <1>4, <2>1, <3>1 DEF OfEdges
    <3>2. CASE k = Len(mailbox) + 1
      BY <1>1, <1>4, <2>1, <3>2
    <3> QED
      BY <1>1, <3>1, <3>2
  <2> QED
    BY <1>3, <1>4, <2>1 DEF OfEdges
<1>5. Begun' <=> Begun \/ Rank(m) = 3
  <2>1. Ran' <=> Ran
    BY DEF Ran
  <2>2. (\E k \in 1..Len(mailbox') : Rank(mailbox'[k]) = 3)
          <=> (\E k \in 1..Len(mailbox) : Rank(mailbox[k]) = 3) \/ Rank(m) = 3
    <3>1. Len(mailbox) + 1 \in 1..Len(mailbox')
      BY <1>1
    <3> QED
      BY <1>1, <3>1
  <2> QED
    BY <2>1, <2>2 DEF Begun
<1>6. \A i, key : Served(i, key) => Served(i, key)'
  BY <1>1 DEF Served
<1>7. ASSUME m.type = "Connect" PROVE Served(m.id, <<m.port, m.elem>>)'
  <2>1. Len(mailbox) + 1 \in 1..Len(mailbox')
    BY <1>1
  <2> QED
    BY <1>1, <1>7, <2>1 DEF Served
<1>8. \A k : Promised(k) => Promised(k)'
  BY <1>6 DEF Promised
<1> QED
  BY <1>2, <1>4, <1>5, <1>7, <1>8

\* The messages move up when the first is taken.
LEMMA Moved ==
  ASSUME Ordered, mailbox # <<>>, mailbox' = Tail(mailbox)
  PROVE  /\ mailbox' \in Seq(Mail) /\ Head(mailbox) = mailbox[1] /\ Head(mailbox) \in Mail
         /\ 1 \in 1..Len(mailbox)
         /\ \A k \in 1..Len(mailbox') : k + 1 \in 1..Len(mailbox) /\ mailbox'[k] = mailbox[k + 1]
         /\ \A k \in 1..Len(mailbox) : k = 1 \/ (k - 1 \in 1..Len(mailbox') /\ mailbox'[k - 1] = mailbox[k])
  BY DEF Ordered

LEMMA TakeOrdered ==
  ASSUME Ordered, mailbox # <<>>, mailbox' = Tail(mailbox), pc' = pc,
         Ran' => Ran \/ Rank(Head(mailbox)) = 3,
         Linked' => Linked \/ Rank(Head(mailbox)) >= 2
  PROVE  Ordered'
<1>1. /\ mailbox' \in Seq(Mail) /\ Head(mailbox) = mailbox[1] /\ 1 \in 1..Len(mailbox)
      /\ \A k \in 1..Len(mailbox') : k + 1 \in 1..Len(mailbox) /\ mailbox'[k] = mailbox[k + 1]
  BY Moved
<1>2. \A k \in 1..Len(mailbox) : Rank(mailbox[k]) \in 1..3 /\ Rank(mailbox[1]) <= Rank(mailbox[k])
  <2>1. \A k \in 1..Len(mailbox) : k = 1 \/ 1 < k
    OBVIOUS
  <2> QED
    BY <1>1, <2>1 DEF Ordered, Rank
<1>3. \A j, k \in 1..Len(mailbox') : j < k => Rank(mailbox'[j]) <= Rank(mailbox'[k])
  <2> SUFFICES ASSUME NEW j \in 1..Len(mailbox'), NEW k \in 1..Len(mailbox'), j < k
               PROVE  Rank(mailbox'[j]) <= Rank(mailbox'[k])
    OBVIOUS
  <2>1. j + 1 \in 1..Len(mailbox) /\ k + 1 \in 1..Len(mailbox) /\ j + 1 < k + 1
    BY <1>1
  <2> QED
    BY <1>1, <2>1 DEF Ordered
<1>4. ASSUME NEW k \in 1..Len(mailbox')
      PROVE  /\ Ran' => Rank(mailbox'[k]) = 3
             /\ Linked' => Rank(mailbox'[k]) >= 2
             /\ pc = "nodes" => Rank(mailbox'[k]) = 1
             /\ pc = "edges" => Rank(mailbox'[k]) <= 2
  <2> PICK n \in 1..Len(mailbox) : n = k + 1 /\ mailbox'[k] = mailbox[n]
    BY <1>1
  <2>1. Rank(mailbox[n]) \in 1..3 /\ Rank(mailbox[1]) \in 1..3 /\ Rank(mailbox[1]) <= Rank(mailbox[n])
    BY <1>1, <1>2
  <2>2. /\ Ran => Rank(mailbox[n]) = 3
        /\ Linked => Rank(mailbox[n]) >= 2
        /\ pc = "nodes" => Rank(mailbox[n]) = 1
        /\ pc = "edges" => Rank(mailbox[n]) <= 2
    BY DEF Ordered
  <2> QED
    BY <1>1, <2>1, <2>2
<1>5. (pc = "nodes" => ~Linked') /\ (pc \in {"nodes", "edges"} => ~Ran')
  BY <1>1 DEF Ordered
<1> QED
  BY <1>1, <1>3, <1>4, <1>5 DEF Ordered

\* A table of channels after no edit, and after one.
LEMMA ChangedNone ==
  ASSUME NEW f, NEW t
  PROVE  /\ DOMAIN Changed(f, <<>>, t) = DOMAIN f
         /\ \A e \in DOMAIN f : Changed(f, <<>>, t)[e] = f[e]
BY DEF Changed

LEMMA ChangedOne ==
  ASSUME NEW f, NEW m, m.type = "Connect"
  PROVE  /\ DOMAIN Changed(f, <<m>>, "Connect") = DOMAIN f \cup {<<m.port, m.elem>>}
         /\ Changed(f, <<m>>, "Connect")[<<m.port, m.elem>>] = m.chan
         /\ \A e \in DOMAIN f \ {<<m.port, m.elem>>} : Changed(f, <<m>>, "Connect")[e] = f[e]
<1> DEFINE es == <<m>>
           key == <<m.port, m.elem>>
           g == Changed(f, <<m>>, "Connect")
           Of(e) == {k \in 1..Len(es) : es[k].type = "Connect" /\ <<es[k].port, es[k].elem>> = e}
           Most(e) == CHOOSE k \in Of(e) : \A j \in Of(e) : j <= k
           New == {<<es[k].port, es[k].elem>> : k \in {k \in 1..Len(es) : es[k].type = "Connect"}}
<1>1. /\ DOMAIN g = DOMAIN f \cup New
      /\ \A e \in DOMAIN g : g[e] = IF Of(e) = {} THEN f[e] ELSE es[Most(e)].chan
  BY DEF Changed
<1>2. 1..Len(es) = {1} /\ es[1] = m
  OBVIOUS
<1>3. New = {key} /\ Of(key) = {1} /\ \A e : e # key => Of(e) = {}
  BY <1>2
<1>4. Most(key) = 1
  BY <1>3
<1> HIDE DEF g, Of, Most, New
<1>5. g[key] = m.chan /\ \A e \in DOMAIN f \ {key} : g[e] = f[e]
  BY <1>1, <1>2, <1>3, <1>4
<1> QED
  BY <1>1, <1>3, <1>5 DEF g

\* An agent whose edits are made.
LEMMA EditedBox ==
  ASSUME NEW b, NEW es, DOMAIN b = {"sort", "outs", "ins", "edits", "busy", "ran"}
  PROVE  /\ DOMAIN Edited(b, es) = DOMAIN b /\ Edited(b, es).edits = b.edits
         /\ Edited(b, es).busy = b.busy /\ Edited(b, es).ran = b.ran
         /\ Edited(b, es).outs = Changed(b.outs, es, "Connect")
<1>1. \A s, t : [b EXCEPT !.outs = s, !.ins = t]
               = [x \in DOMAIN b |-> IF x = "outs" THEN s ELSE IF x = "ins" THEN t ELSE b[x]]
  OBVIOUS
<1>2. Edited(b, es) = [b EXCEPT !.outs = Changed(b.outs, es, "Connect"),
                                !.ins = Changed(b.ins, es, "AddInputArrayElement")]
  BY DEF Edited
<1> QED
  BY <1>1, <1>2

\* The interior scheduler takes the message m.
LEMMA TakeKeeps ==
  ASSUME LoaderInv, mailbox # <<>>, mailbox' = Tail(mailbox),
         UNCHANGED <<agents, id, client, loader>>,
         NEW m, m = Head(mailbox),
         BoxType', Ran' => Ran \/ Rank(m) = 3,
         \A i \in DOMAIN boxes : i \in DOMAIN boxes' /\ DOMAIN boxes[i].outs \subseteq DOMAIN boxes'[i].outs,
         \A i \in DOMAIN boxes' : \A key \in DOMAIN boxes'[i].outs :
           \/ /\ i \in DOMAIN boxes /\ key \in DOMAIN boxes[i].outs
              /\ boxes'[i].outs[key] = boxes[i].outs[key]
           \/ /\ m.type = "Connect" /\ i = m.id /\ key = <<m.port, m.elem>>
              /\ boxes'[i].outs[key] = m.chan,
         m.type = "Connect" =>
           m.id \in DOMAIN boxes' /\ <<m.port, m.elem>> \in DOMAIN boxes'[m.id].outs
  PROVE  LoaderInv'
<1>0. LoaderType /\ Ordered /\ OfEdges /\ EdgesMade /\ UNCHANGED <<graph, pc, at>>
  BY DEF LoaderInv, loader
<1>1. /\ mailbox' \in Seq(Mail) /\ m = mailbox[1] /\ m \in Mail /\ 1 \in 1..Len(mailbox)
      /\ \A k \in 1..Len(mailbox') : k + 1 \in 1..Len(mailbox) /\ mailbox'[k] = mailbox[k + 1]
      /\ \A k \in 1..Len(mailbox) : k = 1 \/ (k - 1 \in 1..Len(mailbox') /\ mailbox'[k - 1] = mailbox[k])
  BY ONLY <1>0, mailbox # <<>>, mailbox' = Tail(mailbox), m = Head(mailbox), Moved
<1>2. LoaderType'
  BY <1>0 DEF LoaderType
<1>3. Ordered'
  <2>1. Linked' => Linked \/ Rank(m) >= 2
    BY DEF Linked, Rank
  <2> QED
    BY <1>0, <2>1, TakeOrdered
<1>4. \A i, key, c : OfEdge(i, key, c)' <=> OfEdge(i, key, c)
  BY <1>0 DEF OfEdge
<1>5. OfEdges'
  <2>1. ASSUME NEW k \in 1..Len(mailbox'), mailbox'[k].type = "Connect"
        PROVE  OfEdge(mailbox'[k].id, <<mailbox'[k].port, mailbox'[k].elem>>, mailbox'[k].chan)
    BY <1>0, <1>1, <2>1 DEF OfEdges
  <2>2. m.type = "Connect" => OfEdge(m.id, <<m.port, m.elem>>, m.chan)
    BY <1>0, <1>1 DEF OfEdges
  <2>3. ASSUME NEW i \in DOMAIN boxes', NEW key \in DOMAIN boxes'[i].outs
        PROVE  OfEdge(i, key, boxes'[i].outs[key])
    BY <1>0, <2>2 DEF OfEdges
  <2> QED
    BY <1>4, <2>1, <2>3 DEF OfEdges
<1>6. \A i, key : Served(i, key) => Served(i, key)'
  <2> SUFFICES ASSUME NEW i, NEW key, Served(i, key) PROVE Served(i, key)'
    OBVIOUS
  <2>1. CASE i \in DOMAIN boxes /\ key \in DOMAIN boxes[i].outs
    BY <2>1 DEF Served
  <2>2. ASSUME NEW k \in 1..Len(mailbox), mailbox[k].type = "Connect", mailbox[k].id = i,
               <<mailbox[k].port, mailbox[k].elem>> = key
        PROVE  Served(i, key)'
    <3>1. CASE k = 1
      <4>1. m.type = "Connect" /\ m.id = i /\ <<m.port, m.elem>> = key
        BY <1>1, <2>2, <3>1
      <4> QED
        BY <4>1 DEF Served
    <3>2. CASE k # 1
      <4>1. k - 1 \in 1..Len(mailbox') /\ mailbox'[k - 1] = mailbox[k]
        BY <1>1, <3>2
      <4>2. /\ mailbox'[k - 1].type = "Connect" /\ mailbox'[k - 1].id = i
            /\ <<mailbox'[k - 1].port, mailbox'[k - 1].elem>> = key
        BY <2>2, <4>1
      <4> QED
        BY <4>1, <4>2 DEF Served
    <3> QED
      BY <3>1, <3>2
  <2> QED
    BY <2>1, <2>2 DEF Served
<1>7. \A k : Promised(k) => Promised(k)'
  BY <1>0, <1>6 DEF Promised
<1>8. Begun' => Begun
  BY <1>1 DEF Begun
<1>9. EdgesMade'
  BY <1>0, <1>7, <1>8 DEF EdgesMade
<1> QED
  BY <1>2, <1>3, <1>5, <1>9 DEF LoaderInv

LEMMA ReceiveKeeps ==
  ASSUME LoaderInv, Receive, UNCHANGED loader
  PROVE  LoaderInv'
<1> PICK m : m = Head(mailbox)
  OBVIOUS
<1>0. /\ mailbox # <<>> /\ mailbox' = Tail(mailbox) /\ UNCHANGED <<agents, id, client, loader>>
      /\ BoxType /\ Ordered
  BY DEF Receive, LoaderInv
<1>1. m \in Mail /\ m = mailbox[1] /\ 1 \in 1..Len(mailbox)
  BY ONLY <1>0, m = Head(mailbox), Moved
<1>2. (Ran => Rank(m) = 3) /\ (Linked => Rank(m) >= 2)
  BY <1>0, <1>1 DEF Ordered
<1>3. CASE m.type = "NewAgent" /\ boxes' = Extend(boxes, m.id, NewBox(m.sort))
  <2>1. ~Ran /\ ~Linked
    BY <1>2, <1>3 DEF Rank
  <2>2. /\ DOMAIN boxes' = DOMAIN boxes \cup {m.id} /\ boxes'[m.id] = NewBox(m.sort)
        /\ \A i \in DOMAIN boxes \ {m.id} : boxes'[i] = boxes[i]
    BY <1>3 DEF Extend
  <2>3. \A i \in DOMAIN boxes' : DOMAIN boxes'[i].outs = {} /\ ~boxes'[i].ran
    BY <2>1, <2>2 DEF NewBox, Empty, Linked, Ran
  <2>4. BoxType'
    BY <1>0, <2>2 DEF BoxType, NewBox
  <2>5. \A i \in DOMAIN boxes : DOMAIN boxes[i].outs = {}
    BY <2>1 DEF Linked
  <2>6. ~Ran'
    BY <2>3 DEF Ran
  <2> QED
    BY <1>0, <1>3, <2>2, <2>3, <2>4, <2>5, <2>6, TakeKeeps
<1>4. CASE /\ m.type \in {"Start", "Inc"} /\ m.id \in DOMAIN boxes
           /\ boxes' = [boxes EXCEPT ![m.id].busy = TRUE, ![m.id].ran = TRUE]
  <2>1. /\ DOMAIN boxes' = DOMAIN boxes
        /\ \A i \in DOMAIN boxes \ {m.id} : boxes'[i] = boxes[i]
        /\ boxes'[m.id] = [boxes[m.id] EXCEPT !.busy = TRUE, !.ran = TRUE]
    BY <1>4
  <2>2. \A i \in DOMAIN boxes : boxes'[i].outs = boxes[i].outs
    BY <1>0, <1>4, <2>1 DEF BoxType
  <2>3. BoxType'
    BY <1>0, <1>4, <2>1 DEF BoxType
  <2>4. Rank(m) = 3
    BY <1>4 DEF Rank
  <2> QED
    BY <1>0, <1>4, <2>1, <2>2, <2>3, <2>4, TakeKeeps
<1>5. CASE /\ IsEdit(m) /\ m.id \in DOMAIN boxes
           /\ boxes' = [boxes EXCEPT ![m.id] = IF @.busy THEN Waits(@, m) ELSE Edited(@, <<m>>)]
  <2>1. m.type = "Connect" /\ ~Ran
    BY <1>1, <1>2, <1>5 DEF IsEdit, Mail, Rank
  <2>2. ~boxes[m.id].busy
    BY <1>0, <1>5, <2>1 DEF BoxType, Ran
  <2>3. /\ DOMAIN boxes' = DOMAIN boxes
        /\ \A i \in DOMAIN boxes \ {m.id} : boxes'[i] = boxes[i]
        /\ boxes'[m.id] = Edited(boxes[m.id], <<m>>)
    BY <1>5, <2>2
  <2>4. /\ DOMAIN boxes'[m.id] = DOMAIN boxes[m.id] /\ boxes'[m.id].edits = boxes[m.id].edits
        /\ boxes'[m.id].busy = boxes[m.id].busy /\ boxes'[m.id].ran = boxes[m.id].ran
        /\ boxes'[m.id].outs = Changed(boxes[m.id].outs, <<m>>, "Connect")
    <3>1. DOMAIN boxes[m.id] = {"sort", "outs", "ins", "edits", "busy", "ran"}
      BY <1>0, <1>5 DEF BoxType
    <3> QED
      BY ONLY <2>3, <3>1, EditedBox
  <2>5. BoxType'
    BY <1>0, <1>5, <2>3, <2>4 DEF BoxType
  <2>6. PICK g, key : g = boxes'[m.id].outs /\ key = <<m.port, m.elem>>
    OBVIOUS
  <2>7. /\ DOMAIN g = DOMAIN boxes[m.id].outs \cup {key} /\ g[key] = m.chan
        /\ \A e \in DOMAIN boxes[m.id].outs \ {key} : g[e] = boxes[m.id].outs[e]
    <3>0. m.type = "Connect" /\ key = <<m.port, m.elem>>
      BY <2>1, <2>6
    <3>1. \A f : /\ DOMAIN Changed(f, <<m>>, "Connect") = DOMAIN f \cup {key}
                 /\ Changed(f, <<m>>, "Connect")[key] = m.chan
                 /\ \A e \in DOMAIN f \ {key} : Changed(f, <<m>>, "Connect")[e] = f[e]
      BY ONLY <3>0, ChangedOne
    <3>2. g = Changed(boxes[m.id].outs, <<m>>, "Connect")
      BY ONLY <2>4, <2>6
    <3> QED
      BY ONLY <3>1, <3>2
  <2>8. Ran' <=> Ran
    BY <1>5, <2>3, <2>4 DEF Ran
  <2>9. ASSUME NEW i \in DOMAIN boxes', NEW e \in DOMAIN boxes'[i].outs
        PROVE  \/ /\ i \in DOMAIN boxes /\ e \in DOMAIN boxes[i].outs
                  /\ boxes'[i].outs[e] = boxes[i].outs[e]
               \/ /\ m.type = "Connect" /\ i = m.id /\ e = <<m.port, m.elem>>
                  /\ boxes'[i].outs[e] = m.chan
    BY <2>1, <2>3, <2>6, <2>7
  <2>10. \A i \in DOMAIN boxes : i \in DOMAIN boxes' /\ DOMAIN boxes[i].outs \subseteq DOMAIN boxes'[i].outs
    BY <2>3, <2>6, <2>7
  <2>11. m.id \in DOMAIN boxes' /\ <<m.port, m.elem>> \in DOMAIN boxes'[m.id].outs
    BY <1>5, <2>3, <2>6, <2>7
  <2> QED
    BY <1>0, <2>5, <2>8, <2>9, <2>10, <2>11, TakeKeeps
<1> QED
  BY <1>3, <1>4, <1>5 DEF Receive

\* No edit waits for the end of a run.
LEMMA RunEndKeeps ==
  ASSUME LoaderInv, NEW i, NEW again \in BOOLEAN, RunEnd(i, again), UNCHANGED loader
  PROVE  LoaderInv'
<1>0. /\ LoaderType /\ BoxType /\ Ordered /\ OfEdges /\ EdgesMade
      /\ i \in DOMAIN boxes /\ UNCHANGED <<agents, id, client, mailbox, graph, pc, at>>
  BY DEF LoaderInv, RunEnd, loader
<1>1. /\ boxes[i].busy /\ boxes[i].edits = <<>>
      /\ boxes' = [boxes EXCEPT ![i] =
                     [Edited(boxes[i], <<>>) EXCEPT !.edits = <<>>, !.busy = again]]
  BY <1>0 DEF RunEnd, BoxType
<1>2. /\ DOMAIN boxes' = DOMAIN boxes /\ \A j \in DOMAIN boxes \ {i} : boxes'[j] = boxes[j]
      /\ boxes'[i] = [Edited(boxes[i], <<>>) EXCEPT !.edits = <<>>, !.busy = again]
  BY <1>0, <1>1
<1>3. /\ DOMAIN boxes'[i] = DOMAIN boxes[i] /\ boxes'[i].edits = <<>>
      /\ boxes'[i].busy = again /\ boxes'[i].ran = boxes[i].ran
      /\ boxes'[i].outs = Changed(boxes[i].outs, <<>>, "Connect")
  <2>1. DOMAIN boxes[i] = {"sort", "outs", "ins", "edits", "busy", "ran"}
    BY <1>0 DEF BoxType
  <2>2. PICK b : b = Edited(boxes[i], <<>>)
    OBVIOUS
  <2>3. /\ DOMAIN b = DOMAIN boxes[i] /\ b.ran = boxes[i].ran
        /\ b.outs = Changed(boxes[i].outs, <<>>, "Connect")
    BY ONLY <2>1, <2>2, EditedBox
  <2>4. boxes'[i] = [b EXCEPT !.edits = <<>>, !.busy = again]
    BY <1>2, <2>2
  <2> QED
    BY ONLY <2>1, <2>3, <2>4
<1>4. BoxType'
  BY <1>0, <1>1, <1>2, <1>3 DEF BoxType
<1>5. \A j \in DOMAIN boxes : /\ DOMAIN boxes'[j].outs = DOMAIN boxes[j].outs
                               /\ \A key \in DOMAIN boxes[j].outs : boxes'[j].outs[key] = boxes[j].outs[key]
  <2>1. \A key \in DOMAIN boxes[i].outs : boxes'[i].outs[key] = boxes[i].outs[key]
    BY ONLY <1>3, ChangedNone
  <2>2. DOMAIN boxes'[i].outs = DOMAIN boxes[i].outs
    BY ONLY <1>3, ChangedNone
  <2> QED
    BY <1>2, <2>1, <2>2
<1>6. (Ran' <=> Ran) /\ (Linked' <=> Linked)
  BY <1>0, <1>2, <1>3, <1>5 DEF Ran, Linked
<1>7. LoaderType' /\ Ordered'
  BY <1>0, <1>6 DEF LoaderType, Ordered
<1>8. OfEdges'
  <2>1. \A j, key, c : OfEdge(j, key, c)' <=> OfEdge(j, key, c)
    BY <1>0 DEF OfEdge
  <2> QED
    BY <1>0, <1>2, <1>5, <2>1 DEF OfEdges
<1>9. \A k : Promised(k)' <=> Promised(k)
  <2>1. \A j, key : Served(j, key)' <=> Served(j, key)
    BY <1>0, <1>2, <1>5 DEF Served
  <2> QED
    BY <1>0, <2>1 DEF Promised
<1>10. Begun' <=> Begun
  BY <1>0, <1>6 DEF Begun
<1>11. EdgesMade'
  BY <1>0, <1>9, <1>10 DEF EdgesMade
<1> QED
  BY <1>4, <1>7, <1>8, <1>11 DEF LoaderInv

\* Nothing is posted or taken: the rest is about where the loader is.
LEMMA QuietKeeps ==
  ASSUME LoaderInv, UNCHANGED <<mailbox, boxes, agents, id, graph>>, at' \in Nat \ {0},
         pc' \in {"nodes", "edges", "imsgs", "start", "idle", "joining", "ended"},
         pc' = "nodes" => pc = "nodes", pc' = "edges" => pc \in {"nodes", "edges"},
         pc' = "edges" /\ client' = "up" => \A k \in DOMAIN graph.edges : k < at' => Promised(k),
         pc' \in {"imsgs", "start"} /\ client' = "up" => \A k \in DOMAIN graph.edges : Promised(k)
  PROVE  LoaderInv'
<1>1. LoaderType /\ BoxType /\ Ordered /\ OfEdges /\ EdgesMade
  BY DEF LoaderInv
<1>2. LoaderType'
  BY <1>1 DEF LoaderType
<1>3. Ordered'
  BY <1>1, StillOrdered
<1>4. BoxType' /\ OfEdges' /\ (Begun' <=> Begun) /\ \A k : Promised(k)' <=> Promised(k)
  BY <1>1, StillMade
<1>5. EdgesMade'
  BY <1>1, <1>4 DEF EdgesMade
<1> QED
  BY <1>2, <1>3, <1>4, <1>5 DEF LoaderInv

\* A message that makes an agent run is posted once all edges are made.
LEMMA WakeKeeps ==
  ASSUME LoaderInv, NEW m \in Mail, Post(m), Rank(m) = 3,
         UNCHANGED <<boxes, agents, id, graph, pc>>, at' \in Nat \ {0},
         pc \notin {"nodes", "edges"}, \A k \in DOMAIN graph.edges : Promised(k)
  PROVE  LoaderInv'
<1>1. LoaderType /\ BoxType /\ Ordered /\ OfEdges
  BY DEF LoaderInv
<1>2. LoaderType'
  BY <1>1 DEF LoaderType
<1>3. Ordered'
  BY <1>1, PostOrdered
<1>4. m.type # "Connect"
  BY DEF Rank
<1>5. BoxType' /\ OfEdges' /\ \A k : Promised(k) => Promised(k)'
  BY <1>1, <1>4, PostMade
<1>6. EdgesMade'
  BY <1>5 DEF EdgesMade
<1> QED
  BY <1>2, <1>3, <1>5, <1>6 DEF LoaderInv

\* The edges of the graph.
LEMMA EdgesAre ==
  ASSUME LoaderType
  PROVE  /\ Len(graph.edges) \in Nat /\ DOMAIN graph.edges = 1..Len(graph.edges)
         /\ \A k \in DOMAIN graph.edges : /\ graph.edges[k] \in [out : End, in : End]
                                        /\ graph.edges[k].out \in End /\ graph.edges[k].in \in End
<1>1. \A T : \A s \in Seq(T) : /\ Len(s) \in Nat /\ DOMAIN s = 1..Len(s)
                              /\ \A k \in DOMAIN s : s[k] \in T
  OBVIOUS
<1>2. \A e \in [out : End, in : End] : e.out \in End /\ e.in \in End
  OBVIOUS
<1>3. graph.edges \in Seq([out : End, in : End])
  BY GraphsAssumption DEF LoaderType
<1> QED
  BY ONLY <1>1, <1>2, <1>3

LEMMA LoadNodeKeeps ==
  ASSUME LoaderInv, LoadNode
  PROVE  LoaderInv'
<1>1. /\ LoaderType /\ BoxType /\ Ordered /\ pc = "nodes" /\ UNCHANGED <<graph, pc, boxes>>
      /\ at' = at + 1
  BY DEF LoaderInv, LoadNode, InLoop, AddNode, Panics, Answer
<1>2. PICK name, sort : AddNode(name, sort)
  BY DEF LoadNode
<1>3. CASE Panics
  BY <1>1, <1>3, QuietKeeps DEF Panics, NoChange, LoaderType
<1>4. ASSUME NEW b, sort \in Loadable, id' = id + 1,
             agents' = Extend(agents, name, [id |-> id, sort |-> sort, start |-> b, elements |-> Empty]),
             Post([type |-> "NewAgent", id |-> id, sort |-> sort])
      PROVE  LoaderInv'
  <2>1. LoaderType'
    <3>1. /\ DOMAIN agents' = DOMAIN agents \cup {name}
          /\ agents'[name].id = id /\ agents'[name].elements = Empty
          /\ \A n \in DOMAIN agents \ {name} : agents'[n] = agents[n]
      BY <1>4 DEF Extend
    <3> QED
      BY <1>1, <1>4, <3>1 DEF LoaderType
  <2>2. PICK m : m = [type |-> "NewAgent", id |-> id, sort |-> sort]
    OBVIOUS
  <2>3. m \in Mail /\ Rank(m) = 1 /\ Post(m)
    BY <1>1, <1>4, <2>2 DEF Mail, Rank, LoaderType
  <2>4. Ordered'
    BY <1>1, <2>3, PostOrdered
  <2>5. \A k \in 1..Len(mailbox') : Rank(mailbox'[k]) = 1
    BY <1>1, <2>4 DEF Ordered
  <2>6. ~Linked' /\ ~Ran'
    BY <1>1, <2>4 DEF Ordered
  <2>7. BoxType'
    BY <1>1 DEF BoxType
  <2>8. OfEdges'
    BY <2>5, <2>6 DEF OfEdges, Rank, Linked
  <2>9. EdgesMade'
    BY <1>1, <2>5, <2>6 DEF EdgesMade, Begun
  <2> QED
    BY <2>1, <2>4, <2>7, <2>8, <2>9 DEF LoaderInv
<1> QED
  BY <1>2, <1>3, <1>4 DEF AddNode

LEMMA LoadEdgeKeeps ==
  ASSUME LoaderInv, LoadEdge
  PROVE  LoaderInv'
<1>1. /\ LoaderType /\ BoxType /\ Ordered /\ OfEdges /\ EdgesMade /\ pc = "edges" /\ client = "up"
      /\ OrReturn
  BY DEF LoaderInv, LoadEdge, InLoop
<1>2. /\ DOMAIN graph.edges = 1..Len(graph.edges) /\ at \in 1..Len(graph.edges) /\ at \in Nat
      /\ Item = graph.edges[at] /\ Item.out \in End /\ Item.in \in End
  <2>1. Items[pc] = graph.edges
    BY <1>1 DEF Items
  <2>2. at <= Len(graph.edges) /\ Item = graph.edges[at] /\ at \in Nat \ {0}
    BY <1>1, <2>1 DEF LoadEdge, InLoop, Item, LoaderType
  <2>3. at \in 1..Len(graph.edges) /\ at \in DOMAIN graph.edges
    BY <1>1, <2>2, EdgesAre
  <2> QED
    BY <1>1, <2>2, <2>3, EdgesAre
<1>3. PICK out, in : Connect(out, in) /\ out = Item.out /\ in = Item.in
  BY DEF LoadEdge
<1>4. CASE Panics \/ \E e : e # "Ok" /\ Fails(e)
  <2>1. UNCHANGED <<mailbox, boxes, agents, id, graph>>
    BY <1>1, <1>4 DEF Panics, Fails, NoChange, Answer, OrReturn
  <2>2. \/ client' # "up" /\ pc' \in {"edges", "idle"}
        \/ pc' = "idle"
    BY <1>1, <1>4 DEF Panics, Fails, Answer, OrReturn
  <2>3. at' \in Nat \ {0}
    BY <1>1 DEF OrReturn, LoaderType
  <2> QED
    BY <1>1, <2>1, <2>2, <2>3, QuietKeeps
<1>5. ASSUME Known(out.comp), Known(in.comp), HasSender(in.comp, in.port, in.elem), Answer("Ok"),
             Post([type |-> "Connect", id |-> agents[out.comp].id, port |-> out.port,
                   elem |-> out.elem, chan |-> Sender(in.comp, in.port, in.elem)]),
             UNCHANGED <<agents, id, made>>
      PROVE  LoaderInv'
  <2>0. /\ UNCHANGED <<graph, pc, boxes, agents, id>> /\ at' = at + 1
        /\ out.comp \in DOMAIN agents /\ in.comp \in DOMAIN agents
    BY <1>1, <1>5 DEF OrReturn, Answer, Known
  <2>1. Sender(in.comp, in.port, in.elem) = Channel(agents[in.comp].id, in.port, in.elem, 0)
    <3>1. DOMAIN agents[in.comp].elements = {}
      BY <1>1, <2>0 DEF LoaderType, Empty
    <3> QED
      BY <1>5, <3>1 DEF HasSender, Sender
  <2>2. PICK m : m = [type |-> "Connect", id |-> agents[out.comp].id, port |-> out.port,
                      elem |-> out.elem, chan |-> Sender(in.comp, in.port, in.elem)]
    OBVIOUS
  <2>3. /\ out \in End /\ in \in End
        /\ agents[out.comp].id \in Nat /\ agents[in.comp].id \in Nat
    BY <1>1, <1>2, <1>3, <2>0 DEF LoaderType
  <2>4. m \in Mail /\ m.type = "Connect" /\ Rank(m) = 2 /\ Post(m)
    <3>1. out.port \in STRING /\ out.elem \in STRING /\ in.port \in STRING /\ in.elem \in STRING
      BY <2>3 DEF End
    <3>2. m.chan \in [id : Nat, port : STRING, elem : STRING, n : Nat]
      BY <2>1, <2>2, <2>3, <3>1 DEF Channel
    <3>3. m \in Mail
      BY <2>2, <2>3, <3>1, <3>2 DEF Mail
    <3> QED
      BY <1>5, <2>2, <3>3 DEF Rank
  <2>5. OfEdge(m.id, <<m.port, m.elem>>, m.chan)
    <3>1. /\ m.id = agents[out.comp].id /\ <<m.port, m.elem>> = <<out.port, out.elem>>
          /\ m.chan.id = agents[in.comp].id
      BY <2>1, <2>2 DEF Channel
    <3> QED
      BY <1>2, <1>3, <2>0, <3>1 DEF OfEdge
  <2>6. LoaderType'
    BY <1>1, <2>0 DEF LoaderType
  <2>7. Ordered'
    BY <1>1, <2>0, <2>4, PostOrdered
  <2>8. /\ BoxType' /\ OfEdges' /\ (Begun' <=> Begun) /\ \A k : Promised(k) => Promised(k)'
        /\ Served(m.id, <<m.port, m.elem>>)'
    BY <1>1, <2>0, <2>4, <2>5, PostMade
  <2>9. \A k : k = at => Promised(k)'
    BY <1>2, <1>3, <2>0, <2>2, <2>8 DEF Promised
  <2>10. \A k \in DOMAIN graph.edges : k < at + 1 => k < at \/ k = at
    BY <1>2
  <2>11. EdgesMade'
    BY <1>1, <2>0, <2>8, <2>9, <2>10 DEF EdgesMade
  <2> QED
    BY <2>6, <2>7, <2>8, <2>11 DEF LoaderInv
<1> QED
  BY <1>3, <1>4, <1>5 DEF Connect, SenderError

\* Messages are sent and agents started once all edges are made.
LEMMA LoadMessageKeeps ==
  ASSUME LoaderInv, LoadMessage \/ StartNode
  PROVE  LoaderInv'
<1>1. /\ LoaderType /\ EdgesMade /\ pc \in {"imsgs", "start"} /\ client = "up" /\ OrReturn
  BY DEF LoaderInv, LoadMessage, StartNode, InLoop
<1>2. /\ \A k \in DOMAIN graph.edges : Promised(k)
      /\ at' \in Nat \ {0} /\ pc' \in {pc, "idle"} /\ graph' = graph
  BY <1>1 DEF EdgesMade, OrReturn, LoaderType
<1>3. CASE UNCHANGED <<mailbox, boxes, agents, id>>
  BY <1>1, <1>2, <1>3, QuietKeeps
<1>4. ASSUME NEW name \in DOMAIN agents, NEW t \in {"Start", "Inc"},
             Post([type |-> t, id |-> agents[name].id]), Answer("Ok"), UNCHANGED <<agents, id>>
      PROVE  LoaderInv'
  <2>1. PICK m : m = [type |-> t, id |-> agents[name].id]
    OBVIOUS
  <2>2. m \in Mail /\ Rank(m) = 3 /\ Post(m)
    BY <1>1, <1>4, <2>1 DEF Mail, Rank, LoaderType
  <2>3. UNCHANGED <<boxes, pc>>
    BY <1>1, <1>4 DEF Answer, OrReturn
  <2> QED
    BY <1>1, <1>2, <1>4, <2>2, <2>3, WakeKeeps
<1>5. CASE LoadMessage
  <2>1. PICK name, port, elem : Send(name, port, elem)
    BY <1>5 DEF LoadMessage
  <2>2. \/ UNCHANGED <<mailbox, boxes, agents, id>>
        \/ /\ name \in DOMAIN agents /\ Post([type |-> "Inc", id |-> agents[name].id])
           /\ Answer("Ok") /\ UNCHANGED <<agents, id>>
    BY <2>1 DEF Send, Fails, Panics, NoChange, Answer, Known
  <2> QED
    BY <1>3, <1>4, <2>2
<1>6. CASE StartNode
  <2>1. PICK name : StartIfNeeded(name)
    BY <1>6 DEF StartNode
  <2>2. \/ UNCHANGED <<mailbox, boxes, agents, id>>
        \/ /\ name \in DOMAIN agents /\ Post([type |-> "Start", id |-> agents[name].id])
           /\ Answer("Ok") /\ UNCHANGED <<agents, id>>
    BY <2>1 DEF StartIfNeeded, Fails, NoChange, Answer, Known
  <2> QED
    BY <1>3, <1>4, <2>2
<1> QED
  BY <1>5, <1>6

\* An agent that runs sends along its edges.
LEMMA EmitKeeps ==
  ASSUME LoaderInv, NEW i, Emit(i)
  PROVE  LoaderInv'
<1>1. /\ LoaderType /\ BoxType /\ Ordered /\ OfEdges /\ EdgesMade
      /\ i \in DOMAIN boxes /\ boxes[i].busy /\ UNCHANGED <<boxes, agents, id, graph, pc, at>>
  BY DEF LoaderInv, Emit, loader
<1>2. PICK o \in DOMAIN boxes[i].outs : Post([type |-> "Inc", id |-> boxes[i].outs[o].id])
  BY DEF Emit
<1>3. PICK m : m = [type |-> "Inc", id |-> boxes[i].outs[o].id]
  OBVIOUS
<1>4. Ran
  BY <1>1 DEF BoxType, Ran
<1>5. boxes[i].outs[o].id \in Nat
  <2>1. OfEdge(i, o, boxes[i].outs[o])
    BY <1>1 DEF OfEdges
  <2> QED
    BY <1>1, <2>1 DEF OfEdge, LoaderType
<1>6. m \in Mail /\ Rank(m) = 3 /\ Post(m)
  BY <1>2, <1>3, <1>5 DEF Mail, Rank
<1>7. pc \notin {"nodes", "edges"}
  BY <1>1, <1>4 DEF Ordered
<1>8. \A k \in DOMAIN graph.edges : Promised(k)
  BY <1>1, <1>4 DEF EdgesMade, Begun
<1>9. at' \in Nat \ {0}
  BY <1>1 DEF LoaderType
<1> QED
  BY <1>1, <1>6, <1>7, <1>8, <1>9, WakeKeeps

LEMMA NextPhaseKeeps ==
  ASSUME LoaderInv, NextPhase
  PROVE  LoaderInv'
<1>1. /\ LoaderType /\ EdgesMade /\ client = "up" /\ at' = 1
      /\ UNCHANGED <<mailbox, boxes, agents, id, graph, client>>
  BY DEF LoaderInv, NextPhase, vars
<1>2. \/ pc = "nodes" /\ pc' = "edges"
      \/ pc = "edges" /\ pc' = "imsgs" /\ at > Len(graph.edges)
      \/ pc = "imsgs" /\ pc' = "start"
  <2>1. PICK k \in 1..(Len(Phases) - 1) : pc = Phases[k] /\ at > Len(Items[pc]) /\ pc' = Phases[k + 1]
    BY DEF NextPhase
  <2>2. k \in {1, 2, 3}
    BY DEF Phases
  <2>3. Items["edges"] = graph.edges
    BY DEF Items
  <2> QED
    BY <2>1, <2>2, <2>3 DEF Phases
<1>3. Len(graph.edges) \in Nat /\ DOMAIN graph.edges = 1..Len(graph.edges) /\ at \in Nat
  BY <1>1, EdgesAre DEF LoaderType
<1>4. \A k \in DOMAIN graph.edges : k \in Nat /\ ~(k < 1) /\ k <= Len(graph.edges)
  BY <1>3
<1>5. pc = "edges" /\ pc' = "imsgs" => \A k \in DOMAIN graph.edges : Promised(k)
  <2>1. at > Len(graph.edges) => \A k \in DOMAIN graph.edges : k < at
    BY <1>3, <1>4
  <2> QED
    BY <1>1, <1>2, <2>1 DEF EdgesMade
<1>6. pc = "imsgs" => \A k \in DOMAIN graph.edges : Promised(k)
  BY <1>1 DEF EdgesMade
<1>7. pc' = "edges" => \A k \in DOMAIN graph.edges : ~(k < at')
  BY <1>1, <1>4
<1>8. pc' \in {"imsgs", "start"} => \A k \in DOMAIN graph.edges : Promised(k)
  BY <1>2, <1>5, <1>6
<1> QED
  BY <1>1, <1>2, <1>7, <1>8, QuietKeeps

\* The graph is loaded, and then halted.
LEMMA OthersKeep ==
  ASSUME LoaderInv, Remember \/ Halt \/ Joined \/ UNCHANGED loaderVars
  PROVE  LoaderInv'
<1>1. LoaderType /\ EdgesMade /\ UNCHANGED <<mailbox, boxes, agents, id, graph, at, client>>
  BY DEF LoaderInv, Remember, Halt, Joined, loaderVars, loader, vars
<1>2. pc' \in {"idle", "joining", "ended"} \/ pc' = pc
  BY DEF Remember, Halt, Joined, loaderVars, loader
<1>3. at' \in Nat \ {0} /\ pc \in {"nodes", "edges", "imsgs", "start", "idle", "joining", "ended"}
  BY <1>1 DEF LoaderType
<1>4. /\ pc = "edges" /\ client = "up" => \A k \in DOMAIN graph.edges : k < at => Promised(k)
      /\ pc \in {"imsgs", "start"} /\ client = "up" => \A k \in DOMAIN graph.edges : Promised(k)
  BY <1>1 DEF EdgesMade
<1> QED
  BY <1>1, <1>2, <1>3, <1>4, QuietKeeps

LEMMA LoaderInitially == LoaderInit => LoaderInv
<1> SUFFICES ASSUME LoaderInit PROVE LoaderInv
  OBVIOUS
<1>1. /\ mailbox = <<>> /\ DOMAIN boxes = {} /\ DOMAIN agents = {} /\ id = 0 /\ at = 1
      /\ pc = "nodes" /\ graph \in Graphs
  BY DEF LoaderInit, Init, Empty
<1>2. mailbox \in Seq(Mail) /\ Len(mailbox) = 0 /\ ~Ran /\ ~Linked
  BY <1>1 DEF Ran, Linked
<1>3. \A k : k \notin 1..Len(mailbox)
  BY <1>2
<1> QED
  BY <1>1, <1>2, <1>3 DEF LoaderInv, LoaderType, BoxType, Ordered, OfEdges, EdgesMade, Begun

LEMMA LoaderInvariance == LoaderInv /\ [LoaderNext]_loaderVars => LoaderInv'
<1> SUFFICES ASSUME LoaderInv, [LoaderNext]_loaderVars PROVE LoaderInv'
  OBVIOUS
<1>1. CASE Load
  BY <1>1, LoadNodeKeeps, LoadEdgeKeeps, LoadMessageKeeps, NextPhaseKeeps, OthersKeep DEF Load
<1>2. CASE Halt \/ Joined \/ UNCHANGED loaderVars
  BY <1>2, OthersKeep
<1>3. CASE Agents
  BY <1>3, ReceiveKeeps, RunEndKeeps, EmitKeeps DEF Agents, Interior
<1> QED
  BY <1>1, <1>2, <1>3 DEF LoaderNext

\* No agent of the graph is run before every edge of the graph is in place, and
\* none is if an edge could not be made: add_graph makes the agents, the edges and
\* the first messages in this order, and the interior scheduler takes the calls
\* in the order in which they were made.
THEOREM EdgesBeforeRuns == LoaderSpec => []AllOrNothing
<1>1. LoaderInv => AllOrNothing
  <2> SUFFICES ASSUME LoaderInv, Ran, NEW k \in DOMAIN graph.edges
               PROVE  LET e == graph.edges[k]
                          out == agents[e.out.comp].id
                          key == <<e.out.port, e.out.elem>>
                      IN /\ out \in DOMAIN boxes /\ key \in DOMAIN boxes[out].outs
                         /\ \E j \in DOMAIN graph.edges :
                              /\ graph.edges[j].out = e.out
                              /\ boxes[out].outs[key].id = agents[graph.edges[j].in.comp].id
    BY DEF AllOrNothing, Ran
  <2> PICK e : e = graph.edges[k]
    OBVIOUS
  <2>0. PICK out, key : e = graph.edges[k] /\ out = agents[e.out.comp].id /\ key = <<e.out.port, e.out.elem>>
    OBVIOUS
  <2>1. LoaderType /\ Ordered /\ OfEdges /\ EdgesMade
    BY DEF LoaderInv
  <2>2. e.out.comp \in DOMAIN agents /\ Served(out, key)
    BY <2>0, <2>1 DEF EdgesMade, Begun, Promised
  <2>3. \A n \in 1..Len(mailbox) : mailbox[n].type # "Connect"
    BY <2>1 DEF Ordered, Rank
  <2>4. out \in DOMAIN boxes /\ key \in DOMAIN boxes[out].outs
    BY <2>2, <2>3 DEF Served
  <2>5. OfEdge(out, key, boxes[out].outs[key])
    BY <2>1, <2>4 DEF OfEdges
  <2>6. PICK j \in DOMAIN graph.edges :
          /\ graph.edges[j].out.comp \in DOMAIN agents /\ out = agents[graph.edges[j].out.comp].id
          /\ key = <<graph.edges[j].out.port, graph.edges[j].out.elem>>
          /\ boxes[out].outs[key].id = agents[graph.edges[j].in.comp].id
    BY <2>5 DEF OfEdge
  <2>7. graph.edges[j].out.comp = e.out.comp
    <3>1. \A m, n \in DOMAIN agents : agents[m].id = agents[n].id => m = n
      BY <2>1 DEF LoaderType
    <3> QED
      BY <2>0, <2>2, <2>6, <3>1
  <2>8. graph.edges[j].out = e.out
    <3>1. graph.edges[j].out \in End /\ e.out \in End
      BY <2>0, <2>1, EdgesAre
    <3>2. \A a, b \in End : a.comp = b.comp /\ a.port = b.port /\ a.elem = b.elem => a = b
      BY DEF End
    <3>3. graph.edges[j].out.port = e.out.port /\ graph.edges[j].out.elem = e.out.elem
      <4>1. <<graph.edges[j].out.port, graph.edges[j].out.elem>> = <<e.out.port, e.out.elem>>
        BY ONLY <2>0, <2>6
      <4> QED
        BY ONLY <4>1
    <3> QED
      BY ONLY <2>7, <3>1, <3>2, <3>3
  <2> QED
    BY <2>0, <2>4, <2>6, <2>8
<1>2. LoaderSpec => []LoaderInv
  BY LoaderInitially, LoaderInvariance, PTL DEF LoaderSpec
<1> QED
  BY <1>1, <1>2, PTL

=============================================================================
