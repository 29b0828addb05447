----------------------------- MODULE MCRktfbp -----------------------------
(***************************************************************************)
(* Small graphs for module Rktfbp: a source, a counter with an option and   *)
(* an accumulator, a generator, an adder with one element, a name that is   *)
(* added again, and an agent that waits for a second message.               *)
(***************************************************************************)
EXTENDS RktfbpProps, TLC

V == "v"   \* a message
W == "w"   \* another
MCMessages == {V, W, False}

Snd(o) == [op |-> "send", port |-> o, msg |-> V]
Rcv(p) == [op |-> "recv", port |-> p]
Try(p) == [op |-> "try-recv", port |-> p]

Adds(a) == [type |-> "add-agent", agt |-> a]
Remove(a) == [type |-> "remove-agent", agt |-> a]
Link(o, p) == [type |-> "connect", out |-> o, in |-> p]
Raw(o, p) == [type |-> "raw-connect", out |-> o, in |-> p]
Cut(o) == [type |-> "disconnect", out |-> o]
Enter(o, e) == [type |-> "connect-to-array", out |-> o, in |-> e]
Leave(o, e) == [type |-> "disconnect-to-array", out |-> o, in |-> e]
Mesgs(p, m) == [type |-> "mesg", in |-> p, msg |-> m]
StartIt(a) == [type |-> "start-agent", agt |-> a]
StartAll == [type |-> "start"]
StopIt == [type |-> "stop"]

\* "sink" and "again" are the agents that the name "sink" stands for, one after the
\* other; "end" waits for a second message, as the halter does.
MCName == [a \in Agents |-> IF a = "again" THEN "sink" ELSE a]
MCOwner ==
  ("a[0]" :> "add") @@ ("s1" :> "sink") @@ ("s2" :> "again") @@ ("halt" :> "end")
    @@ [p \in InPorts |-> "cnt"]
MCFrom == ("src.out" :> "src") @@ ("acc.out" :> "cnt")
            @@ ("x" :> "gen") @@ ("y" :> "gen")
MCWired == [o \in OutPorts |-> IF o = "acc.out" THEN <<"acc", 0>> ELSE None]

MCBodies ==
  ("src" :> {<<Snd("src.out"), Snd("src.out")>>})
    @@ ("cnt" :> {<<Rcv("in"), Try("opt"), Rcv("acc"), Snd("acc.out")>>,
                  <<Try("in"), Rcv("opt")>>})
    @@ ("gen" :> {<<Snd("x"), Snd("y")>>})
    @@ ("add" :> {<<Rcv("a[0]")>>, <<Try("a[0]"), Try("a[0]")>>})
    @@ ("sink" :> {<<Rcv("s1")>>, <<>>}) @@ ("again" :> {<<Rcv("s2")>>, <<Try("s2")>>})
    @@ ("end" :> {<<Rcv("halt"), Rcv("halt")>>})

Two == <<Adds("src"), Adds("cnt"), Link("src.out", "in"), Mesgs("acc", V), Mesgs("opt", V)>>

Pipe == Two \o <<StartAll, Mesgs("opt", W), Mesgs("in", V), StopIt>>
Cutting == Two \o <<StartAll, Cut("src.out"), StartIt("src"), Raw("src.out", "in"), StartIt("src"), StopIt>>
Falses == <<Adds("cnt"), Mesgs("acc", V), Mesgs("opt", V), Mesgs("opt", False), Mesgs("in", False), StopIt>>
Clog == <<Adds("cnt"), Mesgs("opt", V), Mesgs("acc", V), Mesgs("in", V), Mesgs("in", V), Mesgs("in", V), StopIt>>
Removal == Two \o <<StartAll, Remove("cnt"), StopIt>>
Arrays == <<Adds("add"), Adds("gen"), Enter("x", "a[0]"), Enter("y", "a[0]"), StartIt("gen"),
            Leave("x", "a[0]"), Leave("y", "a[0]"), Enter("y", "a[0]"), StartIt("gen"), StopIt>>
Left2 == <<Adds("add"), Adds("gen"), Enter("x", "a[0]"), Leave("x", "a[0]"), Leave("x", "a[0]"), StopIt>>

\* A name that is added again: while its thread may run; while what was sent to
\* the earlier agent is not read, and a sender to it remains.
Again == <<Adds("sink"), Mesgs("s1", V), Remove("sink"), Adds("again"), Mesgs("s2", V), Mesgs("s2", V), StopIt>>
OldSender == <<Adds("src"), Adds("sink"), Link("src.out", "s1"), Adds("again"), StartIt("src"),
               Mesgs("s2", V), Raw("src.out", "s2"), StartIt("src"), StopIt>>
Halts == <<Adds("src"), Adds("end"), Mesgs("halt", V), StopIt>>

MCScripts ==
  {Pipe, Cutting, Falses, Clog, Removal, Arrays, Left2, Again, OldSender, Halts}
=============================================================================
