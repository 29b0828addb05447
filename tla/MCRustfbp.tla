------------------------------ MODULE MCRustfbp ------------------------------
(***************************************************************************)
(* Small graphs for module Rustfbp.  Each is a set of agents, the ports    *)
(* between them, what one run of each agent does and the calls that build  *)
(* and start the graph.                                                    *)
(***************************************************************************)
EXTENDS RustfbpProps, TLC

Recv(p) == [op |-> "recv", port |-> p]
Try(p)  == [op |-> "try_recv", port |-> p]
Snd(o)  == [op |-> "send", port |-> o]
Add(a)  == [op |-> "add_node", agent |-> a]
StartIt(a) == [op |-> "start_agent", agent |-> a]
Link(o, p) == [op |-> "connect", port |-> o, to |-> p]
Elem(p) == [op |-> "soft_add_element", port |-> p]
NewElem(p) == [op |-> "add_element", port |-> p]
SetElem(p) == [op |-> "set_receiver", port |-> p]
JoinIt  == [op |-> "join"]

Does(ops, r) == [ops |-> ops, res |-> r]

Unwired == [o \in OutPorts |-> None]

\* Every port has one channel.
OneEach == [p \in InPorts |-> p]

TwoClients == {"main", "other"}
Both(main, other) == ("main" :> main) @@ ("other" :> other)

-----------------------------------------------------------------------------
(* pipe: a source that sends two messages, a filter, a sink.                *)

PipeFrom == ("src.out" :> "src") @@ ("mid.out" :> "mid")
PipeOwner == ("mid.in" :> "mid") @@ ("snk.in" :> "snk")
PipeBodies ==
  ("src" :> {Does(<<Snd("src.out"), Snd("src.out")>>, "End")})
    @@ ("mid" :> {Does(<<Recv("mid.in"), Snd("mid.out")>>, "End")})
    @@ ("snk" :> {Does(<<Recv("snk.in")>>, "End")})
Pipe ==
  Both(<<Add("src"), Add("mid"), Add("snk"),
          Link("src.out", "mid.in"), Link("mid.out", "snk.in"),
          StartIt("src"), JoinIt>>, <<>>)

-----------------------------------------------------------------------------
(* array: an adder reads the two elements of an array port, which the owner *)
(* creates and connects while the generator already runs.  The second run   *)
(* of the generator is asked for while the first may still be under way.    *)

ArrayFrom == ("out[0]" :> "gen") @@ ("out[1]" :> "gen")
ArrayOwner == ("in[0]" :> "add") @@ ("in[1]" :> "add")
ArrayBodies ==
  ("gen" :> {Does(<<Snd("out[0]"), Snd("out[1]")>>, "End")})
    @@ ("add" :> {Does(<<Try("in[0]"), Try("in[1]")>>, r) : r \in {"End", "Continue"}})
Array ==
  Both(<<Add("add"), StartIt("gen"), Add("gen"), Elem("in[0]"), Link("out[0]", "in[0]"),
          StartIt("gen"), Elem("in[1]"), Elem("in[1]"),
          Link("out[1]", "in[1]"), StartIt("gen")>>, <<>>)

-----------------------------------------------------------------------------
(* replace: element 0 of the adder is added again while the generator may   *)
(* send into its first channel, and is then given the receiver of a         *)
(* third channel, whose sender the other client uses.                       *)

ReplaceOwner == [p \in {"in[0]", "in[0]'", "in[0]''"} |-> "add"]
Element0(p) == IF p \in DOMAIN ReplaceOwner THEN "in[0]" ELSE p
Replace ==
  Both(<<Add("add"), Add("gen"), NewElem("in[0]"), Link("out[0]", "in[0]"), StartIt("gen"),
          NewElem("in[0]'"), Elem("in[0]''"), Link("out[0]", "in[0]'"),
          SetElem("in[0]''"), StartIt("gen")>>,
       <<Snd("in[0]''")>>)

-----------------------------------------------------------------------------
(* two: a node with two inputs, as `nand`, that blocks a worker between     *)
(* them.                                                                    *)

TwoFrom == ("a.out" :> "a") @@ ("b.out" :> "b")
TwoOwner == [p \in {"nand.a", "nand.b"} |-> "nand"]
TwoBodies ==
  ("a" :> {Does(<<Snd("a.out")>>, "End")})
    @@ ("b" :> {Does(<<Snd("b.out")>>, "End")})
    @@ ("nand" :> {Does(<<Recv("nand.a"), Recv("nand.b")>>, "End")})
Two ==
  Both(<<Add("a"), Add("b"), Add("nand"), Link("a.out", "nand.a"),
          Link("b.out", "nand.b"), StartIt("a"), StartIt("b"), JoinIt>>, <<>>)

-----------------------------------------------------------------------------
(* state: an agent with an option and an accumulator port, which do not     *)
(* schedule it; two clients feed it, one of them only holds a sender.       *)

StateFrom == "acc.out" :> "cnt"
StateOwner == [p \in {"cnt.in", "cnt.opt", "cnt.acc"} |-> "cnt"]
StateBodies ==
  "cnt" :> {Does(<<Recv("cnt.in"), Try("cnt.opt"), Recv("cnt.acc"), Snd("acc.out")>>, r)
              : r \in {"End", "Continue"}}
State ==
  Both(<<Add("cnt"), Snd("cnt.acc"), Snd("cnt.in"), Snd("cnt.opt"), Snd("cnt.in")>>,
        <<Snd("cnt.in"), Snd("cnt.in")>>)

-----------------------------------------------------------------------------
(* faults: bodies that fail or panic, an edit for a port the agent lacks, a *)
(* call the interior scheduler does not implement.                          *)

FaultFrom == "bad.out" :> "bad"
FaultOwner == "worse.in" :> "worse"
FaultBodies ==
  ("bad" :> {Does(<<Snd("bad.out"), Snd("bad.out")>>, "End")})
    @@ ("worse" :> {Does(<<Recv("worse.in")>>, r) : r \in {"Err", "panic"}})
Late(op) ==
  Both(<<Add("bad"), Add("worse"), StartIt("bad"), Link("bad.out", "worse.in"),
          StartIt("bad"), op, JoinIt>>, <<Snd("worse.in")>>)
BadEdit == Late([op |-> "bad_receiver", agent |-> "worse"])
Cut == Late([op |-> "disconnect", port |-> "bad.out"])

-----------------------------------------------------------------------------
(* The runs.                                                                *)

LiveAgents == {"src", "mid", "snk", "gen", "add", "cnt"}
LiveFrom == PipeFrom @@ ArrayFrom @@ StateFrom
LiveOwner == PipeOwner @@ ArrayOwner @@ StateOwner
LiveBodies == PipeBodies @@ ArrayBodies @@ StateBodies
LiveScripts == {Pipe, Array, State}

SafeAgents == {"gen", "add", "cnt", "bad", "worse"}
SafeFrom == ArrayFrom @@ StateFrom @@ FaultFrom
SafeOwner == ArrayOwner @@ ReplaceOwner @@ StateOwner @@ FaultOwner
SafeBodies == ArrayBodies @@ StateBodies @@ FaultBodies
SafeScripts == {Array, Replace, State, BadEdit, Cut}
SafeSlot == [p \in InPorts |-> Element0(p)]
StateWired == [o \in OutPorts |-> IF o = "acc.out" THEN "cnt.acc" ELSE None]

TwoAgents == {"a", "b", "nand"}
TwoScripts == {Two}

ReplaceElements == DOMAIN ArrayOwner \cup DOMAIN ReplaceOwner
ArrayElements == {"in[0]", "in[1]"}
=============================================================================
