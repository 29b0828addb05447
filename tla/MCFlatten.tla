------------------------------ MODULE MCFlatten ------------------------------
(***************************************************************************)
(* The vm on graphs of up to three levels: a main graph M, a subgraph S    *)
(* that occurs twice in it, a subgraph D of S, and perhaps a subgraph G.   *)
(* The names of a level are used again on the next ones.                   *)
(***************************************************************************)
EXTENDS FlattenProps

N(name, sort) == [name |-> name, sort |-> sort]

E(oc, op, ip, ic, elem) ==
  [out_comp |-> oc, out_port |-> op, out_elem |-> NoElem,
   in_port |-> ip, in_elem |-> elem, in_comp |-> ic]

In(port, ip, elem, ic) == [port |-> port, in_port |-> ip, in_elem |-> elem, in_comp |-> ic]
Out(port, op, oc) == [port |-> port, out_port |-> op, out_elem |-> NoElem, out_comp |-> oc]
M(msg, port, comp) == [msg |-> msg, port |-> port, elem |-> NoElem, comp |-> comp]

\* The request of the scheduler's agent.
MCTop == [EmptyGraph EXCEPT !.path = "M", !.nodes = <<N("main", "M")>>]

Orders(ns) == {<<ns[f[1]], ns[f[2]], ns[f[3]]>> :
                 f \in {g \in [1..3 -> 1..3] : \A i, j \in 1..3 : i # j => g[i] # g[j]}}

\* A ring through an agent and two times the subgraph S, the nodes in any order.
MainGraphs ==
  {[path |-> "M", nodes |-> ns,
    edges |-> <<E("a", "out", "in", "s", NoElem), E("s", "out", "in", "t", elem),
                E("t", "out", "in", "a", NoElem)>>,
    imsgs |-> <<M("go", "in", "a"), M("cfg", "in", "t")>>,
    ext_in |-> <<In("main", "in", NoElem, "a")>>, ext_out |-> <<>>] :
     ns \in UNION {Orders(<<N("a", sort), N("s", "S"), N("t", "S")>>) : sort \in {"A", "G"}},
     elem \in {NoElem, "1"}}

\* One agent.
GraphG ==
  [path |-> "G", nodes |-> <<N("g", "B")>>, edges |-> <<>>, imsgs |-> <<>>,
   ext_in |-> <<In("in", "in", NoElem, "g")>>, ext_out |-> <<Out("out", "out", "g")>>]

\* An agent alone, or one before and one after the subgraph D.
SubGraphs(elems, ports) ==
  {[path |-> "S", nodes |-> <<N("s", "A")>>, edges |-> <<>>, imsgs |-> <<M("hi", "in", "s")>>,
    ext_in |-> <<In("in", p, elem, "s")>>, ext_out |-> <<Out("out", "q", "s")>>] :
      p \in ports, elem \in elems}
  \cup
  {[path |-> "S", nodes |-> ns,
    edges |-> <<E("s", "out", "in", "t", NoElem), E("t", "out", "in", "a", NoElem)>>,
    imsgs |-> <<>>,
    ext_in |-> <<In("in", p, elem, "s")>>, ext_out |-> <<Out("out", "out", "a")>>] :
      ns \in Orders(<<N("a", "A"), N("s", "A"), N("t", "D")>>), p \in ports, elem \in elems}
  \cup
  {[path |-> "S", nodes |-> <<N("s", "D")>>, edges |-> <<>>, imsgs |-> <<>>,
    ext_in |-> <<In("in", "in", NoElem, "s")>>, ext_out |-> <<Out("out", "out", "s")>>]}

DeepGraphs(elems, ports) ==
  {[path |-> "D", nodes |-> <<N("s", "A"), N("a", "B")>>,
    edges |-> <<E("s", "out", "in", "a", NoElem)>>, imsgs |-> <<M("hi", "in", "a")>>,
    ext_in |-> <<In("in", p, elem, "s")>>, ext_out |-> <<Out("out", "q", "a")>>] :
      p \in ports, elem \in elems}

LibrariesOf(main, sub, deep) ==
  {[M |-> m, S |-> s, D |-> d, G |-> GraphG] : m \in main, s \in sub, d \in deep}

\* With files that are missing or wrong.
GoodAndBad ==
  LibrariesOf(MainGraphs \cup {ErrorGraph},
              SubGraphs({NoElem, "2"}, {"in", "p"}) \cup {ErrorGraph},
              DeepGraphs({NoElem}, {"in", "p"}) \cup {ErrorGraph})

\* Only right files.
Renamed == LibrariesOf(MainGraphs, SubGraphs({NoElem}, {"p"}), DeepGraphs({NoElem}, {"in"}))
=============================================================================
