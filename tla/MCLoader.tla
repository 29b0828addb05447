------------------------------- MODULE MCLoader -------------------------------
(***************************************************************************)
(* Graphs of a source, a sink and an agent between with an output array,   *)
(* in two orders, with up to two edges and two messages, some of them for  *)
(* ports that are not there or whose schemas differ.                       *)
(***************************************************************************)
EXTENDS Loader

None == [p \in {} |-> ""]
One(p, schema) == [q \in {p} |-> schema]

MCSorts == {"source", "sink", "mid"}

Schemas(f) == [s \in MCSorts |-> IF s \in DOMAIN f THEN f[s] ELSE None]
MCInput == Schemas([sink |-> One("in", "text"), mid |-> One("in", BAny)])
MCInarr == Schemas([sink |-> One("in", "text")])
MCOutput == Schemas([source |-> One("out", "text"), sink |-> One("out", "number")])
MCOutarr == Schemas([mid |-> One("out", BAny)])

N(s) == [name |-> s, sort |-> s]
At(comp, port, elem) == [comp |-> comp, port |-> port, elem |-> elem]
E(out, in) == [out |-> out, in |-> in]

G(nodes, edges, imsgs) ==
  [nodes |-> nodes, edges |-> edges, imsgs |-> imsgs, ext_in |-> <<>>, ext_out |-> <<>>]

UpTo2(S) == {<<>>} \cup {<<x>> : x \in S} \cup {<<x, y>> : x \in S, y \in S}

NodeLists == {<<N("source"), N("mid"), N("sink")>>, <<N("sink"), N("mid"), N("source")>>}

Edges ==
  {E(At("source", "out", Simple), At("mid", "in", Simple)),
   E(At("source", "out", Simple), At("sink", "in", Simple)),
   E(At("mid", "out", "1"), At("sink", "in", Simple)),
   E(At("mid", "out", "2"), At("mid", "in", Simple)),
   E(At("sink", "out", Simple), At("sink", "in", Simple))}  \* the schemas differ

Messages ==
  {At("mid", "in", Simple), At("sink", "in", Simple),
   At("sink", "in", "1")}  \* no element was added

Mixed == {G(ns, es, ms) : ns \in NodeLists, es \in UpTo2(Edges), ms \in UpTo2(Messages)}
=============================================================================
