---------------------------- MODULE MCGraphCheck ----------------------------
(***************************************************************************)
(* The check of all small graphs: many nodes and one edge, or two nodes    *)
(* and many edges and external ports.                                      *)
(***************************************************************************)
EXTENDS GraphCheck, SequencesExt

UpTo(n, S) == BoundedSeq(S, n)

Node == [name : Names, sort : Sorts]
Edge == [out : End, inn : {e \in End : e.port = "p"}]
Input == [port : Ports, to : {[comp |-> "a", port |-> "p"]}]

Graph(ns, es, is, os) == [nodes |-> ns, edges |-> es, ext_in |-> is, ext_out |-> os]

Two == <<[name |-> "a", sort |-> "A"], [name |-> "b", sort |-> ""]>>

MCGraphs ==
  {Graph(ns, es, <<>>, <<>>) : ns \in UpTo(3, Node), es \in UpTo(1, Edge)}
    \cup {Graph(Two, es, is, <<>>) : es \in UpTo(2, Edge), is \in UpTo(2, Input)}
=============================================================================
