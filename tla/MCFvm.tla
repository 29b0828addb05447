-------------------------------- MODULE MCFvm --------------------------------
(***************************************************************************)
(* A graph M of an agent and two subgraphs, S and D, of which S has D, too. *)
(***************************************************************************)
EXTENDS Fvm

N(name, sort) == [name |-> name, sort |-> sort]

G(path, nodes) == [ErrorGraph EXCEPT !.path = path, !.nodes = nodes,
                     !.imsgs = <<[msg |-> path, port |-> "in", elem |-> "", comp |-> nodes[1].name]>>]

MCRequest == [ErrorGraph EXCEPT !.path = "M", !.nodes = <<N("main", "M")>>]

Graphs ==
  [M |-> G("M", <<N("s", "S"), N("a", "A"), N("d", "D")>>),
   S |-> G("S", <<N("d", "D"), N("b", "B")>>),
   D |-> G("D", <<N("c", "A")>>)]

Files(fates) == {[s \in DOMAIN Graphs |-> [fate |-> f[s], graph |-> Graphs[s]]] : f \in fates}

AnyFiles == Files([DOMAIN Graphs -> Fates])
OneMissing == Files({[M |-> "good", S |-> "missing", D |-> "good"]})
=============================================================================
