----------------------------- MODULE MCExterior -----------------------------
(***************************************************************************)
(* The exterior scheduler with a source, a sink and an agent between that  *)
(* takes anything and has array ports of both kinds.                       *)
(***************************************************************************)
EXTENDS ExteriorClient

None == [p \in {} |-> ""]
One(p, schema) == [q \in {p} |-> schema]

MCLoadable == {"source", "sink", "mid"}
MCSorts == MCLoadable \cup {"missing"}

Schemas(f) == [s \in MCSorts |-> IF s \in DOMAIN f THEN f[s] ELSE None]
MCInput == Schemas([sink |-> One("in", "text")])
MCInarr == Schemas([mid |-> One("in", "text")])
MCOutput == Schemas([source |-> One("out", "text"), sink |-> One("out", "number")])
MCOutarr == Schemas([mid |-> One("out", BAny)])

MCPlaces == {<<"in", Simple>>, <<"out", Simple>>, <<"in", "1">>, <<"out", "1">>}
=============================================================================
