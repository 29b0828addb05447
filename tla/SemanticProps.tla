--------------------------- MODULE SemanticProps ---------------------------
(***************************************************************************)
(* The language of Flowscript, and what module Semantic makes of it.       *)
(***************************************************************************)
EXTENDS Semantic, SequencesExt

\* The kinds of the tokens on the stack, in each state without errors.
Shape ==
  [Break |-> <<>>, Compo |-> <<"Comp">>, Port |-> <<"Port">>, IMSG |-> <<"IMsg">>,
   CompPort |-> <<"Comp", "Port">>, CompPortBind |-> <<"Comp", "Port">>,
   CompPortBindPort |-> <<"Comp", "Port", "Port">>,
   CompPortExternal |-> <<"Comp", "Port">>, CompPortExternalPort |-> <<>>,
   PortExternal |-> <<"Port">>, PortExternalPort |-> <<"Port", "Port">>,
   IMSGBind |-> <<"IMsg">>, IMSGBindPort |-> <<"IMsg", "Port">>]

\* The type invariant.  As long as nothing is reported, the stack is what the
\* state says: what one state pops, others pushed several tokens ago.
TypeOK ==
  /\ lex \in {"closed", "line start", "line", "line end"}
  /\ agent \in {"waiting", "parsing", "dead"}
  /\ state \in States
  /\ stack \in Seq(Token)
  /\ graph \subseteq Statements
  /\ errors \in BOOLEAN
  /\ file \in Nat
  /\ seen \in Seq(Token)
  /\ answer \in {"none", "graph", "errors", "fail"}
  /\ agent = "parsing" /\ ~errors => state # "ErrorS" /\ [i \in 1..Len(stack) |-> stack[i].kind] = Shape[state]

-----------------------------------------------------------------------------
(* Flowscript, by patterns.  The words of a file are its tokens without the *)
(* comments and without the ends of line that follow a "->".                *)

\* The line goes on after the end of line t.
Continued(ts, t) ==
  /\ t.kind = "Break"
  /\ \E j \in 1..(t.text - 1) :
       /\ ts[j].kind = "Bind"
       /\ \A k \in (j + 1)..(t.text - 1) : ts[k].kind \in {"Break", "Comment"}

IsWord(ts, t) == t.kind # "Comment" /\ ~Continued(ts, t)

Words(ts) == FoldLeft(LAMBDA ws, t : IF IsWord(ts, t) THEN Append(ws, t) ELSE ws, <<>>, ts)

KindsOf(ws) == [i \in 1..Len(ws) |-> ws[i].kind]

Chain == <<"Comp", "Port", "Bind", "Port">>
Outward == <<"Port", "External", "Port">>

\* comp() {out -> in comp()} with the kinds ks from place i on.
IsChain(ks, i) ==
  /\ (Len(ks) - i) % 4 = 0 /\ i <= Len(ks)
  /\ \A j \in i..Len(ks) : ks[j] = Chain[((j - i) % 4) + 1]

\* ... and an output of the last component that leaves the graph.
IsFlow(ks, i) ==
  \/ IsChain(ks, i)
  \/ /\ Len(ks) - i >= 3
     /\ SubSeq(ks, Len(ks) - 2, Len(ks)) = Outward
     /\ IsChain(SubSeq(ks, 1, Len(ks) - 3), i)

\* A line: nothing, a flow, an input of the graph or a message and a flow.
IsLine(ks) ==
  \/ ks = <<>>
  \/ IsFlow(ks, 1)
  \/ /\ Len(ks) > 3
     /\ SubSeq(ks, 1, 3) \in {Outward, <<"IMsg", "Bind", "Port">>}
     /\ IsFlow(ks, 4)

\* The kinds of the words between two ends of line.
Lines(ws) ==
  LET ks == KindsOf(ws)
      cuts == {0, Len(ws) + 1} \cup {k \in 1..Len(ws) : ks[k] = "Break"}
  IN {SubSeq(ks, c[1] + 1, c[2] - 1) :
        c \in {d \in cuts \X cuts : d[1] < d[2] /\ \A e \in cuts : ~(d[1] < e /\ e < d[2])}}

\* What is after the last end of line.
LastLine(ws) ==
  LET ks == KindsOf(ws)
      ends == {0} \cup {k \in 1..Len(ks) : ks[k] = "Break"}
  IN SubSeq(ks, (CHOOSE k \in ends : \A e \in ends : e <= k) + 1, Len(ks))

\* Some line begins with ks.
Rests == {<<>>, <<"Comp">>, <<"Port", "Comp">>, <<"Bind", "Port", "Comp">>,
          <<"External", "Port", "Comp">>, <<"Port">>}
BeginsLine(ks) == \E r \in Rests : IsLine(ks \o r)

\* The statements, in the words of a file: where each pattern occurs, and the
\* places in the pattern of the texts that a statement is made of.
Occurs(ws, ks) ==
  {i \in 1..Len(ws) :
     i + Len(ks) - 1 <= Len(ws) /\ \A j \in 1..Len(ks) : ws[i + j - 1].kind = ks[j]}

Means(what, ws, ks, places) ==
  {[what |-> what, texts |-> [k \in 1..Len(places) |-> ws[i + places[k] - 1].text]] :
     i \in Occurs(ws, ks)}

Nodes(ts) ==
  {[what |-> "node", texts |-> <<ts[i].text>>] :
     i \in {j \in 1..Len(ts) : ts[j].kind = "Comp" /\ ts[j].sorted}}

Joins(ws) ==
  Means("edge", ws, <<"Comp", "Port", "Bind", "Port", "Comp">>, <<1, 2, 4, 5>>)
    \cup Means("ext_out", ws, <<"Comp", "Port", "External", "Port">>, <<1, 2, 4>>)
    \cup Means("ext_in", ws, <<"Port", "External", "Port", "Comp">>, <<1, 3, 4>>)
    \cup Means("imsg", ws, <<"IMsg", "Bind", "Port", "Comp">>, <<1, 3, 4>>)

Meaning(ts) == Joins(Words(ts)) \cup Nodes(ts)

-----------------------------------------------------------------------------
\* A graph that is sent is what the file says: every statement of the file and
\* no other, each made of its own tokens.
GraphIsMeaning == answer = "graph" => graph = Meaning(seen)

\* A file that is answered with a graph is a sequence of lines, but for a last
\* one that may break off after "->": the parser does not look at its state
\* when the stream ends.
AcceptsLines ==
  answer = "graph" =>
    LET ws == Words(seen) IN
    /\ \A l \in Lines(ws) : IsLine(l) \/ l = LastLine(ws)
    /\ LET l == LastLine(ws) IN
       IsLine(l) \/ (l[Len(l)] = "Bind" /\ IsLine(l \o <<"Port", "Comp">>))

\* An error is reported as soon as no line begins with what was read of this
\* one, and not before: no flow that is right is refused.
ReportsErrors ==
  agent = "parsing" /\ (errors => seen # <<>>) =>
    (errors <=> LET ws == Words(seen) IN
                \/ ~BeginsLine(LastLine(ws))
                \/ \E l \in Lines(ws) : ~IsLine(l) /\ l # LastLine(ws))

\* The parser gives up a file, by an Err or in an unreachable!(), only after an
\* error of the file: no file without errors gets it there.
FailsAfterError == answer = "fail" => errors
=============================================================================
