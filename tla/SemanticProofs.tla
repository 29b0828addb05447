--------------------------- MODULE SemanticProofs ---------------------------
(***************************************************************************)
(* The proofs about the Flowscript parser.  It never loses its stack: as   *)
(* long as a file has no error the stack is what the state says, so that   *)
(* no file without errors gets the parser to its Err or its unreachable!().*)
(* The graph it sends is the one that the patterns of the language find in *)
(* the file; it accepts the lines of the language, and reports an error at *)
(* the token that no line can go on with.                                  *)
(***************************************************************************)
EXTENDS SemanticProps, CountingProofs

\* The stack has these kinds of tokens.
Has(ts, n, k1, k2, k3) ==
  /\ Len(ts) = n
  /\ n >= 1 => ts[1].kind = k1
  /\ n >= 2 => ts[2].kind = k2
  /\ n >= 3 => ts[3].kind = k3

\* The kinds on the stack, state by state.
Stacked(s, ts) ==
  /\ s \in {"Break", "CompPortExternalPort"} => Has(ts, 0, "", "", "")
  /\ s = "Compo" => Has(ts, 1, "Comp", "", "")
  /\ s \in {"Port", "PortExternal"} => Has(ts, 1, "Port", "", "")
  /\ s \in {"IMSG", "IMSGBind"} => Has(ts, 1, "IMsg", "", "")
  /\ s \in {"CompPort", "CompPortBind", "CompPortExternal"} => Has(ts, 2, "Comp", "Port", "")
  /\ s = "CompPortBindPort" => Has(ts, 3, "Comp", "Port", "Port")
  /\ s = "PortExternalPort" => Has(ts, 2, "Port", "Port", "")
  /\ s = "IMSGBindPort" => Has(ts, 2, "IMsg", "Port", "")

\* Stacked says of a stack what Shape says of it.
LEMMA ShapeIsStacked ==
  ASSUME NEW ts \in Seq(Token), NEW s \in States, s # "ErrorS"
  PROVE  [i \in 1..Len(ts) |-> ts[i].kind] = Shape[s] <=> Stacked(s, ts)
<1> DEFINE ks == [i \in 1..Len(ts) |-> ts[i].kind]
<1>0. Len(ts) \in Nat /\ ks \in Seq(Kinds) /\ Len(ks) = Len(ts)
  <2>1. Len(ts) \in Nat /\ \A i \in 1..Len(ts) : ts[i].kind \in Kinds
    <3>1. \A i \in 1..Len(ts) : ts[i] \in Token
      OBVIOUS
    <3> QED
      BY <3>1 DEF Token
  <2>2. ks \in [1..Len(ts) -> Kinds]
    BY <2>1
  <2> QED
    BY <2>1, <2>2
<1>1. ks = <<>> <=> Has(ts, 0, "", "", "")
  BY <1>0 DEF Has
<1>2. \A k \in Kinds : ks = <<k>> <=> Has(ts, 1, k, "", "")
  BY <1>0 DEF Has
<1>3. \A k, l \in Kinds : ks = <<k, l>> <=> Has(ts, 2, k, l, "")
  BY <1>0 DEF Has
<1>4. \A k, l, m \in Kinds : ks = <<k, l, m>> <=> Has(ts, 3, k, l, m)
  BY <1>0 DEF Has
<1>5. {"Comp", "Port", "IMsg"} \subseteq Kinds
  BY DEF Kinds
<1> HIDE DEF ks
<1>6. ks = Shape[s] <=> Stacked(s, ts)
  <2>1. CASE s \in {"Break", "CompPortExternalPort"}
    <3>1. Shape[s] = <<>>
      BY <2>1 DEF Shape
    <3> QED
      BY <1>1, <2>1, <3>1 DEF Stacked
  <2>2. ASSUME NEW k \in {"Comp", "Port", "IMsg"},
               s \in (CASE k = "Comp" -> {"Compo"}
                        [] k = "Port" -> {"Port", "PortExternal"}
                        [] k = "IMsg" -> {"IMSG", "IMSGBind"})
        PROVE  ks = Shape[s] <=> Stacked(s, ts)
    <3>1. Shape[s] = <<k>>
      BY <2>2 DEF Shape
    <3> QED
      BY <1>2, <1>5, <2>2, <3>1 DEF Stacked
  <2>3. CASE s \in {"CompPort", "CompPortBind", "CompPortExternal"}
    <3>1. Shape[s] = <<"Comp", "Port">>
      BY <2>3 DEF Shape
    <3> QED
      BY <1>3, <1>5, <2>3, <3>1 DEF Stacked
  <2>4. CASE s = "PortExternalPort"
    <3>1. Shape[s] = <<"Port", "Port">>
      BY <2>4 DEF Shape
    <3> QED
      BY <1>3, <1>5, <2>4, <3>1 DEF Stacked
  <2>5. CASE s = "IMSGBindPort"
    <3>1. Shape[s] = <<"IMsg", "Port">>
      BY <2>5 DEF Shape
    <3> QED
      BY <1>3, <1>5, <2>5, <3>1 DEF Stacked
  <2>6. CASE s = "CompPortBindPort"
    <3>1. Shape[s] = <<"Comp", "Port", "Port">>
      BY <2>6 DEF Shape
    <3> QED
      BY <1>4, <1>5, <2>6, <3>1 DEF Stacked
  <2> QED
    BY <2>1, <2>2, <2>3, <2>4, <2>5, <2>6 DEF States
<1> QED
  BY <1>6 DEF ks

\* What the tables of Semantic hold for each kind of token, written out.
LEMMA MovesAre ==
  ASSUME NEW k \in Kinds, NEW s \in DOMAIN Moves[k], s # "ErrorS"
  PROVE  LET n == Moves[k][s] IN
         \/ k = "Bind" /\ <<s, n>> \in {<<"CompPort", "CompPortBind">>, <<"IMSG", "IMSGBind">>}
         \/ k = "External" /\ <<s, n>> \in {<<"CompPort", "CompPortExternal">>,
                                            <<"Port", "PortExternal">>}
         \/ k = "Port" /\ <<s, n>> \in {<<"Compo", "CompPort">>,
              <<"CompPortBind", "CompPortBindPort">>,
              <<"CompPortExternal", "CompPortExternalPort">>, <<"Break", "Port">>,
              <<"PortExternal", "PortExternalPort">>, <<"IMSGBind", "IMSGBindPort">>}
         \/ k = "Comp" /\ n = "Compo" /\ s \in {"CompPortBindPort", "PortExternalPort",
                                                "IMSGBindPort", "Break"}
         \/ k = "IMsg" /\ <<s, n>> = <<"Break", "IMSG">>
         \/ k = "Break" /\ s \in {"CompPortBind", "IMSGBind", "Break"} /\ n = s
         \/ k = "Break" /\ s \in {"Compo", "CompPortExternalPort"} /\ n = "Break"
         \/ k = "Comment" /\ s \in States /\ n = s
<1>1. CASE k = "Bind"
  BY <1>1 DEF Moves
<1>2. CASE k = "External"
  BY <1>2 DEF Moves
<1>3. CASE k = "Port"
  BY <1>3 DEF Moves
<1>4. CASE k = "Comp"
  BY <1>4 DEF Moves
<1>5. CASE k = "IMsg"
  BY <1>5 DEF Moves
<1>6. CASE k = "Break"
  BY <1>6 DEF Moves
<1>7. CASE k = "Comment"
  BY <1>7 DEF Moves
<1> QED
  BY <1>1, <1>2, <1>3, <1>4, <1>5, <1>6, <1>7 DEF Kinds

\* From the state of an error, only a Comp or an IMsg leads on.
LEMMA MovesOfError ==
  ASSUME NEW k \in Kinds, "ErrorS" \in DOMAIN Moves[k]
  PROVE  Moves[k]["ErrorS"] \in {"ErrorS", "Compo", "IMSG"}
<1>1. k = "Bind" \/ k = "External" \/ k = "Port" \/ k = "Comp" \/ k = "IMsg" \/ k = "Break"
        \/ k = "Comment"
  BY DEF Kinds
<1> QED
  BY <1>1 DEF Moves, States

\* A move leads to a state, and to no error by itself.
LEMMA MovesType ==
  ASSUME NEW k \in Kinds, NEW s \in DOMAIN Moves[k]
  PROVE  Moves[k][s] \in States /\ (s # "ErrorS" => Moves[k][s] # "ErrorS")
<1>1. CASE s = "ErrorS"
  BY <1>1, MovesOfError DEF States
<1>2. CASE s # "ErrorS"
  BY <1>2, MovesAre DEF States
<1> QED
  BY <1>1, <1>2

\* An empty stack.
LEMMA EmptyStack == <<>> \in Seq(Token) /\ Len(<<>>) = 0
  OBVIOUS

-----------------------------------------------------------------------------
(* One token.                                                               *)

\* The stack when nothing is reported.
Shaped == agent = "parsing" /\ ~errors => state # "ErrorS" /\ Stacked(state, stack)

\* A token that is put on the stack.
LEMMA ShiftStacks ==
  ASSUME TypeOK, NEW t \in Token, agent = "parsing", ~errors, Shift(t), Stacked(state, stack)
  PROVE  Stacked(state', stack')
<1>1. /\ stack' \in Seq(Token) /\ Len(stack') = Len(stack) + 1 /\ stack'[Len(stack) + 1] = t
      /\ \A i \in 1..Len(stack) : stack'[i] = stack[i]
      /\ Len(stack) \in Nat
  <2>1. stack \in Seq(Token) /\ stack' = Append(stack, t)
    BY DEF Shift, TypeOK
  <2> QED
    BY <2>1
<1>2. t.kind \in Kinds /\ state \in DOMAIN Moves[t.kind] /\ state # "ErrorS"
  BY DEF Token, Shift, Shifts, Expects, TypeOK
<1>3. \/ t.kind = "IMsg" /\ state = "Break" /\ state' = "IMSG"
      \/ t.kind = "Comp" /\ state = "Break" /\ state' = "Compo"
      \/ t.kind = "Port" /\ <<state, state'>> \in
           {<<"Compo", "CompPort">>, <<"CompPortBind", "CompPortBindPort">>,
            <<"Break", "Port">>, <<"PortExternal", "PortExternalPort">>,
            <<"IMSGBind", "IMSGBindPort">>}
  BY <1>2, MovesAre DEF Shift, Shifts, Completes, Pops, Expects
<1> QED
  BY <1>1, <1>3 DEF Stacked, Has

\* A token that only moves the state.
LEMMA MoveStacks ==
  ASSUME TypeOK, NEW t \in Token, agent = "parsing", ~errors, Move(t), Stacked(state, stack)
  PROVE  Stacked(state', stack')
<1>1. t.kind \in Kinds /\ state \in DOMAIN Moves[t.kind] /\ state # "ErrorS"
  BY DEF Token, Move, Expects, TypeOK
<1>2. \/ stack' = stack /\ <<state, state'>> \in
           {<<"CompPort", "CompPortBind">>, <<"IMSG", "IMSGBind">>,
            <<"CompPort", "CompPortExternal">>, <<"Port", "PortExternal">>}
      \/ stack' = stack /\ state' = state
      \/ stack' = <<>> /\ state' = "Break"
  BY <1>1, MovesAre DEF Move, Shifts, Completes, Pops, Expects, Clears
<1>3. stack' = <<>> => Len(stack') = 0
  OBVIOUS
<1> QED
  BY <1>2, <1>3 DEF Stacked, Has

\* A token that completes a statement finds the tokens it needs.
LEMMA CompleteStacks ==
  ASSUME TypeOK, NEW t \in Token, agent = "parsing", ~errors, Completes(t),
         Stacked(state, stack)
  PROVE  /\ Len(stack) = Len(Pops[state]) /\ KindsFit
         /\ Complete(t) => Stacked(state', stack')
<1>1. t.kind \in Kinds /\ state \in DOMAIN Moves[t.kind] /\ state # "ErrorS"
  BY DEF Token, Completes, Expects, TypeOK
<1>2. \/ /\ t.kind = "Port" /\ state = "CompPortExternal"
         /\ Moves[t.kind][state] = "CompPortExternalPort"
      \/ /\ t.kind = "Comp" /\ state \in {"CompPortBindPort", "PortExternalPort", "IMSGBindPort"}
         /\ Moves[t.kind][state] = "Compo"
  BY <1>1, MovesAre DEF Completes, Pops
<1>3. /\ Len(stack) \in Nat /\ Len(Pops[state]) \in 1..3 /\ Len(stack) = Len(Pops[state])
      /\ \A i \in 1..Len(Pops[state]) : stack[i].kind = Pops[state][i]
  <2>0. Len(stack) \in Nat
    <3>1. stack \in Seq(Token)
      BY DEF TypeOK
    <3> QED
      BY <3>1
  <2>1. CASE state = "CompPortExternal"
    <3>1. Pops[state] = <<"Comp", "Port">>
      BY <2>1 DEF Pops
    <3> QED
      BY <2>0, <2>1, <3>1 DEF Stacked, Has
  <2>2. CASE state = "CompPortBindPort"
    <3>1. Pops[state] = <<"Comp", "Port", "Port">>
      BY <2>2 DEF Pops
    <3> QED
      BY <2>0, <2>2, <3>1 DEF Stacked, Has
  <2>3. CASE state = "PortExternalPort"
    <3>1. Pops[state] = <<"Port", "Port">>
      BY <2>3 DEF Pops
    <3> QED
      BY <2>0, <2>3, <3>1 DEF Stacked, Has
  <2>4. CASE state = "IMSGBindPort"
    <3>1. Pops[state] = <<"IMsg", "Port">>
      BY <2>4 DEF Pops
    <3> QED
      BY <2>0, <2>4, <3>1 DEF Stacked, Has
  <2> QED
    BY <1>2, <2>1, <2>2, <2>3, <2>4
<1>4. Taken = stack /\ Below = <<>>
  <2>1. stack \in Seq(Token)
    BY DEF TypeOK
  <2>2. SubSeq(stack, 1, Len(stack)) = stack /\ SubSeq(stack, 1, 0) = <<>>
    BY <2>1
  <2> QED
    BY <1>3, <2>2 DEF Taken, Below
<1>5. KindsFit
  BY <1>3, <1>4 DEF KindsFit
<1>6. ASSUME Complete(t)
      PROVE  Stacked(state', stack')
  <2>1. CASE t.kind = "Port"
    BY <1>2, <1>4, <1>6, <2>1 DEF Complete, Stacked, Has
  <2>2. CASE t.kind = "Comp"
    <3>1. stack' = <<t>> /\ state' = "Compo"
      BY <1>2, <1>4, <1>6, <2>2 DEF Complete
    <3> QED
      BY <2>2, <3>1 DEF Stacked, Has
  <2> QED
    BY <1>2, <2>1, <2>2
<1> QED
  BY <1>3, <1>5, <1>6

-----------------------------------------------------------------------------
(* The invariant.                                                           *)

\* The types alone.
Types ==
  /\ lex \in {"closed", "line start", "line", "line end"}
  /\ agent \in {"waiting", "parsing", "dead"}
  /\ state \in States
  /\ stack \in Seq(Token)
  /\ graph \subseteq Statements
  /\ errors \in BOOLEAN
  /\ file \in Nat
  /\ seen \in Seq(Token)
  /\ answer \in {"none", "graph", "errors", "fail"}

IInv == Types /\ Shaped /\ FailsAfterError

\* The type invariant with the shape of the stack written out.
LEMMA TypeIsShaped == TypeOK <=> Types /\ Shaped
<1>1. ASSUME stack \in Seq(Token), state \in States, state # "ErrorS"
      PROVE  [i \in 1..Len(stack) |-> stack[i].kind] = Shape[state] <=> Stacked(state, stack)
  BY <1>1, ShapeIsStacked
<1> DEFINE ks == [i \in 1..Len(stack) |-> stack[i].kind] = Shape[state]
<1>2. stack \in Seq(Token) /\ state \in States /\ state # "ErrorS" => (ks <=> Stacked(state, stack))
  BY <1>1
<1>3. TypeOK <=> Types /\ (agent = "parsing" /\ ~errors => state # "ErrorS" /\ ks)
  BY DEF TypeOK, Types
<1> HIDE DEF ks
<1> QED
  BY <1>2, <1>3 DEF Types, Shaped

\* A statement is made of as many texts as it must be.
LEMMA CompleteMakes ==
  ASSUME Types, NEW t \in Token, Complete(t)
  PROVE  /\ [what |-> Makes[state], texts |-> Append(Texts(Taken), t.text)] \in Statements
         /\ Taken \in Seq(Token) /\ Below \in Seq(Token)
<1>1. state \in DOMAIN Pops /\ Len(stack) >= Len(Pops[state]) /\ t.text \in Nat
  BY DEF Complete, Completes, Token
<1>2. Len(stack) \in Nat /\ stack \in Seq(Token)
  <2>1. stack \in Seq(Token)
    BY DEF Types
  <2> QED
    BY <2>1
<1>3. /\ Makes[state] \in DOMAIN Arity /\ Len(Pops[state]) \in 1..3
      /\ Arity[Makes[state]] = Len(Pops[state]) + 1
  <2>1. CASE state = "CompPortExternal"
    BY <2>1 DEF Pops, Makes, Arity
  <2>2. CASE state = "CompPortBindPort"
    BY <2>2 DEF Pops, Makes, Arity
  <2>3. CASE state = "PortExternalPort"
    BY <2>3 DEF Pops, Makes, Arity
  <2>4. CASE state = "IMSGBindPort"
    BY <2>4 DEF Pops, Makes, Arity
  <2> QED
    BY <1>1, <2>1, <2>2, <2>3, <2>4 DEF Pops
<1>4. /\ Taken \in Seq(Token) /\ Below \in Seq(Token)
      /\ Len(Taken) = Len(Pops[state])
  BY <1>1, <1>2, <1>3 DEF Taken, Below
<1>5. Texts(Taken) \in Seq(Nat) /\ Len(Texts(Taken)) = Len(Taken)
  <2>1. \A i \in 1..Len(Taken) : Taken[i] \in Token
    BY <1>4
  <2>2. Texts(Taken) \in [1..Len(Taken) -> Nat]
    BY <2>1 DEF Texts, Token
  <2>3. Len(Taken) \in Nat
    BY <1>4
  <2> QED
    BY <2>2, <2>3
<1>6. /\ Append(Texts(Taken), t.text) \in Seq(Nat)
      /\ Len(Append(Texts(Taken), t.text)) = Len(Pops[state]) + 1
  BY <1>1, <1>3, <1>4, <1>5
<1> QED
  BY <1>3, <1>4, <1>6 DEF Statements

\* A Comp with a sort declares a node.
LEMMA DeclaresNode ==
  ASSUME NEW t \in Token
  PROVE  Declared(t) \subseteq Statements
<1>1. t.text \in Nat
  BY DEF Token
<1>2. <<t.text>> \in Seq(Nat) /\ Len(<<t.text>>) = 1
  BY <1>1
<1>3. [what |-> "node", texts |-> <<t.text>>] \in Statements
  BY <1>2 DEF Statements, Arity
<1> QED
  BY <1>3 DEF Declared

\* A token keeps the types.
LEMMA ParseTypes ==
  ASSUME Types, NEW t \in Token, Parse(t), LexToken(t)
  PROVE  Types'
<1>1. t.kind \in Kinds /\ "ErrorS" \in States
  BY DEF Token, States
<1>2. seen' \in Seq(Token) /\ lex' \in {"closed", "line start", "line", "line end"}
  <2>1. seen \in Seq(Token)
    BY DEF Types
  <2>2. Append(seen, t) \in Seq(Token) /\ <<>> \in Seq(Token)
    BY <2>1
  <2>3. seen' \in {<<>>, Append(seen, t)}
    BY DEF Parse, Record
  <2> QED
    BY <2>2, <2>3 DEF LexToken
<1>3. CASE Unexpected(t)
  BY <1>1, <1>2, <1>3 DEF Unexpected, ParseFrame, Types
<1>4. CASE Shift(t)
  <2>1. stack' \in Seq(Token) /\ state' \in States /\ graph' \subseteq Statements
    <3>1. stack \in Seq(Token) /\ graph \subseteq Statements
      BY DEF Types
    <3>2. stack' \in Seq(Token)
      BY <1>4, <3>1 DEF Shift
    <3>3. state' \in States
      BY <1>1, <1>4, MovesType DEF Shift, Shifts, Expects
    <3>4. graph' \subseteq Statements
      BY <1>4, <3>1, DeclaresNode DEF Shift, Collect
    <3> QED
      BY <3>2, <3>3, <3>4
  <2> QED
    BY <1>2, <1>4, <2>1 DEF Shift, ParseFrame, Types
<1>5. CASE Move(t)
  <2>1. stack' \in Seq(Token) /\ state' \in States /\ graph' \subseteq Statements
    <3>1. stack \in Seq(Token) /\ <<>> \in Seq(Token) /\ graph \subseteq Statements
      BY EmptyStack DEF Types
    <3>2. stack' \in Seq(Token)
      BY <1>5, <3>1 DEF Move
    <3>3. state' \in States
      BY <1>1, <1>5, MovesType DEF Move, Expects
    <3>4. graph' \subseteq Statements
      BY <1>5, <3>1, DeclaresNode DEF Move, Collect
    <3> QED
      BY <3>2, <3>3, <3>4
  <2> QED
    BY <1>2, <1>5, <2>1 DEF Move, ParseFrame, Types
<1>6. CASE Complete(t)
  <2>1. stack' \in Seq(Token)
    <3>1. Append(Below, t) \in Seq(Token) /\ Below \in Seq(Token)
      <4>1. Below \in Seq(Token)
        BY <1>6, CompleteMakes
      <4> QED
        BY <4>1
    <3> QED
      BY <1>6, <3>1 DEF Complete
  <2>2. state' \in States
    BY <1>1, <1>6, MovesType DEF Complete, Completes, Expects
  <2>3. graph' \subseteq Statements
    BY <1>6, CompleteMakes, DeclaresNode DEF Complete, Collect, Types
  <2> QED
    BY <1>2, <1>6, <2>1, <2>2, <2>3 DEF Complete, ParseFrame, Types
<1>7. CASE StackProblem(t) \/ Unreachable(t)
  BY <1>2, <1>7 DEF StackProblem, Unreachable, Types
<1> QED
  BY <1>3, <1>4, <1>5, <1>6, <1>7 DEF Parse

\* A token keeps the stack what the state says.
LEMMA ParseShaped ==
  ASSUME Types, Shaped, NEW t \in Token, agent = "parsing", Parse(t)
  PROVE  Shaped'
<1>1. CASE errors
  <2>1. errors' = TRUE
    BY <1>1 DEF Parse, Unexpected, Shift, Move, Complete, StackProblem, Unreachable
  <2> QED
    BY <2>1 DEF Shaped
<1>2. CASE ~errors
  <2>0. TypeOK /\ Stacked(state, stack) /\ state # "ErrorS" /\ t.kind \in Kinds
    BY <1>2, TypeIsShaped DEF Shaped, Token
  <2>1. CASE Unexpected(t)
    BY <2>1 DEF Unexpected, Shaped
  <2>2. CASE Shift(t)
    BY <1>2, <2>0, <2>2, ShiftStacks, MovesType DEF Shift, Shifts, Expects, Shaped
  <2>3. CASE Move(t)
    BY <1>2, <2>0, <2>3, MoveStacks, MovesType DEF Move, Expects, Shaped
  <2>4. CASE Complete(t)
    <3>1. Completes(t)
      BY <2>4 DEF Complete
    <3> QED
      BY <1>2, <2>0, <2>4, <3>1, CompleteStacks, MovesType DEF Complete, Completes, Expects, Shaped
  <2>5. CASE StackProblem(t) \/ Unreachable(t)
    BY <2>5 DEF StackProblem, Unreachable, Shaped
  <2> QED
    BY <2>1, <2>2, <2>3, <2>4, <2>5 DEF Parse
<1> QED
  BY <1>1, <1>2 DEF Types

\* A run fails after an error only.
LEMMA ParseFails ==
  ASSUME Types, Shaped, FailsAfterError, NEW t \in Token, agent = "parsing", Parse(t)
  PROVE  FailsAfterError'
<1>1. CASE errors
  BY <1>1 DEF Parse, Unexpected, Shift, Move, Complete, StackProblem, Unreachable, FailsAfterError
<1>2. CASE ~errors /\ Completes(t)
  <2>1. Len(stack) = Len(Pops[state]) /\ KindsFit
    BY <1>2, TypeIsShaped, CompleteStacks DEF Shaped
  <2>2. Len(stack) \in Nat
    <3>1. stack \in Seq(Token)
      BY DEF Types
    <3> QED
      BY <3>1
  <2>3. ~StackProblem(t) /\ ~Unreachable(t)
    BY <2>1, <2>2 DEF StackProblem, Unreachable
  <2> QED
    BY <1>2, <2>3
    DEF Parse, Unexpected, Shift, Move, Complete, FailsAfterError, ParseFrame
<1>3. CASE ~errors /\ ~Completes(t)
  BY <1>3 DEF Parse, Unexpected, Shift, Move, Complete, StackProblem, Unreachable,
              FailsAfterError, ParseFrame
<1> QED
  BY <1>1, <1>2, <1>3 DEF Types

\* What the lexer sends is a token.
LEMMA NextTokenType ==
  ASSUME Types
  PROVE  NextToken \subseteq Token
<1>1. Len(seen) + 1 \in Nat
  <2>1. seen \in Seq(Token)
    BY DEF Types
  <2> QED
    BY <2>1
<1> QED
  BY <1>1 DEF NextToken, Token

\* The initial states and every step keep the invariant.
LEMMA InitIInv == Init => IInv
<1> SUFFICES ASSUME Init PROVE IInv
  OBVIOUS
<1>1. Types
  BY EmptyStack DEF Init, Types, States
<1>2. Shaped
  BY DEF Init, Shaped
<1>3. FailsAfterError
  BY DEF Init, FailsAfterError
<1> QED
  BY <1>1, <1>2, <1>3 DEF IInv

\* Every step keeps it.
LEMMA NextIInv == IInv /\ [Next]_vars => IInv'
<1> SUFFICES ASSUME IInv, [Next]_vars PROVE IInv'
  OBVIOUS
<1>1. CASE TakeStart
  <2>1. Types'
    <3>1. /\ stack' \in Seq(Token) /\ seen' \in Seq(Token) /\ state' \in States
          /\ graph' \subseteq Statements /\ answer' = "none" /\ errors' = FALSE
          /\ agent' \in {"dead", "parsing"} /\ lex' = "line start"
      BY <1>1, EmptyStack DEF TakeStart, LexStart, States
    <3>2. file' \in Nat
      <4>1. file \in Nat
        BY DEF IInv, Types
      <4>2. file' = file + 1
        BY <1>1 DEF TakeStart
      <4> QED
        BY <4>1, <4>2
    <3> QED
      BY <3>1, <3>2 DEF Types
  <2>2. Stacked(state', stack')
    BY <1>1, EmptyStack DEF TakeStart, Stacked, Has
  <2>3. state' # "ErrorS" /\ answer' = "none"
    BY <1>1 DEF TakeStart
  <2> QED
    BY <2>1, <2>2, <2>3 DEF IInv, Shaped, FailsAfterError
<1>2. CASE TakeToken
  <2>1. PICK t \in Token : LexToken(t) /\ (Parse(t) \/ Ignore)
    BY <1>2, NextTokenType DEF TakeToken, IInv
  <2>2. CASE Parse(t)
    <3>1. agent = "parsing"
      BY <2>2 DEF Parse
    <3> QED
      BY <2>1, <2>2, <3>1, ParseTypes, ParseShaped, ParseFails DEF IInv
  <2>3. CASE Ignore
    BY <2>1, <2>3 DEF Ignore, LexToken, IInv, Types, Shaped, FailsAfterError
  <2> QED
    BY <2>1, <2>2, <2>3
<1>3. CASE TakeEnd
  BY <1>3 DEF TakeEnd, LexEnd, Answer, IInv, Types, Shaped, FailsAfterError
<1>4. CASE UNCHANGED vars
  BY <1>4 DEF vars, IInv, Types, Shaped, FailsAfterError
<1> QED
  BY <1>1, <1>2, <1>3, <1>4 DEF Next

\* In every state the tokens on the parser's stack are those of its state, for
\* files of any length: what one state takes from the stack, others put there.
THEOREM StackKept == Spec => []TypeOK
<1>1. IInv => TypeOK
  BY TypeIsShaped DEF IInv
<1> QED
  BY InitIInv, NextIInv, <1>1, PTL DEF Spec

\* No file without errors makes the parser give up, by an Err or by an
\* unreachable!(), however many files were read before.
THEOREM FailureHasError == Spec => []FailsAfterError
<1>1. IInv => FailsAfterError
  BY DEF IInv
<1> QED
  BY InitIInv, NextIInv, <1>1, PTL DEF Spec

-----------------------------------------------------------------------------
(* The words of a file.  Words is a fold over the places of the tokens: the *)
(* lemmas of CountingProofs say what one token more does to it.             *)

\* The two ways to say the greatest of a set of places.
LEMMA MaxIsGreatest ==
  ASSUME NEW n \in Nat, NEW s, s \subseteq 1..n, s # {}
  PROVE  Max(s) = Greatest(s)
<1>1. Greatest(s) \in s /\ \A k \in s : k <= Greatest(s)
  BY GreatestIsIn
<1>2. Max(s) \in s /\ \A k \in s : Max(s) >= k
  <2>1. \E x \in s : \A k \in s : x >= k
    BY <1>1
  <2> QED
    BY <2>1 DEF Max
<1>3. Greatest(s) \in 1..n /\ Max(s) \in 1..n
  BY <1>1, <1>2
<1> QED
  BY <1>1, <1>2, <1>3

NextWords(ts, i, ws) == IF IsWord(ts, ts[i]) THEN Append(ws, ts[i]) ELSE ws
WordsStep(ts) == [p \in (1..Len(ts)) \X Seq(Token) |-> NextWords(ts, p[1], p[2])]

\* Words is a fold over the places of the tokens.
LEMMA WordsFold ==
  ASSUME NEW ts \in Seq(Token)
  PROVE  IsFold(Words(ts), Len(ts), Seq(Token), <<>>, WordsStep(ts))
<1> DEFINE V == Seq(Token)
           It(g) == g = [s \in SUBSET DOMAIN ts |->
                           IF s = {} THEN <<>>
                           ELSE IF IsWord(ts, ts[Max(s)]) THEN Append(g[s \ {Max(s)}], ts[Max(s)])
                                ELSE g[s \ {Max(s)}]]
           G == CHOOSE g : It(g)
<1>1. Words(ts) = G[DOMAIN ts]
  BY DEF Words, FoldLeft, MapThenFoldSet
<1>2. WordsStep(ts) \in [(1..Len(ts)) \X V -> V]
  BY DEF WordsStep, NextWords
<1>3. PICK g \in [SUBSET (1..Len(ts)) -> V] : Folds(g, Len(ts), V, <<>>, WordsStep(ts))
  <2>1. Len(ts) \in Nat /\ <<>> \in V
    OBVIOUS
  <2> QED
    BY ONLY <1>2, <2>1, FoldExists
<1>4. \A s \in SUBSET (1..Len(ts)) : s # {} =>
        Max(s) = Greatest(s) /\ Greatest(s) \in 1..Len(ts) /\ s \ {Max(s)} \in SUBSET (1..Len(ts))
  <2> TAKE s \in SUBSET (1..Len(ts))
  <2> HAVE s # {}
  <2>1. Len(ts) \in Nat
    OBVIOUS
  <2>2. Max(s) = Greatest(s) /\ Greatest(s) \in s
    BY <2>1, MaxIsGreatest, GreatestIsIn
  <2> QED
    BY <2>2
<1>5. It(g)
  <2> DEFINE Value(s) == IF s = {} THEN <<>>
                         ELSE IF IsWord(ts, ts[Max(s)]) THEN Append(g[s \ {Max(s)}], ts[Max(s)])
                              ELSE g[s \ {Max(s)}]
  <2>1. \A s \in SUBSET (1..Len(ts)) : g[s] = Value(s)
    <3> TAKE s \in SUBSET (1..Len(ts))
    <3>1. CASE s = {}
      BY <1>3, <3>1 DEF Folds
    <3>2. CASE s # {}
      <4>1. PICK o : o = s \ {Greatest(s)}
        OBVIOUS
      <4>2. o \in SUBSET (1..Len(ts)) /\ Greatest(s) \in 1..Len(ts) /\ Max(s) = Greatest(s)
        BY <1>4, <3>2, <4>1
      <4>3. g[o] \in V
        BY <4>2
      <4>4. g[s] = WordsStep(ts)[<<Greatest(s), g[o]>>]
        BY <1>3, <3>2, <4>1, <4>3 DEF Folds
      <4>5. g[s] = NextWords(ts, Greatest(s), g[o])
        BY <4>2, <4>3, <4>4 DEF WordsStep
      <4> QED
        BY <3>2, <4>1, <4>2, <4>5 DEF NextWords
    <3> QED
      BY <3>1, <3>2
  <2>2. DOMAIN ts = 1..Len(ts)
    OBVIOUS
  <2>3. g = [s \in SUBSET (1..Len(ts)) |-> Value(s)]
    <3> HIDE DEF Value
    <3> QED
      BY <2>1
  <2> QED
    BY <2>2, <2>3
<1>6. It(G)
  <2> HIDE DEF It
  <2> QED
    BY <1>5
<1>7. Folds(G, Len(ts), V, <<>>, WordsStep(ts))
  <2> HIDE DEF G
  <2>1. DOMAIN ts = 1..Len(ts)
    OBVIOUS
  <2>2. \A s \in SUBSET (1..Len(ts)) :
          G[s] = IF s = {} THEN <<>>
                 ELSE IF IsWord(ts, ts[Max(s)]) THEN Append(G[s \ {Max(s)}], ts[Max(s)])
                      ELSE G[s \ {Max(s)}]
    BY <1>6, <2>1
  <2>3. G[{}] = <<>>
    BY <2>2
  <2>4. ASSUME NEW s \in (SUBSET (1..Len(ts))) \ {{}}, NEW o, o = s \ {Greatest(s)}, G[o] \in V
        PROVE  G[s] = WordsStep(ts)[<<Greatest(s), G[o]>>]
    <3>1. Max(s) = Greatest(s) /\ Greatest(s) \in 1..Len(ts)
      BY <1>4
    <3>2. G[s] = NextWords(ts, Greatest(s), G[o])
      BY <2>2, <2>4, <3>1 DEF NextWords
    <3> QED
      BY <2>4, <3>1, <3>2 DEF WordsStep
  <2> QED
    BY <2>3, <2>4 DEF Folds
<1>8. Words(ts) = G[1..Len(ts)]
  <2> HIDE DEF G
  <2> QED
    BY <1>1
<1> HIDE DEF G
<1> QED
  BY <1>2, <1>7, <1>8 DEF IsFold

\* A file has no words before its first token.
LEMMA WordsEmpty == Words(<<>>) = <<>>
<1>1. PICK n : n = Len(<<>>)
  OBVIOUS
<1>2. <<>> \in Seq(Token) /\ n = 0
  BY <1>1
<1>3. IsFold(Words(<<>>), 0, Seq(Token), <<>>, WordsStep(<<>>))
  BY <1>1, <1>2, WordsFold
<1> QED
  BY <1>3, FoldEmpty

\* Whether a token is a word rests on what is before it.
LEMMA WordsLast ==
  ASSUME NEW ts \in Seq(Token), NEW t \in Token,
         \A i \in 1..Len(ts) : ts[i].text = i, t.text = Len(ts) + 1
  PROVE  /\ Words(ts) \in Seq(Token)
         /\ Words(Append(ts, t)) = IF IsWord(Append(ts, t), t) THEN Append(Words(ts), t) ELSE Words(ts)
<1> DEFINE n == Len(ts)
           us == Append(ts, t)
           V == Seq(Token)
<1>1. us \in V /\ Len(us) = n + 1 /\ n \in Nat /\ us[n + 1] = t
  OBVIOUS
<1>2. \A i \in 1..n : us[i] = ts[i]
  OBVIOUS
<1>3. \A i \in 1..n : IsWord(us, us[i]) <=> IsWord(ts, ts[i])
  <2> TAKE i \in 1..n
  <2>1. us[i] = ts[i] /\ ts[i].text = i
    BY <1>2
  <2>2. \A j \in 1..(i - 1) : us[j] = ts[j] /\ \A k \in (j + 1)..(i - 1) : us[k] = ts[k]
    BY <1>2
  <2> QED
    BY <2>1, <2>2 DEF IsWord, Continued
<1>4. IsFold(Words(ts), n, V, <<>>, WordsStep(ts))
  BY WordsFold
<1>5. IsFold(Words(us), n + 1, V, <<>>, WordsStep(us))
  BY <1>1, WordsFold
<1>7. Agree(n, V, WordsStep(ts), WordsStep(us))
  <2> SUFFICES ASSUME NEW i \in 1..n, NEW v \in V
               PROVE  WordsStep(us)[<<i, v>>] = WordsStep(ts)[<<i, v>>]
    BY DEF Agree
  <2>1. WordsStep(us)[<<i, v>>] = NextWords(us, i, v)
    BY <1>1 DEF WordsStep
  <2>2. WordsStep(ts)[<<i, v>>] = NextWords(ts, i, v)
    BY DEF WordsStep
  <2> QED
    BY <1>2, <1>3, <2>1, <2>2 DEF NextWords
<1>8. Words(ts) \in V /\ Words(us) = WordsStep(us)[<<n + 1, Words(ts)>>]
  <2> HIDE DEF n, us, V
  <2> QED
    BY ONLY <1>1, <1>4, <1>5, <1>7, FoldLast
<1>9. WordsStep(us)[<<n + 1, Words(ts)>>] = NextWords(us, n + 1, Words(ts))
  BY <1>1, <1>8 DEF WordsStep
<1> QED
  BY <1>1, <1>8, <1>9 DEF NextWords
-----------------------------------------------------------------------------
(* What the parser has made of the words.                                   *)

\* The word before the last i words of ws, and its kind.
Back(ws, i) == ws[Len(ws) - i]
Was(ws, i, k) == i < Len(ws) /\ Back(ws, i).kind = k

\* The words go back to the end of a line.
Fresh(ws, i) == Len(ws) = i \/ Was(ws, i, "Break")

\* What the words end with, state by state, and which of them are on the stack.
Ending(s, st, ws) ==
  /\ s = "Break" => Fresh(ws, 0) /\ st = <<>>
  /\ s = "Compo" => Was(ws, 0, "Comp") /\ st = <<Back(ws, 0)>>
  /\ s = "CompPort" => Was(ws, 1, "Comp") /\ Was(ws, 0, "Port") /\ st = <<Back(ws, 1), Back(ws, 0)>>
  /\ s = "CompPortBind" =>
       /\ Was(ws, 2, "Comp") /\ Was(ws, 1, "Port") /\ Was(ws, 0, "Bind")
       /\ st = <<Back(ws, 2), Back(ws, 1)>>
  /\ s = "CompPortBindPort" =>
       /\ Was(ws, 3, "Comp") /\ Was(ws, 2, "Port") /\ Was(ws, 1, "Bind") /\ Was(ws, 0, "Port")
       /\ st = <<Back(ws, 3), Back(ws, 2), Back(ws, 0)>>
  /\ s = "CompPortExternal" =>
       /\ Was(ws, 2, "Comp") /\ Was(ws, 1, "Port") /\ Was(ws, 0, "External")
       /\ st = <<Back(ws, 2), Back(ws, 1)>>
  /\ s = "CompPortExternalPort" => Was(ws, 0, "Port") /\ Was(ws, 1, "External") /\ st = <<>>
  /\ s = "Port" => Fresh(ws, 1) /\ Was(ws, 0, "Port") /\ st = <<Back(ws, 0)>>
  /\ s = "PortExternal" =>
       Fresh(ws, 2) /\ Was(ws, 1, "Port") /\ Was(ws, 0, "External") /\ st = <<Back(ws, 1)>>
  /\ s = "PortExternalPort" =>
       /\ Was(ws, 2, "Port") /\ Was(ws, 1, "External") /\ Was(ws, 0, "Port")
       /\ st = <<Back(ws, 2), Back(ws, 0)>>
  /\ s = "IMSG" => Was(ws, 0, "IMsg") /\ st = <<Back(ws, 0)>>
  /\ s = "IMSGBind" => Was(ws, 1, "IMsg") /\ Was(ws, 0, "Bind") /\ st = <<Back(ws, 1)>>
  /\ s = "IMSGBindPort" =>
       /\ Was(ws, 2, "IMsg") /\ Was(ws, 1, "Bind") /\ Was(ws, 0, "Port")
       /\ st = <<Back(ws, 2), Back(ws, 0)>>

\* The last word is a "->": the line goes on after an end of line.
GoesOn(ts) ==
  \E j \in 1..Len(ts) : ts[j].kind = "Bind"
                        /\ \A k \in (j + 1)..Len(ts) : ts[k].kind \in {"Break", "Comment"}

Numbered(ts) == \A i \in 1..Len(ts) : ts[i].text = i

Read ==
  /\ agent = "parsing" /\ ~errors =>
       /\ Numbered(seen) /\ Ending(state, stack, Words(seen)) /\ graph = Meaning(seen)
       /\ state \in {"CompPortBind", "IMSGBind"} <=> GoesOn(seen)
  /\ GraphIsMeaning /\ (answer = "graph" => agent # "parsing" /\ ~errors)

-----------------------------------------------------------------------------
(* How the meaning grows.                                                   *)

\* A pattern occurs where it did, or ends with the last word.
LEMMA OccursGrows ==
  ASSUME NEW ws \in Seq(Token), NEW t \in Token, NEW ks, Len(ks) \in Nat \ {0}
  PROVE  /\ Occurs(ws, ks) \subseteq Occurs(Append(ws, t), ks)
         /\ \A i \in Occurs(Append(ws, t), ks) \ Occurs(ws, ks) : i = Len(ws) + 2 - Len(ks)
         /\ \A i \in Occurs(ws, ks) : i + Len(ks) - 1 <= Len(ws)
<1> DEFINE us == Append(ws, t)
<1>1. /\ Len(us) = Len(ws) + 1 /\ Len(ws) \in Nat
      /\ \A i \in 1..Len(ws) : us[i] = ws[i]
  OBVIOUS
<1> HIDE DEF us
<1>2. ASSUME NEW i \in Occurs(ws, ks) PROVE i \in Occurs(us, ks) /\ i + Len(ks) - 1 <= Len(ws)
  <2>1. i \in 1..Len(ws) /\ i + Len(ks) - 1 <= Len(ws)
    BY DEF Occurs
  <2>2. \A j \in 1..Len(ks) : i + j - 1 \in 1..Len(ws)
    BY <1>1, <2>1
  <2>3. \A j \in 1..Len(ks) : us[i + j - 1].kind = ks[j]
    BY <1>1, <2>2 DEF Occurs
  <2> QED
    BY <1>1, <2>1, <2>3 DEF Occurs
<1>3. ASSUME NEW i \in Occurs(us, ks), i # Len(ws) + 2 - Len(ks) PROVE i \in Occurs(ws, ks)
  <2>1. i \in 1..(Len(ws) + 1) /\ i + Len(ks) - 1 <= Len(ws) + 1
    BY <1>1 DEF Occurs
  <2>2. i + Len(ks) - 1 <= Len(ws) /\ i \in 1..Len(ws)
    BY <1>1, <1>3, <2>1
  <2>3. \A j \in 1..Len(ks) : i + j - 1 \in 1..Len(ws)
    BY <1>1, <2>2
  <2>4. \A j \in 1..Len(ks) : ws[i + j - 1].kind = ks[j]
    BY <1>1, <2>3 DEF Occurs
  <2> QED
    BY <2>2, <2>4 DEF Occurs
<1> QED
  BY <1>2, <1>3 DEF us

Made(what, ws, i, places) ==
  [what |-> what, texts |-> [k \in 1..Len(places) |-> ws[i + places[k] - 1].text]]

\* Every place of a statement is a place of its pattern.
Within(places, ks) == Len(ks) \in Nat \ {0} /\ \A k \in 1..Len(places) : places[k] \in 1..Len(ks)

GrowsBy(what, ws, t, ks, places) ==
  LET us == Append(ws, t)
      last == Len(ws) + 2 - Len(ks)
  IN Means(what, us, ks, places) =
       Means(what, ws, ks, places)
         \cup (IF last \in Occurs(us, ks) THEN {Made(what, us, last, places)} ELSE {})

\* The statements of a pattern are those there were, and one that the last word ends.
LEMMA MeansGrows ==
  ASSUME NEW ws \in Seq(Token), NEW t \in Token, NEW ks, NEW what, NEW places, Within(places, ks)
  PROVE  GrowsBy(what, ws, t, ks, places)
<1> DEFINE us == Append(ws, t)
           last == Len(ws) + 2 - Len(ks)
<1>0. Len(ks) \in Nat \ {0} /\ \A k \in 1..Len(places) : places[k] \in 1..Len(ks)
  BY DEF Within
<1>1. \A i \in 1..Len(ws) : us[i] = ws[i]
  OBVIOUS
<1>2. Means(what, us, ks, places) = {Made(what, us, i, places) : i \in Occurs(us, ks)}
  BY DEF Means, Made
<1>3. Means(what, ws, ks, places) = {Made(what, ws, i, places) : i \in Occurs(ws, ks)}
  BY DEF Means, Made
<1>4. \A i \in Occurs(ws, ks) : Made(what, us, i, places) = Made(what, ws, i, places)
  <2> TAKE i \in Occurs(ws, ks)
  <2>1. i \in 1..Len(ws) /\ i + Len(ks) - 1 <= Len(ws) /\ Len(ws) \in Nat
    BY <1>0, OccursGrows DEF Occurs
  <2>2. \A k \in 1..Len(places) : i + places[k] - 1 \in 1..Len(ws)
    BY <1>0, <2>1
  <2>3. \A k \in 1..Len(places) : us[i + places[k] - 1].text = ws[i + places[k] - 1].text
    BY <1>1, <2>2
  <2> HIDE DEF us
  <2> QED
    BY <2>3 DEF Made
<1>5. /\ Occurs(ws, ks) \subseteq Occurs(us, ks)
      /\ \A i \in Occurs(us, ks) \ Occurs(ws, ks) : i = last
      /\ last \notin Occurs(ws, ks)
  <2>1. \A i \in Occurs(ws, ks) : i + Len(ks) - 1 <= Len(ws) /\ i \in Nat
    BY <1>0, OccursGrows DEF Occurs
  <2>2. last \notin Occurs(ws, ks)
    <3>1. Len(ws) \in Nat
      OBVIOUS
    <3> QED
      BY <1>0, <2>1, <3>1
  <2> QED
    BY <1>0, <2>2, OccursGrows
<1> HIDE DEF us, last
<1>6. \A x \in Means(what, us, ks, places) :
        x \in Means(what, ws, ks, places) \/ (last \in Occurs(us, ks) /\ x = Made(what, us, last, places))
  BY <1>2, <1>3, <1>4, <1>5
<1>7. Means(what, ws, ks, places) \subseteq Means(what, us, ks, places)
  BY <1>2, <1>3, <1>4, <1>5
<1>8. last \in Occurs(us, ks) => Made(what, us, last, places) \in Means(what, us, ks, places)
  BY <1>2
<1>9. Means(what, us, ks, places) =
           Means(what, ws, ks, places)
             \cup (IF last \in Occurs(us, ks) THEN {Made(what, us, last, places)} ELSE {})
  BY <1>6, <1>7, <1>8
<1> QED
  BY <1>9 DEF us, last, GrowsBy

\* The words that a pattern of five ends with.
FiveEnd(ws, t, ks) ==
  LET us == Append(ws, t)
      i == Len(ws) + 2 - Len(ks)
  IN /\ i \in Occurs(us, ks) <=>
          /\ Was(ws, 3, ks[1]) /\ Was(ws, 2, ks[2]) /\ Was(ws, 1, ks[3]) /\ Was(ws, 0, ks[4])
          /\ t.kind = ks[5]
     /\ Len(ws) > 3 =>
          us[i] = Back(ws, 3) /\ us[i + 1] = Back(ws, 2) /\ us[i + 3] = Back(ws, 0) /\ us[i + 4] = t

\* It ends with the last four words and the next one.
LEMMA EndsWithFive ==
  ASSUME NEW ws \in Seq(Token), NEW t \in Token, NEW ks, Len(ks) = 5
  PROVE  FiveEnd(ws, t, ks)
<1> DEFINE n == Len(ws)
           us == Append(ws, t)
<1>1. n \in Nat /\ Len(us) = n + 1 /\ us[n + 1] = t /\ \A i \in 1..n : us[i] = ws[i]
  OBVIOUS
<1> HIDE DEF us, n
<1>2. n + 2 - Len(ks) = n - 3
  BY <1>1
<1>3. n > 3 => us[n - 3] = Back(ws, 3) /\ us[n - 2] = Back(ws, 2) /\ us[n - 1] = Back(ws, 1)
                 /\ us[n] = Back(ws, 0)
  <2> SUFFICES ASSUME n > 3
               PROVE  us[n - 3] = ws[n - 3] /\ us[n - 2] = ws[n - 2] /\ us[n - 1] = ws[n - 1]
                        /\ us[n] = ws[n]
    BY <1>1 DEF Back, n
  <2>1. n - 3 \in 1..n /\ n - 2 \in 1..n /\ n - 1 \in 1..n /\ n \in 1..n
    BY <1>1
  <2> QED
    BY <1>1, <2>1
<1>4. n - 3 \in Occurs(us, ks) <=> n > 3 /\ \A j \in 1..5 : us[n - 3 + j - 1].kind = ks[j]
  BY <1>1 DEF Occurs
<1>5. (\A j \in 1..5 : us[n - 3 + j - 1].kind = ks[j]) <=>
        /\ us[n - 3].kind = ks[1] /\ us[n - 2].kind = ks[2] /\ us[n - 1].kind = ks[3]
        /\ us[n].kind = ks[4] /\ us[n + 1].kind = ks[5]
  BY <1>1
<1>6. \A k : /\ Was(ws, 3, k) <=> n > 3 /\ Back(ws, 3).kind = k
             /\ Was(ws, 2, k) <=> n > 2 /\ Back(ws, 2).kind = k
             /\ Was(ws, 1, k) <=> n > 1 /\ Back(ws, 1).kind = k
             /\ Was(ws, 0, k) <=> n > 0 /\ Back(ws, 0).kind = k
  BY <1>1 DEF Was, n
<1>7. n - 3 \in Occurs(us, ks) <=>
        /\ Was(ws, 3, ks[1]) /\ Was(ws, 2, ks[2]) /\ Was(ws, 1, ks[3]) /\ Was(ws, 0, ks[4])
        /\ t.kind = ks[5]
  BY <1>1, <1>3, <1>4, <1>5, <1>6
<1>8. n > 3 => us[n - 3 + 1] = Back(ws, 2) /\ us[n - 3 + 3] = Back(ws, 0) /\ us[n - 3 + 4] = t
  BY <1>1, <1>3
<1> QED
  BY <1>2, <1>3, <1>7, <1>8 DEF us, n, FiveEnd

FourEnd(ws, t, ks) ==
  LET us == Append(ws, t)
      i == Len(ws) + 2 - Len(ks)
  IN /\ i \in Occurs(us, ks) <=>
          Was(ws, 2, ks[1]) /\ Was(ws, 1, ks[2]) /\ Was(ws, 0, ks[3]) /\ t.kind = ks[4]
     /\ Len(ws) > 2 =>
          us[i] = Back(ws, 2) /\ us[i + 1] = Back(ws, 1) /\ us[i + 2] = Back(ws, 0) /\ us[i + 3] = t

\* A pattern of four ends with the last three words and the next one.
LEMMA EndsWithFour ==
  ASSUME NEW ws \in Seq(Token), NEW t \in Token, NEW ks, Len(ks) = 4
  PROVE  FourEnd(ws, t, ks)
<1> DEFINE n == Len(ws)
           us == Append(ws, t)
<1>1. n \in Nat /\ Len(us) = n + 1 /\ us[n + 1] = t /\ \A i \in 1..n : us[i] = ws[i]
  OBVIOUS
<1> HIDE DEF us, n
<1>2. n + 2 - Len(ks) = n - 2
  BY <1>1
<1>3. n > 2 => us[n - 2] = Back(ws, 2) /\ us[n - 1] = Back(ws, 1) /\ us[n] = Back(ws, 0)
  BY <1>1 DEF Back, n
<1>4. n - 2 \in Occurs(us, ks) <=> n > 2 /\ \A j \in 1..4 : us[n - 2 + j - 1].kind = ks[j]
  BY <1>1 DEF Occurs
<1>5. (\A j \in 1..4 : us[n - 2 + j - 1].kind = ks[j]) <=>
        /\ us[n - 2].kind = ks[1] /\ us[n - 1].kind = ks[2] /\ us[n].kind = ks[3]
        /\ us[n + 1].kind = ks[4]
  BY <1>1
<1>6. \A k : /\ Was(ws, 2, k) <=> n > 2 /\ Back(ws, 2).kind = k
             /\ Was(ws, 1, k) <=> n > 1 /\ Back(ws, 1).kind = k
             /\ Was(ws, 0, k) <=> n > 0 /\ Back(ws, 0).kind = k
  BY <1>1 DEF Was, n
<1>7. n - 2 \in Occurs(us, ks) <=>
        Was(ws, 2, ks[1]) /\ Was(ws, 1, ks[2]) /\ Was(ws, 0, ks[3]) /\ t.kind = ks[4]
  BY <1>1, <1>3, <1>4, <1>5, <1>6
<1>8. n > 2 => us[n - 2 + 1] = Back(ws, 1) /\ us[n - 2 + 2] = Back(ws, 0) /\ us[n - 2 + 3] = t
  BY <1>1, <1>3
<1> QED
  BY <1>2, <1>3, <1>7, <1>8 DEF us, n, FourEnd
\* The four patterns.
LEMMA EdgesGrow ==
  ASSUME NEW ws \in Seq(Token), NEW t \in Token
  PROVE  Means("edge", Append(ws, t), <<"Comp", "Port", "Bind", "Port", "Comp">>, <<1, 2, 4, 5>>) =
           Means("edge", ws, <<"Comp", "Port", "Bind", "Port", "Comp">>, <<1, 2, 4, 5>>) \cup
             (IF Was(ws, 3, "Comp") /\ Was(ws, 2, "Port") /\ Was(ws, 1, "Bind") /\ Was(ws, 0, "Port") /\ t.kind = "Comp"
              THEN {[what |-> "edge", texts |-> <<Back(ws, 3).text, Back(ws, 2).text, Back(ws, 0).text, t.text>>]} ELSE {})
<1> DEFINE ks == <<"Comp", "Port", "Bind", "Port", "Comp">>
           at == <<1, 2, 4, 5>>
           Match == Was(ws, 3, "Comp") /\ Was(ws, 2, "Port") /\ Was(ws, 1, "Bind") /\ Was(ws, 0, "Port") /\ t.kind = "Comp"
           s == [what |-> "edge", texts |-> <<Back(ws, 3).text, Back(ws, 2).text, Back(ws, 0).text, t.text>>]
<1>1. Len(ks) = 5 /\ Within(at, ks)
  BY DEF Within
<1>2. PICK i, us : i = Len(ws) + 2 - Len(ks) /\ us = Append(ws, t)
  OBVIOUS
<1>3. Means("edge", us, ks, at) = Means("edge", ws, ks, at) \cup
        (IF i \in Occurs(us, ks) THEN {Made("edge", us, i, at)} ELSE {})
  <2>1. GrowsBy("edge", ws, t, ks, at)
    <3> HIDE DEF ks, at
    <3> QED
      BY ONLY <1>1, ws \in Seq(Token), t \in Token, MeansGrows
  <2> HIDE DEF ks, at
  <2> QED
    BY <1>2, <2>1 DEF GrowsBy
<1>4. /\ i \in Occurs(us, ks) <=> Match
      /\ Len(ws) > 3 => us[i] = Back(ws, 3) /\ us[i + 1] = Back(ws, 2) /\ us[i + 3] = Back(ws, 0) /\ us[i + 4] = t
  <2>1. /\ i \in Occurs(us, ks) <=> Was(ws, 3, ks[1]) /\ Was(ws, 2, ks[2]) /\ Was(ws, 1, ks[3]) /\ Was(ws, 0, ks[4]) /\ t.kind = ks[5]
        /\ Len(ws) > 3 => us[i] = Back(ws, 3) /\ us[i + 1] = Back(ws, 2) /\ us[i + 3] = Back(ws, 0) /\ us[i + 4] = t
    <3> HIDE DEF ks
    <3>1. FiveEnd(ws, t, ks)
      BY ONLY <1>1, ws \in Seq(Token), t \in Token, EndsWithFive
    <3> QED
      BY <1>2, <3>1 DEF FiveEnd
  <2> QED
    BY <2>1
<1>5. Match => Made("edge", us, i, at) = s
  <2> SUFFICES ASSUME Match PROVE [k \in 1..Len(at) |-> us[i + at[k] - 1].text] = <<Back(ws, 3).text, Back(ws, 2).text, Back(ws, 0).text, t.text>>
    BY DEF Made
  <2>1. Len(ws) > 3 /\ Len(ws) \in Nat /\ i \in Nat
    BY <1>1, <1>2 DEF Was
  <2>2. i + 1 - 1 = i /\ i + 2 - 1 = i + 1 /\ i + 4 - 1 = i + 3 /\ i + 5 - 1 = i + 4
    BY <2>1
  <2> QED
    BY <1>4, <2>1, <2>2
<1> HIDE DEF ks, at, Match, s
<1>6. Means("edge", us, ks, at) = Means("edge", ws, ks, at) \cup (IF Match THEN {s} ELSE {})
  BY <1>3, <1>4, <1>5
<1> QED
  BY <1>2, <1>6 DEF ks, at, Match, s

\* An output of the graph: comp() out => port.
LEMMA ExtOutsGrow ==
  ASSUME NEW ws \in Seq(Token), NEW t \in Token
  PROVE  Means("ext_out", Append(ws, t), <<"Comp", "Port", "External", "Port">>, <<1, 2, 4>>) =
           Means("ext_out", ws, <<"Comp", "Port", "External", "Port">>, <<1, 2, 4>>) \cup
             (IF Was(ws, 2, "Comp") /\ Was(ws, 1, "Port") /\ Was(ws, 0, "External") /\ t.kind = "Port"
              THEN {[what |-> "ext_out", texts |-> <<Back(ws, 2).text, Back(ws, 1).text, t.text>>]} ELSE {})
<1> DEFINE ks == <<"Comp", "Port", "External", "Port">>
           at == <<1, 2, 4>>
           Match == Was(ws, 2, "Comp") /\ Was(ws, 1, "Port") /\ Was(ws, 0, "External") /\ t.kind = "Port"
           s == [what |-> "ext_out", texts |-> <<Back(ws, 2).text, Back(ws, 1).text, t.text>>]
<1>1. Len(ks) = 4 /\ Within(at, ks)
  BY DEF Within
<1>2. PICK i, us : i = Len(ws) + 2 - Len(ks) /\ us = Append(ws, t)
  OBVIOUS
<1>3. Means("ext_out", us, ks, at) = Means("ext_out", ws, ks, at) \cup
        (IF i \in Occurs(us, ks) THEN {Made("ext_out", us, i, at)} ELSE {})
  <2>1. GrowsBy("ext_out", ws, t, ks, at)
    <3> HIDE DEF ks, at
    <3> QED
      BY ONLY <1>1, ws \in Seq(Token), t \in Token, MeansGrows
  <2> HIDE DEF ks, at
  <2> QED
    BY <1>2, <2>1 DEF GrowsBy
<1>4. /\ i \in Occurs(us, ks) <=> Match
      /\ Len(ws) > 2 => us[i] = Back(ws, 2) /\ us[i + 1] = Back(ws, 1) /\ us[i + 2] = Back(ws, 0) /\ us[i + 3] = t
  <2>1. /\ i \in Occurs(us, ks) <=> Was(ws, 2, ks[1]) /\ Was(ws, 1, ks[2]) /\ Was(ws, 0, ks[3]) /\ t.kind = ks[4]
        /\ Len(ws) > 2 => us[i] = Back(ws, 2) /\ us[i + 1] = Back(ws, 1) /\ us[i + 2] = Back(ws, 0) /\ us[i + 3] = t
    <3> HIDE DEF ks
    <3>1. FourEnd(ws, t, ks)
      BY ONLY <1>1, ws \in Seq(Token), t \in Token, EndsWithFour
    <3> QED
      BY <1>2, <3>1 DEF FourEnd
  <2> QED
    BY <2>1
<1>5. Match => Made("ext_out", us, i, at) = s
  <2> SUFFICES ASSUME Match PROVE [k \in 1..Len(at) |-> us[i + at[k] - 1].text] = <<Back(ws, 2).text, Back(ws, 1).text, t.text>>
    BY DEF Made
  <2>1. Len(ws) > 2 /\ Len(ws) \in Nat /\ i \in Nat
    BY <1>1, <1>2 DEF Was
  <2>2. i + 1 - 1 = i /\ i + 2 - 1 = i + 1 /\ i + 4 - 1 = i + 3
    BY <2>1
  <2> QED
    BY <1>4, <2>1, <2>2
<1> HIDE DEF ks, at, Match, s
<1>6. Means("ext_out", us, ks, at) = Means("ext_out", ws, ks, at) \cup (IF Match THEN {s} ELSE {})
  BY <1>3, <1>4, <1>5
<1> QED
  BY <1>2, <1>6 DEF ks, at, Match, s

\* An input of the graph: port => in comp().
LEMMA ExtInsGrow ==
  ASSUME NEW ws \in Seq(Token), NEW t \in Token
  PROVE  Means("ext_in", Append(ws, t), <<"Port", "External", "Port", "Comp">>, <<1, 3, 4>>) =
           Means("ext_in", ws, <<"Port", "External", "Port", "Comp">>, <<1, 3, 4>>) \cup
             (IF Was(ws, 2, "Port") /\ Was(ws, 1, "External") /\ Was(ws, 0, "Port") /\ t.kind = "Comp"
              THEN {[what |-> "ext_in", texts |-> <<Back(ws, 2).text, Back(ws, 0).text, t.text>>]} ELSE {})
<1> DEFINE ks == <<"Port", "External", "Port", "Comp">>
           at == <<1, 3, 4>>
           Match == Was(ws, 2, "Port") /\ Was(ws, 1, "External") /\ Was(ws, 0, "Port") /\ t.kind = "Comp"
           s == [what |-> "ext_in", texts |-> <<Back(ws, 2).text, Back(ws, 0).text, t.text>>]
<1>1. Len(ks) = 4 /\ Within(at, ks)
  BY DEF Within
<1>2. PICK i, us : i = Len(ws) + 2 - Len(ks) /\ us = Append(ws, t)
  OBVIOUS
<1>3. Means("ext_in", us, ks, at) = Means("ext_in", ws, ks, at) \cup
        (IF i \in Occurs(us, ks) THEN {Made("ext_in", us, i, at)} ELSE {})
  <2>1. GrowsBy("ext_in", ws, t, ks, at)
    <3> HIDE DEF ks, at
    <3> QED
      BY ONLY <1>1, ws \in Seq(Token), t \in Token, MeansGrows
  <2> HIDE DEF ks, at
  <2> QED
    BY <1>2, <2>1 DEF GrowsBy
<1>4. /\ i \in Occurs(us, ks) <=> Match
      /\ Len(ws) > 2 => us[i] = Back(ws, 2) /\ us[i + 1] = Back(ws, 1) /\ us[i + 2] = Back(ws, 0) /\ us[i + 3] = t
  <2>1. /\ i \in Occurs(us, ks) <=> Was(ws, 2, ks[1]) /\ Was(ws, 1, ks[2]) /\ Was(ws, 0, ks[3]) /\ t.kind = ks[4]
        /\ Len(ws) > 2 => us[i] = Back(ws, 2) /\ us[i + 1] = Back(ws, 1) /\ us[i + 2] = Back(ws, 0) /\ us[i + 3] = t
    <3> HIDE DEF ks
    <3>1. FourEnd(ws, t, ks)
      BY ONLY <1>1, ws \in Seq(Token), t \in Token, EndsWithFour
    <3> QED
      BY <1>2, <3>1 DEF FourEnd
  <2> QED
    BY <2>1
<1>5. Match => Made("ext_in", us, i, at) = s
  <2> SUFFICES ASSUME Match PROVE [k \in 1..Len(at) |-> us[i + at[k] - 1].text] = <<Back(ws, 2).text, Back(ws, 0).text, t.text>>
    BY DEF Made
  <2>1. Len(ws) > 2 /\ Len(ws) \in Nat /\ i \in Nat
    BY <1>1, <1>2 DEF Was
  <2>2. i + 1 - 1 = i /\ i + 3 - 1 = i + 2 /\ i + 4 - 1 = i + 3
    BY <2>1
  <2> QED
    BY <1>4, <2>1, <2>2
<1> HIDE DEF ks, at, Match, s
<1>6. Means("ext_in", us, ks, at) = Means("ext_in", ws, ks, at) \cup (IF Match THEN {s} ELSE {})
  BY <1>3, <1>4, <1>5
<1> QED
  BY <1>2, <1>6 DEF ks, at, Match, s

\* A message: 'message' -> in comp().
LEMMA IMsgsGrow ==
  ASSUME NEW ws \in Seq(Token), NEW t \in Token
  PROVE  Means("imsg", Append(ws, t), <<"IMsg", "Bind", "Port", "Comp">>, <<1, 3, 4>>) =
           Means("imsg", ws, <<"IMsg", "Bind", "Port", "Comp">>, <<1, 3, 4>>) \cup
             (IF Was(ws, 2, "IMsg") /\ Was(ws, 1, "Bind") /\ Was(ws, 0, "Port") /\ t.kind = "Comp"
              THEN {[what |-> "imsg", texts |-> <<Back(ws, 2).text, Back(ws, 0).text, t.text>>]} ELSE {})
<1> DEFINE ks == <<"IMsg", "Bind", "Port", "Comp">>
           at == <<1, 3, 4>>
           Match == Was(ws, 2, "IMsg") /\ Was(ws, 1, "Bind") /\ Was(ws, 0, "Port") /\ t.kind = "Comp"
           s == [what |-> "imsg", texts |-> <<Back(ws, 2).text, Back(ws, 0).text, t.text>>]
<1>1. Len(ks) = 4 /\ Within(at, ks)
  BY DEF Within
<1>2. PICK i, us : i = Len(ws) + 2 - Len(ks) /\ us = Append(ws, t)
  OBVIOUS
<1>3. Means("imsg", us, ks, at) = Means("imsg", ws, ks, at) \cup
        (IF i \in Occurs(us, ks) THEN {Made("imsg", us, i, at)} ELSE {})
  <2>1. GrowsBy("imsg", ws, t, ks, at)
    <3> HIDE DEF ks, at
    <3> QED
      BY ONLY <1>1, ws \in Seq(Token), t \in Token, MeansGrows
  <2> HIDE DEF ks, at
  <2> QED
    BY <1>2, <2>1 DEF GrowsBy
<1>4. /\ i \in Occurs(us, ks) <=> Match
      /\ Len(ws) > 2 => us[i] = Back(ws, 2) /\ us[i + 1] = Back(ws, 1) /\ us[i + 2] = Back(ws, 0) /\ us[i + 3] = t
  <2>1. /\ i \in Occurs(us, ks) <=> Was(ws, 2, ks[1]) /\ Was(ws, 1, ks[2]) /\ Was(ws, 0, ks[3]) /\ t.kind = ks[4]
        /\ Len(ws) > 2 => us[i] = Back(ws, 2) /\ us[i + 1] = Back(ws, 1) /\ us[i + 2] = Back(ws, 0) /\ us[i + 3] = t
    <3> HIDE DEF ks
    <3>1. FourEnd(ws, t, ks)
      BY ONLY <1>1, ws \in Seq(Token), t \in Token, EndsWithFour
    <3> QED
      BY <1>2, <3>1 DEF FourEnd
  <2> QED
    BY <2>1
<1>5. Match => Made("imsg", us, i, at) = s
  <2> SUFFICES ASSUME Match PROVE [k \in 1..Len(at) |-> us[i + at[k] - 1].text] = <<Back(ws, 2).text, Back(ws, 0).text, t.text>>
    BY DEF Made
  <2>1. Len(ws) > 2 /\ Len(ws) \in Nat /\ i \in Nat
    BY <1>1, <1>2 DEF Was
  <2>2. i + 1 - 1 = i /\ i + 3 - 1 = i + 2 /\ i + 4 - 1 = i + 3
    BY <2>1
  <2> QED
    BY <1>4, <2>1, <2>2
<1> HIDE DEF ks, at, Match, s
<1>6. Means("imsg", us, ks, at) = Means("imsg", ws, ks, at) \cup (IF Match THEN {s} ELSE {})
  BY <1>3, <1>4, <1>5
<1> QED
  BY <1>2, <1>6 DEF ks, at, Match, s

\* The statement that t completes after the words ws.
Finished(ws, t) ==
  (IF Was(ws, 3, "Comp") /\ Was(ws, 2, "Port") /\ Was(ws, 1, "Bind") /\ Was(ws, 0, "Port") /\ t.kind = "Comp"
   THEN {[what |-> "edge", texts |-> <<Back(ws, 3).text, Back(ws, 2).text, Back(ws, 0).text, t.text>>]} ELSE {})
    \cup (IF Was(ws, 2, "Comp") /\ Was(ws, 1, "Port") /\ Was(ws, 0, "External") /\ t.kind = "Port"
          THEN {[what |-> "ext_out", texts |-> <<Back(ws, 2).text, Back(ws, 1).text, t.text>>]} ELSE {})
    \cup (IF Was(ws, 2, "Port") /\ Was(ws, 1, "External") /\ Was(ws, 0, "Port") /\ t.kind = "Comp"
          THEN {[what |-> "ext_in", texts |-> <<Back(ws, 2).text, Back(ws, 0).text, t.text>>]} ELSE {})
    \cup (IF Was(ws, 2, "IMsg") /\ Was(ws, 1, "Bind") /\ Was(ws, 0, "Port") /\ t.kind = "Comp"
          THEN {[what |-> "imsg", texts |-> <<Back(ws, 2).text, Back(ws, 0).text, t.text>>]} ELSE {})

\* A word adds the statement that it finishes.
LEMMA JoinsGrow ==
  ASSUME NEW ws \in Seq(Token), NEW t \in Token
  PROVE  Joins(Append(ws, t)) = Joins(ws) \cup Finished(ws, t)
BY EdgesGrow, ExtOutsGrow, ExtInsGrow, IMsgsGrow DEF Joins, Finished

\* A token adds the node that it declares.
LEMMA NodesGrow ==
  ASSUME NEW ts \in Seq(Token), NEW t \in Token
  PROVE  Nodes(Append(ts, t)) = Nodes(ts) \cup Declared(t)
<1> DEFINE us == Append(ts, t)
           n == Len(ts)
           Sorts(x) == x.kind = "Comp" /\ x.sorted
           Node(x) == [what |-> "node", texts |-> <<x.text>>]
<1>1. n \in Nat /\ Len(us) = n + 1 /\ us[n + 1] = t /\ \A i \in 1..n : us[i] = ts[i]
  OBVIOUS
<1>2. Nodes(us) = {Node(us[i]) : i \in {j \in 1..Len(us) : Sorts(us[j])}}
  BY DEF Nodes
<1>3. Nodes(ts) = {Node(ts[i]) : i \in {j \in 1..n : Sorts(ts[j])}}
  BY DEF Nodes
<1>4. Declared(t) = IF Sorts(t) THEN {Node(t)} ELSE {}
  BY DEF Declared
<1> HIDE DEF us, n, Sorts, Node
<1>5. \A x : x \in Nodes(us) <=> \E i \in 1..(n + 1) : Sorts(us[i]) /\ x = Node(us[i])
  BY <1>1, <1>2
<1>6. \A x : x \in Nodes(ts) <=> \E i \in 1..n : Sorts(ts[i]) /\ x = Node(ts[i])
  BY <1>3
<1>7. \A x : x \in Declared(t) <=> Sorts(t) /\ x = Node(t)
  BY <1>4
<1>8. 1..n \subseteq 1..(n + 1) /\ n + 1 \in 1..(n + 1) /\ \A i \in 1..(n + 1) : i \in 1..n \/ i = n + 1
  BY <1>1
<1>9. \A x : x \in Nodes(us) <=> x \in Nodes(ts) \/ x \in Declared(t)
  BY <1>1, <1>5, <1>6, <1>7, <1>8
<1> QED
  BY <1>9 DEF us

-----------------------------------------------------------------------------
(* The words and the next token.                                            *)

\* One word further, what was last is last but one.
LEMMA BackNext ==
  ASSUME NEW ws \in Seq(Token), NEW t \in Token
  PROVE  /\ Append(ws, t) \in Seq(Token)
         /\ Back(Append(ws, t), 0) = t
         /\ \A k : Was(Append(ws, t), 0, k) <=> t.kind = k
         /\ \A i \in 0..2 : \A k :
              /\ Was(Append(ws, t), i + 1, k) <=> Was(ws, i, k)
              /\ Fresh(Append(ws, t), i + 1) <=> Fresh(ws, i)
              /\ i < Len(ws) => Back(Append(ws, t), i + 1) = Back(ws, i)
<1> DEFINE us == Append(ws, t)
<1>1. /\ us \in Seq(Token) /\ Len(us) = Len(ws) + 1 /\ Len(ws) \in Nat /\ us[Len(ws) + 1] = t
      /\ \A i \in 1..Len(ws) : us[i] = ws[i]
  OBVIOUS
<1> HIDE DEF us
<1>2. Back(us, 0) = t /\ Len(us) > 0
  BY <1>1 DEF Back
<1>3. \A i \in 0..2 : i < Len(ws) => Back(us, i + 1) = Back(ws, i)
  <2> TAKE i \in 0..2
  <2> HAVE i < Len(ws)
  <2>1. Len(us) - (i + 1) = Len(ws) - i /\ Len(ws) - i \in 1..Len(ws)
    BY <1>1
  <2> QED
    BY <1>1, <2>1 DEF Back
<1>4. \A i \in 0..2 : (i + 1 < Len(us) <=> i < Len(ws)) /\ (Len(us) = i + 1 <=> Len(ws) = i)
  BY <1>1
<1>5. \A i \in 0..2 : \A k : Was(us, i + 1, k) <=> Was(ws, i, k)
  BY <1>3, <1>4 DEF Was
<1>6. \A i \in 0..2 : Fresh(us, i + 1) <=> Fresh(ws, i)
  BY <1>4, <1>5 DEF Fresh
<1>7. \A k : Was(us, 0, k) <=> t.kind = k
  BY <1>2 DEF Was
<1> QED
  BY <1>1, <1>2, <1>3, <1>5, <1>6, <1>7 DEF us

\* The end of a line goes on with it when the words end with "->".
LEMMA GoesOnNext ==
  ASSUME NEW ts \in Seq(Token), NEW t \in Token, t.text = Len(ts) + 1
  PROVE  /\ Continued(Append(ts, t), t) <=> t.kind = "Break" /\ GoesOn(ts)
         /\ GoesOn(Append(ts, t)) <=>
              t.kind = "Bind" \/ (t.kind \in {"Break", "Comment"} /\ GoesOn(ts))
<1> DEFINE us == Append(ts, t)
           n == Len(ts)
<1>1. n \in Nat /\ Len(us) = n + 1 /\ us[n + 1] = t /\ \A i \in 1..n : us[i] = ts[i]
  OBVIOUS
<1>2. t.text - 1 = n
  BY <1>1
<1> HIDE DEF us, n
<1>3. Continued(us, t) <=> t.kind = "Break" /\ GoesOn(ts)
  <2>1. \A j \in 1..n : us[j] = ts[j] /\ \A k \in (j + 1)..n : us[k] = ts[k]
    <3>1. \A j \in 1..n : \A k \in (j + 1)..n : k \in 1..n
      BY <1>1
    <3> QED
      BY <1>1, <3>1
  <2> QED
    BY <1>2, <2>1 DEF Continued, GoesOn, n
<1>4. ASSUME GoesOn(us) PROVE t.kind = "Bind" \/ (t.kind \in {"Break", "Comment"} /\ GoesOn(ts))
  <2>1. PICK j \in 1..(n + 1) : us[j].kind = "Bind" /\ \A k \in (j + 1)..(n + 1) : us[k].kind \in {"Break", "Comment"}
    BY <1>1, <1>4 DEF GoesOn
  <2>2. CASE j = n + 1
    BY <1>1, <2>1, <2>2
  <2>3. CASE j \in 1..n
    <3>1. n + 1 \in (j + 1)..(n + 1) /\ \A k \in (j + 1)..n : k \in (j + 1)..(n + 1) /\ k \in 1..n
      BY <1>1, <2>3
    <3> QED
      BY <1>1, <2>1, <2>3, <3>1 DEF GoesOn, n
  <2> QED
    BY <1>1, <2>1, <2>2, <2>3
<1>5. ASSUME t.kind = "Bind" PROVE GoesOn(us)
  <2>1. n + 1 \in 1..Len(us) /\ \A k \in (n + 1 + 1)..Len(us) : FALSE
    BY <1>1
  <2> QED
    BY <1>1, <1>5, <2>1 DEF GoesOn
<1>6. ASSUME t.kind \in {"Break", "Comment"}, GoesOn(ts) PROVE GoesOn(us)
  <2>1. PICK j \in 1..n : ts[j].kind = "Bind" /\ \A k \in (j + 1)..n : ts[k].kind \in {"Break", "Comment"}
    BY <1>6 DEF GoesOn, n
  <2>2. \A k \in (j + 1)..(n + 1) : us[k].kind \in {"Break", "Comment"}
    <3> TAKE k \in (j + 1)..(n + 1)
    <3>1. k = n + 1 \/ (k \in (j + 1)..n /\ k \in 1..n)
      BY <1>1
    <3> QED
      BY <1>1, <1>6, <2>1, <3>1
  <2>3. j \in 1..(n + 1)
    BY <1>1
  <2> QED
    BY <1>1, <2>1, <2>2, <2>3 DEF GoesOn
<1> QED
  BY <1>3, <1>4, <1>5, <1>6 DEF us

\* The words after the next token.
LEMMA WordsNext ==
  ASSUME NEW ts \in Seq(Token), NEW t \in Token, Numbered(ts), t.text = Len(ts) + 1
  PROVE  /\ Words(ts) \in Seq(Token) /\ Append(ts, t) \in Seq(Token)
         /\ Numbered(Append(ts, t))
         /\ t.kind = "Comment" \/ (t.kind = "Break" /\ GoesOn(ts)) => Words(Append(ts, t)) = Words(ts)
         /\ t.kind # "Comment" /\ ~(t.kind = "Break" /\ GoesOn(ts)) =>
              Words(Append(ts, t)) = Append(Words(ts), t)
<1>1. \A i \in 1..Len(ts) : ts[i].text = i
  BY DEF Numbered
<1>2. IsWord(Append(ts, t), t) <=> t.kind # "Comment" /\ ~(t.kind = "Break" /\ GoesOn(ts))
  BY GoesOnNext DEF IsWord
<1>3. Append(ts, t) \in Seq(Token) /\ Numbered(Append(ts, t))
  <2> DEFINE us == Append(ts, t)
  <2>1. /\ us \in Seq(Token) /\ Len(ts) \in Nat /\ Len(us) = Len(ts) + 1 /\ us[Len(ts) + 1] = t
        /\ \A i \in 1..Len(ts) : us[i] = ts[i]
    OBVIOUS
  <2> HIDE DEF us
  <2>2. \A i \in 1..Len(us) : us[i].text = i
    BY <1>1, <2>1
  <2> QED
    BY <2>1, <2>2 DEF us, Numbered
<1> QED
  BY <1>1, <1>2, <1>3, WordsLast

-----------------------------------------------------------------------------
(* One token, and what the file means.                                      *)

\* Sequences of a few tokens.
LEMMA AppendFew ==
  ASSUME NEW t, NEW a, NEW b, NEW c
  PROVE  /\ Append(<<>>, t) = <<t>> /\ Append(<<a>>, t) = <<a, t>>
         /\ Append(<<a, b>>, t) = <<a, b, t>> /\ Append(<<a, b, c>>, t) = <<a, b, c, t>>
<1> DEFINE S == {t, a, b, c}
<1>1. t \in S /\ a \in S /\ b \in S /\ c \in S
  OBVIOUS
<1> HIDE DEF S
<1>0. \A u \in Seq(S) : \A x \in S : \A v : v = Append(u, x) =>
        /\ v \in Seq(S) /\ Len(v) = Len(u) + 1 /\ v[Len(u) + 1] = x
        /\ \A i \in 1..Len(u) : v[i] = u[i]
  OBVIOUS
<1>2. Append(<<>>, t) = <<t>>
  BY <1>1
<1>3. Append(<<a>>, t) = <<a, t>>
  <2>1. PICK s : s = <<a>>
    OBVIOUS
  <2>2. s \in Seq(S) /\ Len(s) = 1 /\ s[1] = a
    BY <1>1, <2>1
  <2>3. PICK r : r = Append(s, t)
    OBVIOUS
  <2>4. r \in Seq(S) /\ Len(r) = 2 /\ r[1] = a /\ r[2] = t
    BY <1>0, <1>1, <2>2, <2>3
  <2>5. r = <<a, t>>
    BY <2>4
  <2> QED
    BY <2>1, <2>3, <2>5
<1>4. Append(<<a, b>>, t) = <<a, b, t>>
  <2>1. PICK s : s = <<a, b>>
    OBVIOUS
  <2>2. s \in Seq(S) /\ Len(s) = 2 /\ s[1] = a /\ s[2] = b
    BY <1>1, <2>1
  <2>3. PICK r : r = Append(s, t)
    OBVIOUS
  <2>4. r \in Seq(S) /\ Len(r) = 3 /\ r[1] = a /\ r[2] = b /\ r[3] = t
    BY <1>0, <1>1, <2>2, <2>3
  <2>5. r = <<a, b, t>>
    BY <2>4
  <2> QED
    BY <2>1, <2>3, <2>5
<1>5. Append(<<a, b, c>>, t) = <<a, b, c, t>>
  <2>1. PICK s : s = <<a, b, c>>
    OBVIOUS
  <2>2. s \in Seq(S) /\ Len(s) = 3 /\ s[1] = a /\ s[2] = b /\ s[3] = c
    BY <1>1, <2>1
  <2>3. PICK r : r = Append(s, t)
    OBVIOUS
  <2>4. r \in Seq(S) /\ Len(r) = 4 /\ r[1] = a /\ r[2] = b /\ r[3] = c /\ r[4] = t
    BY <1>0, <1>1, <2>2, <2>3
  <2>5. r = <<a, b, c, t>>
    BY <2>4
  <2> QED
    BY <2>1, <2>3, <2>5
<1> QED
  BY <1>2, <1>3, <1>4, <1>5

\* The texts of two tokens and one more.
LEMMA TextsOfTwo ==
  ASSUME NEW a, NEW b, NEW x
  PROVE  Append(Texts(<<a, b>>), x) = <<a.text, b.text, x>>
<1>1. Texts(<<a, b>>) = <<a.text, b.text>>
  <2>1. Len(<<a, b>>) = 2 /\ <<a, b>>[1] = a /\ <<a, b>>[2] = b
    OBVIOUS
  <2>2. Texts(<<a, b>>) = [i \in 1..2 |-> <<a, b>>[i].text]
    BY <2>1 DEF Texts
  <2> QED
    BY <2>1, <2>2
<1>2. Append(<<a.text, b.text>>, x) = <<a.text, b.text, x>>
  BY AppendFew
<1> QED
  BY <1>1, <1>2

\* The texts of three tokens and one more.
LEMMA TextsOfThree ==
  ASSUME NEW a, NEW b, NEW c, NEW x
  PROVE  Append(Texts(<<a, b, c>>), x) = <<a.text, b.text, c.text, x>>
<1>1. Texts(<<a, b, c>>) = <<a.text, b.text, c.text>>
  <2>1. Len(<<a, b, c>>) = 3 /\ <<a, b, c>>[1] = a /\ <<a, b, c>>[2] = b /\ <<a, b, c>>[3] = c
    OBVIOUS
  <2>2. Texts(<<a, b, c>>) = [i \in 1..3 |-> <<a, b, c>>[i].text]
    BY <2>1 DEF Texts
  <2> QED
    BY <2>1, <2>2
<1>2. Append(<<a.text, b.text, c.text>>, x) = <<a.text, b.text, c.text, x>>
  BY AppendFew
<1> QED
  BY <1>1, <1>2

\* A token that the state only shifts completes nothing.
LEMMA ShiftFinishes ==
  ASSUME TypeOK, NEW t \in Token, ~errors, agent = "parsing", Shift(t),
         NEW ws \in Seq(Token), Ending(state, stack, ws)
  PROVE  Ending(state', stack', Append(ws, t)) /\ Finished(ws, t) = {}
<1>0. Len(ws) \in Nat
  OBVIOUS
<1>1. t.kind \in Kinds /\ state \in DOMAIN Moves[t.kind] /\ state # "ErrorS"
  BY DEF Token, Shift, Shifts, Expects, TypeOK
<1>2. \/ t.kind = "IMsg" /\ state = "Break" /\ state' = "IMSG"
      \/ t.kind = "Comp" /\ state = "Break" /\ state' = "Compo"
      \/ t.kind = "Port" /\ <<state, state'>> \in
           {<<"Compo", "CompPort">>, <<"CompPortBind", "CompPortBindPort">>,
            <<"Break", "Port">>, <<"PortExternal", "PortExternalPort">>,
            <<"IMSGBind", "IMSGBindPort">>}
  BY <1>1, MovesAre DEF Shift, Shifts, Completes, Pops, Expects
<1>3. stack' = Append(stack, t)
  BY DEF Shift
<1> DEFINE us == Append(ws, t)
<1>4. /\ Back(us, 0) = t
      /\ \A k : Was(us, 0, k) <=> t.kind = k
      /\ \A k : Was(us, 1, k) <=> Was(ws, 0, k)
      /\ \A k : Was(us, 2, k) <=> Was(ws, 1, k)
      /\ \A k : Was(us, 3, k) <=> Was(ws, 2, k)
      /\ Fresh(us, 1) <=> Fresh(ws, 0)
      /\ Fresh(us, 2) <=> Fresh(ws, 1)
      /\ 0 < Len(ws) => Back(us, 1) = Back(ws, 0)
      /\ 1 < Len(ws) => Back(us, 2) = Back(ws, 1)
      /\ 2 < Len(ws) => Back(us, 3) = Back(ws, 2)
  BY BackNext
<1> HIDE DEF us
<1>5. Finished(ws, t) = {}
  <2>1. Fresh(ws, 0) => ~Was(ws, 0, "Port") /\ ~Was(ws, 0, "External")
    BY <1>0 DEF Fresh, Was
  <2>2. Fresh(ws, 2) => ~Was(ws, 2, "Comp")
    BY <1>0 DEF Fresh, Was
  <2>3. /\ Was(ws, 0, "Comp") => ~Was(ws, 0, "External")
        /\ Was(ws, 0, "Bind") => ~Was(ws, 0, "External")
    BY DEF Was
  <2>4. ASSUME t.kind = "Port", state # "Break"
        PROVE  ~Was(ws, 0, "External") \/ ~Was(ws, 2, "Comp")
    BY <1>2, <2>2, <2>3, <2>4 DEF Ending
  <2>5. state = "Break" => Fresh(ws, 0)
    BY DEF Ending
  <2> QED
    BY <1>2, <2>1, <2>4, <2>5 DEF Finished
<1>6. Ending(state', stack', us)
  <2>1. CASE state = "Break"
    BY <1>2, <1>3, <1>4, <2>1, AppendFew DEF Ending
  <2>2. CASE state = "Compo"
    <3>1. state' = "CompPort" /\ t.kind = "Port" /\ stack' = Append(stack, t)
      BY <1>2, <1>3, <2>2
    <3>2. Was(ws, 0, "Comp") /\ stack = <<Back(ws, 0)>>
      BY <2>2 DEF Ending
    <3>3. Back(us, 1) = Back(ws, 0)
      BY <1>0, <1>4, <3>2 DEF Was
    <3>4. stack' = <<Back(us, 1), Back(us, 0)>>
      BY <1>4, <3>1, <3>2, <3>3, AppendFew
    <3> QED
      BY <1>4, <3>1, <3>2, <3>4 DEF Ending
  <2>3. CASE state = "CompPortBind"
    <3>1. state' = "CompPortBindPort" /\ t.kind = "Port" /\ stack' = Append(stack, t)
      BY <1>2, <1>3, <2>3
    <3>2. Was(ws, 2, "Comp") /\ Was(ws, 1, "Port") /\ Was(ws, 0, "Bind") /\ stack = <<Back(ws, 2), Back(ws, 1)>>
      BY <2>3 DEF Ending
    <3>3. Back(us, 3) = Back(ws, 2) /\ Back(us, 2) = Back(ws, 1)
      BY <1>0, <1>4, <3>2 DEF Was
    <3>4. stack' = <<Back(us, 3), Back(us, 2), Back(us, 0)>>
      BY <1>4, <3>1, <3>2, <3>3, AppendFew
    <3> QED
      BY <1>4, <3>1, <3>2, <3>4 DEF Ending
  <2>4. CASE state = "PortExternal"
    <3>1. state' = "PortExternalPort" /\ t.kind = "Port" /\ stack' = Append(stack, t)
      BY <1>2, <1>3, <2>4
    <3>2. Was(ws, 1, "Port") /\ Was(ws, 0, "External") /\ stack = <<Back(ws, 1)>>
      BY <2>4 DEF Ending
    <3>3. Back(us, 2) = Back(ws, 1)
      BY <1>0, <1>4, <3>2 DEF Was
    <3>4. stack' = <<Back(us, 2), Back(us, 0)>>
      BY <1>4, <3>1, <3>2, <3>3, AppendFew
    <3> QED
      BY <1>4, <3>1, <3>2, <3>4 DEF Ending
  <2>5. CASE state = "IMSGBind"
    <3>1. state' = "IMSGBindPort" /\ t.kind = "Port" /\ stack' = Append(stack, t)
      BY <1>2, <1>3, <2>5
    <3>2. Was(ws, 1, "IMsg") /\ Was(ws, 0, "Bind") /\ stack = <<Back(ws, 1)>>
      BY <2>5 DEF Ending
    <3>3. Back(us, 2) = Back(ws, 1)
      BY <1>0, <1>4, <3>2 DEF Was
    <3>4. stack' = <<Back(us, 2), Back(us, 0)>>
      BY <1>4, <3>1, <3>2, <3>3, AppendFew
    <3> QED
      BY <1>4, <3>1, <3>2, <3>4 DEF Ending
  <2> QED
    BY <1>2, <2>1, <2>2, <2>3, <2>4, <2>5
<1> QED
  BY <1>5, <1>6 DEF us

\* A token that only moves the state completes nothing, and is a word or not.
LEMMA MoveFinishes ==
  ASSUME TypeOK, NEW t \in Token, ~errors, agent = "parsing", Move(t),
         NEW ws \in Seq(Token), Ending(state, stack, ws)
  PROVE  /\ IF t.kind = "Comment" \/ (t.kind = "Break" /\ state \in {"CompPortBind", "IMSGBind"})
            THEN state' = state /\ stack' = stack
            ELSE Ending(state', stack', Append(ws, t)) /\ Finished(ws, t) = {}
         /\ t.kind \notin {"Comp", "Port", "IMsg"}
<1>0. Len(ws) \in Nat
  OBVIOUS
<1>1. t.kind \in Kinds /\ state \in DOMAIN Moves[t.kind] /\ state # "ErrorS"
  BY DEF Token, Move, Expects, TypeOK
<1>2. \/ stack' = stack /\ t.kind = "Bind" /\ <<state, state'>> \in
           {<<"CompPort", "CompPortBind">>, <<"IMSG", "IMSGBind">>}
      \/ stack' = stack /\ t.kind = "External" /\ <<state, state'>> \in
           {<<"CompPort", "CompPortExternal">>, <<"Port", "PortExternal">>}
      \/ stack' = stack /\ state' = state /\ t.kind = "Comment"
      \/ stack' = stack /\ state' = state /\ t.kind = "Break" /\ state \in {"CompPortBind", "IMSGBind", "Break"}
      \/ stack' = <<>> /\ state' = "Break" /\ t.kind = "Break" /\ state \in {"Compo", "CompPortExternalPort"}
  BY <1>1, MovesAre DEF Move, Shifts, Completes, Pops, Expects, Clears
<1> DEFINE us == Append(ws, t)
<1>4. /\ Back(us, 0) = t
      /\ \A k : Was(us, 0, k) <=> t.kind = k
      /\ \A k : Was(us, 1, k) <=> Was(ws, 0, k)
      /\ \A k : Was(us, 2, k) <=> Was(ws, 1, k)
      /\ Fresh(us, 2) <=> Fresh(ws, 1)
      /\ 0 < Len(ws) => Back(us, 1) = Back(ws, 0)
      /\ 1 < Len(ws) => Back(us, 2) = Back(ws, 1)
  BY BackNext
<1> HIDE DEF us
<1>5. t.kind \notin {"Comp", "Port", "IMsg"}
  BY <1>2
<1>6. Finished(ws, t) = {}
  BY <1>5 DEF Finished
<1>7. CASE t.kind = "Bind" \/ t.kind = "External"
  BY <1>0, <1>2, <1>4, <1>5, <1>6, <1>7 DEF Ending, Was, us
<1>8. CASE t.kind = "Comment"
  BY <1>2, <1>5, <1>8
<1>9. CASE t.kind = "Break"
  <2>1. CASE state \in {"CompPortBind", "IMSGBind"}
    BY <1>2, <1>5, <1>9, <2>1
  <2>2. CASE state \notin {"CompPortBind", "IMSGBind"}
    <3>1. state' = "Break" /\ stack' = <<>>
      BY <1>2, <1>9, <2>2 DEF Ending
    <3>2. Fresh(us, 0)
      BY <1>4, <1>9 DEF Fresh
    <3> QED
      BY <1>5, <1>6, <1>9, <2>2, <3>1, <3>2 DEF Ending, us
  <2> QED
    BY <2>1, <2>2
<1> QED
  BY <1>2, <1>7, <1>8, <1>9

\* A token that completes a statement completes the one the words end with.
LEMMA CompleteFinishes ==
  ASSUME TypeOK, NEW t \in Token, ~errors, agent = "parsing", Complete(t),
         NEW ws \in Seq(Token), Ending(state, stack, ws)
  PROVE  /\ Ending(state', stack', Append(ws, t))
         /\ Finished(ws, t) = {[what |-> Makes[state], texts |-> Append(Texts(Taken), t.text)]}
<1>0. stack \in Seq(Token)
  BY DEF TypeOK
<1>1. t.kind \in Kinds /\ state \in DOMAIN Moves[t.kind] /\ state # "ErrorS" /\ Completes(t)
  BY DEF Token, Complete, Completes, Expects, TypeOK
<1>2. \/ /\ t.kind = "Port" /\ state = "CompPortExternal"
         /\ Moves[t.kind][state] = "CompPortExternalPort"
      \/ /\ t.kind = "Comp" /\ state \in {"CompPortBindPort", "PortExternalPort", "IMSGBindPort"}
         /\ Moves[t.kind][state] = "Compo"
  BY <1>1, MovesAre DEF Completes, Pops
<1>3. Taken = stack /\ Below = <<>>
  <2>0. Stacked(state, stack)
    BY TypeIsShaped DEF Shaped
  <2>1. Len(stack) = Len(Pops[state])
    BY <1>1, <2>0, CompleteStacks
  <2>2. SubSeq(stack, 1, Len(stack)) = stack /\ SubSeq(stack, 1, 0) = <<>> /\ Len(stack) \in Nat
    BY <1>0
  <2> QED
    BY <2>1, <2>2 DEF Taken, Below
<1>4. state' = Moves[t.kind][state] /\ stack' = IF t.kind = "Comp" THEN <<t>> ELSE <<>>
  BY <1>3 DEF Complete
<1> DEFINE us == Append(ws, t)
<1>5. /\ Back(us, 0) = t
      /\ \A k : Was(us, 0, k) <=> t.kind = k
      /\ \A k : Was(us, 1, k) <=> Was(ws, 0, k)
  BY BackNext
<1> HIDE DEF us
<1>6. Ending(state', stack', us)
  BY <1>2, <1>4, <1>5 DEF Ending
<1>7. Finished(ws, t) = {[what |-> Makes[state], texts |-> Append(Texts(stack), t.text)]}
  <2>1. CASE state = "CompPortExternal"
    <3>1. /\ Was(ws, 2, "Comp") /\ Was(ws, 1, "Port") /\ Was(ws, 0, "External") /\ t.kind = "Port"
          /\ stack = <<Back(ws, 2), Back(ws, 1)>> /\ Makes[state] = "ext_out"
      BY <1>2, <2>1 DEF Ending, Makes
    <3>2. Append(Texts(stack), t.text) = <<Back(ws, 2).text, Back(ws, 1).text, t.text>>
      BY <3>1, TextsOfTwo
    <3> QED
      BY <3>1, <3>2 DEF Finished
  <2>2. CASE state = "CompPortBindPort"
    <3>1. /\ Was(ws, 3, "Comp") /\ Was(ws, 2, "Port") /\ Was(ws, 1, "Bind") /\ Was(ws, 0, "Port")
          /\ t.kind = "Comp"
          /\ stack = <<Back(ws, 3), Back(ws, 2), Back(ws, 0)>> /\ Makes[state] = "edge"
      BY <1>2, <2>2 DEF Ending, Makes
    <3>2. Append(Texts(stack), t.text) = <<Back(ws, 3).text, Back(ws, 2).text, Back(ws, 0).text, t.text>>
      BY <3>1, TextsOfThree
    <3>3. ~Was(ws, 2, "IMsg") /\ ~Was(ws, 1, "External")
      BY <3>1 DEF Was
    <3> QED
      BY <3>1, <3>2, <3>3 DEF Finished
  <2>3. CASE state = "PortExternalPort"
    <3>1. /\ Was(ws, 2, "Port") /\ Was(ws, 1, "External") /\ Was(ws, 0, "Port") /\ t.kind = "Comp"
          /\ stack = <<Back(ws, 2), Back(ws, 0)>> /\ Makes[state] = "ext_in"
      BY <1>2, <2>3 DEF Ending, Makes
    <3>2. Append(Texts(stack), t.text) = <<Back(ws, 2).text, Back(ws, 0).text, t.text>>
      BY <3>1, TextsOfTwo
    <3>3. ~Was(ws, 1, "Bind")
      BY <3>1 DEF Was
    <3> QED
      BY <3>1, <3>2, <3>3 DEF Finished
  <2>4. CASE state = "IMSGBindPort"
    <3>1. /\ Was(ws, 2, "IMsg") /\ Was(ws, 1, "Bind") /\ Was(ws, 0, "Port") /\ t.kind = "Comp"
          /\ stack = <<Back(ws, 2), Back(ws, 0)>> /\ Makes[state] = "imsg"
      BY <1>2, <2>4 DEF Ending, Makes
    <3>2. Append(Texts(stack), t.text) = <<Back(ws, 2).text, Back(ws, 0).text, t.text>>
      BY <3>1, TextsOfTwo
    <3>3. ~Was(ws, 2, "Port") /\ ~Was(ws, 1, "External")
      BY <3>1 DEF Was
    <3> QED
      BY <3>1, <3>2, <3>3 DEF Finished
  <2> QED
    BY <1>2, <2>1, <2>2, <2>3, <2>4
<1> QED
  BY <1>3, <1>6, <1>7 DEF us

\* The state knows whether the line goes on.
LEMMA StateGoesOn ==
  ASSUME TypeOK, NEW t \in Token, ~errors, agent = "parsing", state \in {"CompPortBind", "IMSGBind"} <=> GoesOn(seen),
         Shift(t) \/ Move(t) \/ Complete(t), t.text = Len(seen) + 1
  PROVE  state' \in {"CompPortBind", "IMSGBind"} <=> GoesOn(Append(seen, t))
<1>1. t.kind \in Kinds /\ state \in DOMAIN Moves[t.kind] /\ state # "ErrorS" /\ seen \in Seq(Token)
  BY DEF Token, Shift, Shifts, Move, Complete, Completes, Expects, TypeOK
<1>2. state' = Moves[t.kind][state]
  BY DEF Shift, Move, Complete
<1>3. GoesOn(Append(seen, t)) <=>
        t.kind = "Bind" \/ (t.kind \in {"Break", "Comment"} /\ GoesOn(seen))
  BY <1>1, GoesOnNext
<1> QED
  BY <1>1, <1>2, <1>3, MovesAre

\* What a token of a file without errors does to its words and its meaning.
LEMMA MeaningNext ==
  ASSUME TypeOK, NEW t \in Token, ~errors, agent = "parsing", Numbered(seen),
         state \in {"CompPortBind", "IMSGBind"} <=> GoesOn(seen),
         Ending(state, stack, Words(seen)), graph = Meaning(seen), t.text = Len(seen) + 1,
         Record(t), Shift(t) \/ Move(t) \/ Complete(t)
  PROVE  Numbered(seen') /\ Ending(state', stack', Words(seen')) /\ graph' = Meaning(seen')
<1> DEFINE ws == Words(seen)
<1>1. seen \in Seq(Token) /\ seen' = Append(seen, t)
  BY DEF TypeOK, Record
<1>2. /\ ws \in Seq(Token) /\ seen' \in Seq(Token) /\ Numbered(seen')
      /\ t.kind = "Comment" \/ (t.kind = "Break" /\ GoesOn(seen)) => Words(seen') = ws
      /\ t.kind # "Comment" /\ ~(t.kind = "Break" /\ GoesOn(seen)) => Words(seen') = Append(ws, t)
  BY <1>1, WordsNext
<1>3. Nodes(seen') = Nodes(seen) \cup Declared(t) /\ Joins(Append(ws, t)) = Joins(ws) \cup Finished(ws, t)
  BY <1>1, <1>2, NodesGrow, JoinsGrow
<1> HIDE DEF ws
<1>4. graph = Joins(ws) \cup Nodes(seen) /\ Meaning(seen') = Joins(Words(seen')) \cup Nodes(seen')
  BY DEF Meaning, ws
<1>5. Ending(state, stack, ws)
  BY DEF ws
<1>6. CASE Shift(t)
  <2>1. Ending(state', stack', Append(ws, t)) /\ Finished(ws, t) = {}
    BY <1>2, <1>5, <1>6, ShiftFinishes
  <2>2. t.kind # "Comment" /\ t.kind # "Break" /\ graph' = graph \cup Declared(t)
    BY <1>6 DEF Shift, Shifts, Collect
  <2> QED
    BY <1>2, <1>3, <1>4, <2>1, <2>2
<1>7. CASE Move(t)
  <2>1. /\ IF t.kind = "Comment" \/ (t.kind = "Break" /\ state \in {"CompPortBind", "IMSGBind"})
           THEN state' = state /\ stack' = stack
           ELSE Ending(state', stack', Append(ws, t)) /\ Finished(ws, t) = {}
        /\ t.kind \notin {"Comp", "Port", "IMsg"}
    BY <1>2, <1>5, <1>7, MoveFinishes
  <2>2. graph' = graph \cup Declared(t)
    BY <1>7 DEF Move, Collect
  <2>3. CASE t.kind = "Comment" \/ (t.kind = "Break" /\ GoesOn(seen))
    <3>1. Words(seen') = ws /\ Ending(state', stack', ws)
      BY <1>2, <1>5, <2>1, <2>3
    <3> QED
      BY <1>2, <1>3, <1>4, <2>2, <3>1
  <2>4. CASE t.kind # "Comment" /\ ~(t.kind = "Break" /\ GoesOn(seen))
    <3>1. Words(seen') = Append(ws, t) /\ Ending(state', stack', Append(ws, t)) /\ Finished(ws, t) = {}
      BY <1>2, <2>1, <2>4
    <3> QED
      BY <1>2, <1>3, <1>4, <2>2, <3>1
  <2> QED
    BY <2>3, <2>4
<1>8. CASE Complete(t)
  <2>1. /\ Ending(state', stack', Append(ws, t))
        /\ Finished(ws, t) = {[what |-> Makes[state], texts |-> Append(Texts(Taken), t.text)]}
    BY <1>2, <1>5, <1>8, CompleteFinishes
  <2>2. t.kind # "Comment" /\ t.kind # "Break"
    BY <1>8 DEF Complete, Completes
  <2>3. graph' = graph \cup Declared(t) \cup {[what |-> Makes[state], texts |-> Append(Texts(Taken), t.text)]}
    BY <1>8 DEF Complete, Collect
  <2> QED
    BY <1>2, <1>3, <1>4, <2>1, <2>2, <2>3
<1> QED
  BY <1>6, <1>7, <1>8

\* The step of a token keeps Read.
LEMMA ParseRead ==
  ASSUME IInv, Read, NEW t \in NextToken, Parse(t)
  PROVE  Read'
<1>1. agent = "parsing" /\ Record(t) /\ TypeOK /\ t \in Token
  BY NextTokenType, TypeIsShaped DEF Parse, IInv
<1>2. answer # "graph" /\ answer' \in {answer, "fail"}
  BY <1>1 DEF Read, Parse, Unexpected, Shift, Move, Complete, StackProblem, Unreachable, ParseFrame
<1>3. answer' # "graph"
  BY <1>2
<1>4. CASE errors
  <2>1. errors' = TRUE
    BY <1>4 DEF Parse, Unexpected, Shift, Move, Complete, StackProblem, Unreachable
  <2> QED
    BY <1>3, <2>1 DEF Read, GraphIsMeaning
<1>5. CASE ~errors
  <2>1. CASE Unexpected(t) \/ StackProblem(t) \/ Unreachable(t)
    <3>1. errors' = TRUE \/ agent' # "parsing"
      BY <2>1 DEF Unexpected, StackProblem, Unreachable
    <3> QED
      BY <1>3, <3>1 DEF Read, GraphIsMeaning
  <2>2. CASE Shift(t) \/ Move(t) \/ Complete(t)
    <3>1. /\ Numbered(seen) /\ Ending(state, stack, Words(seen)) /\ graph = Meaning(seen)
          /\ state \in {"CompPortBind", "IMSGBind"} <=> GoesOn(seen)
      BY <1>1, <1>5 DEF Read
    <3>2. t.text = Len(seen) + 1
      BY <1>5 DEF NextToken
    <3>3. Numbered(seen') /\ Ending(state', stack', Words(seen')) /\ graph' = Meaning(seen')
      BY <1>1, <1>5, <2>2, <3>1, <3>2, MeaningNext
    <3>4. seen' = Append(seen, t)
      BY <1>1, <1>5 DEF Record
    <3>5. state' \in {"CompPortBind", "IMSGBind"} <=> GoesOn(seen')
      BY <1>1, <1>5, <2>2, <3>1, <3>2, <3>4, StateGoesOn
    <3> QED
      BY <1>3, <3>3, <3>5 DEF Read, GraphIsMeaning
  <2> QED
    BY <2>1, <2>2 DEF Parse
<1> QED
  BY <1>4, <1>5 DEF IInv, Types

\* Before its first token a file means nothing.
LEMMA FileStarts ==
  /\ Numbered(<<>>) /\ Ending("Break", <<>>, Words(<<>>)) /\ {} = Meaning(<<>>)
  /\ ~GoesOn(<<>>)
<1>1. Words(<<>>) = <<>> /\ Len(<<>>) = 0
  BY WordsEmpty
<1>2. Nodes(<<>>) = {} /\ Joins(<<>>) = {}
  <2>1. \A ks : Occurs(<<>>, ks) = {}
    BY DEF Occurs
  <2>2. \A w, ks, at : Means(w, <<>>, ks, at) = {}
    BY <2>1 DEF Means
  <2> QED
    BY <2>2 DEF Joins, Nodes
<1>3. Fresh(<<>>, 0)
  BY DEF Fresh
<1> QED
  BY <1>1, <1>2, <1>3 DEF Numbered, Ending, Meaning, GoesOn

\* The initial states have Read.
LEMMA InitRead == Init => Read
BY DEF Init, Read, GraphIsMeaning

\* Every step keeps Read.
LEMMA NextRead == IInv /\ Read /\ [Next]_vars => Read'
<1> SUFFICES ASSUME IInv, Read, [Next]_vars PROVE Read'
  OBVIOUS
<1>1. CASE TakeStart
  <2>1. seen' = <<>> /\ state' = "Break" /\ stack' = <<>> /\ graph' = {} /\ answer' = "none"
    BY <1>1 DEF TakeStart
  <2>2. Numbered(seen') /\ Ending(state', stack', Words(seen')) /\ graph' = Meaning(seen') /\ ~GoesOn(seen')
    BY <2>1, FileStarts
  <2> QED
    BY <2>1, <2>2 DEF Read, GraphIsMeaning
<1>2. CASE TakeToken
  <2>1. PICK t \in NextToken : Parse(t) \/ Ignore
    BY <1>2 DEF TakeToken
  <2>2. CASE Parse(t)
    BY <2>2, ParseRead
  <2>3. CASE Ignore
    BY <2>3 DEF Ignore, Read, GraphIsMeaning
  <2> QED
    BY <2>1, <2>2, <2>3
<1>3. CASE TakeEnd
  <2>1. UNCHANGED <<state, stack, graph, errors, seen>>
    BY <1>3 DEF TakeEnd
  <2>2. CASE agent = "parsing"
    <3>1. agent' = "waiting" /\ answer' = Answer
      BY <1>3, <2>2 DEF TakeEnd
    <3>2. answer' = "graph" => ~errors /\ graph = Meaning(seen)
      BY <2>2, <3>1 DEF Answer, Read
    <3> QED
      BY <2>1, <3>1, <3>2 DEF Read, GraphIsMeaning
  <2>3. CASE agent # "parsing"
    BY <1>3, <2>1, <2>3 DEF TakeEnd, Read, GraphIsMeaning
  <2> QED
    BY <2>2, <2>3
<1>4. CASE UNCHANGED vars
  BY <1>4 DEF vars, Read, GraphIsMeaning
<1> QED
  BY <1>1, <1>2, <1>3, <1>4 DEF Next

\* The graph that is sent for a file is the file's, however long the file is:
\* every statement of it and no other, with its own tokens.
THEOREM GraphSent == Spec => []GraphIsMeaning
<1>1. Read => GraphIsMeaning
  BY DEF Read
<1> QED
  BY InitIInv, NextIInv, InitRead, NextRead, <1>1, PTL DEF Spec

-----------------------------------------------------------------------------
(* Lines, and where the parser is in one.                                   *)

\* A flow may begin at place i: at once, or after an input or a message.
Starts(l, i) ==
  \/ i = 1
  \/ /\ i = 4 /\ Len(l) >= 3 /\ l[3] = "Port"
     /\ (l[1] = "Port" /\ l[2] = "External") \/ (l[1] = "IMsg" /\ l[2] = "Bind")

Follows(l, i, m) == \A j \in i..m : l[j] = Chain[((j - i) % 4) + 1]

\* The places from i to m follow the chain, and the line is p places into it.
Flows(l, i, p, m) == i <= Len(l) /\ Starts(l, i) /\ (Len(l) - i) % 4 = p /\ Follows(l, i, m)

\* The lines that lead to a state.
At(s, l) ==
  /\ s # "ErrorS"
  /\ s = "Break" => Len(l) = 0
  /\ s = "Port" => Len(l) = 1 /\ l[1] = "Port"
  /\ s = "PortExternal" => Len(l) = 2 /\ l[1] = "Port" /\ l[2] = "External"
  /\ s = "PortExternalPort" => Len(l) = 3 /\ l[1] = "Port" /\ l[2] = "External" /\ l[3] = "Port"
  /\ s = "IMSG" => Len(l) = 1 /\ l[1] = "IMsg"
  /\ s = "IMSGBind" => Len(l) = 2 /\ l[1] = "IMsg" /\ l[2] = "Bind"
  /\ s = "IMSGBindPort" => Len(l) = 3 /\ l[1] = "IMsg" /\ l[2] = "Bind" /\ l[3] = "Port"
  /\ s = "Compo" => \E i \in {1, 4} : Flows(l, i, 0, Len(l))
  /\ s = "CompPort" => \E i \in {1, 4} : Flows(l, i, 1, Len(l))
  /\ s = "CompPortBind" => \E i \in {1, 4} : Flows(l, i, 2, Len(l))
  /\ s = "CompPortBindPort" => \E i \in {1, 4} : Flows(l, i, 3, Len(l))
  /\ s = "CompPortExternal" =>
       l[Len(l)] = "External" /\ \E i \in {1, 4} : Flows(l, i, 2, Len(l) - 1)
  /\ s = "CompPortExternalPort" =>
       /\ l[Len(l) - 1] = "External" /\ l[Len(l)] = "Port"
       /\ \E i \in {1, 4} : Flows(l, i, 3, Len(l) - 2)

\* The chain, written out.
LEMMA ChainIs == Chain[1] = "Comp" /\ Chain[2] = "Port" /\ Chain[3] = "Bind" /\ Chain[4] = "Port"
BY DEF Chain

\* A place further, modulo four.
LEMMA NextOfFour ==
  ASSUME NEW n \in Nat
  PROVE  n % 4 \in 0..3 /\ (n + 1) % 4 = IF n % 4 = 3 THEN 0 ELSE (n % 4) + 1
OBVIOUS

\* us is l and one more kind: what that says of a flow that begins at i.
Extends(l, k, us, i) ==
  /\ us \in Seq(Kinds) /\ Len(us) = Len(l) + 1 /\ us[Len(l) + 1] = k /\ Len(l) \in Nat
  /\ \A j \in 1..Len(l) : us[j] = l[j]
  /\ i <= Len(l) => (Starts(us, i) <=> Starts(l, i))
  /\ Follows(us, i, Len(l)) <=> Follows(l, i, Len(l))
  /\ Follows(us, i, Len(l) - 1) <=> Follows(l, i, Len(l) - 1)
  /\ i <= Len(us) =>
       (Follows(us, i, Len(us)) <=>
          Follows(l, i, Len(l)) /\ k = Chain[((Len(us) - i) % 4) + 1])

\* A line and one more kind, as far as a flow goes.
LEMMA FlowsNext ==
  ASSUME NEW l \in Seq(Kinds), NEW k \in Kinds, NEW i \in {1, 4}
  PROVE  Extends(l, k, Append(l, k), i)
<1> DEFINE us == Append(l, k)
<1>1. /\ us \in Seq(Kinds) /\ Len(us) = Len(l) + 1 /\ us[Len(l) + 1] = k /\ Len(l) \in Nat
      /\ \A j \in 1..Len(l) : us[j] = l[j]
  OBVIOUS
<1> HIDE DEF us
<1>2. i <= Len(l) => (Starts(us, i) <=> Starts(l, i))
  <2>1. CASE i = 1
    BY <2>1 DEF Starts
  <2>2. ASSUME i = 4, i <= Len(l) PROVE Starts(us, i) <=> Starts(l, i)
    <3>1. us[1] = l[1] /\ us[2] = l[2] /\ us[3] = l[3] /\ Len(us) >= 3 /\ Len(l) >= 3
      BY <1>1, <2>2
    <3> QED
      BY <2>2, <3>1 DEF Starts
  <2> QED
    BY <2>1, <2>2
<1>3. \A m \in {Len(l), Len(l) - 1} : Follows(us, i, m) <=> Follows(l, i, m)
  <2> TAKE m \in {Len(l), Len(l) - 1}
  <2>1. \A j \in i..m : us[j] = l[j]
    <3>1. \A j \in i..m : j \in 1..Len(l)
      BY <1>1
    <3> QED
      BY <1>1, <3>1
  <2> QED
    BY <2>1 DEF Follows
<1>4. ASSUME i <= Len(us)
      PROVE  Follows(us, i, Len(us)) <=>
               Follows(l, i, Len(l)) /\ k = Chain[((Len(us) - i) % 4) + 1]
  <2>1. \A j : j \in i..Len(us) <=> j \in i..Len(l) \/ j = Len(us)
    BY <1>1, <1>4
  <2>2. Follows(us, i, Len(us)) <=> Follows(us, i, Len(l)) /\ us[Len(us)] = Chain[((Len(us) - i) % 4) + 1]
    BY <2>1 DEF Follows
  <2> QED
    BY <1>1, <1>3, <2>2
<1> QED
  BY <1>1, <1>2, <1>3, <1>4 DEF Extends, us

Further(p) == IF p = 3 THEN 0 ELSE p + 1

\* The last kind of a flow, and what is before it.
StepsOn(l, k, us, i, p) ==
  i <= Len(l) =>
    /\ Flows(us, i, Further(p), Len(us)) <=> Flows(l, i, p, Len(l)) /\ k = Chain[Further(p) + 1]
    /\ Flows(us, i, Further(p), Len(us) - 1) <=> Flows(l, i, p, Len(l))
    /\ Flows(us, i, Further(p), Len(us) - 2) <=> Flows(l, i, p, Len(l) - 1)

\* One more kind is one place further in the flow.
LEMMA FlowsStep ==
  ASSUME NEW l \in Seq(Kinds), NEW k \in Kinds, NEW i \in {1, 4}, NEW p \in 0..3
  PROVE  StepsOn(l, k, Append(l, k), i, p)
<1> SUFFICES ASSUME NEW us, us = Append(l, k), i <= Len(l)
             PROVE  /\ Flows(us, i, Further(p), Len(us)) <=> Flows(l, i, p, Len(l)) /\ k = Chain[Further(p) + 1]
                    /\ Flows(us, i, Further(p), Len(us) - 1) <=> Flows(l, i, p, Len(l))
                    /\ Flows(us, i, Further(p), Len(us) - 2) <=> Flows(l, i, p, Len(l) - 1)
  BY DEF StepsOn
<1>0. Extends(l, k, us, i)
  BY FlowsNext
<1>1. /\ Len(us) = Len(l) + 1 /\ Len(l) \in Nat
      /\ Starts(us, i) <=> Starts(l, i)
      /\ Follows(us, i, Len(l)) <=> Follows(l, i, Len(l))
      /\ Follows(us, i, Len(l) - 1) <=> Follows(l, i, Len(l) - 1)
      /\ Follows(us, i, Len(us)) <=> Follows(l, i, Len(l)) /\ k = Chain[((Len(us) - i) % 4) + 1]
  <2>1. Len(us) = Len(l) + 1 /\ Len(l) \in Nat /\ i <= Len(us)
    BY <1>0 DEF Extends
  <2> QED
    BY <1>0, <2>1 DEF Extends
<1>2. Len(us) - 1 = Len(l) /\ Len(us) - 2 = Len(l) - 1 /\ i <= Len(us)
  BY <1>1
<1>3. (Len(us) - i) % 4 = Further(p) <=> (Len(l) - i) % 4 = p
  <2>1. PICK n \in Nat : n = Len(l) - i
    BY <1>1
  <2>2. Len(us) - i = n + 1
    BY <1>1, <2>1
  <2> QED
    BY <2>1, <2>2, NextOfFour DEF Further
<1> QED
  BY <1>1, <1>2, <1>3 DEF Flows

\* A flow that begins with the last kind.
Begins(l, k, us, i, p) ==
  /\ Flows(us, i, p, Len(us)) <=>
       /\ k = "Comp" /\ p = 0
       /\ At("Break", l) \/ At("PortExternalPort", l) \/ At("IMSGBindPort", l)
  /\ p # 0 => \A m : ~Flows(us, i, p, m)

\* Only a Comp begins a flow, in a state that expects one.
LEMMA FlowsBegin ==
  ASSUME NEW l \in Seq(Kinds), NEW k \in Kinds, NEW i \in {1, 4}, NEW p \in 0..3, i = Len(l) + 1
  PROVE  Begins(l, k, Append(l, k), i, p)
<1> SUFFICES ASSUME NEW us, us = Append(l, k) PROVE Begins(l, k, us, i, p)
  OBVIOUS
<1>0. Extends(l, k, us, i)
  BY FlowsNext
<1>1. /\ Len(us) = Len(l) + 1 /\ Len(l) \in Nat /\ i = Len(us) /\ i <= Len(us) /\ us[Len(l) + 1] = k
      /\ \A j \in 1..Len(l) : us[j] = l[j]
      /\ Follows(us, i, Len(us)) <=> Follows(l, i, Len(l)) /\ k = Chain[((Len(us) - i) % 4) + 1]
  <2>1. Len(us) = Len(l) + 1 /\ Len(l) \in Nat /\ i <= Len(us) /\ i = Len(us)
    BY <1>0 DEF Extends
  <2> QED
    BY <1>0, <2>1 DEF Extends
<1>2. (Len(us) - i) % 4 = 0
  BY <1>1
<1>3. Follows(us, i, Len(us)) <=> k = "Comp"
  <2>1. Follows(l, i, Len(l))
    BY <1>1 DEF Follows
  <2> QED
    BY <1>1, <1>2, <2>1, ChainIs
<1>4. Starts(us, i) <=> At("Break", l) \/ At("PortExternalPort", l) \/ At("IMSGBindPort", l)
  <2>1. CASE i = 1
    BY <1>1, <2>1 DEF Starts, At
  <2>2. CASE i = 4
    <3>0. Len(l) = 3
      <4>1. PICK m \in Nat : m = Len(l) /\ i = m + 1
        OBVIOUS
      <4>2. m = 3
        BY <2>2, <4>1
      <4> QED
        BY <4>1, <4>2
    <3>1. us[1] = l[1] /\ us[2] = l[2] /\ us[3] = l[3] /\ Len(l) = 3
      BY <1>1, <3>0
    <3> QED
      BY <1>1, <2>2, <3>1 DEF Starts, At
  <2> QED
    BY <2>1, <2>2
<1> QED
  BY <1>1, <1>2, <1>3, <1>4 DEF Flows, Begins

\* A state and one more kind: the line leads to the next state.
LEMMA AtNext ==
  ASSUME NEW l \in Seq(Kinds), NEW k \in Kinds \ {"Break", "Comment"},
         NEW s \in DOMAIN Moves[k], At(s, l)
  PROVE  At(Moves[k][s], Append(l, k))
<1> DEFINE us == Append(l, k)
           n == Moves[k][s]
<1>1. s # "ErrorS"
  BY DEF At
<1>2. \/ k = "Bind" /\ <<s, n>> \in {<<"CompPort", "CompPortBind">>, <<"IMSG", "IMSGBind">>}
      \/ k = "External" /\ <<s, n>> \in {<<"CompPort", "CompPortExternal">>,
                                         <<"Port", "PortExternal">>}
      \/ k = "Port" /\ <<s, n>> \in {<<"Compo", "CompPort">>,
           <<"CompPortBind", "CompPortBindPort">>,
           <<"CompPortExternal", "CompPortExternalPort">>, <<"Break", "Port">>,
           <<"PortExternal", "PortExternalPort">>, <<"IMSGBind", "IMSGBindPort">>}
      \/ k = "Comp" /\ n = "Compo" /\ s \in {"CompPortBindPort", "PortExternalPort",
                                             "IMSGBindPort", "Break"}
      \/ k = "IMsg" /\ <<s, n>> = <<"Break", "IMSG">>
  BY <1>1, MovesAre
<1>3. /\ us \in Seq(Kinds) /\ Len(us) = Len(l) + 1 /\ us[Len(l) + 1] = k /\ Len(l) \in Nat
      /\ \A j \in 1..Len(l) : us[j] = l[j]
  OBVIOUS
<1>4. PICK u : u = us
  OBVIOUS
<1> SUFFICES At(n, u)
  BY <1>4
<1> HIDE DEF us, n
<1>5. \A i \in {1, 4} : \A p \in 0..3 : i <= Len(l) =>
        /\ Flows(u, i, Further(p), Len(u)) <=> Flows(l, i, p, Len(l)) /\ k = Chain[Further(p) + 1]
        /\ Flows(u, i, Further(p), Len(u) - 1) <=> Flows(l, i, p, Len(l))
        /\ Flows(u, i, Further(p), Len(u) - 2) <=> Flows(l, i, p, Len(l) - 1)
  <2> TAKE i \in {1, 4}
  <2> TAKE p \in 0..3
  <2>1. StepsOn(l, k, us, i, p)
    BY ONLY l \in Seq(Kinds), k \in Kinds, i \in {1, 4}, p \in 0..3, FlowsStep DEF us
  <2> QED
    BY <1>4, <2>1 DEF StepsOn
<1>6. Further(0) = 1 /\ Further(1) = 2 /\ Further(2) = 3 /\ Further(3) = 0
  BY DEF Further
<1>7. \A i, p, m : Flows(l, i, p, m) => i <= Len(l)
  BY DEF Flows
<1>8. CASE s = "Compo"
  <2>1. k = "Port" /\ n = "CompPort"
    BY <1>2, <1>8
  <2>2. PICK i \in {1, 4} : Flows(l, i, 0, Len(l))
    BY <1>8 DEF At
  <2>3. Flows(u, i, Further(0), Len(u))
    BY <1>5, <1>6, <1>7, <2>1, <2>2, ChainIs
  <2> QED
    BY <1>4, <1>6, <2>1, <2>3 DEF At
<1>9. CASE s = "CompPort"
  <2>1. (k = "Bind" /\ n = "CompPortBind") \/ (k = "External" /\ n = "CompPortExternal")
    BY <1>2, <1>9
  <2>2. PICK i \in {1, 4} : Flows(l, i, 1, Len(l))
    BY <1>9 DEF At
  <2>3. /\ k = "Bind" => Flows(u, i, Further(1), Len(u))
        /\ Flows(u, i, Further(1), Len(u) - 1)
    BY <1>5, <1>6, <1>7, <2>1, <2>2, ChainIs
  <2> QED
    BY <1>3, <1>4, <1>6, <2>1, <2>3 DEF At
<1>10. CASE s = "CompPortBind"
  <2>1. k = "Port" /\ n = "CompPortBindPort"
    BY <1>2, <1>10
  <2>2. PICK i \in {1, 4} : Flows(l, i, 2, Len(l))
    BY <1>10 DEF At
  <2>3. Flows(u, i, Further(2), Len(u))
    BY <1>5, <1>6, <1>7, <2>1, <2>2, ChainIs
  <2> QED
    BY <1>4, <1>6, <2>1, <2>3 DEF At
<1>11. CASE s = "CompPortBindPort"
  <2>1. k = "Comp" /\ n = "Compo"
    BY <1>2, <1>11
  <2>2. PICK i \in {1, 4} : Flows(l, i, 3, Len(l))
    BY <1>11 DEF At
  <2>3. Flows(u, i, Further(3), Len(u))
    BY <1>5, <1>6, <1>7, <2>1, <2>2, ChainIs
  <2> QED
    BY <1>4, <1>6, <2>1, <2>3 DEF At
<1>12. CASE s = "CompPortExternal"
  <2>1. k = "Port" /\ n = "CompPortExternalPort"
    BY <1>2, <1>12
  <2>2. PICK i \in {1, 4} : Flows(l, i, 2, Len(l) - 1)
    BY <1>12 DEF At
  <2>3. Flows(u, i, Further(2), Len(u) - 2) /\ i <= Len(l)
    BY <1>5, <1>6, <1>7, <2>1, <2>2
  <2>4. Len(l) \in 1..Len(l) /\ Len(u) - 1 = Len(l)
    BY <1>3, <1>4, <2>3
  <2>5. u[Len(u) - 1] = "External" /\ u[Len(u)] = "Port"
    BY <1>3, <1>4, <1>12, <2>1, <2>4 DEF At
  <2> QED
    BY <1>4, <1>6, <2>1, <2>3, <2>5 DEF At
<1>13. CASE s \in {"Break", "Port", "PortExternal", "IMSG", "IMSGBind"} /\ k # "Comp"
  <2>1. /\ 1 <= Len(l) => us[1] = l[1]
        /\ 2 <= Len(l) => us[2] = l[2]
    BY <1>3
  <2>2. CASE s = "Break"
    BY <1>2, <1>3, <1>4, <1>13, <2>2 DEF At
  <2>3. CASE s \in {"Port", "IMSG"}
    <3>1. Len(l) = 1 /\ Len(u) = 2 /\ u[2] = k /\ u[1] = l[1]
      BY <1>3, <1>4, <2>1, <2>3 DEF At
    <3> QED
      BY <1>2, <2>3, <3>1 DEF At
  <2>4. CASE s \in {"PortExternal", "IMSGBind"}
    <3>1. Len(l) = 2 /\ Len(u) = 3 /\ u[3] = k /\ u[1] = l[1] /\ u[2] = l[2]
      BY <1>3, <1>4, <2>1, <2>4 DEF At
    <3> QED
      BY <1>2, <2>4, <3>1 DEF At
  <2> QED
    BY <1>13, <2>2, <2>3, <2>4
<1>14. CASE s \in {"Break", "PortExternalPort", "IMSGBindPort"} /\ k = "Comp"
  <2>1. n = "Compo" /\ Len(l) \in {0, 3}
    <3>1. s \in {"Break", "PortExternalPort", "IMSGBindPort"} => Len(l) \in {0, 3}
      BY DEF At
    <3> QED
      BY <1>2, <1>14, <3>1
  <2>2. PICK i \in {1, 4} : i = Len(l) + 1
    <3>1. PICK m \in {0, 3} : m = Len(l)
      BY <2>1
    <3>2. m + 1 \in {1, 4}
      OBVIOUS
    <3> QED
      BY <3>1, <3>2
  <2>3. Begins(l, k, us, i, 0)
    BY ONLY <2>2, l \in Seq(Kinds), k \in Kinds, i \in {1, 4}, FlowsBegin DEF us
  <2>4. Flows(u, i, 0, Len(u))
    BY <1>4, <1>14, <2>3 DEF Begins
  <2> QED
    BY <1>4, <2>1, <2>4 DEF At
<1>15. s \in {"Compo", "CompPort", "CompPortBind", "CompPortBindPort", "CompPortExternal"}
       \/ (s \in {"Break", "Port", "PortExternal", "IMSG", "IMSGBind"} /\ k # "Comp")
       \/ (s \in {"Break", "PortExternalPort", "IMSGBindPort"} /\ k = "Comp")
  BY <1>2
<1> QED
  BY <1>8, <1>9, <1>10, <1>11, <1>12, <1>13, <1>14, <1>15 DEF us, n

\* Which kinds the states expect.
LEMMA MovesHave ==
  /\ {"CompPort", "IMSG"} \subseteq DOMAIN Moves["Bind"]
  /\ {"CompPort", "Port"} \subseteq DOMAIN Moves["External"]
  /\ {"Compo", "CompPortBind", "CompPortExternal", "Break", "PortExternal", "IMSGBind"} \subseteq DOMAIN Moves["Port"]
  /\ {"CompPortBindPort", "PortExternalPort", "IMSGBindPort", "Break"} \subseteq DOMAIN Moves["Comp"]
  /\ "Break" \in DOMAIN Moves["IMsg"]
<1>1. {"CompPort", "IMSG"} \subseteq DOMAIN Moves["Bind"]
  BY DEF Moves
<1>2. {"CompPort", "Port"} \subseteq DOMAIN Moves["External"]
  BY DEF Moves
<1>3. {"Compo", "CompPortBind", "CompPortExternal", "Break", "PortExternal", "IMSGBind"} \subseteq DOMAIN Moves["Port"]
  BY DEF Moves
<1>4. {"CompPortBindPort", "PortExternalPort", "IMSGBindPort", "Break"} \subseteq DOMAIN Moves["Comp"]
  BY DEF Moves
<1>5. "Break" \in DOMAIN Moves["IMsg"]
  BY DEF Moves
<1> QED
  BY <1>1, <1>2, <1>3, <1>4, <1>5

\* The line leads to a state that expects k.
Led(l, k) == \E s \in States \ {"ErrorS"} : s \in DOMAIN Moves[k] /\ At(s, l)

\* A state that a line leads to was led to by what is before its last kind.
LEMMA AtBefore ==
  ASSUME NEW l \in Seq(Kinds), NEW k \in Kinds, NEW s \in States, At(s, Append(l, k))
  PROVE  Led(l, k)
<1> DEFINE us == Append(l, k)
<1>3. /\ us \in Seq(Kinds) /\ Len(us) = Len(l) + 1 /\ us[Len(l) + 1] = k /\ Len(l) \in Nat
      /\ \A j \in 1..Len(l) : us[j] = l[j]
  OBVIOUS
<1>4. PICK u : u = us
  OBVIOUS
<1>5. At(s, u)
  BY <1>4
<1> HIDE DEF us
<1>6. \A i \in {1, 4} : \A p \in 0..3 : i <= Len(l) =>
        /\ Flows(u, i, Further(p), Len(u)) <=> Flows(l, i, p, Len(l)) /\ k = Chain[Further(p) + 1]
        /\ Flows(u, i, Further(p), Len(u) - 1) <=> Flows(l, i, p, Len(l))
        /\ Flows(u, i, Further(p), Len(u) - 2) <=> Flows(l, i, p, Len(l) - 1)
  <2> TAKE i \in {1, 4}
  <2> TAKE p \in 0..3
  <2>1. StepsOn(l, k, us, i, p)
    BY ONLY l \in Seq(Kinds), k \in Kinds, i \in {1, 4}, p \in 0..3, FlowsStep DEF us
  <2> QED
    BY <1>4, <2>1 DEF StepsOn
<1>7. \A i \in {1, 4} : \A p \in 0..3 : i = Len(l) + 1 =>
        /\ Flows(u, i, p, Len(u)) <=>
             /\ k = "Comp" /\ p = 0
             /\ At("Break", l) \/ At("PortExternalPort", l) \/ At("IMSGBindPort", l)
        /\ p # 0 => \A m : ~Flows(u, i, p, m)
  <2> TAKE i \in {1, 4}
  <2> TAKE p \in 0..3
  <2> HAVE i = Len(l) + 1
  <2>1. Begins(l, k, us, i, p)
    BY ONLY l \in Seq(Kinds), k \in Kinds, i \in {1, 4}, p \in 0..3, i = Len(l) + 1, FlowsBegin DEF us
  <2> QED
    BY <1>4, <2>1 DEF Begins
<1>8. \A i \in {1, 4} : \A p, m : Flows(u, i, p, m) => i <= Len(l) \/ i = Len(l) + 1
  BY <1>3, <1>4 DEF Flows
<1>9. Further(0) = 1 /\ Further(1) = 2 /\ Further(2) = 3 /\ Further(3) = 0
  BY DEF Further
<1>10. CASE s = "Compo"
  <2>1. PICK i \in {1, 4} : Flows(u, i, 0, Len(u))
    BY <1>5, <1>10 DEF At
  <2>2. CASE i <= Len(l)
    <3>1. Flows(l, i, 3, Len(l)) /\ k = "Comp"
      BY <1>6, <1>9, <2>1, <2>2, ChainIs
    <3>2. At("CompPortBindPort", l)
      BY <3>1 DEF At
    <3> QED
      BY <3>1, <3>2, MovesHave DEF Led, States
  <2>3. CASE i = Len(l) + 1
    <3>1. k = "Comp" /\ (At("Break", l) \/ At("PortExternalPort", l) \/ At("IMSGBindPort", l))
      BY <1>7, <2>1, <2>3
    <3> QED
      BY <3>1, MovesHave DEF Led, States
  <2> QED
    BY <1>8, <2>1, <2>2, <2>3
<1>11. CASE s = "CompPort"
  <2>1. PICK i \in {1, 4} : Flows(u, i, 1, Len(u))
    BY <1>5, <1>11 DEF At
  <2>2. i <= Len(l)
    BY <1>7, <1>8, <2>1
  <2>3. Flows(l, i, 0, Len(l)) /\ k = "Port"
    BY <1>6, <1>9, <2>1, <2>2, ChainIs
  <2>4. At("Compo", l)
    BY <2>3 DEF At
  <2> QED
    BY <2>3, <2>4, MovesHave DEF Led, States
<1>12. CASE s = "CompPortBind"
  <2>1. PICK i \in {1, 4} : Flows(u, i, 2, Len(u))
    BY <1>5, <1>12 DEF At
  <2>2. i <= Len(l)
    BY <1>7, <1>8, <2>1
  <2>3. Flows(l, i, 1, Len(l)) /\ k = "Bind"
    BY <1>6, <1>9, <2>1, <2>2, ChainIs
  <2>4. At("CompPort", l)
    BY <2>3 DEF At
  <2> QED
    BY <2>3, <2>4, MovesHave DEF Led, States
<1>13. CASE s = "CompPortBindPort"
  <2>1. PICK i \in {1, 4} : Flows(u, i, 3, Len(u))
    BY <1>5, <1>13 DEF At
  <2>2. i <= Len(l)
    BY <1>7, <1>8, <2>1
  <2>3. Flows(l, i, 2, Len(l)) /\ k = "Port"
    BY <1>6, <1>9, <2>1, <2>2, ChainIs
  <2>4. At("CompPortBind", l)
    BY <2>3 DEF At
  <2> QED
    BY <2>3, <2>4, MovesHave DEF Led, States
<1>14. CASE s = "CompPortExternal"
  <2>1. PICK i \in {1, 4} : Flows(u, i, 2, Len(u) - 1)
    BY <1>5, <1>14 DEF At
  <2>2. i <= Len(l)
    BY <1>7, <1>8, <2>1
  <2>3. Flows(l, i, 1, Len(l)) /\ k = "External"
    BY <1>3, <1>4, <1>5, <1>6, <1>9, <1>14, <2>1, <2>2 DEF At
  <2>4. At("CompPort", l)
    BY <2>3 DEF At
  <2> QED
    BY <2>3, <2>4, MovesHave DEF Led, States
<1>15. CASE s = "CompPortExternalPort"
  <2>1. PICK i \in {1, 4} : Flows(u, i, 3, Len(u) - 2)
    BY <1>5, <1>15 DEF At
  <2>2. i <= Len(l)
    BY <1>7, <1>8, <2>1
  <2>3. Flows(l, i, 2, Len(l) - 1)
    BY <1>6, <1>9, <2>1, <2>2
  <2>4. k = "Port" /\ u[Len(l)] = "External" /\ Len(l) \in 1..Len(l)
    <3>1. Len(l) \in 1..Len(l) /\ Len(u) - 1 = Len(l)
      BY <1>3, <1>4, <2>2
    <3> QED
      BY <1>3, <1>4, <1>5, <1>15, <3>1 DEF At
  <2>5. At("CompPortExternal", l)
    BY <1>3, <1>4, <2>3, <2>4 DEF At
  <2> QED
    BY <2>4, <2>5, MovesHave DEF Led, States
<1>16. CASE s \in {"Port", "IMSG"}
  <2>1. Len(l) = 0 /\ k = u[1]
    BY <1>3, <1>4, <1>5, <1>16 DEF At
  <2>2. At("Break", l) /\ k \in {"Port", "IMsg"}
    BY <1>5, <1>16, <2>1 DEF At
  <2> QED
    BY <2>2, MovesHave DEF Led, States
<1>17. CASE s \in {"PortExternal", "IMSGBind"}
  <2>1. Len(l) = 1 /\ k = u[2] /\ l[1] = u[1]
    <3>1. Len(u) = 2
      BY <1>5, <1>17 DEF At
    <3>2. Len(l) = 1
      <4>1. PICK n \in Nat : n = Len(l)
        BY <1>3
      <4>2. n + 1 = 2
        BY <1>3, <1>4, <3>1, <4>1
      <4> QED
        BY <4>1, <4>2
    <3> QED
      BY <1>3, <1>4, <3>2
  <2>2. (At("Port", l) /\ k = "External") \/ (At("IMSG", l) /\ k = "Bind")
    BY <1>5, <1>17, <2>1 DEF At
  <2> QED
    BY <2>2, MovesHave DEF Led, States
<1>18. CASE s \in {"PortExternalPort", "IMSGBindPort"}
  <2>1. Len(l) = 2 /\ k = u[3] /\ l[1] = u[1] /\ l[2] = u[2]
    <3>1. Len(u) = 3
      BY <1>5, <1>18 DEF At
    <3>2. Len(l) = 2
      <4>1. PICK n \in Nat : n = Len(l)
        BY <1>3
      <4>2. n + 1 = 3
        BY <1>3, <1>4, <3>1, <4>1
      <4> QED
        BY <4>1, <4>2
    <3> QED
      BY <1>3, <1>4, <3>2
  <2>2. k = "Port" /\ (At("PortExternal", l) \/ At("IMSGBind", l))
    BY <1>5, <1>18, <2>1 DEF At
  <2> QED
    BY <2>2, MovesHave DEF Led, States
<1>19. s # "Break" /\ s # "ErrorS"
  BY <1>3, <1>4, <1>5 DEF At
<1> QED
  BY <1>10, <1>11, <1>12, <1>13, <1>14, <1>15, <1>16, <1>17, <1>18, <1>19 DEF States

-----------------------------------------------------------------------------
FlowStates == {"Compo", "CompPort", "CompPortBind", "CompPortBindPort", "CompPortExternal", "CompPortExternalPort"}

PhaseOf(s) ==
  CASE s = "Compo" -> 0
    [] s = "CompPort" -> 1
    [] s \in {"CompPortBind", "CompPortExternal"} -> 2
    [] s \in {"CompPortBindPort", "CompPortExternalPort"} -> 3

\* What tells a flow's state.
Flowing(s, l, i) ==
  /\ i <= Len(l) /\ (Len(l) - i) % 4 = PhaseOf(s)
  /\ i = 1 <=> l[1] = "Comp"
  /\ s = "CompPortBind" => l[Len(l)] = "Bind"
  /\ s = "CompPortExternal" => l[Len(l)] = "External"
  /\ s = "CompPortBindPort" => l[Len(l) - 1] = "Bind"
  /\ s = "CompPortExternalPort" => l[Len(l) - 1] = "External"

\* A flow that begins the line begins it with a Comp.
LEMMA FlowBegins ==
  ASSUME NEW l \in Seq(Kinds), NEW i \in {1, 4}, NEW p, NEW m \in Nat, Flows(l, i, p, m), i <= m
  PROVE  i = 1 <=> l[1] = "Comp"
<1>1. CASE i = 1
  <2>1. 1 \in i..m /\ (1 - i) % 4 = 0
    BY <1>1
  <2> QED
    BY <1>1, <2>1, ChainIs DEF Flows, Follows
<1>2. CASE i = 4
  BY <1>2 DEF Flows, Starts
<1> QED
  BY <1>1, <1>2

\* A state in a flow has a place where the flow begins.
LEMMA AtFlows ==
  ASSUME NEW l \in Seq(Kinds), NEW s \in FlowStates, At(s, l)
  PROVE  \E i \in {1, 4} : Flowing(s, l, i)
<1> DEFINE m == CASE s = "CompPortExternal" -> Len(l) - 1
                  [] s = "CompPortExternalPort" -> Len(l) - 2
                  [] OTHER -> Len(l)
<1>1. PICK i \in {1, 4} : Flows(l, i, PhaseOf(s), m)
  BY DEF At, FlowStates, PhaseOf
<1>2. PhaseOf(s) \in 0..3
  BY DEF PhaseOf, FlowStates
<1>3. PICK n \in Nat : n = Len(l)
  OBVIOUS
<1>4. i <= n /\ (n - i) % 4 = PhaseOf(s)
  BY <1>1, <1>3 DEF Flows
<1>5. n - i >= PhaseOf(s)
  BY <1>2, <1>4
<1>6. m \in Nat /\ i <= m
  <2>1. CASE s = "CompPortExternal"
    <3>1. PhaseOf(s) = 2
      BY <2>1 DEF PhaseOf
    <3> QED
      BY <1>3, <1>5, <2>1, <3>1
  <2>2. CASE s = "CompPortExternalPort"
    <3>1. PhaseOf(s) = 3
      BY <2>2 DEF PhaseOf
    <3> QED
      BY <1>3, <1>5, <2>2, <3>1
  <2>3. CASE s \notin {"CompPortExternal", "CompPortExternalPort"}
    BY <1>3, <1>4, <2>3
  <2> QED
    BY <2>1, <2>2, <2>3
<1>7. i = 1 <=> l[1] = "Comp"
  <2> HIDE DEF m
  <2> QED
    BY <1>1, <1>6, FlowBegins
<1>8. s = "CompPortBind" => l[Len(l)] = "Bind"
  <2> SUFFICES ASSUME s = "CompPortBind" PROVE l[n] = "Bind"
    BY <1>3
  <2>1. n \in i..n /\ (n - i) % 4 = 2
    BY <1>4 DEF PhaseOf
  <2> QED
    BY <1>1, <1>3, <2>1, ChainIs DEF Flows, Follows
<1>9. s = "CompPortBindPort" => l[Len(l) - 1] = "Bind"
  <2> SUFFICES ASSUME s = "CompPortBindPort" PROVE l[n - 1] = "Bind"
    BY <1>3
  <2>0. PhaseOf(s) = 3
    BY DEF PhaseOf
  <2>1. n - 1 \in i..n /\ ((n - 1) - i) % 4 = 2
    BY <1>4, <1>5, <2>0
  <2> QED
    BY <1>1, <1>3, <2>1, ChainIs DEF Flows, Follows
<1>10. /\ s = "CompPortExternal" => l[Len(l)] = "External"
       /\ s = "CompPortExternalPort" => l[Len(l) - 1] = "External"
  BY DEF At
<1> QED
  BY <1>3, <1>4, <1>7, <1>8, <1>9, <1>10 DEF Flowing

\* No line leads to two states.
LEMMA AtOne ==
  ASSUME NEW l \in Seq(Kinds), NEW s \in States, NEW r \in States, At(s, l), At(r, l)
  PROVE  s = r
<1>1. Len(l) \in Nat
  OBVIOUS
<1>2. CASE s \in FlowStates /\ r \in FlowStates
  <2>1. PICK i \in {1, 4} : Flowing(s, l, i)
    BY <1>2, AtFlows
  <2>2. PICK j \in {1, 4} : Flowing(r, l, j)
    BY <1>2, AtFlows
  <2>3. i = j
    BY <2>1, <2>2 DEF Flowing
  <2>4. PhaseOf(s) = PhaseOf(r)
    BY <2>1, <2>2, <2>3 DEF Flowing
  <2> QED
    BY <1>2, <2>1, <2>2, <2>4 DEF Flowing, FlowStates, PhaseOf
<1>3. ASSUME NEW x \in States, NEW y \in States, At(x, l), At(y, l), x \in FlowStates
      PROVE  y \in FlowStates
  <2>1. PICK i \in {1, 4} : Flowing(x, l, i)
    BY <1>3, AtFlows
  <2>2. i <= Len(l) /\ (i = 1 <=> l[1] = "Comp")
    BY <2>1 DEF Flowing
  <2>3. PICK n \in Nat : n = Len(l)
    OBVIOUS
  <2>4. n \in {0, 1, 2, 3} => n # 0 /\ l[1] = "Comp"
    BY <2>2, <2>3
  <2>5. y \notin FlowStates => n \in {0, 1, 2, 3} /\ (n = 0 \/ l[1] # "Comp")
    BY <1>3, <2>3 DEF At, FlowStates, States
  <2> QED
    BY <2>4, <2>5
<1>4. CASE s \notin FlowStates /\ r \notin FlowStates
  BY <1>1, <1>4 DEF At, FlowStates, States
<1> QED
  BY <1>2, <1>3, <1>4

\* A line that is whole leads to one of three states.
Whole(l) == At("Break", l) \/ At("Compo", l) \/ At("CompPortExternalPort", l)

\* IsChain says what Follows says.
LEMMA ChainFlows ==
  ASSUME NEW l \in Seq(Kinds), NEW i \in {1, 4}, NEW m \in Nat
  PROVE  IsChain(l, i) <=> (Len(l) - i) % 4 = 0 /\ i <= Len(l) /\ Follows(l, i, Len(l))
BY DEF IsChain, Follows

\* The first and the last three of a line.
LEMMA ThreeOf ==
  ASSUME NEW l \in Seq(Kinds), Len(l) >= 3
  PROVE  /\ SubSeq(l, 1, 3) = Outward <=> l[1] = "Port" /\ l[2] = "External" /\ l[3] = "Port"
         /\ SubSeq(l, 1, 3) = <<"IMsg", "Bind", "Port">> <=>
              l[1] = "IMsg" /\ l[2] = "Bind" /\ l[3] = "Port"
         /\ SubSeq(l, Len(l) - 2, Len(l)) = Outward <=>
              l[Len(l) - 2] = "Port" /\ l[Len(l) - 1] = "External" /\ l[Len(l)] = "Port"
<1>1. PICK n \in Nat : n = Len(l) /\ n >= 3
  OBVIOUS
<1>2. PICK a : a = SubSeq(l, 1, 3)
  OBVIOUS
<1>3. a \in Seq(Kinds) /\ Len(a) = 3 /\ a[1] = l[1] /\ a[2] = l[2] /\ a[3] = l[3]
  BY <1>1, <1>2
<1>4. PICK b : b = SubSeq(l, n - 2, n)
  OBVIOUS
<1>5. b \in Seq(Kinds) /\ Len(b) = 3 /\ b[1] = l[n - 2] /\ b[2] = l[n - 1] /\ b[3] = l[n]
  BY <1>1, <1>4
<1>6. \A x, y, z \in Kinds : \A c \in Seq(Kinds) : Len(c) = 3 =>
        (c = <<x, y, z>> <=> c[1] = x /\ c[2] = y /\ c[3] = z)
  OBVIOUS
<1>7. {"Port", "External", "IMsg", "Bind"} \subseteq Kinds
  BY DEF Kinds
<1>8. a = Outward <=> a[1] = "Port" /\ a[2] = "External" /\ a[3] = "Port"
  BY <1>3, <1>6, <1>7 DEF Outward
<1>9. b = Outward <=> b[1] = "Port" /\ b[2] = "External" /\ b[3] = "Port"
  BY <1>5, <1>6, <1>7 DEF Outward
<1>10. a = <<"IMsg", "Bind", "Port">> <=> a[1] = "IMsg" /\ a[2] = "Bind" /\ a[3] = "Port"
  BY <1>3, <1>6, <1>7
<1> QED
  BY <1>1, <1>2, <1>3, <1>4, <1>5, <1>8, <1>9, <1>10

\* A flow is a chain, or a chain and an output of the graph.
LEMMA FlowIs ==
  ASSUME NEW l \in Seq(Kinds), NEW i \in {1, 4}
  PROVE  IsFlow(l, i) /\ Starts(l, i) <=>
           \/ Flows(l, i, 0, Len(l))
           \/ /\ l[Len(l) - 1] = "External" /\ l[Len(l)] = "Port"
              /\ Flows(l, i, 3, Len(l) - 2)
<1> DEFINE n == Len(l)
           m == SubSeq(l, 1, n - 3)
<1>1. n \in Nat
  OBVIOUS
<1>2. IsChain(l, i) /\ Starts(l, i) <=> Flows(l, i, 0, n)
  BY ChainFlows DEF Flows
<1>3. ASSUME n - i >= 3
      PROVE  IsChain(m, i) /\ l[n - 2] = "Port" <=>
               i <= n /\ (n - i) % 4 = 3 /\ Follows(l, i, n - 2)
  <2>1. m \in Seq(Kinds) /\ Len(m) = n - 3 /\ \A j \in 1..(n - 3) : m[j] = l[j]
    BY <1>1, <1>3
  <2> HIDE DEF m
  <2>2. IsChain(m, i) <=> ((n - 3) - i) % 4 = 0 /\ i <= n - 3 /\ Follows(m, i, n - 3)
    BY <2>1, ChainFlows
  <2>3. Follows(m, i, n - 3) <=> Follows(l, i, n - 3)
    <3>1. \A j \in i..(n - 3) : j \in 1..(n - 3)
      BY <1>1
    <3> QED
      BY <2>1, <3>1 DEF Follows
  <2>4. PICK d \in Nat : d = n - 3 - i
    <3>1. n - 3 - i \in Nat
      BY <1>1, <1>3
    <3> QED
      BY <3>1
  <2>5. n - i = d + 3 /\ (n - 3) - i = d /\ (n - 2) - i = d + 1
    BY <1>1, <2>4
  <2>6. (d + 3) % 4 = 3 <=> d % 4 = 0
    BY <2>4
  <2>7. d % 4 = 0 => (d + 1) % 4 = 1
    BY <2>4
  <2>8. \A j : j \in i..(n - 2) <=> j \in i..(n - 3) \/ j = n - 2
    BY <1>1, <1>3
  <2>9. Follows(l, i, n - 2) <=> Follows(l, i, n - 3) /\ l[n - 2] = Chain[((n - 2 - i) % 4) + 1]
    BY <2>8 DEF Follows
  <2>10. d % 4 = 0 => Chain[((n - 2 - i) % 4) + 1] = "Port"
    BY <2>5, <2>7, ChainIs
  <2> HIDE DEF n
  <2>11. i <= n /\ i <= n - 3
    BY <1>1, <1>3
  <2> QED
    BY <2>2, <2>3, <2>5, <2>6, <2>9, <2>10, <2>11
<1>4. n - i >= 3 /\ SubSeq(l, n - 2, n) = Outward <=>
        n - i >= 3 /\ l[n - 2] = "Port" /\ l[n - 1] = "External" /\ l[n] = "Port"
  <2>1. n - i >= 3 => n >= 3
    BY <1>1
  <2> QED
    BY <2>1, ThreeOf
<1>5. i <= n /\ (n - i) % 4 = 3 => n - i >= 3
  BY <1>1
<1>6. IsFlow(l, i) <=> IsChain(l, i) \/ (n - i >= 3 /\ SubSeq(l, n - 2, n) = Outward /\ IsChain(m, i))
  BY DEF IsFlow
<1> HIDE DEF m, n
<1> QED
  BY <1>2, <1>3, <1>4, <1>5, <1>6 DEF Flows, n

\* A line is what leads to a state that expects its end.
LEMMA LineIsWhole ==
  ASSUME NEW l \in Seq(Kinds)
  PROVE  IsLine(l) <=> Whole(l)
<1>1. l = <<>> <=> At("Break", l)
  BY DEF At
<1>2. \A i \in {1, 4} : IsFlow(l, i) /\ Starts(l, i) <=>
           \/ Flows(l, i, 0, Len(l))
           \/ /\ l[Len(l) - 1] = "External" /\ l[Len(l)] = "Port"
              /\ Flows(l, i, 3, Len(l) - 2)
  BY FlowIs
<1>3. (\E i \in {1, 4} : IsFlow(l, i) /\ Starts(l, i)) <=>
        At("Compo", l) \/ At("CompPortExternalPort", l)
  BY <1>2 DEF At
<1>4. Starts(l, 1)
  BY DEF Starts
<1>5. IsFlow(l, 4) => Len(l) > 3
  <2>1. PICK n \in Nat : n = Len(l)
    OBVIOUS
  <2>2. IsFlow(l, 4) => 4 <= n \/ n - 4 >= 3
    BY <2>1 DEF IsFlow, IsChain
  <2>3. 4 <= n \/ n - 4 >= 3 => n > 3
    BY <2>1
  <2> QED
    BY <2>1, <2>2, <2>3
<1>6. Len(l) > 3 => (Starts(l, 4) <=> SubSeq(l, 1, 3) \in {Outward, <<"IMsg", "Bind", "Port">>})
  <2>1. Len(l) > 3 => Len(l) >= 3
    <3>1. Len(l) \in Nat
      OBVIOUS
    <3> QED
      BY <3>1
  <2> QED
    BY <2>1, ThreeOf DEF Starts
<1>7. IsLine(l) <=> l = <<>> \/ IsFlow(l, 1)
                     \/ (Len(l) > 3 /\ SubSeq(l, 1, 3) \in {Outward, <<"IMsg", "Bind", "Port">>} /\ IsFlow(l, 4))
  BY DEF IsLine
<1> QED
  BY <1>1, <1>3, <1>4, <1>5, <1>6, <1>7 DEF Whole

-----------------------------------------------------------------------------
\* Sequences of a few kinds, put after a line.
LEMMA ConcatFew ==
  ASSUME NEW l \in Seq(Kinds), NEW a \in Kinds, NEW b \in Kinds, NEW c \in Kinds
  PROVE  /\ l \o <<>> = l /\ l \o <<a>> = Append(l, a) /\ l \o <<a, b>> = Append(Append(l, a), b)
         /\ l \o <<a, b, c>> = Append(Append(Append(l, a), b), c)
OBVIOUS

\* The states that a line begun can be in.
Leads(l) == \E s \in States \ {"ErrorS"} : At(s, l)

\* What comes before the last kind leads to a state too.
LEMMA LedLeads ==
  ASSUME NEW l \in Seq(Kinds), NEW k \in Kinds, Leads(Append(l, k))
  PROVE  Leads(l)
BY AtBefore DEF Leads, Led

\* What some line begins with leads to a state.
LEMMA BegunLeads ==
  ASSUME NEW l \in Seq(Kinds), BeginsLine(l)
  PROVE  Leads(l)
<1>1. \A m \in Seq(Kinds) : IsLine(m) => Leads(m)
  BY LineIsWhole DEF Whole, Leads, States
<1>2. {"Comp", "Port", "Bind", "External"} \subseteq Kinds
  BY DEF Kinds
<1>3. \A m \in Seq(Kinds) : \A k \in Kinds : Append(m, k) \in Seq(Kinds)
  OBVIOUS
<1>4. \A m \in Seq(Kinds) : \A k \in Kinds : IsLine(Append(m, k)) => Leads(m)
  BY <1>1, <1>3, LedLeads
<1>5. \A k, j \in Kinds : IsLine(Append(Append(l, k), j)) => Leads(l)
  BY <1>3, <1>4, LedLeads
<1>6. \A k, j, i \in Kinds : IsLine(Append(Append(Append(l, k), j), i)) => Leads(l)
  BY <1>3, <1>4, LedLeads
<1>7. \A a, b, c \in Kinds : IsLine(l \o <<>>) \/ IsLine(l \o <<a>>) \/ IsLine(l \o <<a, b>>)
                               \/ IsLine(l \o <<a, b, c>>) => Leads(l)
  <2> TAKE a, b, c \in Kinds
  <2>1. /\ l \o <<>> = l /\ l \o <<a>> = Append(l, a) /\ l \o <<a, b>> = Append(Append(l, a), b)
        /\ l \o <<a, b, c>> = Append(Append(Append(l, a), b), c)
    BY ConcatFew
  <2>2. /\ IsLine(l) => Leads(l)
        /\ IsLine(Append(l, a)) => Leads(l)
        /\ IsLine(Append(Append(l, a), b)) => Leads(l)
        /\ IsLine(Append(Append(Append(l, a), b), c)) => Leads(l)
    BY <1>1, <1>4, <1>5, <1>6
  <2> QED
    BY <2>1, <2>2
<1>8. PICK r \in Rests : IsLine(l \o r)
  BY DEF BeginsLine
<1> QED
  BY <1>2, <1>7, <1>8 DEF Rests

\* What leads to a state is what some line begins with.
LEMMA LedBegins ==
  ASSUME NEW l \in Seq(Kinds), NEW s \in States, At(s, l)
  PROVE  BeginsLine(l)
<1>1. {"Comp", "Port", "Bind", "External"} \subseteq Kinds \ {"Break", "Comment"}
  BY DEF Kinds
<1>2. \A m \in Seq(Kinds) : \A k \in Kinds : Append(m, k) \in Seq(Kinds)
  OBVIOUS
<1>3. \A m \in Seq(Kinds) :
        /\ At("Break", m) \/ At("Compo", m) \/ At("CompPortExternalPort", m) => IsLine(m)
        /\ At("CompPortBindPort", m) => At("Compo", Append(m, "Comp"))
        /\ At("PortExternalPort", m) => At("Compo", Append(m, "Comp"))
        /\ At("IMSGBindPort", m) => At("Compo", Append(m, "Comp"))
        /\ At("CompPortExternal", m) => At("CompPortExternalPort", Append(m, "Port"))
        /\ At("CompPortBind", m) => At("CompPortBindPort", Append(m, "Port"))
        /\ At("PortExternal", m) => At("PortExternalPort", Append(m, "Port"))
        /\ At("IMSGBind", m) => At("IMSGBindPort", Append(m, "Port"))
        /\ At("CompPort", m) => At("CompPortBind", Append(m, "Bind"))
        /\ At("IMSG", m) => At("IMSGBind", Append(m, "Bind"))
        /\ At("Port", m) => At("PortExternal", Append(m, "External"))
  <2> TAKE m \in Seq(Kinds)
  <2>1. At("Break", m) \/ At("Compo", m) \/ At("CompPortExternalPort", m) => IsLine(m)
    BY LineIsWhole DEF Whole
  <2>2. /\ Moves["Comp"]["CompPortBindPort"] = "Compo" /\ Moves["Comp"]["PortExternalPort"] = "Compo"
        /\ Moves["Comp"]["IMSGBindPort"] = "Compo"
    BY DEF Moves
  <2>3. /\ Moves["Port"]["CompPortExternal"] = "CompPortExternalPort"
        /\ Moves["Port"]["CompPortBind"] = "CompPortBindPort"
        /\ Moves["Port"]["PortExternal"] = "PortExternalPort"
        /\ Moves["Port"]["IMSGBind"] = "IMSGBindPort"
    BY DEF Moves
  <2>4. /\ Moves["Bind"]["CompPort"] = "CompPortBind" /\ Moves["Bind"]["IMSG"] = "IMSGBind"
        /\ Moves["External"]["Port"] = "PortExternal"
    BY DEF Moves
  <2>5. /\ At("CompPortBindPort", m) => At("Compo", Append(m, "Comp"))
        /\ At("PortExternalPort", m) => At("Compo", Append(m, "Comp"))
        /\ At("IMSGBindPort", m) => At("Compo", Append(m, "Comp"))
    BY <1>1, <2>2, MovesHave, AtNext
  <2>6. /\ At("CompPortExternal", m) => At("CompPortExternalPort", Append(m, "Port"))
        /\ At("CompPortBind", m) => At("CompPortBindPort", Append(m, "Port"))
        /\ At("PortExternal", m) => At("PortExternalPort", Append(m, "Port"))
        /\ At("IMSGBind", m) => At("IMSGBindPort", Append(m, "Port"))
    BY <1>1, <2>3, MovesHave, AtNext
  <2>7. /\ At("CompPort", m) => At("CompPortBind", Append(m, "Bind"))
        /\ At("IMSG", m) => At("IMSGBind", Append(m, "Bind"))
        /\ At("Port", m) => At("PortExternal", Append(m, "External"))
    BY <1>1, <2>4, MovesHave, AtNext
  <2> QED
    BY <2>1, <2>5, <2>6, <2>7
<1>4. /\ l \o <<>> = l /\ l \o <<"Comp">> = Append(l, "Comp")
      /\ l \o <<"Port">> = Append(l, "Port")
      /\ l \o <<"Port", "Comp">> = Append(Append(l, "Port"), "Comp")
      /\ l \o <<"Bind", "Port", "Comp">> = Append(Append(Append(l, "Bind"), "Port"), "Comp")
      /\ l \o <<"External", "Port", "Comp">> = Append(Append(Append(l, "External"), "Port"), "Comp")
  BY <1>1, ConcatFew
<1>5. \A r \in Rests : IsLine(l \o r) => BeginsLine(l)
  BY DEF BeginsLine
<1>6. /\ Append(l, "Comp") \in Seq(Kinds) /\ Append(l, "Port") \in Seq(Kinds)
      /\ Append(l, "Bind") \in Seq(Kinds) /\ Append(l, "External") \in Seq(Kinds)
      /\ Append(Append(l, "Port"), "Comp") \in Seq(Kinds)
      /\ Append(Append(l, "Bind"), "Port") \in Seq(Kinds)
      /\ Append(Append(l, "External"), "Port") \in Seq(Kinds)
      /\ Append(Append(Append(l, "Bind"), "Port"), "Comp") \in Seq(Kinds)
      /\ Append(Append(Append(l, "External"), "Port"), "Comp") \in Seq(Kinds)
  BY <1>1, <1>2
<1>7. CASE s \in {"Break", "Compo", "CompPortExternalPort"}
  BY <1>3, <1>4, <1>5, <1>7 DEF Rests
<1>8. CASE s \in {"CompPortBindPort", "PortExternalPort", "IMSGBindPort"}
  BY <1>3, <1>4, <1>5, <1>6, <1>8 DEF Rests
<1>9. CASE s = "CompPortExternal"
  BY <1>3, <1>4, <1>5, <1>6, <1>9 DEF Rests
<1>10. CASE s \in {"CompPortBind", "PortExternal", "IMSGBind"}
  <2>1. IsLine(Append(Append(l, "Port"), "Comp"))
    BY <1>3, <1>6, <1>10
  <2> QED
    BY <1>4, <1>5, <2>1 DEF Rests
<1>11. CASE s \in {"CompPort", "IMSG"}
  <2>1. IsLine(Append(Append(Append(l, "Bind"), "Port"), "Comp"))
    BY <1>3, <1>6, <1>11
  <2> QED
    BY <1>4, <1>5, <2>1 DEF Rests
<1>12. CASE s = "Port"
  <2>1. IsLine(Append(Append(Append(l, "External"), "Port"), "Comp"))
    BY <1>3, <1>6, <1>12
  <2> QED
    BY <1>4, <1>5, <2>1 DEF Rests
<1>13. s # "ErrorS"
  BY DEF At
<1> QED
  BY <1>7, <1>8, <1>9, <1>10, <1>11, <1>12, <1>13 DEF States

-----------------------------------------------------------------------------
(* The lines of the words.                                                  *)

Ends(ws) == {0} \cup {k \in 1..Len(ws) : ws[k].kind = "Break"}

LastEnd(ws) == CHOOSE k \in Ends(ws) : \A e \in Ends(ws) : e <= k

Neighbours(S) == {d \in S \X S : d[1] < d[2] /\ \A e \in S : ~(d[1] < e /\ e < d[2])}

\* The lines that were ended.
Done(ws) == {SubSeq(KindsOf(ws), c[1] + 1, c[2] - 1) : c \in Neighbours(Ends(ws))}

\* The kinds of the words.
LEMMA KindsOfType ==
  ASSUME NEW ws \in Seq(Token)
  PROVE  KindsOf(ws) \in Seq(Kinds) /\ Len(KindsOf(ws)) = Len(ws)
<1>1. \A i \in 1..Len(ws) : ws[i] \in Token
  OBVIOUS
<1>2. KindsOf(ws) \in [1..Len(ws) -> Kinds]
  BY <1>1 DEF KindsOf, Token
<1>3. Len(ws) \in Nat
  OBVIOUS
<1> QED
  BY <1>2, <1>3

\* The last end of line, and the line after it.
LEMMA LastEndIs ==
  ASSUME NEW ws \in Seq(Token)
  PROVE  /\ LastEnd(ws) \in Ends(ws) /\ \A e \in Ends(ws) : e <= LastEnd(ws)
         /\ Ends(ws) \subseteq 0..Len(ws) /\ LastEnd(ws) \in 0..Len(ws)
         /\ LastLine(ws) = SubSeq(KindsOf(ws), LastEnd(ws) + 1, Len(ws))
<1>0. Len(ws) \in Nat
  OBVIOUS
<1>1. Ends(ws) \subseteq 0..Len(ws) /\ 0 \in Ends(ws)
  BY <1>0 DEF Ends
<1> DEFINE S == {e + 1 : e \in Ends(ws)}
<1>2. S \subseteq 1..(Len(ws) + 1) /\ S # {}
  BY <1>0, <1>1
<1>3. Greatest(S) \in S /\ \A k \in S : k <= Greatest(S)
  <2>1. Len(ws) + 1 \in Nat
    BY <1>0
  <2> HIDE DEF S
  <2> QED
    BY <1>2, <2>1, GreatestIsIn
<1>4. \E k \in Ends(ws) : \A e \in Ends(ws) : e <= k
  <2>1. PICK k \in Ends(ws) : k + 1 = Greatest(S)
    BY <1>3
  <2>2. \A e \in Ends(ws) : e + 1 <= k + 1 /\ e \in Nat
    BY <1>1, <1>3, <2>1
  <2>3. \A e \in Ends(ws) : e <= k
    BY <1>1, <2>1, <2>2
  <2> QED
    BY <2>1, <2>3
<1>5. LastEnd(ws) \in Ends(ws) /\ \A e \in Ends(ws) : e <= LastEnd(ws)
  BY <1>4 DEF LastEnd
<1>6. LastLine(ws) = SubSeq(KindsOf(ws), LastEnd(ws) + 1, Len(ws))
  <2>1. Len(KindsOf(ws)) = Len(ws) /\ \A k \in 1..Len(ws) : KindsOf(ws)[k] = ws[k].kind
    BY KindsOfType DEF KindsOf
  <2>2. Ends(ws) = {0} \cup {k \in 1..Len(KindsOf(ws)) : KindsOf(ws)[k] = "Break"}
    BY <2>1 DEF Ends
  <2> QED
    BY <2>1, <2>2 DEF LastLine, LastEnd
<1> QED
  BY <1>1, <1>5, <1>6

\* The lines are the ones that were ended and the last one.
LEMMA LinesAre ==
  ASSUME NEW ws \in Seq(Token)
  PROVE  Lines(ws) = Done(ws) \cup {LastLine(ws)}
<1> DEFINE ks == KindsOf(ws)
           n == Len(ws)
           last == LastEnd(ws)
           cuts == Ends(ws) \cup {n + 1}
           Between(c) == SubSeq(ks, c[1] + 1, c[2] - 1)
<1>0. n \in Nat
  OBVIOUS
<1>1. /\ last \in Ends(ws) /\ \A e \in Ends(ws) : e <= last /\ e \in 0..n
      /\ LastLine(ws) = SubSeq(ks, last + 1, n)
  BY LastEndIs
<1>2. Lines(ws) = {Between(c) : c \in Neighbours(cuts)}
  <2>1. cuts = {0, n + 1} \cup {k \in 1..n : ks[k] = "Break"}
    BY DEF Ends, KindsOf
  <2> QED
    BY <2>1 DEF Lines, Neighbours
<1>3. Done(ws) = {Between(c) : c \in Neighbours(Ends(ws))}
  BY DEF Done
<1>4. \A c : c \in Neighbours(cuts) <=> c \in Neighbours(Ends(ws)) \/ c = <<last, n + 1>>
  <2>1. ASSUME NEW c \in Neighbours(Ends(ws)) PROVE c \in Neighbours(cuts)
    <3>1. c[1] \in 0..n /\ c[2] \in 0..n /\ c \in cuts \X cuts
      BY <1>1, <2>1 DEF Neighbours
    <3>2. ~(n + 1 < c[2])
      BY <1>0, <3>1
    <3> QED
      BY <2>1, <3>1, <3>2 DEF Neighbours
  <2>2. <<last, n + 1>> \in Neighbours(cuts)
    <3>1. last \in 0..n /\ last < n + 1
      BY <1>0, <1>1
    <3>2. \A e \in cuts : ~(last < e /\ e < n + 1)
      BY <1>0, <1>1, <3>1
    <3> QED
      BY <1>1, <3>1, <3>2 DEF Neighbours
  <2>3. ASSUME NEW c \in Neighbours(cuts) PROVE c \in Neighbours(Ends(ws)) \/ c = <<last, n + 1>>
    <3>1. c = <<c[1], c[2]>> /\ c[1] \in cuts /\ c[2] \in cuts /\ c[1] < c[2]
          /\ \A e \in cuts : ~(c[1] < e /\ e < c[2])
      BY <2>3 DEF Neighbours
    <3>2. c[1] # n + 1
      BY <1>0, <1>1, <3>1
    <3>3. CASE c[2] = n + 1
      <4>1. c[1] \in Ends(ws) /\ last \in cuts
        BY <1>1, <3>1, <3>2
      <4>2. ~(c[1] < last) /\ c[1] <= last
        BY <1>0, <1>1, <3>1, <3>3, <4>1
      <4>3. c[1] = last
        BY <1>1, <4>1, <4>2
      <4> QED
        BY <3>1, <3>3, <4>3
    <3>4. CASE c[2] # n + 1
      BY <3>1, <3>2, <3>4 DEF Neighbours
    <3> QED
      BY <3>3, <3>4
  <2> QED
    BY <2>1, <2>2, <2>3
<1>5. Between(<<last, n + 1>>) = LastLine(ws)
  <2>1. n + 1 - 1 = n
    BY <1>0
  <2> QED
    BY <1>1, <2>1
<1> HIDE DEF Between, last, cuts, n
<1> QED
  BY <1>2, <1>3, <1>4, <1>5

\* A part of a sequence with one more element.
LEMMA SubSeqAppend ==
  ASSUME NEW ks \in Seq(Kinds), NEW k \in Kinds, NEW a \in Nat, NEW b \in 0..Len(ks), a >= 1
  PROVE  /\ SubSeq(Append(ks, k), a, b) = SubSeq(ks, a, b)
         /\ a <= Len(ks) + 1 => SubSeq(Append(ks, k), a, Len(ks) + 1) = Append(SubSeq(ks, a, Len(ks)), k)
         /\ SubSeq(ks, a, b) \in Seq(Kinds)
         /\ SubSeq(Append(ks, k), Len(ks) + 2, Len(ks) + 1) = <<>>
OBVIOUS

\* A word ends the last line, or is its next kind.
LEMMA LinesGrow ==
  ASSUME NEW ws \in Seq(Token), NEW t \in Token
  PROVE  /\ LastLine(ws) \in Seq(Kinds)
         /\ t.kind = "Break" => /\ LastLine(Append(ws, t)) = <<>>
                                /\ Done(Append(ws, t)) = Done(ws) \cup {LastLine(ws)}
         /\ t.kind # "Break" => /\ LastLine(Append(ws, t)) = Append(LastLine(ws), t.kind)
                                /\ Done(Append(ws, t)) = Done(ws)
<1> DEFINE us == Append(ws, t)
           ks == KindsOf(ws)
           js == KindsOf(us)
           n == Len(ws)
           last == LastEnd(ws)
<1>1. n \in Nat /\ us \in Seq(Token) /\ Len(us) = n + 1 /\ us[n + 1] = t /\ \A i \in 1..n : us[i] = ws[i]
  OBVIOUS
<1>2. ks \in Seq(Kinds) /\ Len(ks) = n /\ t.kind \in Kinds /\ js = Append(ks, t.kind)
  <2>1. ks \in Seq(Kinds) /\ Len(ks) = n /\ js \in Seq(Kinds) /\ Len(js) = n + 1
    BY <1>1, KindsOfType
  <2>2. t.kind \in Kinds
    BY DEF Token
  <2>3. \A i \in 1..n : js[i] = ks[i]
    BY <1>1 DEF KindsOf
  <2>4. js[n + 1] = t.kind
    BY <1>1 DEF KindsOf
  <2> HIDE DEF js, ks, n
  <2> QED
    BY <1>1, <2>1, <2>2, <2>3, <2>4
<1>3. /\ last \in Ends(ws) /\ \A e \in Ends(ws) : e <= last /\ e \in 0..n
      /\ LastLine(ws) = SubSeq(ks, last + 1, n)
  BY LastEndIs
<1>4. /\ LastEnd(us) \in Ends(us) /\ \A e \in Ends(us) : e <= LastEnd(us) /\ e \in 0..(n + 1)
      /\ LastLine(us) = SubSeq(js, LastEnd(us) + 1, n + 1)
  BY <1>1, LastEndIs
<1>5. Ends(us) = IF t.kind = "Break" THEN Ends(ws) \cup {n + 1} ELSE Ends(ws)
  <2>1. \A k : k \in 1..(n + 1) <=> k \in 1..n \/ k = n + 1
    BY <1>1
  <2> HIDE DEF us, n
  <2> QED
    BY <1>1, <2>1 DEF Ends, n
<1>6. \A a \in 1..(n + 1) : \A b \in 0..n :
        /\ SubSeq(js, a, b) = SubSeq(ks, a, b)
        /\ SubSeq(js, a, n + 1) = Append(SubSeq(ks, a, n), t.kind)
        /\ SubSeq(ks, a, b) \in Seq(Kinds)
        /\ SubSeq(js, n + 2, n + 1) = <<>>
  <2> HIDE DEF js, ks, us
  <2> QED
    BY <1>1, <1>2, SubSeqAppend
<1>7. LastLine(ws) \in Seq(Kinds)
  <2>1. last + 1 \in 1..(n + 1) /\ n \in 0..n
    BY <1>1, <1>3
  <2> HIDE DEF js, ks, us, last, n
  <2> QED
    BY <1>3, <1>6, <2>1
<1>8. \A S : \A c \in Neighbours(S) : c[1] \in S /\ c[2] \in S /\ c[1] < c[2]
  BY DEF Neighbours
<1>9. {SubSeq(js, c[1] + 1, c[2] - 1) : c \in Neighbours(Ends(ws))} = Done(ws)
  <2>1. \A c \in Neighbours(Ends(ws)) : SubSeq(js, c[1] + 1, c[2] - 1) = SubSeq(ks, c[1] + 1, c[2] - 1)
    <3> TAKE c \in Neighbours(Ends(ws))
    <3>1. c[1] \in 0..n /\ c[2] \in 0..n /\ c[1] < c[2]
      BY <1>3, <1>8
    <3>2. c[1] + 1 \in 1..(n + 1) /\ c[2] - 1 \in 0..n
      BY <1>1, <3>1
    <3> HIDE DEF js, ks, us, n
    <3> QED
      BY <1>6, <3>2
  <2> HIDE DEF js
  <2> QED
    BY <2>1 DEF Done
<1>10. CASE t.kind # "Break"
  <2>1. Ends(us) = Ends(ws)
    BY <1>5, <1>10
  <2>2. LastEnd(us) = last
    BY <2>1 DEF LastEnd
  <2>3. last + 1 \in 1..(n + 1) /\ n \in 0..n
    BY <1>1, <1>3
  <2>4. LastLine(us) = Append(LastLine(ws), t.kind)
    <3> HIDE DEF js, ks, us, last, n
    <3> QED
      BY <1>3, <1>4, <1>6, <2>2, <2>3
  <2>5. Done(us) = Done(ws)
    BY <1>9, <2>1 DEF Done
  <2> QED
    BY <1>7, <1>10, <2>4, <2>5
<1>11. CASE t.kind = "Break"
  <2>1. Ends(us) = Ends(ws) \cup {n + 1}
    BY <1>5, <1>11
  <2>2. LastEnd(us) = n + 1
    <3>1. n + 1 \in Ends(us) /\ n + 1 <= LastEnd(us) /\ LastEnd(us) \in 0..(n + 1)
      BY <1>4, <2>1
    <3> QED
      BY <1>1, <3>1
  <2>3. LastLine(us) = <<>>
    <3>1. 1 \in 1..(n + 1) /\ 0 \in 0..n /\ n + 1 + 1 = n + 2
      BY <1>1
    <3> HIDE DEF js, ks, us, last, n
    <3> QED
      BY <1>4, <1>6, <2>2, <3>1
  <2>4. \A c : c \in Neighbours(Ends(us)) <=> c \in Neighbours(Ends(ws)) \/ c = <<last, n + 1>>
    <3>0. last \in 0..n
      BY <1>3
    <3> HIDE DEF js, ks, us, last, n
    <3>1. ASSUME NEW c \in Neighbours(Ends(ws)) PROVE c \in Neighbours(Ends(us))
      <4>1. c[1] \in 0..n /\ c[2] \in 0..n
        BY <1>3, <3>1 DEF Neighbours
      <4>2. ~(n + 1 < c[2])
        BY <1>1, <4>1
      <4> QED
        BY <2>1, <3>1, <4>2 DEF Neighbours
    <3>2. <<last, n + 1>> \in Neighbours(Ends(us))
      <4>1. last < n + 1
        BY <1>1, <3>0
      <4>2. \A e \in Ends(us) : ~(last < e /\ e < n + 1)
        BY <1>1, <1>3, <2>1, <3>0
      <4> QED
        BY <1>3, <2>1, <4>1, <4>2 DEF Neighbours
    <3>3. ASSUME NEW c \in Neighbours(Ends(us)) PROVE c \in Neighbours(Ends(ws)) \/ c = <<last, n + 1>>
      <4>1. c = <<c[1], c[2]>> /\ c[1] \in Ends(us) /\ c[2] \in Ends(us) /\ c[1] < c[2]
            /\ \A e \in Ends(us) : ~(c[1] < e /\ e < c[2])
        BY <3>3 DEF Neighbours
      <4>2. c[1] # n + 1
        BY <1>1, <1>3, <2>1, <4>1
      <4>3. CASE c[2] = n + 1
        <5>1. c[1] \in Ends(ws) /\ last \in Ends(us)
          BY <1>3, <2>1, <4>1, <4>2
        <5>2. ~(c[1] < last) /\ c[1] <= last
          BY <1>1, <1>3, <3>0, <4>1, <4>3, <5>1
        <5>3. c[1] \in 0..n
          BY <1>3, <5>1
        <5>4. c[1] = last
          BY ONLY <1>1, <3>0, <5>2, <5>3
        <5> QED
          BY <4>1, <4>3, <5>4
      <4>4. CASE c[2] # n + 1
        BY <2>1, <4>1, <4>2, <4>4 DEF Neighbours
      <4> QED
        BY <4>3, <4>4
    <3> QED
      BY <3>1, <3>2, <3>3
  <2>5. SubSeq(js, <<last, n + 1>>[1] + 1, <<last, n + 1>>[2] - 1) = LastLine(ws)
    <3>1. last + 1 \in 1..(n + 1) /\ n \in 0..n /\ n + 1 - 1 = n
      BY <1>1, <1>3
    <3> HIDE DEF js, ks, us, last, n
    <3>2. SubSeq(js, last + 1, n) = SubSeq(ks, last + 1, n)
      BY <1>6, <3>1
    <3>3. <<last, n + 1>>[1] = last /\ <<last, n + 1>>[2] = n + 1
      OBVIOUS
    <3>4. SubSeq(js, <<last, n + 1>>[1] + 1, <<last, n + 1>>[2] - 1) = SubSeq(js, last + 1, n)
      BY <3>1, <3>3
    <3> QED
      BY <1>3, <3>2, <3>4
  <2>6. Done(us) = Done(ws) \cup {LastLine(ws)}
    <3>1. Done(us) = {SubSeq(js, c[1] + 1, c[2] - 1) : c \in Neighbours(Ends(us))}
      BY DEF Done
    <3> HIDE DEF js, ks, us, last, n
    <3> QED
      BY <1>9, <2>4, <2>5, <3>1
  <2> QED
    BY <1>7, <1>11, <2>3, <2>6
<1> QED
  BY <1>10, <1>11

\* A file begins with an empty line.
LEMMA NoLines == LastLine(<<>>) = <<>> /\ Done(<<>>) = {}
<1>1. <<>> \in Seq(Token) /\ Len(<<>>) = 0
  OBVIOUS
<1>2. PICK z \in Seq(Token) : z = <<>> /\ Len(z) = 0
  BY <1>1
<1>3. /\ LastEnd(z) \in Ends(z) /\ LastLine(z) = SubSeq(KindsOf(z), LastEnd(z) + 1, Len(z))
  BY LastEndIs
<1>4. Ends(z) = {0}
  BY <1>2 DEF Ends
<1>5. KindsOf(z) \in Seq(Kinds) /\ Len(KindsOf(z)) = 0
  BY <1>2, KindsOfType
<1>6. LastLine(z) = <<>>
  BY <1>2, <1>3, <1>4, <1>5
<1>7. Neighbours(Ends(z)) = {}
  BY <1>4 DEF Neighbours
<1> QED
  BY <1>2, <1>6, <1>7 DEF Done

-----------------------------------------------------------------------------
(* One token, and the lines.                                                *)

\* A line without errors ends at a state that expects its end.
LEMMA BreakExpected ==
  ASSUME NEW l \in Seq(Kinds), NEW s \in States, At(s, l)
  PROVE  IsLine(l) <=> s \in {"Break", "Compo", "CompPortExternalPort"}
<1>1. IsLine(l) <=> \E r \in {"Break", "Compo", "CompPortExternalPort"} : At(r, l)
  BY LineIsWhole DEF Whole
<1> QED
  BY <1>1, AtOne DEF States

\* A kind that the state does not expect begins no line.
LEMMA UnexpectedBegins ==
  ASSUME NEW l \in Seq(Kinds), NEW s \in States, At(s, l), NEW k \in Kinds, s \notin DOMAIN Moves[k]
  PROVE  ~BeginsLine(Append(l, k))
<1>1. SUFFICES ASSUME BeginsLine(Append(l, k)) PROVE FALSE
  OBVIOUS
<1>2. Append(l, k) \in Seq(Kinds)
  OBVIOUS
<1>3. Leads(Append(l, k))
  BY <1>1, <1>2, BegunLeads
<1>4. Led(l, k)
  BY <1>3, AtBefore DEF Leads
<1> QED
  BY <1>4, AtOne DEF Led

Bad(ws) ==
  \/ ~BeginsLine(LastLine(ws))
  \/ \E l \in Lines(ws) : ~IsLine(l) /\ l # LastLine(ws)

\* What the parser knows of the lines it has read.
Lined ==
  /\ agent = "parsing" /\ ~errors =>
       /\ At(state, LastLine(Words(seen)))
       /\ \A l \in Done(Words(seen)) : IsLine(l)
       /\ lex = "line start" => state \in {"Break", "CompPortBind", "IMSGBind"}
  /\ agent = "parsing" /\ errors /\ seen # <<>> => Bad(Words(seen))
  /\ AcceptsLines

\* What is read without an error is no bad file.
LEMMA NotBad ==
  ASSUME NEW ws \in Seq(Token), NEW s \in States, At(s, LastLine(ws)),
         \A l \in Done(ws) : IsLine(l)
  PROVE  ~Bad(ws)
<1>1. LastLine(ws) \in Seq(Kinds)
  <2>1. KindsOf(ws) \in Seq(Kinds) /\ Len(KindsOf(ws)) = Len(ws) /\ Len(ws) \in Nat
    BY KindsOfType
  <2>2. LastEnd(ws) \in 0..Len(ws) /\ LastLine(ws) = SubSeq(KindsOf(ws), LastEnd(ws) + 1, Len(ws))
    BY LastEndIs
  <2> QED
    BY <2>1, <2>2
<1>2. BeginsLine(LastLine(ws))
  BY <1>1, LedBegins
<1> QED
  BY <1>2, LinesAre DEF Bad

\* A token of a file without errors.
LEMMA LinesNext ==
  ASSUME IInv, NEW t \in Token, ~errors, agent = "parsing", Numbered(seen),
         state \in {"CompPortBind", "IMSGBind"} <=> GoesOn(seen), t.text = Len(seen) + 1,
         At(state, LastLine(Words(seen))), \A l \in Done(Words(seen)) : IsLine(l), Record(t)
  PROVE  /\ Unexpected(t) => Bad(Words(seen'))
         /\ Shift(t) \/ Move(t) \/ Complete(t) =>
              /\ At(state', LastLine(Words(seen')))
              /\ \A l \in Done(Words(seen')) : IsLine(l)
              /\ t.kind = "Break" => state' \in {"Break", "CompPortBind", "IMSGBind"}
<1>0. seen \in Seq(Token) /\ seen' = Append(seen, t) /\ t.kind \in Kinds /\ state \in States
  BY DEF IInv, Types, Record, Token
<1>1. state # "ErrorS"
  BY DEF At
<1> DEFINE ws == Words(seen)
           l == LastLine(ws)
<1>2. /\ ws \in Seq(Token) /\ seen' \in Seq(Token)
      /\ t.kind = "Comment" \/ (t.kind = "Break" /\ GoesOn(seen)) => Words(seen') = ws
      /\ t.kind # "Comment" /\ ~(t.kind = "Break" /\ GoesOn(seen)) => Words(seen') = Append(ws, t)
  BY <1>0, WordsNext
<1>3. /\ l \in Seq(Kinds)
      /\ t.kind = "Break" => /\ LastLine(Append(ws, t)) = <<>>
                             /\ Done(Append(ws, t)) = Done(ws) \cup {l}
      /\ t.kind # "Break" => /\ LastLine(Append(ws, t)) = Append(l, t.kind)
                             /\ Done(Append(ws, t)) = Done(ws)
  BY <1>2, LinesGrow
<1>4. Append(ws, t) \in Seq(Token)
  BY <1>2
<1>5. At(state, l) /\ \A m \in Done(ws) : IsLine(m)
  OBVIOUS
<1> HIDE DEF ws, l
<1>6. ASSUME Unexpected(t) PROVE Bad(Words(seen'))
  <2>1. state \notin DOMAIN Moves[t.kind]
    BY <1>6 DEF Unexpected, Expects
  <2>2. t.kind # "Comment"
    BY <1>0, <2>1 DEF Moves
  <2>3. CASE t.kind = "Break"
    <3>1. state \notin {"Break", "Compo", "CompPortExternalPort", "CompPortBind", "IMSGBind"}
      BY <2>1, <2>3 DEF Moves
    <3>2. Words(seen') = Append(ws, t)
      BY <1>2, <2>2, <3>1
    <3>3. ~IsLine(l)
      BY <1>0, <1>3, <1>5, <3>1, BreakExpected
    <3>4. l # <<>>
      <4>1. At("Break", <<>>) /\ "Break" \in States
        BY DEF At, States
      <4>2. <<>> \in Seq(Kinds)
        OBVIOUS
      <4>3. IsLine(<<>>)
        BY DEF IsLine
      <4> QED
        BY <3>3, <4>3
    <3>5. l \in Lines(Append(ws, t)) /\ LastLine(Append(ws, t)) = <<>>
      BY <1>3, <1>4, <2>3, LinesAre
    <3> QED
      BY <3>2, <3>3, <3>4, <3>5 DEF Bad
  <2>4. CASE t.kind # "Break"
    <3>1. Words(seen') = Append(ws, t)
      BY <1>2, <2>2, <2>4
    <3>2. ~BeginsLine(Append(l, t.kind))
      BY <1>0, <1>3, <1>5, <2>1, UnexpectedBegins
    <3> QED
      BY <1>3, <2>4, <3>1, <3>2 DEF Bad
  <2> QED
    BY <2>3, <2>4
<1>7. ASSUME Shift(t) \/ Move(t) \/ Complete(t)
      PROVE  /\ At(state', LastLine(Words(seen')))
             /\ \A m \in Done(Words(seen')) : IsLine(m)
             /\ t.kind = "Break" => state' \in {"Break", "CompPortBind", "IMSGBind"}
  <2>1. state \in DOMAIN Moves[t.kind] /\ state' = Moves[t.kind][state]
    BY <1>7 DEF Shift, Shifts, Move, Complete, Completes, Expects
  <2>2. CASE t.kind = "Comment"
    <3>1. state' = state
      BY <1>0, <2>1, <2>2 DEF Moves
    <3> QED
      BY <1>2, <1>5, <2>2, <3>1 DEF ws, l
  <2>3. CASE t.kind = "Break"
    <3>1. \/ state \in {"CompPortBind", "IMSGBind"} /\ state' = state
          \/ state \in {"Break", "Compo", "CompPortExternalPort"} /\ state' = "Break"
      BY <1>0, <1>1, <2>1, <2>3, MovesAre
    <3>2. CASE state \in {"CompPortBind", "IMSGBind"}
      <4>1. Words(seen') = ws
        BY <1>2, <2>3, <3>2
      <4> QED
        BY <1>5, <3>1, <3>2, <4>1 DEF l
    <3>3. CASE state \in {"Break", "Compo", "CompPortExternalPort"}
      <4>1. Words(seen') = Append(ws, t)
        BY <1>2, <2>3, <3>3
      <4>2. IsLine(l)
        BY <1>0, <1>3, <1>5, <3>3, BreakExpected
      <4>3. At("Break", <<>>)
        BY DEF At
      <4> QED
        BY <1>3, <1>5, <2>3, <3>1, <3>3, <4>1, <4>2, <4>3
    <3> QED
      BY <3>1, <3>2, <3>3
  <2>4. CASE t.kind \notin {"Comment", "Break"}
    <3>1. Words(seen') = Append(ws, t)
      BY <1>2, <2>4
    <3>2. At(Moves[t.kind][state], Append(l, t.kind))
      BY <1>0, <1>3, <1>5, <2>1, <2>4, AtNext
    <3> QED
      BY <1>3, <1>5, <2>1, <2>4, <3>1, <3>2
  <2> QED
    BY <2>2, <2>3, <2>4
<1> QED
  BY <1>6, <1>7

\* A file that ends where a "->" ends a line has a last line to go on with.
LEMMA BrokenOff ==
  ASSUME NEW l \in Seq(Kinds), NEW s \in {"CompPortBind", "IMSGBind"}, At(s, l)
  PROVE  l[Len(l)] = "Bind" /\ IsLine(l \o <<"Port", "Comp">>)
<1>0. {"Comp", "Port"} \subseteq Kinds \ {"Break", "Comment"} /\ s \in States
  BY DEF Kinds, States
<1>1. /\ Moves["Port"]["CompPortBind"] = "CompPortBindPort" /\ Moves["Port"]["IMSGBind"] = "IMSGBindPort"
      /\ Moves["Comp"]["CompPortBindPort"] = "Compo" /\ Moves["Comp"]["IMSGBindPort"] = "Compo"
  BY DEF Moves
<1>2. PICK m : m = Append(l, "Port")
  OBVIOUS
<1>3. m \in Seq(Kinds)
  BY <1>0, <1>2
<1>4. At(IF s = "CompPortBind" THEN "CompPortBindPort" ELSE "IMSGBindPort", m)
  BY <1>0, <1>1, <1>2, MovesHave, AtNext
<1>5. At("Compo", Append(m, "Comp"))
  BY <1>0, <1>1, <1>3, <1>4, MovesHave, AtNext
<1>6. Append(m, "Comp") \in Seq(Kinds)
  BY <1>0, <1>3
<1>7. IsLine(Append(m, "Comp"))
  BY <1>5, <1>6, LineIsWhole DEF Whole
<1>8. l \o <<"Port", "Comp">> = Append(m, "Comp")
  BY <1>0, <1>2, ConcatFew
<1>9. l[Len(l)] = "Bind"
  <2>1. CASE s = "CompPortBind"
    <3>1. \E i \in {1, 4} : Flowing(s, l, i)
      BY <2>1, AtFlows DEF FlowStates
    <3> QED
      BY <2>1, <3>1 DEF Flowing
  <2>2. CASE s = "IMSGBind"
    BY <2>2 DEF At
  <2> QED
    BY <2>1, <2>2
<1> QED
  BY <1>7, <1>8, <1>9

Accepted(ws) ==
  /\ \A l \in Lines(ws) : IsLine(l) \/ l = LastLine(ws)
  /\ LET l == LastLine(ws) IN
     IsLine(l) \/ (l[Len(l)] = "Bind" /\ IsLine(l \o <<"Port", "Comp">>))

\* AcceptsLines, in these words.
LEMMA AcceptsIs == AcceptsLines <=> (answer = "graph" => Accepted(Words(seen)))
BY DEF AcceptsLines, Accepted

\* The words of the tokens, in every state of a file without errors.
LEMMA WordsSeen ==
  ASSUME IInv, Numbered(seen)
  PROVE  Words(seen) \in Seq(Token)
<1>1. seen \in Seq(Token)
  BY DEF IInv, Types
<1>2. PICK n \in Nat : n = Len(seen) + 1
  BY <1>1
<1>3. [kind |-> "Bind", sorted |-> FALSE, text |-> n] \in Token
  BY DEF Token, Kinds
<1> QED
  BY <1>1, <1>2, <1>3, WordsNext

\* The step of a token keeps Lined.
LEMMA ParseLined ==
  ASSUME IInv, Read, Lined, NEW t \in NextToken, Parse(t), LexToken(t)
  PROVE  Lined'
<1>1. agent = "parsing" /\ Record(t) /\ TypeOK /\ t \in Token
  BY NextTokenType, TypeIsShaped DEF Parse, IInv
<1>2. answer # "graph" /\ answer' \in {answer, "fail"}
  BY <1>1 DEF Read, Parse, Unexpected, Shift, Move, Complete, StackProblem, Unreachable, ParseFrame
<1>3. answer' # "graph"
  BY <1>2
<1>4. AcceptsLines'
  BY <1>3 DEF AcceptsLines
<1>5. CASE errors
  <2>1. errors' = TRUE
    BY <1>5 DEF Parse, Unexpected, Shift, Move, Complete, StackProblem, Unreachable
  <2>2. seen' = <<>>
    BY <1>1, <1>5 DEF Record
  <2> QED
    BY <1>4, <2>1, <2>2 DEF Lined
<1>6. CASE ~errors
  <2>1. /\ Numbered(seen) /\ t.text = Len(seen) + 1
        /\ state \in {"CompPortBind", "IMSGBind"} <=> GoesOn(seen)
        /\ At(state, LastLine(Words(seen)))
        /\ \A l \in Done(Words(seen)) : IsLine(l)
    <3>1. Numbered(seen) /\ (state \in {"CompPortBind", "IMSGBind"} <=> GoesOn(seen))
      BY <1>1, <1>6 DEF Read
    <3>2. At(state, LastLine(Words(seen))) /\ \A l \in Done(Words(seen)) : IsLine(l)
      BY <1>1, <1>6 DEF Lined
    <3>3. t.text = Len(seen) + 1
      BY <1>6 DEF NextToken
    <3> QED
      BY <3>1, <3>2, <3>3
  <2>2. /\ Unexpected(t) => Bad(Words(seen'))
        /\ Shift(t) \/ Move(t) \/ Complete(t) =>
             /\ At(state', LastLine(Words(seen')))
             /\ \A l \in Done(Words(seen')) : IsLine(l)
             /\ t.kind = "Break" => state' \in {"Break", "CompPortBind", "IMSGBind"}
    BY <1>1, <1>6, <2>1, LinesNext
  <2>3. CASE Unexpected(t)
    <3>1. errors' = TRUE
      BY <2>3 DEF Unexpected
    <3> QED
      BY <1>4, <2>2, <2>3, <3>1 DEF Lined
  <2>4. CASE Shift(t) \/ Move(t) \/ Complete(t)
    <3>1. errors' = FALSE
      BY <1>6, <2>4 DEF Shift, Move, Complete, IInv, Types
    <3>2. lex' = "line start" => t.kind = "Break"
      BY DEF LexToken
    <3> QED
      BY <1>4, <2>2, <2>4, <3>1, <3>2 DEF Lined
  <2>5. CASE StackProblem(t) \/ Unreachable(t)
    <3>1. agent' # "parsing"
      BY <2>5 DEF StackProblem, Unreachable
    <3> QED
      BY <1>4, <3>1 DEF Lined
  <2> QED
    BY <2>3, <2>4, <2>5 DEF Parse
<1> QED
  BY <1>5, <1>6 DEF IInv, Types

\* The end of the file keeps it.
LEMMA EndLined ==
  ASSUME IInv, Read, Lined, TakeEnd
  PROVE  Lined'
<1>1. UNCHANGED <<state, stack, graph, errors, seen>> /\ lex = "line start"
  BY DEF TakeEnd, LexEnd
<1>2. CASE agent = "parsing"
  <2>1. agent' = "waiting" /\ answer' = Answer
    BY <1>2 DEF TakeEnd
  <2>2. ASSUME answer' = "graph" PROVE Accepted(Words(seen))
    <3>1. ~errors
      BY <2>1, <2>2 DEF Answer
    <3>2. /\ Numbered(seen) /\ At(state, LastLine(Words(seen)))
          /\ \A l \in Done(Words(seen)) : IsLine(l)
          /\ state \in {"Break", "CompPortBind", "IMSGBind"}
      BY <1>1, <1>2, <3>1 DEF Read, Lined
    <3>3. Words(seen) \in Seq(Token)
      BY <3>2, WordsSeen
    <3>4. PICK l : l = LastLine(Words(seen))
      OBVIOUS
    <3>5. l \in Seq(Kinds) /\ Lines(Words(seen)) = Done(Words(seen)) \cup {l}
      <4>1. PICK ws \in Seq(Token) : ws = Words(seen)
        BY <3>3
      <4>2. KindsOf(ws) \in Seq(Kinds) /\ Len(KindsOf(ws)) = Len(ws) /\ Len(ws) \in Nat
        BY KindsOfType
      <4>3. LastEnd(ws) \in 0..Len(ws) /\ LastLine(ws) = SubSeq(KindsOf(ws), LastEnd(ws) + 1, Len(ws))
        BY LastEndIs
      <4>4. LastLine(ws) \in Seq(Kinds)
        BY <4>2, <4>3
      <4> QED
        BY <3>4, <4>1, <4>4, LinesAre
    <3>6. IsLine(l) \/ (l[Len(l)] = "Bind" /\ IsLine(l \o <<"Port", "Comp">>))
      <4>1. state = "Break" => IsLine(l)
        BY <3>2, <3>4, <3>5, LineIsWhole DEF Whole
      <4>2. state \in {"CompPortBind", "IMSGBind"} => l[Len(l)] = "Bind" /\ IsLine(l \o <<"Port", "Comp">>)
        BY <3>2, <3>4, <3>5, BrokenOff
      <4> QED
        BY <3>2, <4>1, <4>2
    <3> QED
      BY <3>2, <3>4, <3>5, <3>6 DEF Accepted
  <2>3. AcceptsLines'
    BY <1>1, <2>2 DEF AcceptsLines, Accepted
  <2> QED
    BY <2>1, <2>3 DEF Lined
<1>3. CASE agent # "parsing"
  <2>1. UNCHANGED <<agent, answer>>
    BY <1>3 DEF TakeEnd
  <2> QED
    BY <1>1, <1>3, <2>1 DEF Lined, AcceptsLines
<1> QED
  BY <1>2, <1>3

\* Every step keeps Lined.
LEMMA NextLined == IInv /\ Read /\ Lined /\ [Next]_vars => Lined'
<1> SUFFICES ASSUME IInv, Read, Lined, [Next]_vars PROVE Lined'
  OBVIOUS
<1>1. CASE TakeStart
  <2>1. seen' = <<>> /\ state' = "Break" /\ answer' = "none" /\ errors' = FALSE
    BY <1>1 DEF TakeStart
  <2>2. Words(seen') = <<>> /\ LastLine(<<>>) = <<>> /\ Done(<<>>) = {}
    BY <2>1, WordsEmpty, NoLines
  <2>3. At("Break", <<>>)
    BY DEF At
  <2> QED
    BY <2>1, <2>2, <2>3 DEF Lined, AcceptsLines
<1>2. CASE TakeToken
  <2>1. PICK t \in NextToken : LexToken(t) /\ (Parse(t) \/ Ignore)
    BY <1>2 DEF TakeToken
  <2>2. CASE Parse(t)
    BY <2>1, <2>2, ParseLined
  <2>3. CASE Ignore
    BY <2>3 DEF Ignore, Lined, AcceptsLines
  <2> QED
    BY <2>1, <2>2, <2>3
<1>3. CASE TakeEnd
  BY <1>3, EndLined
<1>4. CASE UNCHANGED vars
  BY <1>4 DEF vars, Lined, AcceptsLines
<1> QED
  BY <1>1, <1>2, <1>3, <1>4 DEF Next

\* The initial states have it.
LEMMA InitLined == Init => Lined
BY DEF Init, Lined, AcceptsLines

\* Only sequences of lines are answered with a graph, but for a last line that
\* may break off after "->".
THEOREM LinesAccepted == Spec => []AcceptsLines
<1>1. Lined => AcceptsLines
  BY DEF Lined
<1> QED
  BY InitIInv, NextIInv, InitRead, NextRead, InitLined, NextLined, <1>1, PTL DEF Spec

\* An error is reported at the token no line can go on with, and at no other.
THEOREM ErrorsReported == Spec => []ReportsErrors
<1>1. IInv /\ Read /\ Lined => ReportsErrors
  <2> SUFFICES ASSUME IInv, Read, Lined, agent = "parsing", errors => seen # <<>>
               PROVE  errors <=> Bad(Words(seen))
    BY DEF ReportsErrors, Bad
  <2>1. CASE errors
    BY <2>1 DEF Lined
  <2>2. CASE ~errors
    <3>1. Words(seen) \in Seq(Token)
      BY <2>2, WordsSeen DEF Read
    <3>2. state \in States
      BY DEF IInv, Types
    <3> QED
      BY <2>2, <3>1, <3>2, NotBad DEF Lined
  <2> QED
    BY <2>1, <2>2 DEF IInv, Types
<1> QED
  BY InitIInv, NextIInv, InitRead, NextRead, InitLined, NextLined, <1>1, PTL DEF Spec
=============================================================================
