------------------------------ MODULE Semantic ------------------------------
(***************************************************************************)
(* The Flowscript parser of the Rust fvm: the lexer's agent, which sends a *)
(* stream of tokens for each file it reads, and the agent of               *)
(* nodes/fvm/rs/parser/semantic, which turns the stream of a file into a   *)
(* graph or a list of errors.  The channel between them is FIFO, so the    *)
(* parser takes a token in the step in which the lexer sends it.           *)
(*                                                                         *)
(* A token's text is its number in the file, so that two tokens are never  *)
(* taken for each other.  After an error the graph is never sent: the      *)
(* model empties it and gives the tokens that follow the text 0.           *)
(***************************************************************************)
EXTENDS Naturals, Sequences

CONSTANTS
  MaxFiles,   \* bound: files read one after the other
  MaxTokens,  \* bound: tokens of a file up to its first error
  MaxStack    \* bound: tokens on the parser's stack

ASSUME BoundsAssumption == MaxFiles \in Nat /\ MaxTokens \in Nat /\ MaxStack \in Nat

\* CoreLexicalToken.  A Comp has a sort or not, a Port an element or not; the
\* sort decides whether a node is declared, the element goes with the name.
Kinds == {"Bind", "External", "Comment", "Break", "Comp", "Port", "IMsg"}

Token == [kind : Kinds, sorted : BOOLEAN, text : Nat]

\* enum State.
States == {"Break", "Compo", "Port", "IMSG", "CompPort", "CompPortBind",
           "CompPortBindPort", "CompPortExternal", "CompPortExternalPort",
           "PortExternal", "PortExternalPort", "IMSGBind", "IMSGBindPort", "ErrorS"}

\* The statements of a CoreGraph, each by the texts it is made of.
Arity == [node |-> 1, edge |-> 4, ext_in |-> 3, ext_out |-> 3, imsg |-> 3]

Statements ==
  {s \in [what : DOMAIN Arity, texts : Seq(Nat)] : Len(s.texts) = Arity[s.what]}

VARIABLES
  lex,     \* the lexer: between files, or where it is in a line
  agent,   \* the parser: waits for a Start, parses, or panicked ("dead")
  state, stack, graph,
  errors,  \* errors.len() > 0
  file,    \* files started
  seen,    \* history: the tokens of the file until an error
  answer   \* what the parser sent for the file, "fail" if its run ended without

vars == <<lex, agent, state, stack, graph, errors, file, seen, answer>>

Init ==
  /\ lex = "closed" /\ agent = "waiting"
  /\ state = "Break" /\ stack = <<>> /\ graph = {} /\ errors = FALSE
  /\ file = 0 /\ seen = <<>> /\ answer = "none"

-----------------------------------------------------------------------------
(* The lexer.  Every line of a file is a Text, and its tokens are followed  *)
(* by a Break; a comment takes the rest of its line, and text that is no    *)
(* literal ends the line's tokens without a word.  End follows a line.      *)

LexStart == lex = "closed" /\ file < MaxFiles /\ lex' = "line start"

LexToken(t) ==
  /\ lex \in {"line start", "line"} \/ (lex = "line end" /\ t.kind = "Break")
  /\ lex' = CASE t.kind = "Break"   -> "line start"
              [] t.kind = "Comment" -> "line end"
              [] OTHER              -> "line"

LexEnd == lex = "line start" /\ lex' = "closed"

-----------------------------------------------------------------------------
(* The parser.                                                              *)

\* The state after a token of each kind, in the states that expect it.
Moves ==
  [Bind     |-> [CompPort |-> "CompPortBind", IMSG |-> "IMSGBind", ErrorS |-> "ErrorS"],
   External |-> [CompPort |-> "CompPortExternal", Port |-> "PortExternal",
                 ErrorS |-> "ErrorS"],
   Port     |-> [Compo |-> "CompPort", CompPortBind |-> "CompPortBindPort",
                 CompPortExternal |-> "CompPortExternalPort", Break |-> "Port",
                 PortExternal |-> "PortExternalPort", IMSGBind |-> "IMSGBindPort",
                 ErrorS |-> "ErrorS"],
   Comp     |-> [CompPortBindPort |-> "Compo", PortExternalPort |-> "Compo",
                 IMSGBindPort |-> "Compo", Break |-> "Compo", ErrorS |-> "Compo"],
   IMsg     |-> [Break |-> "IMSG", ErrorS |-> "IMSG"],
   Break    |-> [CompPortBind |-> "CompPortBind", IMSGBind |-> "IMSGBind",
                 Compo |-> "Break", CompPortExternalPort |-> "Break",
                 Break |-> "Break", ErrorS |-> "ErrorS"],
   Comment  |-> [s \in States |-> s]]

Expects_mut(t) ==
  state \in DOMAIN Moves[t.kind] /\ ~(t.kind = "Break" /\ state = "IMSGBind")
Expects(t) == state \in DOMAIN Moves[t.kind]

\* The states in which a token completes a statement: its kind, and the kinds
\* of the tokens it takes from the stack, the top one last.
Pops_mut == [CompPortBindPort |-> <<"Comp", "Port", "Port">>, CompPortExternal |-> <<"Comp", "Port">>,
             PortExternalPort |-> <<"Port", "Port">>, IMSGBindPort |-> <<"IMsg">>]
Pops == [CompPortBindPort |-> <<"Comp", "Port", "Port">>, CompPortExternal |-> <<"Comp", "Port">>,
         PortExternalPort |-> <<"Port", "Port">>, IMSGBindPort |-> <<"IMsg", "Port">>]

Makes == [CompPortBindPort |-> "edge", CompPortExternal |-> "ext_out",
          PortExternalPort |-> "ext_in", IMSGBindPort |-> "imsg"]

Completes(t) == Expects(t) /\ state \in DOMAIN Pops /\ t.kind \in {"Port", "Comp"}

\* The tokens that only go on the stack.
Shifts(t) ==
  /\ Expects(t) /\ ~Completes(t)
  /\ t.kind \in {"Port", "IMsg"} \/ (t.kind = "Comp" /\ state = "Break")

\* The end of a line that is a statement forgets its last component.
Clears_mut(t) == t.kind = "Break" /\ state = "CompPortExternalPort"
Clears(t) == t.kind = "Break" /\ state \in {"Compo", "CompPortExternalPort"}

\* A Comp with a sort declares a node, whatever the state.
Declared_mut(t) == IF t.kind = "Comp" /\ t.sorted /\ state = "Break"
                   THEN {[what |-> "node", texts |-> <<t.text>>]} ELSE {}
Declared(t) == IF t.kind = "Comp" /\ t.sorted
               THEN {[what |-> "node", texts |-> <<t.text>>]} ELSE {}

Texts(ts) == [i \in 1..Len(ts) |-> ts[i].text]

Taken == SubSeq(stack, Len(stack) - Len(Pops[state]) + 1, Len(stack))
Below == SubSeq(stack, 1, Len(stack) - Len(Pops[state]))

KindsFit == \A i \in 1..Len(Pops[state]) : Taken[i].kind = Pops[state][i]

\* The tokens up to the first error, and nothing once the next is taken.
Record(t) == seen' = IF errors THEN <<>> ELSE Append(seen, t)

\* graph.nodes.push, graph.edges.push, ...
Collect(t, made) == graph' = IF errors THEN {} ELSE graph \cup Declared(t) \cup made

ParseFrame == UNCHANGED <<agent, answer, file>>

\* A token that no state but ErrorS would take is reported.
Unexpected(t) ==
  /\ ~Expects(t)
  /\ errors' = TRUE /\ state' = "ErrorS"
  /\ graph' = {}
  /\ UNCHANGED stack /\ ParseFrame

Shift(t) ==
  /\ Shifts(t)
  /\ Len(stack) < MaxStack
  /\ stack' = Append(stack, t)
  /\ state' = Moves[t.kind][state]
  /\ Collect(t, {})
  /\ UNCHANGED errors /\ ParseFrame

\* Bind, External, Comment, Break, and the Comp that ends ErrorS.
Move(t) ==
  /\ Expects(t) /\ ~Completes(t) /\ ~Shifts(t)
  /\ stack' = IF Clears(t) THEN <<>> ELSE stack
  /\ state' = Moves[t.kind][state]
  /\ Collect(t, {})
  /\ UNCHANGED errors /\ ParseFrame

\* The tokens of the statement are popped; a component stays for the next one.
Complete(t) ==
  /\ Completes(t)
  /\ Len(stack) >= Len(Pops[state]) /\ KindsFit
  /\ Collect(t, {[what |-> Makes[state], texts |-> Append(Texts(Taken), t.text)]})
  /\ stack' = IF t.kind = "Comp" THEN Append(Below, t) ELSE Below
  /\ state' = Moves[t.kind][state]
  /\ UNCHANGED errors /\ ParseFrame

\* stack.pop() on an empty stack: the run returns "stack problem".
StackProblem(t) ==
  /\ Completes(t) /\ Len(stack) < Len(Pops[state])
  /\ agent' = "waiting" /\ answer' = "fail"
  /\ UNCHANGED <<state, stack, graph, errors, file>>

\* A token of another kind on the stack: unreachable!().
Unreachable(t) ==
  /\ Completes(t) /\ Len(stack) >= Len(Pops[state]) /\ ~KindsFit
  /\ agent' = "dead" /\ answer' = "fail"
  /\ UNCHANGED <<state, stack, graph, errors, file>>

Parse(t) ==
  /\ agent = "parsing"
  /\ Record(t)
  /\ Unexpected(t) \/ Shift(t) \/ Move(t) \/ Complete(t) \/ StackProblem(t) \/ Unreachable(t)

\* A run that begins with anything but a Start returns "bad stream", and a dead
\* agent takes nothing.
Ignore ==
  /\ agent # "parsing"
  /\ UNCHANGED <<agent, state, stack, graph, errors, file, seen, answer>>

\* The lexer's next token: its text, as long as it matters.
NextToken ==
  {[kind |-> k, sorted |-> s, text |-> IF errors THEN 0 ELSE Len(seen) + 1] :
     k \in Kinds, s \in BOOLEAN}

TakeToken ==
  \E t \in NextToken :
    /\ t.sorted => t.kind = "Comp"
    /\ errors \/ Len(seen) < MaxTokens
    /\ LexToken(t)
    /\ Parse(t) \/ Ignore

\* CoreLexical::Start: the parser's run begins with fresh tables.
TakeStart ==
  /\ LexStart
  /\ file' = file + 1 /\ seen' = <<>> /\ answer' = "none"
  /\ state' = "Break" /\ stack' = <<>> /\ graph' = {} /\ errors' = FALSE
  /\ agent' = IF agent = "dead" THEN "dead" ELSE "parsing"

\* CoreLexical::End: the graph is sent, or the errors are.
Answer_mut == "graph"
Answer == IF errors THEN "errors" ELSE "graph"

TakeEnd ==
  /\ LexEnd
  /\ \/ agent = "parsing" /\ answer' = Answer /\ agent' = "waiting"
     \/ agent # "parsing" /\ UNCHANGED <<agent, answer>>
  /\ UNCHANGED <<state, stack, graph, errors, file, seen>>

Next == TakeStart \/ TakeToken \/ TakeEnd

Spec == Init /\ [][Next]_vars
=============================================================================
