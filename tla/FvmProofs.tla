------------------------------ MODULE FvmProofs ------------------------------
(***************************************************************************)
(* The proofs about the program fvm: its main thread goes on after the     *)
(* join only when everything is quiet, and the nine agents together do to  *)
(* the files what module Flatten does to a library of graphs.              *)
(***************************************************************************)
EXTENDS Fvm, FiniteSetTheorems, TLAPS

-----------------------------------------------------------------------------
(* Sequences of anything.                                                   *)

Elements(s) == {s[i] : i \in DOMAIN s}
IsSeq(s) == s \in Seq(Elements(s))

LEMMA NoneLeft ==
  ASSUME NEW s, IsSeq(s), Len(s) = 0
  PROVE  s = <<>>
<1>1. s \in Seq(Elements(s))
  BY DEF IsSeq
<1> QED
  BY <1>1

LEMMA EmptyIsSeq == IsSeq(<<>>)
  BY DEF IsSeq, Elements

LEMMA SeqIsSeq ==
  ASSUME NEW S, NEW s \in Seq(S)
  PROVE  IsSeq(s)
<1>1. Len(s) \in Nat /\ s \in [1..Len(s) -> Elements(s)]
  BY DEF Elements
<1> QED
  BY <1>1 DEF IsSeq

\* What is left of a sequence after its first element.
LEMMA TailIsSeq ==
  ASSUME NEW s, IsSeq(s), s # <<>>
  PROVE  /\ IsSeq(Tail(s)) /\ Len(s) \in Nat \ {0} /\ Len(Tail(s)) = Len(s) - 1
         /\ \A i \in 1..(Len(s) - 1) : Tail(s)[i] = s[i + 1]
<1>1. s \in Seq(Elements(s))
  BY DEF IsSeq
<1>2. Tail(s) \in Seq(Elements(s))
  BY <1>1
<1>3. /\ Len(s) \in Nat \ {0} /\ Len(Tail(s)) = Len(s) - 1
      /\ \A i \in 1..(Len(s) - 1) : Tail(s)[i] = s[i + 1]
  BY <1>1
<1> QED
  BY <1>2, <1>3, SeqIsSeq

\* A sequence with one element more.
LEMMA AppendIsSeq ==
  ASSUME NEW s, IsSeq(s), NEW x
  PROVE  /\ s \o <<>> = s /\ s \o <<x>> = Append(s, x)
         /\ IsSeq(Append(s, x)) /\ Append(s, x) # <<>>
         /\ Len(s) \in Nat /\ Len(Append(s, x)) = Len(s) + 1 /\ Append(s, x)[Len(s) + 1] = x
         /\ \A i \in 1..Len(s) : Append(s, x)[i] = s[i]
<1> DEFINE S == Elements(s) \cup {x}
<1>1. s \in Seq(S) /\ x \in S
  <2>1. s \in Seq(Elements(s))
    BY DEF IsSeq
  <2>2. Len(s) \in Nat /\ s \in [1..Len(s) -> Elements(s)]
    BY <2>1
  <2>3. s \in [1..Len(s) -> S]
    BY <2>2
  <2> QED
    BY <2>2, <2>3
<1> HIDE DEF S
<1>2. Append(s, x) \in Seq(S)
  BY <1>1
<1>3. /\ s \o <<>> = s /\ s \o <<x>> = Append(s, x) /\ Append(s, x) # <<>>
      /\ Len(s) \in Nat /\ Len(Append(s, x)) = Len(s) + 1 /\ Append(s, x)[Len(s) + 1] = x
      /\ \A i \in 1..Len(s) : Append(s, x)[i] = s[i]
  BY <1>1
<1> QED
  BY <1>2, <1>3, SeqIsSeq

\* The sequence of no element, and of one.
LEMMA SetToSeqSmall ==
  /\ SetToSeq({}) = <<>>
  /\ \A x : SetToSeq({x}) = <<x>>
<1>1. Cardinality({}) = 0 /\ \A x : Cardinality({x}) = 1
  BY FS_EmptySet, FS_Singleton
<1>2. SetToSeq({}) = <<>>
  <2>1. \E f \in [1..0 -> {}] : IsInjective(f)
    <3>1. <<>> \in [1..0 -> {}] /\ IsInjective(<<>>)
      BY DEF IsInjective
    <3> QED
      BY <3>1
  <2>2. SetToSeq({}) \in [1..0 -> {}]
    BY <1>1, <2>1 DEF SetToSeq
  <2> QED
    BY <2>2
<1>3. ASSUME NEW x
      PROVE  SetToSeq({x}) = <<x>>
  <2>1. \E f \in [1..1 -> {x}] : IsInjective(f)
    <3>1. [i \in 1..1 |-> x] \in [1..1 -> {x}] /\ IsInjective([i \in 1..1 |-> x])
      BY DEF IsInjective
    <3> QED
      BY <3>1
  <2>2. SetToSeq({x}) \in [1..1 -> {x}]
    BY <1>1, <2>1 DEF SetToSeq
  <2> QED
    BY <2>2
<1> QED
  BY <1>2, <1>3

-----------------------------------------------------------------------------
(* What the steps do to the channels, the threads and the scheduler's set.  *)

LEMMA PortsAre ==
  /\ Ports = {"start_add", "start_halt", "sched_action", "sched_graph", "vm_input",
              "vm_new_path", "find_input", "open_input", "lex_input", "sem_input",
              "check_input", "errors_file", "errors_semantic"}
  /\ Owner["start_add"] = "start" /\ Owner["start_halt"] = "start"
  /\ Owner["sched_action"] = "sched" /\ Owner["sched_graph"] = "sched"
  /\ Owner["vm_input"] = "vm" /\ Owner["vm_new_path"] = "vm"
  /\ Owner["find_input"] = "find" /\ Owner["open_input"] = "open"
  /\ Owner["lex_input"] = "lex" /\ Owner["sem_input"] = "sem"
  /\ Owner["check_input"] = "check"
  /\ Owner["errors_file"] = "errors" /\ Owner["errors_semantic"] = "errors"
  BY DEF Ports, Owner

LEMMA AgentsAre ==
  /\ Agents = {"start", "sched", "vm", "find", "open", "lex", "sem", "check", "errors"}
  /\ \A p \in Ports : Owner[p] \in Agents
<1>1. \A p \in Ports : Owner[p] \in Agents
  BY DEF Agents
<1> QED
  BY <1>1, PortsAre DEF Agents

\* The types that matter here.
Types ==
  /\ DOMAIN chan = Ports /\ \A p \in Ports : IsSeq(chan[p])
  /\ DOMAIN pc = Agents
  /\ pool \in Seq(Agents)
  /\ counted \subseteq Agents

\* What a step leaves of the channel p, out of which it took a message or not.
Left(p, took) == IF p \in took THEN Tail(chan[p]) ELSE chan[p]

\* An agent goes on and sends nothing.
Goes(a, took, at) ==
  /\ \A p \in took : chan[p] # <<>>
  /\ DOMAIN chan' = Ports /\ \A p \in Ports : chan'[p] = Left(p, took)
  /\ DOMAIN pc' = Agents /\ \A b \in Agents : pc'[b] = IF b = a THEN at ELSE pc[b]
  /\ UNCHANGED <<pool, counted, files>>

\* An agent goes on and sends m to the port q, whose agent is woken.
GoesSends(a, took, q, m, at) ==
  /\ \A p \in took : chan[p] # <<>>
  /\ DOMAIN chan' = Ports
  /\ \A p \in Ports \ {q} : chan'[p] = Left(p, took)
  /\ chan'[q] = Append(Left(q, took), m)
  /\ DOMAIN pc' = Agents
  /\ \A b \in Agents : pc'[b] = IF b = a THEN at
                                ELSE IF b = Owner[q] /\ pc[b] = "idle" THEN "queued" ELSE pc[b]
  /\ pool' = IF pc[Owner[q]] = "idle" THEN Append(pool, Owner[q]) ELSE pool
  /\ counted' = IF pc[Owner[q]] = "idle" THEN counted \cup {Owner[q]} ELSE counted
  /\ UNCHANGED files

LEMMA LeftIsSeq ==
  ASSUME Types, NEW p \in Ports, NEW took, p \in took => chan[p] # <<>>
  PROVE  IsSeq(Left(p, took))
  BY TailIsSeq DEF Types, Left

\* A step that sends nothing.
LEMMA ActGoes ==
  ASSUME Types, NEW a, NEW took, took \subseteq Ports, NEW at, Act(a, took, None, at)
  PROVE  Goes(a, took, at)
<1>1. {Owner[s.port] : s \in None} = {} /\ \A p : {s.msg : s \in {s \in None : s.port = p}} = {}
  BY DEF None
<1>2. {b \in {Owner[s.port] : s \in None} : pc[b] = "idle"} = {}
  BY <1>1
<1>3. chan' = [p \in Ports |-> Left(p, took) \o <<>>]
  BY <1>1, SetToSeqSmall DEF Act, Left
<1>4. \A p \in Ports : Left(p, took) \o <<>> = Left(p, took)
  <2>1. \A p \in took : chan[p] # <<>>
    BY DEF Act
  <2> QED
    BY <2>1, LeftIsSeq, AppendIsSeq
<1>5. pool' = pool
  <2>1. pool \in Seq(Agents)
    BY DEF Types
  <2>2. pool \o <<>> = pool
    BY <2>1
  <2> QED
    BY <1>2, <2>2, SetToSeqSmall DEF Act
<1>6. pc' = [b \in Agents |-> IF b = a THEN at ELSE pc[b]]
  BY <1>2 DEF Act
<1>7. counted' = counted
  BY <1>2 DEF Act
<1> QED
  BY <1>3, <1>4, <1>5, <1>6, <1>7 DEF Act, Goes

\* A step that sends one message.
LEMMA ActSends ==
  ASSUME Types, NEW a, NEW took, took \subseteq Ports, NEW at, NEW q \in Ports, NEW m,
         Act(a, took, Msg(q, m), at)
  PROVE  GoesSends(a, took, q, m, at)
<1> DEFINE Woken == IF pc[Owner[q]] = "idle" THEN {Owner[q]} ELSE {}
<1>1. /\ {Owner[s.port] : s \in Msg(q, m)} = {Owner[q]}
      /\ \A p : {s.msg : s \in {s \in Msg(q, m) : s.port = p}} = IF p = q THEN {m} ELSE {}
  BY DEF Msg
<1>2. {b \in {Owner[s.port] : s \in Msg(q, m)} : pc[b] = "idle"} = Woken
  BY <1>1
<1> HIDE DEF Woken
<1>3. chan' = [p \in Ports |-> Left(p, took) \o (IF p = q THEN <<m>> ELSE <<>>)]
  <2>1. \A p : SetToSeq({s.msg : s \in {s \in Msg(q, m) : s.port = p}})
                 = IF p = q THEN <<m>> ELSE <<>>
    BY <1>1, SetToSeqSmall
  <2> QED
    BY <2>1 DEF Act, Left
<1>4. \A p \in Ports : /\ Left(p, took) \o <<>> = Left(p, took)
                       /\ Left(p, took) \o <<m>> = Append(Left(p, took), m)
  <2>1. \A p \in took : chan[p] # <<>>
    BY DEF Act
  <2> QED
    BY <2>1, LeftIsSeq, AppendIsSeq
<1>5. pool' = IF pc[Owner[q]] = "idle" THEN Append(pool, Owner[q]) ELSE pool
  <2>1. pool \o <<>> = pool /\ pool \o <<Owner[q]>> = Append(pool, Owner[q])
    <3>1. pool \in Seq(Agents) /\ Owner[q] \in Agents
      BY AgentsAre DEF Types
    <3> QED
      BY <3>1
  <2>2. pool' = pool \o SetToSeq(Woken)
    BY <1>2 DEF Act
  <2> QED
    BY <2>1, <2>2, SetToSeqSmall DEF Woken
<1>6. \A b \in Agents : pc'[b] = IF b = a THEN at
                                 ELSE IF b = Owner[q] /\ pc[b] = "idle" THEN "queued" ELSE pc[b]
  <2>1. pc' = [b \in Agents |-> IF b = a THEN at ELSE IF b \in Woken THEN "queued" ELSE pc[b]]
    BY <1>2 DEF Act
  <2> QED
    BY <2>1 DEF Woken
<1>7. DOMAIN pc' = Agents /\ counted' = counted \cup Woken
  BY <1>2 DEF Act
<1> QED
  BY <1>3, <1>4, <1>5, <1>6, <1>7 DEF Act, GoesSends, Woken

\* What each action does, once its messages and its wakeups are named.
LEMMA OthersDo ==
  ASSUME Types
  PROVE  /\ MainAdd =>
             GoesSends("main", {}, "start_add", "M", "")
         /\ MainHalt =>
             GoesSends("main", {}, "start_halt", "halt", "")
         /\ StartAdd =>
             IF Has("start_add") THEN GoesSends("start", {"start_add"}, "sched_action", "Add", "halt")
             ELSE Goes("start", {}, "halt")
         /\ StartHalt =>
             IF Has("start_halt") THEN GoesSends("start", {"start_halt"}, "sched_action", "Halt", "End")
             ELSE Goes("start", {}, "End")
         /\ SchedAdd =>
             GoesSends("sched", {"sched_action"}, "vm_input", Request, "graph")
         /\ SchedHalt =>
             Goes("sched", {"sched_action"}, "End")
         /\ SchedGraph =>
             Goes("sched", {"sched_graph"}, "Continue")
         /\ Find =>
             GoesSends("find", {"find_input"}, "vm_new_path", First("find_input"), "End")
<1>1. ASSUME MainAdd
      PROVE  GoesSends("main", {}, "start_add", "M", "")
  BY <1>1, PortsAre, ActGoes, ActSends DEF MainAdd
<1>2. ASSUME MainHalt
      PROVE  GoesSends("main", {}, "start_halt", "halt", "")
  BY <1>2, PortsAre, ActGoes, ActSends DEF MainHalt
<1>3. ASSUME StartAdd
      PROVE  IF Has("start_add") THEN GoesSends("start", {"start_add"}, "sched_action", "Add", "halt")
             ELSE Goes("start", {}, "halt")
  BY <1>3, PortsAre, ActGoes, ActSends DEF StartAdd
<1>4. ASSUME StartHalt
      PROVE  IF Has("start_halt") THEN GoesSends("start", {"start_halt"}, "sched_action", "Halt", "End")
             ELSE Goes("start", {}, "End")
  BY <1>4, PortsAre, ActGoes, ActSends DEF StartHalt
<1>5. ASSUME SchedAdd
      PROVE  GoesSends("sched", {"sched_action"}, "vm_input", Request, "graph")
  BY <1>5, PortsAre, ActGoes, ActSends DEF SchedAdd
<1>6. ASSUME SchedHalt
      PROVE  Goes("sched", {"sched_action"}, "End")
  BY <1>6, PortsAre, ActGoes, ActSends DEF SchedHalt
<1>7. ASSUME SchedGraph
      PROVE  Goes("sched", {"sched_graph"}, "Continue")
  BY <1>7, PortsAre, ActGoes, ActSends DEF SchedGraph
<1>8. ASSUME Find
      PROVE  GoesSends("find", {"find_input"}, "vm_new_path", First("find_input"), "End")
  BY <1>8, PortsAre, ActGoes, ActSends DEF Find
<1> QED
  BY <1>1, <1>2, <1>3, <1>4, <1>5, <1>6, <1>7, <1>8

LEMMA VmDo ==
  ASSUME Types
  PROVE  /\ VmReceive =>
             Goes("vm", {"vm_input"}, "nodes")
         /\ VmAskPath =>
             GoesSends("vm", {}, "find_input", F!Node.sort, "path")
         /\ VmAgent =>
             Goes("vm", {"vm_new_path"}, "nodes")
         /\ VmAskGraph =>
             GoesSends("vm", {"vm_new_path"}, "open_input", First("vm_new_path"), "graph")
         /\ VmGraph =>
             Goes("vm", {"vm_input"}, "nodes")
         /\ VmReturn =>
             IF Len(todo) > 1 THEN Goes("vm", {}, "nodes")
             ELSE IF F!Sends THEN GoesSends("vm", {}, "sched_graph", graph, "End")
             ELSE Goes("vm", {}, "End")
<1>1. ASSUME VmReceive
      PROVE  Goes("vm", {"vm_input"}, "nodes")
  BY <1>1, PortsAre, ActGoes, ActSends DEF VmReceive
<1>2. ASSUME VmAskPath
      PROVE  GoesSends("vm", {}, "find_input", F!Node.sort, "path")
  BY <1>2, PortsAre, ActGoes, ActSends DEF VmAskPath
<1>3. ASSUME VmAgent
      PROVE  Goes("vm", {"vm_new_path"}, "nodes")
  BY <1>3, PortsAre, ActGoes, ActSends DEF VmAgent
<1>4. ASSUME VmAskGraph
      PROVE  GoesSends("vm", {"vm_new_path"}, "open_input", First("vm_new_path"), "graph")
  BY <1>4, PortsAre, ActGoes, ActSends DEF VmAskGraph
<1>5. ASSUME VmGraph
      PROVE  Goes("vm", {"vm_input"}, "nodes")
  BY <1>5, PortsAre, ActGoes, ActSends DEF VmGraph
<1>6. ASSUME VmReturn
      PROVE  IF Len(todo) > 1 THEN Goes("vm", {}, "nodes")
             ELSE IF F!Sends THEN GoesSends("vm", {}, "sched_graph", graph, "End")
             ELSE Goes("vm", {}, "End")
  BY <1>6, PortsAre, ActGoes, ActSends DEF VmReturn
<1> QED
  BY <1>1, <1>2, <1>3, <1>4, <1>5, <1>6

LEMMA StreamsDo ==
  ASSUME Types
  PROVE  /\ OpenFile =>
             LET path == First("open_input") IN
             IF Fate(path) = "missing"
             THEN GoesSends("open", {"open_input"}, "errors_file", path, "End")
             ELSE GoesSends("open", {"open_input"}, "lex_input", Start(path), "lines")
         /\ OpenLine =>
             IF Fate(reading.path) = "unreadable" /\ reading.left = 1
             THEN Goes("open", {}, "Err")
             ELSE GoesSends("open", {}, "lex_input", Text, "lines")
         /\ OpenEnd =>
             GoesSends("open", {}, "lex_input", End(reading.path), "End")
         /\ LexStart =>
             GoesSends("lex", {"lex_input"}, "sem_input", First("lex_input"), "stream")
         /\ LexNext =>
             GoesSends("lex", {"lex_input"}, "sem_input", First("lex_input"),
                       IF First("lex_input").kind = "End" THEN "End" ELSE "stream")
         /\ SemStart =>
             Goes("sem", {"sem_input"}, "stream")
         /\ SemStray =>
             Goes("sem", {"sem_input"}, "Err")
         /\ SemToken =>
             IF Fate(parsing) = "stuck"
             THEN \E at \in {"Err", "dead"} : Goes("sem", {"sem_input"}, at)
             ELSE Goes("sem", {"sem_input"}, "stream")
         /\ SemEnd =>
             IF Fate(parsing) = "unparsable"
             THEN GoesSends("sem", {"sem_input"}, "errors_semantic", parsing, "End")
             ELSE GoesSends("sem", {"sem_input"}, "check_input", parsing, "End")
<1>1. ASSUME OpenFile
      PROVE  LET path == First("open_input") IN
             IF Fate(path) = "missing"
             THEN GoesSends("open", {"open_input"}, "errors_file", path, "End")
             ELSE GoesSends("open", {"open_input"}, "lex_input", Start(path), "lines")
  BY <1>1, PortsAre, ActGoes, ActSends DEF OpenFile
<1>2. ASSUME OpenLine
      PROVE  IF Fate(reading.path) = "unreadable" /\ reading.left = 1
             THEN Goes("open", {}, "Err")
             ELSE GoesSends("open", {}, "lex_input", Text, "lines")
  BY <1>2, PortsAre, ActGoes, ActSends DEF OpenLine
<1>3. ASSUME OpenEnd
      PROVE  GoesSends("open", {}, "lex_input", End(reading.path), "End")
  BY <1>3, PortsAre, ActGoes, ActSends DEF OpenEnd
<1>4. ASSUME LexStart
      PROVE  GoesSends("lex", {"lex_input"}, "sem_input", First("lex_input"), "stream")
  BY <1>4, PortsAre, ActGoes, ActSends DEF LexStart
<1>5. ASSUME LexNext
      PROVE  GoesSends("lex", {"lex_input"}, "sem_input", First("lex_input"),
                       IF First("lex_input").kind = "End" THEN "End" ELSE "stream")
  BY <1>5, PortsAre, ActGoes, ActSends DEF LexNext
<1>6. ASSUME SemStart
      PROVE  Goes("sem", {"sem_input"}, "stream")
  BY <1>6, PortsAre, ActGoes, ActSends DEF SemStart
<1>7. ASSUME SemStray
      PROVE  Goes("sem", {"sem_input"}, "Err")
  BY <1>7, PortsAre, ActGoes, ActSends DEF SemStray
<1>8. ASSUME SemToken
      PROVE  IF Fate(parsing) = "stuck"
             THEN \E at \in {"Err", "dead"} : Goes("sem", {"sem_input"}, at)
             ELSE Goes("sem", {"sem_input"}, "stream")
  BY <1>8, PortsAre, ActGoes, ActSends DEF SemToken
<1>9. ASSUME SemEnd
      PROVE  IF Fate(parsing) = "unparsable"
             THEN GoesSends("sem", {"sem_input"}, "errors_semantic", parsing, "End")
             ELSE GoesSends("sem", {"sem_input"}, "check_input", parsing, "End")
  BY <1>9, PortsAre, ActGoes, ActSends DEF SemEnd
<1> QED
  BY <1>1, <1>2, <1>3, <1>4, <1>5, <1>6, <1>7, <1>8, <1>9

LEMMA CheckDo ==
  ASSUME Types
  PROVE  /\ Check =>
             LET path == First("check_input") IN
             IF Fate(path) = "ill-formed"
             THEN GoesSends("check", {"check_input"}, "errors_semantic", path, "End")
             ELSE GoesSends("check", {"check_input"}, "vm_input", files[path].graph, "End")
         /\ ErrorsSemantic =>
             Goes("errors", {p \in {"errors_semantic"} : Has(p)}, "file")
         /\ ErrorsFile =>
             GoesSends("errors", {p \in {"errors_file"} : Has(p)}, "vm_input", ErrorGraph, "End")
<1>1. ASSUME Check
      PROVE  LET path == First("check_input") IN
             IF Fate(path) = "ill-formed"
             THEN GoesSends("check", {"check_input"}, "errors_semantic", path, "End")
             ELSE GoesSends("check", {"check_input"}, "vm_input", files[path].graph, "End")
  BY <1>1, PortsAre, ActGoes, ActSends DEF Check
<1>2. ASSUME ErrorsSemantic
      PROVE  Goes("errors", {p \in {"errors_semantic"} : Has(p)}, "file")
  BY <1>2, PortsAre, ActGoes, ActSends DEF ErrorsSemantic
<1>3. ASSUME ErrorsFile
      PROVE  GoesSends("errors", {p \in {"errors_file"} : Has(p)}, "vm_input", ErrorGraph, "End")
  BY <1>3, PortsAre, ActGoes, ActSends DEF ErrorsFile
<1> QED
  BY <1>1, <1>2, <1>3

-----------------------------------------------------------------------------
(* The main thread goes on when everything is quiet.                        *)

\* An agent with a message does not rest, and one that does not rest is counted.
\* The runs that wait for a thread are of different agents.  A main thread that
\* went on found none counted.
Awake ==
  /\ \A p \in Ports : chan[p] # <<>> => pc[Owner[p]] # "idle"
  /\ \A a \in Agents : pc[a] # "idle" => a \in counted
  /\ \A i \in 1..Len(pool) : pc[pool[i]] = "queued"
  /\ \A i, j \in 1..Len(pool) : pool[i] = pool[j] => i = j
  /\ main = "ended" => counted = {}

Busy == {"idle", "queued"}

LEMMA Quiet ==
  ASSUME Types, Awake
  PROVE  JoinsQuiet
  BY AgentsAre DEF Types, Awake, JoinsQuiet

\* A step of an agent that runs, or of the main thread, when nothing is sent.
LEMMA GoesAwake ==
  ASSUME Types, Awake, NEW a, a \in Agents => pc[a] \notin Busy,
         NEW took, took \subseteq Ports, NEW at, at \notin Busy, Goes(a, took, at),
         main' = "ended" => a \in Agents /\ main = "ended"
  PROVE  Types' /\ Awake'
<1>1. Types'
  <2>1. \A p \in Ports : IsSeq(Left(p, took))
    BY LeftIsSeq DEF Goes
  <2> QED
    BY <2>1 DEF Types, Goes, IsSeq, Elements
<1>2. ASSUME NEW p \in Ports, chan'[p] # <<>>
      PROVE  chan[p] # <<>>
  BY <1>2 DEF Goes, Left
<1>3. \A i \in 1..Len(pool) : pool[i] \in Agents
  BY DEF Types
<1>4. \A b \in Agents : pc'[b] = IF b = a THEN at ELSE pc[b]
  BY DEF Goes
<1>5. \A p \in Ports : chan'[p] # <<>> => pc'[Owner[p]] # "idle"
  BY <1>2, <1>4, AgentsAre DEF Awake, Busy
<1>6. \A b \in Agents : pc'[b] # "idle" => b \in counted'
  BY <1>4 DEF Awake, Busy, Goes
<1>7. \A i \in 1..Len(pool') : pc'[pool'[i]] = "queued"
  BY <1>3, <1>4 DEF Awake, Busy, Goes
<1>8. main' = "ended" => counted' = {}
  BY DEF Awake, Busy, Goes
<1> QED
  BY <1>1, <1>5, <1>6, <1>7, <1>8 DEF Awake, Goes

\* And when a message is sent, which wakes its agent.
LEMMA SendsAwake ==
  ASSUME Types, Awake, NEW a, a \in Agents => pc[a] \notin Busy,
         NEW took, took \subseteq Ports, NEW q \in Ports, NEW m, NEW at, at \notin Busy,
         GoesSends(a, took, q, m, at),
         main' = "ended" => a \in Agents /\ main = "ended"
  PROVE  Types' /\ Awake'
<1>1. \A p \in Ports : IsSeq(Left(p, took))
  BY LeftIsSeq DEF GoesSends
<1>2. Owner[q] \in Agents
  BY AgentsAre
<1>3. pool \in Seq(Agents) /\ Len(pool) \in Nat /\ \A i \in 1..Len(pool) : pool[i] \in Agents
  BY DEF Types
<1>4. Append(pool, Owner[q]) \in Seq(Agents)
      /\ Len(Append(pool, Owner[q])) = Len(pool) + 1
      /\ Append(pool, Owner[q])[Len(pool) + 1] = Owner[q]
      /\ \A i \in 1..Len(pool) : Append(pool, Owner[q])[i] = pool[i]
  BY <1>2, <1>3
<1>5. Types'
  <2>1. IsSeq(Append(Left(q, took), m))
    BY <1>1, AppendIsSeq
  <2>2. \A p \in Ports : IsSeq(chan'[p])
    BY <1>1, <2>1 DEF GoesSends
  <2>3. pool' \in Seq(Agents)
    BY <1>3, <1>4 DEF GoesSends
  <2>4. counted' \subseteq Agents
    BY <1>2 DEF GoesSends, Types
  <2> QED
    BY <2>2, <2>3, <2>4 DEF Types, GoesSends, IsSeq, Elements
<1>6. \A b \in Agents : pc'[b] = IF b = a THEN at
                                ELSE IF b = Owner[q] /\ pc[b] = "idle" THEN "queued" ELSE pc[b]
  BY DEF GoesSends
<1>7. \A p \in Ports : chan'[p] # <<>> => pc'[Owner[p]] # "idle"
  <2>1. \A p \in Ports \ {q} : chan'[p] # <<>> => chan[p] # <<>>
    BY DEF GoesSends, Left
  <2>2. pc'[Owner[q]] # "idle"
    BY <1>2, <1>6 DEF Busy
  <2> QED
    BY <1>6, <2>1, <2>2, AgentsAre DEF Awake, Busy
<1>8. \A b \in Agents : pc'[b] # "idle" => b \in counted'
  BY <1>6 DEF Awake, Busy, GoesSends
<1>9. /\ \A i \in 1..Len(pool') : pc'[pool'[i]] = "queued"
      /\ \A i, j \in 1..Len(pool') : pool'[i] = pool'[j] => i = j
  <2>1. \A i \in 1..Len(pool) : pc'[pool[i]] = "queued"
    BY <1>3, <1>6 DEF Awake, Busy
  <2>2. CASE pc[Owner[q]] = "idle"
    <3>1. pool' = Append(pool, Owner[q])
      BY <2>2 DEF GoesSends
    <3>2. pc'[Owner[q]] = "queued"
      BY <1>2, <1>6, <2>2 DEF Busy
    <3>3. \A i \in 1..Len(pool) : pool[i] # Owner[q]
      BY <2>2 DEF Awake
    <3>4. \A i \in 1..Len(pool') : i \in 1..Len(pool) \/ i = Len(pool) + 1
      BY <1>3, <1>4, <3>1
    <3>5. \A i \in 1..Len(pool') : pc'[pool'[i]] = "queued"
      BY <1>4, <2>1, <3>1, <3>2, <3>4
    <3>6. \A i, j \in 1..Len(pool') : pool'[i] = pool'[j] => i = j
      BY <1>4, <3>1, <3>3, <3>4 DEF Awake
    <3> QED
      BY <3>5, <3>6
  <2>3. CASE pc[Owner[q]] # "idle"
    BY <2>1, <2>3 DEF GoesSends, Awake
  <2> QED
    BY <2>2, <2>3
<1>10. main' = "ended" => counted' = {}
  BY DEF Awake, Busy, GoesSends
<1> QED
  BY <1>5, <1>7, <1>8, <1>9, <1>10 DEF Awake

\* Agents that may act, and do something else than wait.
LEMMA InitAwake ==
  ASSUME Init
  PROVE  Types /\ Awake
<1>1. /\ DOMAIN chan = Ports /\ \A p \in Ports : chan[p] = <<>>
      /\ DOMAIN pc = Agents /\ \A a \in Agents : pc[a] = "idle"
      /\ pool = <<>> /\ counted = {} /\ main = "add"
  BY DEF Init
<1>2. pool \in Seq(Agents) /\ 1..Len(pool) = {}
  BY <1>1
<1>3. Types
  BY <1>1, <1>2, EmptyIsSeq DEF Types, IsSeq, Elements
<1>4. Awake
  BY <1>1, <1>2 DEF Awake
<1> QED
  BY <1>3, <1>4

LEMMA MainAwake ==
  ASSUME Types, Awake, Main
  PROVE  Types' /\ Awake'
<1>1. "main" \notin Agents /\ "" \notin Busy /\ {} \subseteq Ports
  BY AgentsAre DEF Busy
<1>2. CASE MainAdd
  <2>1. GoesSends("main", {}, "start_add", "M", "") /\ main' # "ended"
    BY <1>2, OthersDo DEF MainAdd
  <2> QED
    BY <1>1, <2>1, PortsAre, SendsAwake
<1>3. CASE MainHalt
  <2>1. GoesSends("main", {}, "start_halt", "halt", "") /\ main' # "ended"
    BY <1>3, OthersDo DEF MainHalt
  <2> QED
    BY <1>1, <2>1, PortsAre, SendsAwake
<1>4. CASE MainJoin
  <2>1. UNCHANGED <<chan, pc, pool, counted>> /\ counted = {}
    BY <1>4 DEF MainJoin, sched
  <2> QED
    BY <2>1 DEF Types, Awake, IsSeq, Elements
<1> QED
  BY <1>2, <1>3, <1>4 DEF Main

LEMMA DispatchAwake ==
  ASSUME Types, Awake, Dispatch
  PROVE  Types' /\ Awake'
<1>1. /\ pool \in Seq(Agents) /\ pool # <<>>
      /\ UNCHANGED <<chan, counted, main>>
      /\ pc' = [pc EXCEPT ![pool[1]] = "run"] /\ pool' = Tail(pool)
  BY DEF Dispatch, Types
<1>2. /\ pool' \in Seq(Agents) /\ Len(pool) \in Nat \ {0} /\ Len(pool') = Len(pool) - 1
      /\ \A i \in 1..Len(pool') : pool'[i] = pool[i + 1] /\ i + 1 \in 1..Len(pool)
      /\ pool[1] \in Agents /\ 1 \in 1..Len(pool)
  BY <1>1
<1>3. DOMAIN pc' = Agents /\ \A b \in Agents : pc'[b] = IF b = pool[1] THEN "run" ELSE pc[b]
  BY <1>1 DEF Types
<1>4. Types'
  BY <1>1, <1>2, <1>3 DEF Types, IsSeq, Elements
<1>5. \A i \in 1..Len(pool') : pool'[i] # pool[1]
  <2> SUFFICES ASSUME NEW i \in 1..Len(pool')
               PROVE  pool'[i] # pool[1]
    OBVIOUS
  <2>1. i + 1 # 1 /\ i + 1 \in 1..Len(pool) /\ pool'[i] = pool[i + 1]
    BY <1>2
  <2> QED
    BY <1>2, <2>1 DEF Awake
<1>6. \A i \in 1..Len(pool') : pc'[pool'[i]] = "queued"
  <2>1. \A i \in 1..Len(pool') : pool'[i] \in Agents
    BY <1>2
  <2> QED
    BY <1>2, <1>3, <1>5, <2>1 DEF Awake
<1>7. \A i, j \in 1..Len(pool') : pool'[i] = pool'[j] => i = j
  <2> SUFFICES ASSUME NEW i \in 1..Len(pool'), NEW j \in 1..Len(pool'), pool'[i] = pool'[j]
               PROVE  i = j
    OBVIOUS
  <2>1. i + 1 = j + 1
    BY <1>2 DEF Awake
  <2> QED
    BY <1>2, <2>1
<1>8. pc[pool[1]] = "queued"
  BY <1>2 DEF Awake
<1>9. /\ \A p \in Ports : chan'[p] # <<>> => pc'[Owner[p]] # "idle"
      /\ \A a \in Agents : pc'[a] # "idle" => a \in counted'
  BY <1>1, <1>3, <1>8, AgentsAre DEF Awake
<1> QED
  BY <1>1, <1>4, <1>6, <1>7, <1>9 DEF Awake

LEMMA RunEndAwake ==
  ASSUME Types, Awake, NEW a \in Agents, RunEnd(a)
  PROVE  Types' /\ Awake'
<1> DEFINE again == \E p \in Ports : Owner[p] = a /\ Has(p)
<1>1. /\ UNCHANGED <<chan, main>> /\ pc[a] \in Results
      /\ pc' = [pc EXCEPT ![a] = IF again THEN "queued" ELSE "idle"]
      /\ pool' = IF again THEN Append(pool, a) ELSE pool
      /\ counted' = IF pc[a] = "End" /\ ~again THEN counted \ {a} ELSE counted
  BY DEF RunEnd
<1>2. \A p \in Ports : Owner[p] = a /\ chan[p] # <<>> => again
  BY DEF Has
<1> HIDE DEF again
<1>3. pc[a] \notin Busy
  BY <1>1 DEF Results, Busy
<1>4. /\ pool \in Seq(Agents) /\ Len(pool) \in Nat
      /\ \A i \in 1..Len(pool) : pool[i] \in Agents /\ pool[i] # a
  BY <1>3 DEF Types, Awake, Busy
<1>5. DOMAIN pc' = Agents
      /\ \A b \in Agents : pc'[b] = IF b # a THEN pc[b] ELSE IF again THEN "queued" ELSE "idle"
  BY <1>1 DEF Types
<1>6. \A p \in Ports : chan'[p] # <<>> => pc'[Owner[p]] # "idle"
  BY <1>1, <1>2, <1>5, AgentsAre DEF Awake
<1>7. \A b \in Agents : pc'[b] # "idle" => b \in counted'
  BY <1>1, <1>3, <1>5 DEF Awake, Busy
<1>8. main' = "ended" => counted' = {}
  BY <1>1 DEF Awake
<1>9. \A i \in 1..Len(pool) : pc'[pool[i]] = "queued"
  BY <1>4, <1>5 DEF Awake
<1>10. CASE again
  <2>1. /\ Append(pool, a) \in Seq(Agents) /\ Len(Append(pool, a)) = Len(pool) + 1
        /\ Append(pool, a)[Len(pool) + 1] = a
        /\ \A i \in 1..Len(pool) : Append(pool, a)[i] = pool[i]
    BY <1>4
  <2>2. pool' = Append(pool, a) /\ pc'[a] = "queued"
    BY <1>1, <1>5, <1>10
  <2>3. \A i \in 1..Len(pool') : i \in 1..Len(pool) \/ i = Len(pool) + 1
    BY <1>4, <2>1, <2>2
  <2>4. \A i \in 1..Len(pool') : pc'[pool'[i]] = "queued"
    BY <1>9, <2>1, <2>2, <2>3
  <2>5. \A i, j \in 1..Len(pool') : pool'[i] = pool'[j] => i = j
    BY <1>4, <2>1, <2>2, <2>3 DEF Awake
  <2>6. Types'
    BY <1>1, <1>5, <2>1, <2>2 DEF Types, IsSeq, Elements
  <2> QED
    BY <1>6, <1>7, <1>8, <2>4, <2>5, <2>6 DEF Awake
<1>11. CASE ~again
  <2>1. pool' = pool
    BY <1>1, <1>11
  <2>2. Types'
    BY <1>1, <1>5, <2>1 DEF Types, IsSeq, Elements
  <2> QED
    BY <1>6, <1>7, <1>8, <1>9, <2>1, <2>2 DEF Awake
<1> QED
  BY <1>10, <1>11

\* The steps of the agents, one by one.
LEMMA OthersAwake ==
  ASSUME Types, Awake, UNCHANGED main,
         StartAdd \/ StartHalt \/ SchedAdd \/ SchedHalt \/ SchedGraph \/ Find
  PROVE  Types' /\ Awake'
<1>1. CASE StartAdd
  <2>1. "start" \in Agents /\ pc["start"] \notin Busy
    BY <1>1, AgentsAre DEF StartAdd, Busy
  <2>2. \/ GoesSends("start", {"start_add"}, "sched_action", "Add", "halt")
        \/ Goes("start", {}, "halt")
    BY <1>1, OthersDo
  <2>3. {"start_add"} \subseteq Ports /\ "sched_action" \in Ports /\ "halt" \notin Busy
    BY PortsAre DEF Busy
  <2> QED
    BY <2>1, <2>2, <2>3, GoesAwake, SendsAwake
<1>2. CASE StartHalt
  <2>1. "start" \in Agents /\ pc["start"] \notin Busy
    BY <1>2, AgentsAre DEF StartHalt, Busy
  <2>2. \/ GoesSends("start", {"start_halt"}, "sched_action", "Halt", "End")
        \/ Goes("start", {}, "End")
    BY <1>2, OthersDo
  <2>3. {"start_halt"} \subseteq Ports /\ "sched_action" \in Ports /\ "End" \notin Busy
    BY PortsAre DEF Busy
  <2> QED
    BY <2>1, <2>2, <2>3, GoesAwake, SendsAwake
<1>3. CASE SchedAdd
  <2>1. "sched" \in Agents /\ pc["sched"] \notin Busy
    BY <1>3, AgentsAre DEF SchedAdd, Busy
  <2>2. GoesSends("sched", {"sched_action"}, "vm_input", Request, "graph")
    BY <1>3, OthersDo
  <2>3. {"sched_action"} \subseteq Ports /\ "vm_input" \in Ports /\ "graph" \notin Busy
    BY PortsAre DEF Busy
  <2> QED
    BY <2>1, <2>2, <2>3, GoesAwake, SendsAwake
<1>4. CASE SchedHalt
  <2>1. "sched" \in Agents /\ pc["sched"] \notin Busy
    BY <1>4, AgentsAre DEF SchedHalt, Busy
  <2>2. Goes("sched", {"sched_action"}, "End")
    BY <1>4, OthersDo
  <2>3. {"sched_action"} \subseteq Ports /\ "End" \notin Busy
    BY PortsAre DEF Busy
  <2> QED
    BY <2>1, <2>2, <2>3, GoesAwake, SendsAwake
<1>5. CASE SchedGraph
  <2>1. "sched" \in Agents /\ pc["sched"] \notin Busy
    BY <1>5, AgentsAre DEF SchedGraph, Busy
  <2>2. Goes("sched", {"sched_graph"}, "Continue")
    BY <1>5, OthersDo
  <2>3. {"sched_graph"} \subseteq Ports /\ "Continue" \notin Busy
    BY PortsAre DEF Busy
  <2> QED
    BY <2>1, <2>2, <2>3, GoesAwake, SendsAwake
<1>6. CASE Find
  <2>1. "find" \in Agents /\ pc["find"] \notin Busy
    BY <1>6, AgentsAre DEF Find, Busy
  <2>2. GoesSends("find", {"find_input"}, "vm_new_path", First("find_input"), "End")
    BY <1>6, OthersDo
  <2>3. {"find_input"} \subseteq Ports /\ "vm_new_path" \in Ports /\ "End" \notin Busy
    BY PortsAre DEF Busy
  <2> QED
    BY <2>1, <2>2, <2>3, GoesAwake, SendsAwake
<1> QED
  BY <1>1, <1>2, <1>3, <1>4, <1>5, <1>6

LEMMA VmAwake ==
  ASSUME Types, Awake, UNCHANGED main,
         VmReceive \/ VmAskPath \/ VmAgent \/ VmAskGraph \/ VmGraph \/ VmReturn
  PROVE  Types' /\ Awake'
<1>1. CASE VmReceive
  <2>1. "vm" \in Agents /\ pc["vm"] \notin Busy
    BY <1>1, AgentsAre DEF VmReceive, Busy
  <2>2. Goes("vm", {"vm_input"}, "nodes")
    BY <1>1, VmDo
  <2>3. {"vm_input"} \subseteq Ports /\ "nodes" \notin Busy
    BY PortsAre DEF Busy
  <2> QED
    BY <2>1, <2>2, <2>3, GoesAwake
<1>2. CASE VmAskPath
  <2>1. "vm" \in Agents /\ pc["vm"] \notin Busy
    BY <1>2, AgentsAre DEF VmAskPath, Busy
  <2>2. GoesSends("vm", {}, "find_input", F!Node.sort, "path")
    BY <1>2, VmDo
  <2>3. "path" \notin Busy /\ {} \subseteq Ports /\ "find_input" \in Ports
    BY PortsAre DEF Busy
  <2> QED
    BY <2>1, <2>2, <2>3, SendsAwake
<1>3. CASE VmAgent
  <2>1. "vm" \in Agents /\ pc["vm"] \notin Busy
    BY <1>3, AgentsAre DEF VmAgent, Busy
  <2>2. Goes("vm", {"vm_new_path"}, "nodes")
    BY <1>3, VmDo
  <2>3. {"vm_new_path"} \subseteq Ports /\ "nodes" \notin Busy
    BY PortsAre DEF Busy
  <2> QED
    BY <2>1, <2>2, <2>3, GoesAwake
<1>4. CASE VmAskGraph
  <2>1. "vm" \in Agents /\ pc["vm"] \notin Busy
    BY <1>4, AgentsAre DEF VmAskGraph, Busy
  <2>2. GoesSends("vm", {"vm_new_path"}, "open_input", First("vm_new_path"), "graph")
    BY <1>4, VmDo
  <2>3. {"vm_new_path"} \subseteq Ports /\ "open_input" \in Ports /\ "graph" \notin Busy
    BY PortsAre DEF Busy
  <2> QED
    BY <2>1, <2>2, <2>3, SendsAwake
<1>5. CASE VmGraph
  <2>1. "vm" \in Agents /\ pc["vm"] \notin Busy
    BY <1>5, AgentsAre DEF VmGraph, Busy
  <2>2. Goes("vm", {"vm_input"}, "nodes")
    BY <1>5, VmDo
  <2>3. {"vm_input"} \subseteq Ports /\ "nodes" \notin Busy
    BY PortsAre DEF Busy
  <2> QED
    BY <2>1, <2>2, <2>3, GoesAwake
<1>6. CASE VmReturn
  <2>1. "vm" \in Agents /\ pc["vm"] \notin Busy
    BY <1>6, AgentsAre DEF VmReturn, Busy
  <2>2. \/ \E at \in {"nodes", "End"} : Goes("vm", {}, at)
        \/ GoesSends("vm", {}, "sched_graph", graph, "End")
    BY <1>6, VmDo
  <2>3. "sched_graph" \in Ports /\ "nodes" \notin Busy /\ "End" \notin Busy
    BY PortsAre DEF Busy
  <2> QED
    BY <2>1, <2>2, <2>3, GoesAwake, SendsAwake
<1> QED
  BY <1>1, <1>2, <1>3, <1>4, <1>5, <1>6

LEMMA StreamsAwake ==
  ASSUME Types, Awake, UNCHANGED main,
         OpenFile \/ OpenLine \/ OpenEnd \/ LexStart \/ LexNext
           \/ SemStart \/ SemStray \/ SemToken \/ SemEnd
  PROVE  Types' /\ Awake'
<1>1. CASE OpenFile
  <2>1. "open" \in Agents /\ pc["open"] \notin Busy
    BY <1>1, AgentsAre DEF OpenFile, Busy
  <2>2. \E m : \/ GoesSends("open", {"open_input"}, "errors_file", m, "End")
                \/ GoesSends("open", {"open_input"}, "lex_input", m, "lines")
    BY <1>1, StreamsDo
  <2>3. /\ {"open_input"} \subseteq Ports /\ {"errors_file", "lex_input"} \subseteq Ports
        /\ "End" \notin Busy /\ "lines" \notin Busy
    BY PortsAre DEF Busy
  <2> QED
    BY <2>1, <2>2, <2>3, GoesAwake, SendsAwake
<1>2. CASE OpenLine
  <2>1. "open" \in Agents /\ pc["open"] \notin Busy
    BY <1>2, AgentsAre DEF OpenLine, Busy
  <2> QED
    BY <1>2, <2>1, StreamsDo, PortsAre, GoesAwake, SendsAwake DEF Busy
<1>3. CASE OpenEnd
  <2>1. "open" \in Agents /\ pc["open"] \notin Busy
    BY <1>3, AgentsAre DEF OpenEnd, Busy
  <2> QED
    BY <1>3, <2>1, StreamsDo, PortsAre, GoesAwake, SendsAwake DEF Busy
<1>4. CASE LexStart
  <2>1. "lex" \in Agents /\ pc["lex"] \notin Busy
    BY <1>4, AgentsAre DEF LexStart, Busy
  <2> QED
    BY <1>4, <2>1, StreamsDo, PortsAre, GoesAwake, SendsAwake DEF Busy
<1>5. CASE LexNext
  <2>1. "lex" \in Agents /\ pc["lex"] \notin Busy
    BY <1>5, AgentsAre DEF LexNext, Busy
  <2> QED
    BY <1>5, <2>1, StreamsDo, PortsAre, GoesAwake, SendsAwake DEF Busy
<1>6. CASE SemStart
  <2>1. "sem" \in Agents /\ pc["sem"] \notin Busy
    BY <1>6, AgentsAre DEF SemStart, Busy
  <2> QED
    BY <1>6, <2>1, StreamsDo, PortsAre, GoesAwake, SendsAwake DEF Busy
<1>7. CASE SemStray
  <2>1. "sem" \in Agents /\ pc["sem"] \notin Busy
    BY <1>7, AgentsAre DEF SemStray, Busy
  <2> QED
    BY <1>7, <2>1, StreamsDo, PortsAre, GoesAwake, SendsAwake DEF Busy
<1>8. CASE SemToken
  <2>1. "sem" \in Agents /\ pc["sem"] \notin Busy
    BY <1>8, AgentsAre DEF SemToken, Busy
  <2> QED
    BY <1>8, <2>1, StreamsDo, PortsAre, GoesAwake, SendsAwake DEF Busy
<1>9. CASE SemEnd
  <2>1. "sem" \in Agents /\ pc["sem"] \notin Busy
    BY <1>9, AgentsAre DEF SemEnd, Busy
  <2> QED
    BY <1>9, <2>1, StreamsDo, PortsAre, GoesAwake, SendsAwake DEF Busy
<1> QED
  BY <1>1, <1>2, <1>3, <1>4, <1>5, <1>6, <1>7, <1>8, <1>9

LEMMA ChecksAwake ==
  ASSUME Types, Awake, UNCHANGED main,
         Check \/ ErrorsSemantic \/ ErrorsFile
  PROVE  Types' /\ Awake'
<1>1. CASE Check
  <2>1. "check" \in Agents /\ pc["check"] \notin Busy
    BY <1>1, AgentsAre DEF Check, Busy
  <2> QED
    BY <1>1, <2>1, CheckDo, PortsAre, GoesAwake, SendsAwake DEF Busy
<1>2. CASE ErrorsSemantic
  <2>1. "errors" \in Agents /\ pc["errors"] \notin Busy
    BY <1>2, AgentsAre DEF ErrorsSemantic, Busy
  <2> QED
    BY <1>2, <2>1, CheckDo, PortsAre, GoesAwake, SendsAwake DEF Busy
<1>3. CASE ErrorsFile
  <2>1. "errors" \in Agents /\ pc["errors"] \notin Busy
    BY <1>3, AgentsAre DEF ErrorsFile, Busy
  <2>2. GoesSends("errors", {p \in {"errors_file"} : Has(p)}, "vm_input", ErrorGraph, "End")
    BY <1>3, CheckDo
  <2>3. /\ "End" \notin Busy /\ "vm_input" \in Ports
        /\ {p \in {"errors_file"} : Has(p)} \subseteq Ports
    BY PortsAre DEF Busy
  <2> QED
    BY <2>1, <2>2, <2>3, SendsAwake
<1> QED
  BY <1>1, <1>2, <1>3

\* Every step of the program.
LEMMA StepAwake ==
  ASSUME Types, Awake, [Next]_vars
  PROVE  Types' /\ Awake'
<1>1. CASE Main
  BY <1>1, MainAwake
<1>2. CASE Dispatch
  BY <1>2, DispatchAwake
<1>3. CASE \E a \in Agents : RunEnd(a)
  BY <1>3, RunEndAwake
<1>4. CASE Rest /\ UNCHANGED <<main, locals, vm>>
  BY <1>4, OthersAwake, ChecksAwake DEF Rest, Others
<1>5. CASE SchedGraph /\ UNCHANGED <<main, reading, parsing, vm>>
  BY <1>5, OthersAwake
<1>6. CASE Vm /\ UNCHANGED <<main, locals>>
  BY <1>6, VmAwake DEF Vm
<1>7. CASE Streams /\ UNCHANGED <<main, loaded, vm>>
  BY <1>7, StreamsAwake DEF Streams, Open, Lex, Sem
<1>8. CASE UNCHANGED vars
  BY <1>8 DEF vars, sched, Types, Awake, IsSeq, Elements
<1> QED
  BY <1>1, <1>2, <1>3, <1>4, <1>5, <1>6, <1>7, <1>8 DEF Next

\* When the main thread goes on after the join, no message is left and no agent
\* runs or waits for a thread (the scheduler's count of nodes/fvm/rs/main.rs): for
\* all files, all bounds and any number of threads.
THEOREM EndIsQuiet == Spec => []JoinsQuiet
<1>1. Init => Types /\ Awake
  BY InitAwake
<1>2. Types /\ Awake /\ [Next]_vars => (Types /\ Awake)'
  BY StepAwake
<1>3. Types /\ Awake => JoinsQuiet
  BY Quiet
<1> QED
  BY <1>1, <1>2, <1>3, PTL DEF Spec
-----------------------------------------------------------------------------
(* The answers that the vm gets.                                            *)

\* A request is on its way, from the main thread over start and sched to the vm,
\* or none is.
Adds == {i \in 1..Len(chan["sched_action"]) : chan["sched_action"][i] = "Add"}

NoRequest == main # "add" /\ chan["start_add"] = <<>> /\ Adds = {}

OneRequest ==
  \/ main = "add" /\ chan["start_add"] = <<>> /\ Adds = {} /\ chan["vm_input"] = <<>>
  \/ /\ main # "add" /\ Len(chan["start_add"]) = 1 /\ Adds = {} /\ chan["vm_input"] = <<>>
  \/ /\ main # "add" /\ chan["start_add"] = <<>> /\ chan["vm_input"] = <<>>
     /\ \E i \in Adds : Adds = {i}
  \/ NoRequest /\ chan["vm_input"] = <<Request>>

AtWork == {"nodes", "path", "graph"}

\* The vm is asked once, and before it began.
Requested ==
  IF pc["vm"] \in AtWork THEN NoRequest
  ELSE \/ todo = <<>> /\ sent = "none" /\ OneRequest
       \/ NoRequest /\ chan["vm_input"] = <<>>

\* When the vm waits for a path, the sort of its node is with find or comes back.
PathAsked ==
  IF pc["vm"] = "path"
  THEN F!AtNode /\ \/ chan["find_input"] = <<F!Node.sort>> /\ chan["vm_new_path"] = <<>>
                   \/ chan["vm_new_path"] = <<F!Node.sort>> /\ chan["find_input"] = <<>>
  ELSE chan["find_input"] = <<>> /\ chan["vm_new_path"] = <<>>

\* The agents behind the vm have nothing to do.  An agent errors that is woken
\* for nothing would send an error graph that nobody waits for.
OpenQuiet == chan["open_input"] = <<>> /\ pc["open"] # "lines"
LexQuiet == chan["lex_input"] = <<>> /\ pc["lex"] # "stream"
SemQuiet == chan["sem_input"] = <<>> /\ pc["sem"] # "stream"
CheckQuiet == chan["check_input"] = <<>>
ErrorsQuiet ==
  /\ chan["errors_file"] = <<>> /\ chan["errors_semantic"] = <<>>
  /\ pc["errors"] \notin {"queued", "run", "file"}

\* The stream of the file s: what of it is after the first i, up to the first j.
Item(s, k) == IF k = 1 THEN Start(s) ELSE IF k = Lines + 2 THEN End(s) ELSE Text
Slice(s, i, j) == [k \in 1..(j - i) |-> Item(s, i + k)]

\* open sent n items, of which lex took l and sem c.
Opened(s, n) ==
  \/ /\ pc["open"] = "lines" /\ n \in 1..(Lines + 1)
     /\ reading = [path |-> s, left |-> Lines + 1 - n]
     /\ Fate(s) = "unreadable" => n <= Lines
  \/ pc["open"] # "lines" /\ n = Lines + 2 /\ Fate(s) # "unreadable"
  \/ pc["open"] # "lines" /\ n = Lines /\ Fate(s) = "unreadable"
Lexed(l) == pc["lex"] = "stream" <=> l \in 1..(Lines + 1)
Parsed(s, c) ==
  \/ pc["sem"] # "stream" /\ c = 0
  \/ /\ pc["sem"] = "stream" /\ c \in 1..(Lines + 1) /\ parsing = s
     /\ Fate(s) = "stuck" => c = 1
  \/ pc["sem"] # "stream" /\ c >= 2 /\ Fate(s) = "stuck"

Streaming(s, c, l, n) ==
  /\ Fate(s) # "missing" /\ c <= l /\ l <= n /\ n <= Lines + 2
  /\ chan["sem_input"] = Slice(s, c, l) /\ chan["lex_input"] = Slice(s, l, n)
  /\ Opened(s, n) /\ Lexed(l) /\ Parsed(s, c)

\* Where the answer about the file s is: it is asked for; it is a stream; it is
\* with check; it is with errors; it is there.
Asking(s) ==
  /\ chan["open_input"] = <<s>> /\ pc["open"] # "lines"
  /\ LexQuiet /\ SemQuiet /\ CheckQuiet /\ ErrorsQuiet /\ chan["vm_input"] = <<>>
InStream(s) ==
  /\ chan["open_input"] = <<>> /\ \E c, l, n \in Nat : Streaming(s, c, l, n)
  /\ CheckQuiet /\ ErrorsQuiet /\ chan["vm_input"] = <<>>
AtCheck(s) ==
  /\ OpenQuiet /\ LexQuiet /\ SemQuiet /\ ErrorsQuiet /\ chan["vm_input"] = <<>>
  /\ chan["check_input"] = <<s>> /\ Fate(s) \in {"good", "ill-formed"}
AtErrors(s) ==
  /\ OpenQuiet /\ LexQuiet /\ SemQuiet /\ CheckQuiet /\ chan["vm_input"] = <<>>
  /\ Fate(s) # "good"
  /\ \/ chan["errors_file"] = <<s>> /\ chan["errors_semantic"] = <<>>
     \/ /\ chan["errors_file"] = <<>> /\ chan["errors_semantic"] = <<s>>
        /\ pc["errors"] # "file"
     \/ chan["errors_file"] = <<>> /\ chan["errors_semantic"] = <<>> /\ pc["errors"] = "file"
Answered(s) ==
  /\ OpenQuiet /\ LexQuiet /\ SemQuiet /\ CheckQuiet /\ ErrorsQuiet
  /\ chan["vm_input"] = <<LibraryOf(files)[s]>>

Answering(s) == Asking(s) \/ InStream(s) \/ AtCheck(s) \/ AtErrors(s) \/ Answered(s)

GraphAsked ==
  IF pc["vm"] = "graph"
  THEN F!AtNode /\ F!Node.sort \in DOMAIN files /\ Answering(F!Node.sort)
  ELSE /\ OpenQuiet /\ LexQuiet /\ SemQuiet /\ CheckQuiet /\ ErrorsQuiet
       /\ pc["vm"] \in {"nodes", "path"} => chan["vm_input"] = <<>>

Answers == Requested /\ PathAsked /\ GraphAsked

LEMMA Slices ==
  ASSUME NEW s, NEW i \in Nat, NEW j \in Nat, i <= j
  PROVE  /\ Slice(s, i, i) = <<>> /\ (Slice(s, i, j) = <<>> => i = j)
         /\ Append(Slice(s, i, j), Item(s, j + 1)) = Slice(s, i, j + 1)
         /\ i < j => /\ Slice(s, i, j)[1] = Item(s, i + 1)
                     /\ Tail(Slice(s, i, j)) = Slice(s, i + 1, j)
<1> DEFINE S == {Start(s), End(s), Text}
<1>1. \A k : Item(s, k) \in S
  BY DEF Item
<1> HIDE DEF S
<1>2. \A m, n \in Nat : m <= n => Slice(s, m, n) \in Seq(S) /\ Len(Slice(s, m, n)) = n - m
  <2> SUFFICES ASSUME NEW m \in Nat, NEW n \in Nat, m <= n
               PROVE  Slice(s, m, n) \in Seq(S) /\ Len(Slice(s, m, n)) = n - m
    OBVIOUS
  <2>1. Slice(s, m, n) \in [1..(n - m) -> S] /\ n - m \in Nat
    BY <1>1 DEF Slice
  <2> QED
    BY <2>1
<1>3. \A m, n \in Nat : \A k \in 1..(n - m) : Slice(s, m, n)[k] = Item(s, m + k)
  BY DEF Slice
<1>4. Slice(s, i, i) = <<>> /\ (Slice(s, i, j) = <<>> => i = j)
  BY <1>2
<1>5. Append(Slice(s, i, j), Item(s, j + 1)) = Slice(s, i, j + 1)
  <2>1. /\ Append(Slice(s, i, j), Item(s, j + 1)) \in Seq(S)
        /\ Len(Append(Slice(s, i, j), Item(s, j + 1))) = j + 1 - i
        /\ \A k \in 1..(j - i) : Append(Slice(s, i, j), Item(s, j + 1))[k] = Slice(s, i, j)[k]
        /\ Append(Slice(s, i, j), Item(s, j + 1))[j + 1 - i] = Item(s, j + 1)
    <3>1. /\ Slice(s, i, j) \in Seq(S) /\ Len(Slice(s, i, j)) = j - i
          /\ Item(s, j + 1) \in S
      BY <1>1, <1>2
    <3> DEFINE t == Slice(s, i, j)
               x == Item(s, j + 1)
    <3>2. t \in Seq(S) /\ Len(t) = j - i /\ x \in S
      BY <3>1
    <3> HIDE DEF t, x
    <3>3. /\ Append(t, x) \in Seq(S) /\ Len(Append(t, x)) = Len(t) + 1
          /\ \A k \in 1..Len(t) : Append(t, x)[k] = t[k]
          /\ Append(t, x)[Len(t) + 1] = x
      BY <3>2
    <3>4. Len(t) + 1 = j + 1 - i
      BY <3>2
    <3> QED
      BY <3>2, <3>3, <3>4 DEF t, x
  <2>2. Slice(s, i, j + 1) \in Seq(S) /\ Len(Slice(s, i, j + 1)) = j + 1 - i
    BY <1>2
  <2>3. \A k \in 1..(j + 1 - i) :
          Append(Slice(s, i, j), Item(s, j + 1))[k] = Slice(s, i, j + 1)[k]
    <3> SUFFICES ASSUME NEW k \in 1..(j + 1 - i)
                 PROVE  Append(Slice(s, i, j), Item(s, j + 1))[k] = Slice(s, i, j + 1)[k]
      OBVIOUS
    <3>1. Slice(s, i, j + 1)[k] = Item(s, i + k)
      BY <1>3
    <3>2. CASE k \in 1..(j - i)
      <4>1. Slice(s, i, j)[k] = Item(s, i + k)
        BY <1>3, <3>2
      <4> QED
        BY <2>1, <3>1, <3>2, <4>1
    <3>3. CASE k = j + 1 - i
      <4>1. i + k = j + 1
        BY <3>3
      <4> QED
        BY <2>1, <3>1, <3>3, <4>1
    <3>4. k \in 1..(j - i) \/ k = j + 1 - i
      OBVIOUS
    <3> QED
      BY <3>2, <3>3, <3>4
  <2> QED
    BY <2>1, <2>2, <2>3
<1>6. ASSUME i < j
      PROVE  /\ Slice(s, i, j)[1] = Item(s, i + 1)
             /\ Tail(Slice(s, i, j)) = Slice(s, i + 1, j)
  <2>1. Slice(s, i, j)[1] = Item(s, i + 1)
    BY <1>3, <1>6
  <2>2. /\ Tail(Slice(s, i, j)) \in Seq(S) /\ Len(Tail(Slice(s, i, j))) = j - (i + 1)
        /\ \A k \in 1..(j - (i + 1)) : Tail(Slice(s, i, j))[k] = Slice(s, i, j)[k + 1]
    BY <1>2, <1>6
  <2>3. Slice(s, i + 1, j) \in Seq(S) /\ Len(Slice(s, i + 1, j)) = j - (i + 1)
    BY <1>2, <1>6
  <2>4. \A k \in 1..(j - (i + 1)) : Tail(Slice(s, i, j))[k] = Slice(s, i + 1, j)[k]
    <3> SUFFICES ASSUME NEW k \in 1..(j - (i + 1))
                 PROVE  Tail(Slice(s, i, j))[k] = Slice(s, i + 1, j)[k]
      OBVIOUS
    <3>1. k + 1 \in 1..(j - i) /\ i + (k + 1) = (i + 1) + k
      OBVIOUS
    <3>2. Slice(s, i, j)[k + 1] = Item(s, i + (k + 1))
      BY <1>3, <3>1
    <3>3. Slice(s, i + 1, j)[k] = Item(s, (i + 1) + k)
      BY <1>3, <1>6
    <3> QED
      BY <2>2, <3>1, <3>2, <3>3
  <2> QED
    BY <2>1, <2>2, <2>3, <2>4
<1> QED
  BY <1>4, <1>5, <1>6

\* Messages that come and go one at a time.
LEMMA OneMessage ==
  \A m : Append(<<>>, m) = <<m>> /\ Tail(<<m>>) = <<>> /\ <<m>>[1] = m /\ <<m>> # <<>>
  OBVIOUS

-----------------------------------------------------------------------------
(* What a step leaves alone.                                                *)

\* An agent that does not come to, or leave, a place in the midst of its run.
Midway == AtWork \cup {"lines", "stream", "file"}
Alike(b) == pc'[b] = pc[b] \/ (pc[b] \notin Midway /\ pc'[b] \notin Midway)

LEMMA GoesFrame ==
  ASSUME NEW a, NEW took, NEW at, Goes(a, took, at)
  PROVE  /\ \A p \in Ports : p \notin took => chan'[p] = chan[p]
         /\ \A p \in took \cap Ports : chan[p] # <<>> /\ chan'[p] = Tail(chan[p])
         /\ \A b \in Agents : b # a => pc'[b] = pc[b]
         /\ a \in Agents => pc'[a] = at
         /\ \A b \in Agents : b # a => Alike(b)
<1>1. /\ \A p \in Ports : p \notin took => chan'[p] = chan[p]
      /\ \A p \in took \cap Ports : chan[p] # <<>> /\ chan'[p] = Tail(chan[p])
  BY DEF Goes, Left
<1>2. \A b \in Agents : pc'[b] = IF b = a THEN at ELSE pc[b]
  BY DEF Goes
<1>3. \A b \in Agents : b # a => pc'[b] = pc[b]
  BY <1>2
<1>4. \A b \in Agents : b # a => Alike(b)
  BY <1>3 DEF Alike
<1>5. a \in Agents => pc'[a] = at
  BY <1>2
<1> QED
  BY <1>1, <1>3, <1>4, <1>5

LEMMA SendsFrame ==
  ASSUME NEW a, NEW took, NEW q, NEW m, NEW at, GoesSends(a, took, q, m, at)
  PROVE  /\ \A p \in Ports : p \notin took /\ p # q => chan'[p] = chan[p]
         /\ \A p \in took \cap Ports : chan[p] # <<>> /\ (p # q => chan'[p] = Tail(chan[p]))
         /\ q \notin took => chan'[q] = Append(chan[q], m)
         /\ \A b \in Agents : b # a /\ b # Owner[q] => pc'[b] = pc[b]
         /\ a \in Agents => pc'[a] = at
         /\ \A b \in Agents : b # a => Alike(b)
<1>1. /\ \A p \in Ports : p \notin took /\ p # q => chan'[p] = chan[p]
      /\ \A p \in took \cap Ports : chan[p] # <<>> /\ (p # q => chan'[p] = Tail(chan[p]))
      /\ q \notin took => chan'[q] = Append(chan[q], m)
  <2>1. \A p \in took \cap Ports : chan[p] # <<>>
    BY DEF GoesSends
  <2>2. \A p \in Ports : p # q => chan'[p] = Left(p, took)
    BY DEF GoesSends
  <2>3. chan'[q] = Append(Left(q, took), m)
    BY DEF GoesSends
  <2> QED
    BY <2>1, <2>2, <2>3 DEF Left
<1>2. \A b \in Agents : pc'[b] = IF b = a THEN at
                                ELSE IF b = Owner[q] /\ pc[b] = "idle" THEN "queued" ELSE pc[b]
  BY DEF GoesSends
<1>3. ASSUME NEW b \in Agents, b # a
      PROVE  Alike(b)
  <2>1. CASE b = Owner[q] /\ pc[b] = "idle"
    <3>1. pc[b] = "idle" /\ pc'[b] = "queued"
      BY <1>2, <1>3, <2>1
    <3>2. "idle" \notin Midway /\ "queued" \notin Midway
      BY DEF Midway, AtWork
    <3> QED
      BY <3>1, <3>2 DEF Alike
  <2>2. CASE ~(b = Owner[q] /\ pc[b] = "idle")
    <3>1. pc'[b] = pc[b]
      BY <1>2, <1>3, <2>2
    <3> QED
      BY <3>1 DEF Alike
  <2> QED
    BY <2>1, <2>2
<1>4. \A b \in Agents : b # a /\ b # Owner[q] => pc'[b] = pc[b]
  BY <1>2
<1>5. a \in Agents => pc'[a] = at
  BY <1>2
<1> QED
  BY <1>1, <1>3, <1>4, <1>5

\* The request is where it was.
LEMMA RequestedKept ==
  ASSUME Requested, Alike("vm"), main' = "add" <=> main = "add", UNCHANGED <<todo, sent>>,
         \A p \in {"start_add", "sched_action", "vm_input"} : chan'[p] = chan[p]
  PROVE  Requested'
<1>1. Adds' = Adds /\ (NoRequest' <=> NoRequest) /\ (OneRequest' <=> OneRequest)
  BY DEF Adds, NoRequest, OneRequest
<1>2. pc'["vm"] \in AtWork <=> pc["vm"] \in AtWork
  BY DEF Alike, Midway
<1> QED
  BY <1>1, <1>2 DEF Requested

\* The question of a path is where it was.
LEMMA PathKept ==
  ASSUME PathAsked, Alike("vm"), UNCHANGED todo,
         \A p \in {"find_input", "vm_new_path"} : chan'[p] = chan[p]
  PROVE  PathAsked'
<1>1. (F!AtNode' <=> F!AtNode) /\ F!Node' = F!Node
  BY DEF F!AtNode, F!Node, F!Call
<1>2. pc'["vm"] = "path" <=> pc["vm"] = "path"
  BY DEF Alike, Midway, AtWork
<1> QED
  BY <1>1, <1>2 DEF PathAsked

\* The question of a graph is where it was.
PipePorts ==
  {"open_input", "lex_input", "sem_input", "check_input", "errors_file", "errors_semantic"}

LEMMA AlikeAgents ==
  /\ Alike("open") => (pc'["open"] = "lines" <=> pc["open"] = "lines")
  /\ Alike("lex") => (pc'["lex"] = "stream" <=> pc["lex"] = "stream")
  /\ Alike("sem") => (pc'["sem"] = "stream" <=> pc["sem"] = "stream")
  /\ Alike("errors") => (pc'["errors"] = "file" <=> pc["errors"] = "file")
  BY DEF Alike, Midway

LEMMA AgentKept ==
  /\ Alike("open") /\ UNCHANGED <<reading, files>> =>
       \A s, n : Opened(s, n) => Opened(s, n)'
  /\ Alike("lex") => \A l : Lexed(l) => Lexed(l)'
  /\ Alike("sem") /\ UNCHANGED <<parsing, files>> =>
       \A s, c : Parsed(s, c) => Parsed(s, c)'
<1>1. files' = files => \A s : Fate(s)' = Fate(s)
  BY DEF Fate
<1> QED
  BY <1>1, AlikeAgents DEF Opened, Lexed, Parsed

LEMMA GraphKept ==
  ASSUME GraphAsked, Alike("vm"), Alike("open"), Alike("lex"), Alike("sem"), Alike("errors"),
         \A p \in PipePorts \cup {"vm_input"} : chan'[p] = chan[p],
         ErrorsQuiet => ErrorsQuiet', UNCHANGED <<todo, files, reading, parsing>>
  PROVE  GraphAsked'
<1>1. (F!AtNode' <=> F!AtNode) /\ F!Node' = F!Node
  BY DEF F!AtNode, F!Node, F!Call
<1>2. /\ pc'["vm"] = "graph" <=> pc["vm"] = "graph"
      /\ pc'["vm"] \in {"nodes", "path"} <=> pc["vm"] \in {"nodes", "path"}
  BY DEF Alike, Midway, AtWork
<1>3. \A p \in {"open_input", "lex_input", "sem_input", "check_input", "errors_file",
                "errors_semantic", "vm_input"} : chan'[p] = chan[p]
  BY DEF PipePorts
<1>4. /\ OpenQuiet' <=> OpenQuiet
      /\ LexQuiet' <=> LexQuiet
      /\ SemQuiet' <=> SemQuiet
      /\ CheckQuiet' <=> CheckQuiet
  BY <1>3, AlikeAgents DEF OpenQuiet, LexQuiet, SemQuiet, CheckQuiet
<1>5. \A s : Fate(s)' = Fate(s) /\ LibraryOf(files)' = LibraryOf(files)
  BY DEF Fate
<1>6. ASSUME NEW s, Answering(s)
      PROVE  Answering(s)'
  <2>1. CASE Asking(s)
    <3>1. Asking(s)'
      BY <1>3, <1>4, <2>1, AlikeAgents DEF Asking
    <3> QED
      BY <3>1 DEF Answering
  <2>2. CASE InStream(s)
    <3>1. PICK c \in Nat, l \in Nat, n \in Nat : Streaming(s, c, l, n)
      BY <2>2 DEF InStream
    <3>2. Streaming(s, c, l, n)'
      <4>1. Opened(s, n)' /\ Lexed(l)' /\ Parsed(s, c)'
        BY <3>1, AgentKept DEF Streaming
      <4>2. Slice(s, c, l)' = Slice(s, c, l) /\ Slice(s, l, n)' = Slice(s, l, n)
        BY DEF Slice, Item, Start, End, Text
      <4> QED
        BY <1>3, <1>5, <3>1, <4>1, <4>2 DEF Streaming
    <3>3. InStream(s)'
      BY <1>3, <1>4, <2>2, <3>2 DEF InStream
    <3> QED
      BY <3>3 DEF Answering
  <2>3. CASE AtCheck(s)
    <3>1. AtCheck(s)'
      BY <1>3, <1>4, <1>5, <2>3 DEF AtCheck
    <3> QED
      BY <3>1 DEF Answering
  <2>4. CASE AtErrors(s)
    <3>1. AtErrors(s)'
      BY <1>3, <1>4, <1>5, <2>4, AlikeAgents DEF AtErrors
    <3> QED
      BY <3>1 DEF Answering
  <2>5. CASE Answered(s)
    <3>1. Answered(s)'
      BY <1>3, <1>4, <1>5, <2>5 DEF Answered
    <3> QED
      BY <3>1 DEF Answering
  <2> QED
    BY <1>6, <2>1, <2>2, <2>3, <2>4, <2>5 DEF Answering
<1>7. CASE pc["vm"] = "graph"
  <2>1. F!AtNode' /\ F!Node'.sort \in DOMAIN files' /\ Answering(F!Node.sort)'
    BY <1>1, <1>6, <1>7 DEF GraphAsked
  <2> QED
    BY <1>1, <1>2, <1>7, <2>1 DEF GraphAsked
<1>8. CASE pc["vm"] # "graph"
  BY <1>2, <1>3, <1>4, <1>8 DEF GraphAsked
<1> QED
  BY <1>7, <1>8

\* A step of an agent that is not the vm's and not one of those behind it.
Behind == {"open", "lex", "sem", "errors"}

LEMMA GoesElsewhere ==
  ASSUME GraphAsked, NEW a, a \notin Behind \cup {"vm"}, NEW took,
         took \cap (PipePorts \cup {"vm_input"}) = {}, NEW at, Goes(a, took, at),
         UNCHANGED <<todo, reading, parsing>>
  PROVE  GraphAsked'
<1>1. \A p \in PipePorts \cup {"vm_input"} : p \in Ports /\ p \notin took
  BY PortsAre DEF PipePorts
<1>2. \A p \in PipePorts \cup {"vm_input"} : chan'[p] = chan[p]
  BY <1>1, GoesFrame
<1>3. Alike("vm") /\ Alike("open") /\ Alike("lex") /\ Alike("sem") /\ Alike("errors")
  BY GoesFrame, AgentsAre DEF Behind
<1>4. pc'["errors"] = pc["errors"]
  BY GoesFrame, AgentsAre DEF Behind
<1>5. ErrorsQuiet => ErrorsQuiet'
  BY <1>2, <1>4 DEF ErrorsQuiet, PipePorts
<1> QED
  BY <1>2, <1>3, <1>5, GraphKept DEF Goes

LEMMA SendsElsewhere ==
  ASSUME GraphAsked, NEW a, a \notin Behind \cup {"vm"}, NEW took,
         took \cap (PipePorts \cup {"vm_input"}) = {}, NEW at,
         NEW q \in Ports, q \notin PipePorts \cup {"vm_input"}, NEW m,
         GoesSends(a, took, q, m, at), UNCHANGED <<todo, reading, parsing>>
  PROVE  GraphAsked'
<1>1. \A p \in PipePorts \cup {"vm_input"} : p \in Ports /\ p \notin took /\ p # q
  BY PortsAre DEF PipePorts
<1>2. \A p \in PipePorts \cup {"vm_input"} : chan'[p] = chan[p]
  BY <1>1, SendsFrame
<1>3. Alike("vm") /\ Alike("open") /\ Alike("lex") /\ Alike("sem") /\ Alike("errors")
  BY SendsFrame, AgentsAre DEF Behind
<1>4. pc'["errors"] = pc["errors"]
  <2>1. Owner[q] # "errors"
    BY PortsAre DEF PipePorts
  <2> QED
    BY <2>1, SendsFrame, AgentsAre DEF Behind
<1>5. ErrorsQuiet => ErrorsQuiet'
  BY <1>2, <1>4 DEF ErrorsQuiet, PipePorts
<1> QED
  BY <1>2, <1>3, <1>5, GraphKept DEF GoesSends

\* A library is that of the files, which stay as they are.
LEMMA SameLibrary ==
  ASSUME UNCHANGED <<files, vm>>
  PROVE  UNCHANGED F!vars
  BY DEF vm, F!vars

-----------------------------------------------------------------------------
(* The request, from main over start and sched to the vm.                   *)

LEMMA MainAnswers ==
  ASSUME Types, Answers, Main
  PROVE  Answers' /\ UNCHANGED F!vars
<1>1. UNCHANGED <<reading, parsing, vm, todo, sent>>
  BY DEF Main, locals, vm
<1>2. "main" \notin Agents /\ "main" \notin Behind \cup {"vm"}
  BY AgentsAre DEF Behind
<1>3. CASE MainAdd
  <2>1. GoesSends("main", {}, "start_add", "M", "") /\ main = "add" /\ main' = "halt"
    BY <1>3, OthersDo DEF MainAdd
  <2>2. GraphAsked'
    BY <1>1, <1>2, <2>1, SendsElsewhere, PortsAre DEF Answers, PipePorts
  <2>3. /\ \A p \in Ports \ {"start_add"} : chan'[p] = chan[p]
        /\ chan'["start_add"] = Append(chan["start_add"], "M")
        /\ Alike("vm")
    <3>1. \A p \in Ports : p # "start_add" => chan'[p] = chan[p]
      BY <2>1 DEF GoesSends, Left
    <3>2. chan'["start_add"] = Append(chan["start_add"], "M")
      BY <2>1 DEF GoesSends, Left
    <3>3. "vm" \in Agents /\ "vm" # "main"
      BY AgentsAre
    <3>4. Alike("vm")
      BY <2>1, <3>3, SendsFrame
    <3> QED
      BY <3>1, <3>2, <3>4
  <2>4. PathAsked'
    BY <1>1, <2>3, PathKept, PortsAre DEF Answers
  <2>5. /\ pc["vm"] \notin AtWork /\ todo = <<>> /\ sent = "none"
        /\ chan["start_add"] = <<>> /\ Adds = {} /\ chan["vm_input"] = <<>>
    BY <2>1 DEF Answers, Requested, NoRequest, OneRequest
  <2>6. pc'["vm"] \notin AtWork
    BY <2>3, <2>5 DEF Alike, Midway
  <2>7. chan'["sched_action"] = chan["sched_action"] /\ chan'["vm_input"] = chan["vm_input"]
    BY <2>3, PortsAre
  <2>8. Adds' = {} /\ chan'["vm_input"] = <<>>
    BY <2>5, <2>7 DEF Adds
  <2>9. chan'["start_add"] = <<"M">>
    BY <2>3, <2>5
  <2>10. Len(chan'["start_add"]) = 1
    BY <2>9
  <2>11. OneRequest'
    BY <2>1, <2>8, <2>10 DEF OneRequest
  <2>12. Requested'
    BY <1>1, <2>5, <2>6, <2>11 DEF Requested
  <2> QED
    BY <1>1, <2>1, <2>2, <2>4, <2>12, SameLibrary DEF Answers, GoesSends
<1>4. CASE MainHalt
  <2>1. GoesSends("main", {}, "start_halt", "halt", "") /\ main = "halt" /\ main' = "join"
    BY <1>4, OthersDo DEF MainHalt
  <2>2. GraphAsked'
    BY <1>1, <1>2, <2>1, SendsElsewhere, PortsAre DEF Answers, PipePorts
  <2>3. (\A p \in Ports \ {"start_halt"} : chan'[p] = chan[p]) /\ Alike("vm")
    <3>1. \A p \in Ports : p # "start_halt" => chan'[p] = chan[p]
      BY <2>1 DEF GoesSends, Left
    <3>2. "vm" \in Agents /\ "vm" # "main"
      BY AgentsAre
    <3>3. Alike("vm")
      BY <2>1, <3>2, SendsFrame
    <3> QED
      BY <3>1, <3>3
  <2>4. PathAsked' /\ Requested'
    BY <1>1, <2>1, <2>3, PathKept, RequestedKept, PortsAre DEF Answers
  <2> QED
    BY <1>1, <2>1, <2>2, <2>4, SameLibrary DEF Answers, GoesSends
<1>5. CASE MainJoin
  <2>1. UNCHANGED <<files, chan, pc, pool, counted>> /\ main = "join" /\ main' = "ended"
    BY <1>5 DEF MainJoin, sched
  <2>2. Alike("vm") /\ Alike("open") /\ Alike("lex") /\ Alike("sem") /\ Alike("errors")
    BY <2>1 DEF Alike
  <2>3. ErrorsQuiet => ErrorsQuiet'
    BY <2>1 DEF ErrorsQuiet
  <2>4. PathAsked' /\ Requested'
    BY <1>1, <2>1, <2>2, PathKept, RequestedKept DEF Answers
  <2>5. GraphAsked'
    BY <1>1, <2>1, <2>2, <2>3, GraphKept DEF Answers
  <2> QED
    BY <1>1, <2>1, <2>4, <2>5, SameLibrary DEF Answers
<1> QED
  BY <1>3, <1>4, <1>5 DEF Main

\* A run that ends, or begins, is not in the midst of its agent's work.
LEMMA RunAnswers ==
  ASSUME Types, Awake, Answers, Dispatch \/ \E a \in Agents : RunEnd(a)
  PROVE  Answers' /\ UNCHANGED F!vars
<1>1. UNCHANGED <<files, chan, main, reading, parsing, vm, todo, sent>>
  BY DEF Dispatch, RunEnd, locals, vm
<1>2. (\A b \in Agents : Alike(b)) /\ (ErrorsQuiet => ErrorsQuiet')
  <2>1. CASE Dispatch
    <3>1. pool \in Seq(Agents) /\ pool # <<>> /\ pc' = [pc EXCEPT ![pool[1]] = "run"]
      BY <2>1 DEF Dispatch, Types
    <3>2. pool[1] \in Agents /\ 1 \in 1..Len(pool)
      BY <3>1
    <3>3. pc[pool[1]] = "queued"
      BY <3>2 DEF Awake
    <3>4. \A b \in Agents : pc'[b] = IF b = pool[1] THEN "run" ELSE pc[b]
      BY <3>1 DEF Types
    <3>5. "queued" \notin Midway /\ "run" \notin Midway
      BY DEF Midway, AtWork
    <3>6. \A b \in Agents : Alike(b)
      BY <3>3, <3>4, <3>5 DEF Alike
    <3>7. ErrorsQuiet => ErrorsQuiet'
      BY <1>1, <3>3, <3>4, AgentsAre DEF ErrorsQuiet
    <3> QED
      BY <3>6, <3>7
  <2>2. ASSUME NEW a \in Agents, RunEnd(a)
        PROVE  (\A b \in Agents : Alike(b)) /\ (ErrorsQuiet => ErrorsQuiet')
    <3> DEFINE again == \E p \in Ports : Owner[p] = a /\ Has(p)
    <3>1. pc[a] \in Results /\ pc' = [pc EXCEPT ![a] = IF again THEN "queued" ELSE "idle"]
      BY <2>2 DEF RunEnd
    <3>2. a = "errors" /\ chan["errors_file"] = <<>> /\ chan["errors_semantic"] = <<>> => ~again
      BY PortsAre DEF Has
    <3> HIDE DEF again
    <3>3. \A b \in Agents : pc'[b] = IF b = a THEN (IF again THEN "queued" ELSE "idle") ELSE pc[b]
      BY <3>1 DEF Types
    <3>4. "queued" \notin Midway /\ "idle" \notin Midway /\ pc[a] \notin Midway
      BY <3>1 DEF Midway, AtWork, Results
    <3>5. \A b \in Agents : Alike(b)
      BY <3>3, <3>4 DEF Alike
    <3>6. ErrorsQuiet => ErrorsQuiet'
      BY <1>1, <3>2, <3>3, AgentsAre DEF ErrorsQuiet
    <3> QED
      BY <3>5, <3>6
  <2> QED
    BY <2>1, <2>2
<1>3. Alike("vm") /\ Alike("open") /\ Alike("lex") /\ Alike("sem") /\ Alike("errors")
  BY <1>2, AgentsAre
<1>4. PathAsked' /\ Requested'
  BY <1>1, <1>3, PathKept, RequestedKept DEF Answers
<1>5. GraphAsked'
  BY <1>1, <1>2, <1>3, GraphKept DEF Answers
<1> QED
  BY <1>1, <1>4, <1>5, SameLibrary DEF Answers

\* Adds in what start sends to sched.
LEMMA AddsChange ==
  ASSUME Types
  PROVE  /\ chan'["sched_action"] = Append(chan["sched_action"], "Halt") => Adds' = Adds
         /\ chan'["sched_action"] = Append(chan["sched_action"], "Add") /\ Adds = {} =>
              \E i \in Adds' : Adds' = {i}
         /\ chan["sched_action"] # <<>> /\ chan'["sched_action"] = Tail(chan["sched_action"]) =>
              /\ Adds = {} => Adds' = {}
              /\ (\E i \in Adds : Adds = {i}) =>
                   IF First("sched_action") = "Add" THEN Adds' = {}
                   ELSE \E i \in Adds' : Adds' = {i}
<1> DEFINE q == chan["sched_action"]
           new == chan'["sched_action"]
<1>1. IsSeq(q)
  BY PortsAre DEF Types
<1>2. Adds = {i \in 1..Len(q) : q[i] = "Add"} /\ Adds' = {i \in 1..Len(new) : new[i] = "Add"}
  BY DEF Adds
<1>3. First("sched_action") = q[1]
  BY DEF First
<1> HIDE DEF q, new
<1>4. Len(q) \in Nat
  BY <1>1, AppendIsSeq
<1>5. ASSUME NEW x, new = Append(q, x)
      PROVE  /\ Len(new) = Len(q) + 1 /\ new[Len(q) + 1] = x
             /\ \A i \in 1..Len(q) : new[i] = q[i]
  BY <1>1, <1>5, AppendIsSeq
<1>6. new = Append(q, "Halt") => Adds' = Adds
  <2> SUFFICES ASSUME new = Append(q, "Halt")
               PROVE  Adds' = Adds
    OBVIOUS
  <2>1. /\ Len(new) = Len(q) + 1 /\ new[Len(q) + 1] = "Halt"
        /\ \A i \in 1..Len(q) : new[i] = q[i]
    BY <1>5
  <2>2. \A i : i \in 1..Len(new) <=> i \in 1..Len(q) \/ i = Len(q) + 1
    BY <1>4, <2>1
  <2> QED
    BY <1>2, <2>1, <2>2
<1>7. new = Append(q, "Add") /\ Adds = {} => \E i \in Adds' : Adds' = {i}
  <2> SUFFICES ASSUME new = Append(q, "Add"), Adds = {}
               PROVE  \E i \in Adds' : Adds' = {i}
    OBVIOUS
  <2>1. /\ Len(new) = Len(q) + 1 /\ new[Len(q) + 1] = "Add"
        /\ \A i \in 1..Len(q) : new[i] = q[i]
    BY <1>5
  <2>2. \A i : i \in 1..Len(new) <=> i \in 1..Len(q) \/ i = Len(q) + 1
    BY <1>4, <2>1
  <2>3. \A i : i \in Adds' <=> i = Len(q) + 1
    BY <1>2, <2>1, <2>2
  <2>4. Adds' = {Len(q) + 1} /\ Len(q) + 1 \in Adds'
    BY <2>3
  <2> QED
    BY <2>4
<1>8. ASSUME q # <<>>, new = Tail(q)
      PROVE  /\ Adds = {} => Adds' = {}
             /\ (\E i \in Adds : Adds = {i}) =>
                  IF q[1] = "Add" THEN Adds' = {} ELSE \E i \in Adds' : Adds' = {i}
  <2>1. /\ Len(q) \in Nat \ {0} /\ Len(new) = Len(q) - 1
        /\ \A i \in 1..(Len(q) - 1) : new[i] = q[i + 1]
    BY <1>1, <1>8, TailIsSeq
  <2>2. \A i \in Nat : i \in Adds' <=> i + 1 \in Adds /\ i # 0
    <3> SUFFICES ASSUME NEW i \in Nat
                 PROVE  i \in Adds' <=> i + 1 \in Adds /\ i # 0
      OBVIOUS
    <3>1. i \in 1..Len(new) <=> i + 1 \in 1..Len(q) /\ i # 0
      BY <2>1
    <3>2. i \in 1..Len(new) => new[i] = q[i + 1]
      BY <2>1
    <3> QED
      BY <1>2, <3>1, <3>2
  <2>3. Adds \subseteq Nat \ {0} /\ Adds' \subseteq Nat \ {0} /\ (1 \in Adds <=> q[1] = "Add")
    BY <1>2, <2>1
  <2>4. Adds = {} => Adds' = {}
    BY <2>2, <2>3
  <2>5. ASSUME NEW n \in Adds, Adds = {n}
        PROVE  IF q[1] = "Add" THEN Adds' = {} ELSE \E i \in Adds' : Adds' = {i}
    <3>1. CASE n = 1
      <4>1. \A i \in Nat \ {0} : i + 1 # 1
        OBVIOUS
      <4>2. Adds' = {} /\ q[1] = "Add"
        BY <2>2, <2>3, <2>5, <3>1, <4>1
      <4> QED
        BY <4>2
    <3>2. CASE n # 1
      <4>1. n - 1 \in Nat \ {0} /\ (n - 1) + 1 = n
        BY <2>3, <3>2
      <4>2. \A i \in Nat : i + 1 = n => i = n - 1
        BY <2>3
      <4>3. n - 1 \in Adds'
        BY <2>2, <4>1
      <4>4. \A i \in Adds' : i = n - 1
        BY <2>2, <2>3, <2>5, <4>2
      <4>5. q[1] # "Add"
        BY <2>3, <2>5, <3>2
      <4> QED
        BY <4>3, <4>4, <4>5
    <3> QED
      BY <3>1, <3>2
  <2> QED
    BY <2>4, <2>5
<1> QED
  BY <1>3, <1>6, <1>7, <1>8 DEF q, new

\* The agents that bring the request and the paths.
LEMMA OthersAnswers ==
  ASSUME Types, Answers, Others \/ SchedGraph, UNCHANGED <<main, reading, parsing, vm>>
  PROVE  Answers' /\ UNCHANGED F!vars
<1>1. UNCHANGED <<todo, sent>>
  BY DEF vm
<1>2. {"start", "sched", "find", "vm"} \subseteq Agents
      /\ \A a \in {"start", "sched", "find"} : a \notin Behind \cup {"vm"}
  BY AgentsAre DEF Behind
<1>3. {"start_add", "start_halt", "sched_action", "sched_graph", "vm_input", "find_input",
       "vm_new_path"} \subseteq Ports
  BY PortsAre
<1>4. CASE StartAdd
  <2>1. CASE ~Has("start_add")
    <3>1. Goes("start", {}, "halt")
      BY <1>4, <2>1, OthersDo
    <3>2. \A p \in Ports : chan'[p] = chan[p]
      BY <3>1 DEF Goes, Left
    <3>3. Alike("vm")
      BY <1>2, <3>1, GoesFrame
    <3>4. PathAsked' /\ Requested'
      BY <1>1, <1>3, <3>2, <3>3, PathKept, RequestedKept DEF Answers
    <3>5. GraphAsked'
      BY <1>1, <1>2, <3>1, GoesElsewhere DEF Answers
    <3> QED
      BY <3>1, <3>4, <3>5, SameLibrary DEF Answers, Goes
  <2>2. CASE Has("start_add")
    <3>1. GoesSends("start", {"start_add"}, "sched_action", "Add", "halt")
      BY <1>4, <2>2, OthersDo
    <3>2. /\ \A p \in Ports : p # "start_add" /\ p # "sched_action" => chan'[p] = chan[p]
          /\ chan'["start_add"] = Tail(chan["start_add"])
          /\ chan'["sched_action"] = Append(chan["sched_action"], "Add")
      BY <1>3, <3>1 DEF GoesSends, Left
    <3>3. Alike("vm")
      BY <1>2, <3>1, SendsFrame
    <3>4. PathAsked'
      BY <1>1, <1>3, <3>2, <3>3, PathKept DEF Answers
    <3>5. GraphAsked'
      <4>1. {"start_add"} \cap (PipePorts \cup {"vm_input"}) = {}
            /\ "sched_action" \notin PipePorts \cup {"vm_input"}
        BY DEF PipePorts
      <4> QED
        BY <1>1, <1>2, <1>3, <3>1, <4>1, SendsElsewhere DEF Answers
    <3>6. /\ pc["vm"] \notin AtWork /\ todo = <<>> /\ sent = "none" /\ main # "add"
          /\ Len(chan["start_add"]) = 1 /\ Adds = {} /\ chan["vm_input"] = <<>>
      BY <2>2 DEF Has, Answers, Requested, NoRequest, OneRequest
    <3>7. chan'["start_add"] = <<>>
      <4>1. IsSeq(chan["start_add"]) /\ chan["start_add"] # <<>>
        BY <1>3, <2>2 DEF Types, Has
      <4>2. IsSeq(Tail(chan["start_add"])) /\ Len(Tail(chan["start_add"])) = 0
        BY <3>6, <4>1, TailIsSeq
      <4> QED
        BY <3>2, <4>2, NoneLeft
    <3>8. (\E i \in Adds' : Adds' = {i}) /\ chan'["vm_input"] = <<>>
      BY <1>3, <3>2, <3>6, AddsChange
    <3>9. pc'["vm"] \notin AtWork
      BY <3>3, <3>6 DEF Alike, Midway
    <3>10. OneRequest'
      BY <3>6, <3>7, <3>8 DEF OneRequest
    <3>11. Requested'
      BY <1>1, <3>6, <3>9, <3>10 DEF Requested
    <3> QED
      BY <3>1, <3>4, <3>5, <3>11, SameLibrary DEF Answers, GoesSends
  <2> QED
    BY <2>1, <2>2
<1>5. CASE StartHalt
  <2>1. CASE ~Has("start_halt")
    <3>1. Goes("start", {}, "End")
      BY <1>5, <2>1, OthersDo
    <3>2. \A p \in Ports : chan'[p] = chan[p]
      BY <3>1 DEF Goes, Left
    <3>3. Alike("vm")
      BY <1>2, <3>1, GoesFrame
    <3>4. PathAsked' /\ Requested'
      BY <1>1, <1>3, <3>2, <3>3, PathKept, RequestedKept DEF Answers
    <3>5. GraphAsked'
      BY <1>1, <1>2, <3>1, GoesElsewhere DEF Answers
    <3> QED
      BY <3>1, <3>4, <3>5, SameLibrary DEF Answers, Goes
  <2>2. CASE Has("start_halt")
    <3>1. GoesSends("start", {"start_halt"}, "sched_action", "Halt", "End")
      BY <1>5, <2>2, OthersDo
    <3>2. /\ \A p \in Ports : p # "start_halt" /\ p # "sched_action" => chan'[p] = chan[p]
          /\ chan'["sched_action"] = Append(chan["sched_action"], "Halt")
      BY <1>3, <3>1 DEF GoesSends, Left
    <3>3. Alike("vm")
      BY <1>2, <3>1, SendsFrame
    <3>4. PathAsked'
      BY <1>1, <1>3, <3>2, <3>3, PathKept DEF Answers
    <3>5. GraphAsked'
      <4>1. {"start_halt"} \cap (PipePorts \cup {"vm_input"}) = {}
            /\ "sched_action" \notin PipePorts \cup {"vm_input"}
        BY DEF PipePorts
      <4> QED
        BY <1>1, <1>2, <1>3, <3>1, <4>1, SendsElsewhere DEF Answers
    <3>6. Adds' = Adds /\ chan'["start_add"] = chan["start_add"]
          /\ chan'["vm_input"] = chan["vm_input"]
      BY <1>3, <3>2, AddsChange
    <3>7. (NoRequest' <=> NoRequest) /\ (OneRequest' <=> OneRequest)
      BY <3>6 DEF NoRequest, OneRequest
    <3>8. pc'["vm"] \in AtWork <=> pc["vm"] \in AtWork
      BY <3>3 DEF Alike, Midway
    <3>9. Requested'
      BY <1>1, <3>6, <3>7, <3>8 DEF Answers, Requested
    <3> QED
      BY <3>1, <3>4, <3>5, <3>9, SameLibrary DEF Answers, GoesSends
  <2> QED
    BY <2>1, <2>2
<1>6. CASE SchedAdd
  <2>1. GoesSends("sched", {"sched_action"}, "vm_input", Request, "graph")
        /\ chan["sched_action"] # <<>> /\ First("sched_action") = "Add"
    BY <1>6, OthersDo DEF SchedAdd, Has
  <2>2. /\ \A p \in Ports : p # "sched_action" /\ p # "vm_input" => chan'[p] = chan[p]
        /\ chan'["sched_action"] = Tail(chan["sched_action"])
        /\ chan'["vm_input"] = Append(chan["vm_input"], Request)
    BY <1>3, <2>1 DEF GoesSends, Left
  <2>3. \A b \in Agents : b # "sched" => Alike(b)
    BY <2>1, SendsFrame
  <2>4. Alike("vm") /\ Alike("open") /\ Alike("lex") /\ Alike("sem") /\ Alike("errors")
    BY <2>3, AgentsAre
  <2>5. PathAsked'
    BY <1>1, <1>3, <2>2, <2>4, PathKept DEF Answers
  <2>6. Adds # {}
    <3>1. IsSeq(chan["sched_action"])
      BY <1>3 DEF Types
    <3>2. 1 \in 1..Len(chan["sched_action"])
      BY <2>1, <3>1, TailIsSeq
    <3>3. 1 \in Adds
      BY <2>1, <3>2 DEF Adds, First
    <3> QED
      BY <3>3
  <2>7. /\ pc["vm"] \notin AtWork /\ todo = <<>> /\ sent = "none" /\ main # "add"
        /\ chan["start_add"] = <<>> /\ chan["vm_input"] = <<>> /\ \E i \in Adds : Adds = {i}
    BY <2>6 DEF Answers, Requested, NoRequest, OneRequest
  <2>8. Adds' = {}
    BY <2>1, <2>2, <2>7, AddsChange
  <2>9. chan'["start_add"] = <<>> /\ chan'["vm_input"] = <<Request>>
    BY <1>3, <2>2, <2>7
  <2>10. pc'["vm"] \notin AtWork
    BY <2>4, <2>7 DEF Alike, Midway
  <2>11. Requested'
    BY <1>1, <2>7, <2>8, <2>9, <2>10 DEF Requested, OneRequest, NoRequest
  <2>12. GraphAsked'
    <3>1. OpenQuiet /\ LexQuiet /\ SemQuiet /\ CheckQuiet /\ ErrorsQuiet
      BY <2>7 DEF Answers, GraphAsked, AtWork
    <3>2. \A p \in PipePorts : chan'[p] = chan[p]
      BY <2>2, PortsAre DEF PipePorts
    <3>3. pc'["errors"] = pc["errors"]
      <4>1. Owner["vm_input"] # "errors" /\ "errors" # "sched" /\ "errors" \in Agents
        BY PortsAre, AgentsAre
      <4> QED
        BY <2>1, <4>1, SendsFrame
    <3>4. OpenQuiet' /\ LexQuiet' /\ SemQuiet' /\ CheckQuiet' /\ ErrorsQuiet'
      BY <2>4, <3>1, <3>2, <3>3, AlikeAgents
         DEF OpenQuiet, LexQuiet, SemQuiet, CheckQuiet, ErrorsQuiet, PipePorts
    <3> QED
      BY <2>10, <3>4 DEF GraphAsked, AtWork
  <2> QED
    BY <2>1, <2>5, <2>11, <2>12, SameLibrary DEF Answers, GoesSends
<1>7. CASE SchedHalt
  <2>1. Goes("sched", {"sched_action"}, "End")
        /\ chan["sched_action"] # <<>> /\ First("sched_action") = "Halt"
    BY <1>7, OthersDo DEF SchedHalt, Has
  <2>2. /\ \A p \in Ports : p # "sched_action" => chan'[p] = chan[p]
        /\ chan'["sched_action"] = Tail(chan["sched_action"])
    BY <1>3, <2>1 DEF Goes, Left
  <2>3. Alike("vm")
    BY <1>2, <2>1, GoesFrame
  <2>4. PathAsked'
    BY <1>1, <1>3, <2>2, <2>3, PathKept DEF Answers
  <2>5. GraphAsked'
    <3>1. {"sched_action"} \cap (PipePorts \cup {"vm_input"}) = {}
      BY DEF PipePorts
    <3> QED
      BY <1>1, <1>2, <2>1, <3>1, GoesElsewhere DEF Answers
  <2>6. /\ Adds = {} => Adds' = {}
        /\ (\E i \in Adds : Adds = {i}) => \E i \in Adds' : Adds' = {i}
    BY <2>1, <2>2, AddsChange
  <2>7. chan'["start_add"] = chan["start_add"] /\ chan'["vm_input"] = chan["vm_input"]
    BY <1>3, <2>2
  <2>8. (NoRequest => NoRequest') /\ (OneRequest => OneRequest')
    BY <2>6, <2>7 DEF NoRequest, OneRequest
  <2>9. pc'["vm"] \in AtWork <=> pc["vm"] \in AtWork
    BY <2>3 DEF Alike, Midway
  <2>10. Requested'
    BY <1>1, <2>7, <2>8, <2>9 DEF Answers, Requested
  <2> QED
    BY <2>1, <2>4, <2>5, <2>10, SameLibrary DEF Answers, Goes
<1>8. CASE SchedGraph
  <2>1. Goes("sched", {"sched_graph"}, "Continue")
    BY <1>8, OthersDo
  <2>2. \A p \in Ports : p # "sched_graph" => chan'[p] = chan[p]
    BY <2>1 DEF Goes, Left
  <2>3. Alike("vm")
    BY <1>2, <2>1, GoesFrame
  <2>4. PathAsked' /\ Requested'
    BY <1>1, <1>3, <2>2, <2>3, PathKept, RequestedKept DEF Answers
  <2>5. GraphAsked'
    <3>1. {"sched_graph"} \cap (PipePorts \cup {"vm_input"}) = {}
      BY DEF PipePorts
    <3> QED
      BY <1>1, <1>2, <2>1, <3>1, GoesElsewhere DEF Answers
  <2> QED
    BY <2>1, <2>4, <2>5, SameLibrary DEF Answers, Goes
<1>9. CASE Find
  <2>1. GoesSends("find", {"find_input"}, "vm_new_path", First("find_input"), "End")
        /\ chan["find_input"] # <<>>
    BY <1>9, OthersDo DEF Find, Has
  <2>2. /\ \A p \in Ports : p # "find_input" /\ p # "vm_new_path" => chan'[p] = chan[p]
        /\ chan'["find_input"] = Tail(chan["find_input"])
        /\ chan'["vm_new_path"] = Append(chan["vm_new_path"], First("find_input"))
    BY <1>3, <2>1 DEF GoesSends, Left
  <2>3. Alike("vm")
    BY <1>2, <2>1, SendsFrame
  <2>4. Requested'
    BY <1>1, <1>3, <2>2, <2>3, RequestedKept DEF Answers
  <2>5. GraphAsked'
    <3>1. {"find_input"} \cap (PipePorts \cup {"vm_input"}) = {}
          /\ "vm_new_path" \notin PipePorts \cup {"vm_input"}
      BY DEF PipePorts
    <3> QED
      BY <1>1, <1>2, <1>3, <2>1, <3>1, SendsElsewhere DEF Answers
  <2>6. /\ pc["vm"] = "path" /\ F!AtNode
        /\ chan["find_input"] = <<F!Node.sort>> /\ chan["vm_new_path"] = <<>>
    BY <2>1 DEF Answers, PathAsked
  <2>7. chan'["find_input"] = <<>> /\ chan'["vm_new_path"] = <<F!Node.sort>>
    BY <2>2, <2>6, OneMessage DEF First
  <2>8. pc'["vm"] = "path"
    BY <2>3, <2>6 DEF Alike, Midway, AtWork
  <2>9. F!AtNode' /\ F!Node' = F!Node
    BY <1>1, <2>6 DEF F!AtNode, F!Node, F!Call
  <2>10. PathAsked'
    BY <2>7, <2>8, <2>9 DEF PathAsked
  <2> QED
    BY <2>1, <2>4, <2>5, <2>10, SameLibrary DEF Answers, GoesSends
<1> QED
  BY <1>4, <1>5, <1>6, <1>7, <1>8, <1>9 DEF Others

-----------------------------------------------------------------------------
(* The vm: what it takes is what it asked for.                              *)

\* A step of the vm that takes from its ports only, or sends to another agent.
LEMMA VmAlone ==
  ASSUME NEW at, NEW took, took \subseteq {"vm_input", "vm_new_path"},
         \/ Goes("vm", took, at)
         \/ \E q \in {"find_input", "sched_graph", "open_input"} : \E m : GoesSends("vm", took, q, m, at)
  PROVE  /\ pc'["vm"] = at
         /\ \A b \in Behind : Alike(b)
         /\ \A p \in {"lex_input", "sem_input", "check_input", "errors_file", "errors_semantic",
                      "start_add", "sched_action"} : chan'[p] = chan[p]
         /\ ErrorsQuiet => ErrorsQuiet'
         /\ UNCHANGED files
<1>1. Behind \cup {"vm"} \subseteq Agents /\ "vm" \notin Behind
  BY AgentsAre DEF Behind
<1>2. {"lex_input", "sem_input", "check_input", "errors_file", "errors_semantic",
       "start_add", "sched_action", "find_input", "sched_graph", "open_input"} \subseteq Ports
  BY PortsAre
<1>3. CASE Goes("vm", took, at)
  <2>1. \A p \in Ports : p \notin took => chan'[p] = chan[p]
    BY <1>3 DEF Goes, Left
  <2>2. pc'["vm"] = at /\ \A b \in Behind : pc'[b] = pc[b]
    BY <1>1, <1>3 DEF Goes
  <2>3. ErrorsQuiet => ErrorsQuiet'
    BY <1>2, <2>1, <2>2 DEF ErrorsQuiet, Behind
  <2> QED
    BY <1>2, <1>3, <2>1, <2>2, <2>3 DEF Goes, Alike
<1>4. ASSUME NEW q \in {"find_input", "sched_graph", "open_input"}, NEW m,
             GoesSends("vm", took, q, m, at)
      PROVE  /\ pc'["vm"] = at
             /\ \A b \in Behind : Alike(b)
             /\ \A p \in {"lex_input", "sem_input", "check_input", "errors_file",
                          "errors_semantic", "start_add", "sched_action"} : chan'[p] = chan[p]
             /\ ErrorsQuiet => ErrorsQuiet'
             /\ UNCHANGED files
  <2>1. \A p \in Ports : p \notin took /\ p # q => chan'[p] = chan[p]
    BY <1>4 DEF GoesSends, Left
  <2>2. pc'["vm"] = at /\ (\A b \in Behind : Alike(b)) /\ pc'["errors"] = pc["errors"]
    <3>1. Owner[q] # "errors"
      BY PortsAre
    <3> QED
      BY <1>1, <1>4, <3>1, SendsFrame DEF Behind
  <2>3. ErrorsQuiet => ErrorsQuiet'
    BY <1>2, <2>1, <2>2 DEF ErrorsQuiet, Behind
  <2> QED
    BY <1>2, <1>4, <2>1, <2>2, <2>3 DEF GoesSends
<1> QED
  BY <1>3, <1>4

\* What is quiet stays so when its agents and ports are left alone.
LEMMA QuietKept ==
  ASSUME \A b \in Behind : Alike(b)
  PROVE  /\ OpenQuiet /\ chan'["open_input"] = chan["open_input"] => OpenQuiet'
         /\ LexQuiet /\ chan'["lex_input"] = chan["lex_input"] => LexQuiet'
         /\ SemQuiet /\ chan'["sem_input"] = chan["sem_input"] => SemQuiet'
         /\ CheckQuiet /\ chan'["check_input"] = chan["check_input"] => CheckQuiet'
  BY AlikeAgents DEF Behind, OpenQuiet, LexQuiet, SemQuiet, CheckQuiet

LEMMA VmAnswers ==
  ASSUME Types, Answers, Vm, UNCHANGED <<main, reading, parsing>>
  PROVE  Answers' /\ (F!Next \/ UNCHANGED F!vars)
<1>1. {"vm_input", "vm_new_path", "find_input", "open_input", "sched_graph"} \subseteq Ports
  BY PortsAre
<1>2. (\A p \in {"start_add", "sched_action"} : chan'[p] = chan[p]) => (NoRequest' <=> NoRequest)
  BY DEF NoRequest, Adds
<1>3. \A s : F!IsSubgraph(s) <=> s \in DOMAIN files
  BY DEF F!IsSubgraph, LibraryOf
<1>4. files' = files => LibraryOf(files)' = LibraryOf(files)
  OBVIOUS
<1>5. UNCHANGED todo => (F!AtNode' <=> F!AtNode) /\ F!Node' = F!Node
  BY DEF F!AtNode, F!Node, F!Call
<1>6. "nodes" \in AtWork /\ "path" \in AtWork /\ "graph" \in AtWork
      /\ "run" \notin AtWork /\ "End" \notin AtWork
  BY DEF AtWork
<1>7. CASE VmReceive
  <2>1. Goes("vm", {"vm_input"}, "nodes") /\ chan["vm_input"] # <<>> /\ pc["vm"] = "run"
    BY <1>7, VmDo DEF VmReceive, Has
  <2>2. /\ NoRequest /\ todo = <<>> /\ sent = "none" /\ chan["vm_input"] = <<Request>>
        /\ chan["find_input"] = <<>> /\ chan["vm_new_path"] = <<>>
        /\ OpenQuiet /\ LexQuiet /\ SemQuiet /\ CheckQuiet /\ ErrorsQuiet
    BY <1>6, <2>1 DEF Answers, Requested, OneRequest, PathAsked, GraphAsked
  <2>3. /\ chan'["vm_input"] = <<>> /\ chan'["find_input"] = <<>> /\ chan'["vm_new_path"] = <<>>
        /\ chan'["open_input"] = chan["open_input"]
    <3>1. \A p \in Ports : p # "vm_input" => chan'[p] = chan[p]
      BY <2>1 DEF Goes, Left
    <3>2. chan'["vm_input"] = Tail(chan["vm_input"])
      BY <1>1, <2>1 DEF Goes, Left
    <3> QED
      BY <1>1, <2>2, <3>1, <3>2, OneMessage
  <2>4. /\ pc'["vm"] = "nodes" /\ (\A b \in Behind : Alike(b)) /\ ErrorsQuiet' /\ UNCHANGED files
        /\ \A p \in {"lex_input", "sem_input", "check_input", "start_add", "sched_action"} :
             chan'[p] = chan[p]
    BY <2>1, <2>2, VmAlone
  <2>5. NoRequest' /\ OpenQuiet' /\ LexQuiet' /\ SemQuiet' /\ CheckQuiet'
    BY <1>2, <2>2, <2>3, <2>4, QuietKept
  <2>6. Answers'
    BY <1>6, <2>3, <2>4, <2>5 DEF Answers, Requested, PathAsked, GraphAsked
  <2>7. First("vm_input") = Request
    BY <2>2, OneMessage DEF First
  <2>8. F!Receive
    BY <1>4, <1>7, <2>2, <2>4, <2>7 DEF F!Receive, VmReceive
  <2> QED
    BY <2>6, <2>8 DEF F!Next
<1>8. CASE VmAskPath
  <2>1. GoesSends("vm", {}, "find_input", F!Node.sort, "path") /\ pc["vm"] = "nodes"
        /\ F!AtNode /\ UNCHANGED <<vm, todo>>
    BY <1>8, VmDo DEF VmAskPath, vm
  <2>2. /\ NoRequest /\ chan["find_input"] = <<>> /\ chan["vm_new_path"] = <<>>
        /\ OpenQuiet /\ LexQuiet /\ SemQuiet /\ CheckQuiet /\ ErrorsQuiet
        /\ chan["vm_input"] = <<>>
    BY <1>6, <2>1 DEF Answers, Requested, PathAsked, GraphAsked
  <2>3. /\ chan'["find_input"] = <<F!Node.sort>> /\ chan'["vm_new_path"] = <<>>
        /\ chan'["open_input"] = chan["open_input"] /\ chan'["vm_input"] = <<>>
    <3>1. \A p \in Ports : p # "find_input" => chan'[p] = chan[p]
      BY <2>1 DEF GoesSends, Left
    <3>2. chan'["find_input"] = Append(chan["find_input"], F!Node.sort)
      BY <2>1 DEF GoesSends, Left
    <3> QED
      BY <1>1, <2>2, <3>1, <3>2, OneMessage
  <2>4. /\ pc'["vm"] = "path" /\ (\A b \in Behind : Alike(b)) /\ ErrorsQuiet' /\ UNCHANGED files
        /\ \A p \in {"lex_input", "sem_input", "check_input", "start_add", "sched_action"} :
             chan'[p] = chan[p]
    <3>1. {} \subseteq {"vm_input", "vm_new_path"}
      OBVIOUS
    <3>2. \E q \in {"find_input", "sched_graph", "open_input"} : \E m :
            GoesSends("vm", {}, q, m, "path")
      BY <2>1
    <3>3. PICK took, at : /\ took = {} /\ at = "path"
                          /\ \E q \in {"find_input", "sched_graph", "open_input"} : \E m :
                               GoesSends("vm", took, q, m, at)
      BY <3>2
    <3>4. took \subseteq {"vm_input", "vm_new_path"}
      BY <3>3
    <3> QED
      BY <2>2, <3>3, <3>4, VmAlone
  <2>5. NoRequest' /\ OpenQuiet' /\ LexQuiet' /\ SemQuiet' /\ CheckQuiet'
    BY <1>2, <2>2, <2>3, <2>4, QuietKept
  <2>6. Answers'
    BY <1>5, <1>6, <2>1, <2>3, <2>4, <2>5 DEF Answers, Requested, PathAsked, GraphAsked
  <2> QED
    BY <2>1, <2>4, <2>6, SameLibrary
<1>9. CASE VmAgent
  <2>1. Goes("vm", {"vm_new_path"}, "nodes") /\ chan["vm_new_path"] # <<>> /\ pc["vm"] = "path"
    BY <1>9, VmDo DEF VmAgent, Has
  <2>2. /\ NoRequest /\ F!AtNode /\ chan["find_input"] = <<>>
        /\ chan["vm_new_path"] = <<F!Node.sort>>
        /\ OpenQuiet /\ LexQuiet /\ SemQuiet /\ CheckQuiet /\ ErrorsQuiet
        /\ chan["vm_input"] = <<>>
    BY <1>6, <2>1 DEF Answers, Requested, PathAsked, GraphAsked
  <2>3. /\ chan'["vm_input"] = <<>> /\ chan'["find_input"] = <<>> /\ chan'["vm_new_path"] = <<>>
        /\ chan'["open_input"] = chan["open_input"]
    <3>1. \A p \in Ports : p # "vm_new_path" => chan'[p] = chan[p]
      BY <2>1 DEF Goes, Left
    <3>2. chan'["vm_new_path"] = Tail(chan["vm_new_path"])
      BY <1>1, <2>1 DEF Goes, Left
    <3> QED
      BY <1>1, <2>2, <3>1, <3>2, OneMessage
  <2>4. /\ pc'["vm"] = "nodes" /\ (\A b \in Behind : Alike(b)) /\ ErrorsQuiet' /\ UNCHANGED files
        /\ \A p \in {"lex_input", "sem_input", "check_input", "start_add", "sched_action"} :
             chan'[p] = chan[p]
    BY <2>1, <2>2, VmAlone
  <2>5. NoRequest' /\ OpenQuiet' /\ LexQuiet' /\ SemQuiet' /\ CheckQuiet'
    BY <1>2, <2>2, <2>3, <2>4, QuietKept
  <2>6. Answers'
    BY <1>6, <2>3, <2>4, <2>5 DEF Answers, Requested, PathAsked, GraphAsked
  <2>7. First("vm_new_path") = F!Node.sort
    BY <2>2, OneMessage DEF First
  <2>8. F!AddAgent
    BY <1>3, <1>4, <1>9, <2>2, <2>4, <2>7 DEF F!AddAgent, VmAgent
  <2> QED
    BY <2>6, <2>8 DEF F!Next
<1>10. CASE VmAskGraph
  <2>1. /\ GoesSends("vm", {"vm_new_path"}, "open_input", First("vm_new_path"), "graph")
        /\ chan["vm_new_path"] # <<>> /\ pc["vm"] = "path"
        /\ First("vm_new_path") \in DOMAIN files /\ UNCHANGED <<vm, todo>>
    BY <1>10, VmDo DEF VmAskGraph, Has, vm
  <2>2. /\ NoRequest /\ F!AtNode /\ chan["find_input"] = <<>>
        /\ chan["vm_new_path"] = <<F!Node.sort>>
        /\ OpenQuiet /\ LexQuiet /\ SemQuiet /\ CheckQuiet /\ ErrorsQuiet
        /\ chan["vm_input"] = <<>>
    BY <1>6, <2>1 DEF Answers, Requested, PathAsked, GraphAsked
  <2>3. First("vm_new_path") = F!Node.sort
    BY <2>2, OneMessage DEF First
  <2>4. /\ chan'["open_input"] = <<F!Node.sort>> /\ chan'["vm_new_path"] = <<>>
        /\ chan'["find_input"] = <<>> /\ chan'["vm_input"] = <<>>
    <3>1. \A p \in Ports : p # "open_input" /\ p # "vm_new_path" => chan'[p] = chan[p]
      BY <2>1 DEF GoesSends, Left
    <3>2. chan'["open_input"] = Append(chan["open_input"], F!Node.sort)
      BY <2>1, <2>3 DEF GoesSends, Left
    <3>3. chan'["vm_new_path"] = Tail(chan["vm_new_path"])
      BY <1>1, <2>1 DEF GoesSends, Left
    <3> QED
      BY <1>1, <2>2, <3>1, <3>2, <3>3, OneMessage DEF OpenQuiet
  <2>5. /\ pc'["vm"] = "graph" /\ (\A b \in Behind : Alike(b)) /\ ErrorsQuiet' /\ UNCHANGED files
        /\ \A p \in {"lex_input", "sem_input", "check_input", "start_add", "sched_action"} :
             chan'[p] = chan[p]
    BY <2>1, <2>2, VmAlone
  <2>6. NoRequest' /\ LexQuiet' /\ SemQuiet' /\ CheckQuiet'
    BY <1>2, <2>2, <2>4, <2>5, QuietKept
  <2>7. pc'["open"] # "lines"
    BY <2>2, <2>5, AlikeAgents DEF Behind, OpenQuiet
  <2>8. Asking(F!Node.sort)'
    BY <1>5, <2>1, <2>4, <2>5, <2>6, <2>7 DEF Asking
  <2>9. F!AtNode' /\ F!Node'.sort \in DOMAIN files'
    BY <1>5, <2>1, <2>2, <2>3, <2>5
  <2>10. GraphAsked'
    BY <2>5, <2>8, <2>9 DEF GraphAsked, Answering
  <2>11. Requested' /\ PathAsked'
    BY <1>6, <2>4, <2>5, <2>6 DEF Requested, PathAsked
  <2> QED
    BY <2>1, <2>5, <2>10, <2>11, SameLibrary DEF Answers
<1>11. CASE VmGraph
  <2>1. Goes("vm", {"vm_input"}, "nodes") /\ chan["vm_input"] # <<>> /\ pc["vm"] = "graph"
    BY <1>11, VmDo DEF VmGraph, Has
  <2>2. /\ NoRequest /\ F!AtNode /\ F!Node.sort \in DOMAIN files /\ Answering(F!Node.sort)
        /\ chan["find_input"] = <<>> /\ chan["vm_new_path"] = <<>>
    BY <1>6, <2>1 DEF Answers, Requested, PathAsked, GraphAsked
  <2>3. Answered(F!Node.sort)
    BY <2>1, <2>2 DEF Answering, Asking, InStream, AtCheck, AtErrors
  <2>4. /\ OpenQuiet /\ LexQuiet /\ SemQuiet /\ CheckQuiet /\ ErrorsQuiet
        /\ chan["vm_input"] = <<LibraryOf(files)[F!Node.sort]>>
    BY <2>3 DEF Answered
  <2>5. /\ chan'["vm_input"] = <<>> /\ chan'["find_input"] = <<>> /\ chan'["vm_new_path"] = <<>>
        /\ chan'["open_input"] = chan["open_input"]
    <3>1. \A p \in Ports : p # "vm_input" => chan'[p] = chan[p]
      BY <2>1 DEF Goes, Left
    <3>2. chan'["vm_input"] = Tail(chan["vm_input"])
      BY <1>1, <2>1 DEF Goes, Left
    <3> QED
      BY <1>1, <2>2, <2>4, <3>1, <3>2, OneMessage
  <2>6. /\ pc'["vm"] = "nodes" /\ (\A b \in Behind : Alike(b)) /\ ErrorsQuiet' /\ UNCHANGED files
        /\ \A p \in {"lex_input", "sem_input", "check_input", "start_add", "sched_action"} :
             chan'[p] = chan[p]
    BY <2>1, <2>4, VmAlone
  <2>7. NoRequest' /\ OpenQuiet' /\ LexQuiet' /\ SemQuiet' /\ CheckQuiet'
    BY <1>2, <2>2, <2>4, <2>5, <2>6, QuietKept
  <2>8. Answers'
    BY <1>6, <2>5, <2>6, <2>7 DEF Answers, Requested, PathAsked, GraphAsked
  <2>9. First("vm_input") = LibraryOf(files)[F!Node.sort]
    BY <2>4, OneMessage DEF First
  <2>10. F!AddSubgraph
    BY <1>3, <1>4, <1>11, <2>2, <2>6, <2>9 DEF F!AddSubgraph, VmGraph
  <2> QED
    BY <2>8, <2>10 DEF F!Next
<1>12. CASE VmReturn
  <2>1. /\ pc["vm"] = "nodes" /\ F!Return
        /\ \E at \in {"nodes", "End"} :
             Goes("vm", {}, at) \/ GoesSends("vm", {}, "sched_graph", graph, at)
    BY <1>12, VmDo DEF VmReturn
  <2>2. PICK at \in {"nodes", "End"} :
          Goes("vm", {}, at) \/ GoesSends("vm", {}, "sched_graph", graph, at)
    BY <2>1
  <2>3. /\ NoRequest /\ chan["find_input"] = <<>> /\ chan["vm_new_path"] = <<>>
        /\ OpenQuiet /\ LexQuiet /\ SemQuiet /\ CheckQuiet /\ ErrorsQuiet
        /\ chan["vm_input"] = <<>>
    BY <1>6, <2>1 DEF Answers, Requested, PathAsked, GraphAsked
  <2>4. \A p \in Ports : p # "sched_graph" => chan'[p] = chan[p]
    BY <2>2 DEF Goes, GoesSends, Left
  <2>5. /\ chan'["vm_input"] = <<>> /\ chan'["find_input"] = <<>> /\ chan'["vm_new_path"] = <<>>
        /\ chan'["open_input"] = chan["open_input"]
    BY <1>1, <2>3, <2>4
  <2>6. /\ pc'["vm"] = at /\ (\A b \in Behind : Alike(b)) /\ ErrorsQuiet' /\ UNCHANGED files
        /\ \A p \in {"lex_input", "sem_input", "check_input", "start_add", "sched_action"} :
             chan'[p] = chan[p]
    <3>1. {} \subseteq {"vm_input", "vm_new_path"}
      OBVIOUS
    <3> QED
      BY <2>2, <2>3, <3>1, VmAlone
  <2>7. NoRequest' /\ OpenQuiet' /\ LexQuiet' /\ SemQuiet' /\ CheckQuiet'
    BY <1>2, <2>3, <2>5, <2>6, QuietKept
  <2>8. Answers'
    BY <1>6, <2>5, <2>6, <2>7 DEF Answers, Requested, PathAsked, GraphAsked
  <2> QED
    BY <2>1, <2>8 DEF F!Next
<1> QED
  BY <1>7, <1>8, <1>9, <1>10, <1>11, <1>12 DEF Vm

-----------------------------------------------------------------------------
(* The agents behind the vm: the answer about one file goes on from one to  *)
(* the next.                                                                *)

LEMMA SliceStays ==
  ASSUME NEW s, NEW i, NEW j
  PROVE  Slice(s, i, j)' = Slice(s, i, j)
  BY DEF Slice, Item, Start, End, Text

\* The ports that a step takes from and sends to change, and its agent.
LEMMA BehindGoes ==
  ASSUME NEW a \in Behind \cup {"check"}, NEW took, NEW at, Goes(a, took, at)
  PROVE  /\ pc'[a] = at
         /\ \A b \in Behind \cup {"vm"} : b # a => Alike(b) /\ pc'[b] = pc[b]
         /\ \A p \in Ports : p \notin took => chan'[p] = chan[p]
         /\ \A p \in took \cap Ports : chan'[p] = Tail(chan[p])
         /\ files' = files
  BY AgentsAre DEF Goes, Behind, Left, Alike

LEMMA BehindSends ==
  ASSUME NEW a \in Behind \cup {"check"}, NEW took, NEW q \in Ports, NEW m, NEW at,
         GoesSends(a, took, q, m, at), q \notin took
  PROVE  /\ pc'[a] = at
         /\ \A b \in Behind \cup {"vm"} : b # a => Alike(b)
         /\ Owner[q] # "errors" /\ a # "errors" => pc'["errors"] = pc["errors"]
         /\ \A p \in Ports : p \notin took /\ p # q => chan'[p] = chan[p]
         /\ \A p \in took \cap Ports : chan'[p] = Tail(chan[p])
         /\ chan'[q] = Append(chan[q], m)
         /\ files' = files
<1>1. Behind \cup {"check", "vm"} \subseteq Agents
  BY AgentsAre DEF Behind
<1>2. \A b \in Agents : b # a => Alike(b)
  BY SendsFrame
<1>3. /\ \A p \in Ports : p \notin took /\ p # q => chan'[p] = chan[p]
      /\ \A p \in took \cap Ports : chan'[p] = Tail(chan[p])
      /\ chan'[q] = Append(chan[q], m)
  BY DEF GoesSends, Left
<1>4. pc'[a] = at /\ (Owner[q] # "errors" /\ a # "errors" => pc'["errors"] = pc["errors"])
  BY <1>1 DEF GoesSends, Behind
<1> QED
  BY <1>1, <1>2, <1>3, <1>4 DEF GoesSends

LEMMA OpenAnswers ==
  ASSUME Types, NEW s, Answering(s), OpenFile \/ OpenLine \/ OpenEnd, UNCHANGED parsing
  PROVE  Answering(s)' /\ chan'["vm_input"] = chan["vm_input"]
<1>1. {"open_input", "lex_input", "sem_input", "check_input", "errors_file", "errors_semantic",
       "vm_input"} \subseteq Ports
  BY PortsAre
<1>2. "open" \in Behind \cup {"check"} /\ Owner["lex_input"] # "errors"
  BY PortsAre DEF Behind
<1>3. Lines \in Nat \ {0}
  BY LinesAssumption
<1>4. CASE OpenFile
  <2>1. pc["open"] = "run" /\ chan["open_input"] # <<>>
    BY <1>4 DEF OpenFile, Has
  <2>2. Asking(s)
    BY <2>1 DEF Answering, InStream, AtCheck, AtErrors, Answered, OpenQuiet
  <2>3. /\ chan["open_input"] = <<s>> /\ First("open_input") = s
        /\ LexQuiet /\ SemQuiet /\ CheckQuiet /\ ErrorsQuiet /\ chan["vm_input"] = <<>>
    BY <2>2, OneMessage DEF Asking, First
  <2>4. CASE Fate(s) = "missing"
    <3>1. GoesSends("open", {"open_input"}, "errors_file", s, "End")
      BY <1>4, <2>3, <2>4, StreamsDo
    <3>2. /\ pc'["open"] = "End" /\ Alike("lex") /\ Alike("sem") /\ files' = files
          /\ \A p \in Ports : p \notin {"open_input"} /\ p # "errors_file" => chan'[p] = chan[p]
          /\ chan'["open_input"] = Tail(chan["open_input"])
          /\ chan'["errors_file"] = Append(chan["errors_file"], s)
      <4>1. "errors_file" \in Ports /\ "errors_file" \notin {"open_input"}
        BY <1>1
      <4>2. /\ \A p \in Ports : p \notin {"open_input"} /\ p # "errors_file" => chan'[p] = chan[p]
            /\ chan'["open_input"] = Tail(chan["open_input"])
            /\ chan'["errors_file"] = Append(chan["errors_file"], s)
        BY <1>1, <3>1 DEF GoesSends, Left
      <4>3. Alike("lex") /\ Alike("sem")
        BY <3>1, SendsFrame, AgentsAre
      <4>4. pc'["open"] = "End" /\ files' = files
        BY <3>1, AgentsAre DEF GoesSends
      <4> QED
        BY <4>2, <4>3, <4>4
    <3>3. /\ chan'["open_input"] = <<>> /\ chan'["errors_file"] = <<s>>
          /\ chan'["errors_semantic"] = <<>> /\ chan'["vm_input"] = <<>>
          /\ chan'["lex_input"] = chan["lex_input"] /\ chan'["sem_input"] = chan["sem_input"]
          /\ chan'["check_input"] = chan["check_input"]
      BY <1>1, <2>3, <3>2, OneMessage DEF ErrorsQuiet
    <3>4. OpenQuiet' /\ LexQuiet' /\ SemQuiet' /\ CheckQuiet'
      BY <2>3, <3>2, <3>3, AlikeAgents DEF OpenQuiet, LexQuiet, SemQuiet, CheckQuiet
    <3>5. Fate(s)' = "missing"
      BY <2>4, <3>2 DEF Fate
    <3>6. AtErrors(s)'
      BY <3>3, <3>4, <3>5 DEF AtErrors
    <3> QED
      BY <2>3, <3>3, <3>6 DEF Answering
  <2>5. CASE Fate(s) # "missing"
    <3>1. GoesSends("open", {"open_input"}, "lex_input", Start(s), "lines")
          /\ reading' = [path |-> s, left |-> Lines]
      BY <1>4, <2>3, <2>5, StreamsDo DEF OpenFile
    <3>2. /\ pc'["open"] = "lines" /\ Alike("lex") /\ Alike("sem") /\ files' = files
          /\ pc'["errors"] = pc["errors"]
          /\ \A p \in Ports : p \notin {"open_input"} /\ p # "lex_input" => chan'[p] = chan[p]
          /\ chan'["open_input"] = Tail(chan["open_input"])
          /\ chan'["lex_input"] = Append(chan["lex_input"], Start(s))
      <4>1. "lex_input" \in Ports /\ "lex_input" \notin {"open_input"} /\ "open" # "errors"
        BY <1>1
      <4>2. /\ \A p \in Ports : p \notin {"open_input"} /\ p # "lex_input" => chan'[p] = chan[p]
            /\ chan'["open_input"] = Tail(chan["open_input"])
            /\ chan'["lex_input"] = Append(chan["lex_input"], Start(s))
        BY <1>1, <3>1 DEF GoesSends, Left
      <4>3. Alike("lex") /\ Alike("sem")
        BY <3>1, SendsFrame, AgentsAre
      <4>4. pc'["open"] = "lines" /\ files' = files
        BY <3>1, AgentsAre DEF GoesSends
      <4>5. pc'["errors"] = pc["errors"]
        BY <1>2, <3>1, AgentsAre DEF GoesSends
      <4> QED
        BY <4>2, <4>3, <4>4, <4>5
    <3>3. /\ chan'["open_input"] = <<>> /\ chan'["lex_input"] = Append(<<>>, Start(s))
          /\ chan'["vm_input"] = <<>> /\ chan'["sem_input"] = <<>>
          /\ chan'["check_input"] = chan["check_input"]
          /\ chan'["errors_file"] = chan["errors_file"]
          /\ chan'["errors_semantic"] = chan["errors_semantic"]
      BY <1>1, <2>3, <3>2, OneMessage DEF LexQuiet, SemQuiet
    <3>4. CheckQuiet' /\ ErrorsQuiet'
      BY <2>3, <3>2, <3>3 DEF CheckQuiet, ErrorsQuiet
    <3>5. Fate(s)' = Fate(s)
      BY <3>2 DEF Fate
    <3>6. Slice(s, 0, 0) = <<>> /\ Append(<<>>, Start(s)) = Slice(s, 0, 1)
      <4>1. 0 \in Nat /\ 0 <= 0 /\ 0 + 1 = 1
        OBVIOUS
      <4>2. Slice(s, 0, 0) = <<>> /\ Append(Slice(s, 0, 0), Item(s, 0 + 1)) = Slice(s, 0, 0 + 1)
        BY <4>1, Slices
      <4>3. Item(s, 1) = Start(s)
        BY DEF Item
      <4> QED
        BY <4>1, <4>2, <4>3
    <3>7. Opened(s, 1)'
      BY <1>3, <3>1, <3>2 DEF Opened
    <3>8. Lexed(0)' /\ Parsed(s, 0)'
      BY <2>3, <3>2, AlikeAgents DEF Lexed, Parsed, LexQuiet, SemQuiet
    <3>9. Streaming(s, 0, 0, 1)'
      BY <1>3, <2>5, <3>3, <3>5, <3>6, <3>7, <3>8, SliceStays DEF Streaming
    <3>10. InStream(s)'
      BY <3>3, <3>4, <3>9 DEF InStream
    <3> QED
      BY <2>3, <3>3, <3>10 DEF Answering
  <2> QED
    BY <2>4, <2>5
<1>5. CASE OpenLine \/ OpenEnd
  <2>1. pc["open"] = "lines"
    BY <1>5 DEF OpenLine, OpenEnd
  <2>2. InStream(s)
    BY <2>1 DEF Answering, Asking, AtCheck, AtErrors, Answered, OpenQuiet
  <2>3. PICK c \in Nat, l \in Nat, n \in Nat : Streaming(s, c, l, n)
    BY <2>2 DEF InStream
  <2>4. /\ Fate(s) # "missing" /\ c <= l /\ l <= n /\ n <= Lines + 2
        /\ chan["sem_input"] = Slice(s, c, l) /\ chan["lex_input"] = Slice(s, l, n)
        /\ n \in 1..(Lines + 1) /\ reading = [path |-> s, left |-> Lines + 1 - n]
        /\ Fate(s) = "unreadable" => n <= Lines
        /\ Lexed(l) /\ Parsed(s, c)
    BY <2>1, <2>3 DEF Streaming, Opened
  <2>5. reading.path = s /\ reading.left = Lines + 1 - n
    BY <2>4
  <2>6. CASE OpenLine /\ Fate(s) = "unreadable" /\ reading.left = 1
    <3>1. Goes("open", {}, "Err")
      BY <2>5, <2>6, StreamsDo
    <3>2. /\ pc'["open"] = "Err" /\ Alike("lex") /\ Alike("sem") /\ files' = files
          /\ pc'["errors"] = pc["errors"] /\ \A p \in Ports : chan'[p] = chan[p]
      <4>1. \A p \in Ports : chan'[p] = chan[p]
        BY <3>1 DEF Goes, Left
      <4>2. /\ pc'["open"] = "Err" /\ Alike("lex") /\ Alike("sem") /\ files' = files
            /\ pc'["errors"] = pc["errors"]
        BY <1>2, <3>1, BehindGoes DEF Behind
      <4> QED
        BY <4>1, <4>2
    <3>3. \A p \in PipePorts \cup {"vm_input"} : chan'[p] = chan[p]
      BY <1>1, <3>2 DEF PipePorts
    <3>4. CheckQuiet' /\ ErrorsQuiet' /\ Fate(s)' = Fate(s)
      BY <2>2, <3>2, <3>3 DEF InStream, CheckQuiet, ErrorsQuiet, PipePorts, Fate
    <3>5. n = Lines
      BY <1>3, <2>4, <2>5, <2>6
    <3>6. Opened(s, n)'
      BY <2>6, <3>2, <3>4, <3>5 DEF Opened
    <3>7. Lexed(l)' /\ Parsed(s, c)'
      BY <2>4, <3>2, AgentKept
    <3>8. chan'["sem_input"] = Slice(s, c, l) /\ chan'["lex_input"] = Slice(s, l, n)
      BY <2>4, <3>3 DEF PipePorts
    <3>9. Streaming(s, c, l, n)'
      BY <2>4, <3>4, <3>6, <3>7, <3>8, SliceStays DEF Streaming
    <3>10. InStream(s)'
      BY <2>2, <3>3, <3>4, <3>9 DEF InStream, PipePorts
    <3> QED
      BY <3>3, <3>10 DEF Answering
  <2>7. ASSUME NEW at, GoesSends("open", {}, "lex_input", Item(s, n + 1), at),
               Opened(s, n + 1)', n + 1 <= Lines + 2
        PROVE  Answering(s)' /\ chan'["vm_input"] = chan["vm_input"]
    <3>1. /\ Alike("lex") /\ Alike("sem") /\ files' = files /\ pc'["errors"] = pc["errors"]
          /\ \A p \in Ports : p # "lex_input" => chan'[p] = chan[p]
          /\ chan'["lex_input"] = Append(chan["lex_input"], Item(s, n + 1))
      <4>1. /\ \A p \in Ports : p # "lex_input" => chan'[p] = chan[p]
            /\ chan'["lex_input"] = Append(chan["lex_input"], Item(s, n + 1))
        BY <2>7 DEF GoesSends, Left
      <4>2. "lex_input" \in Ports /\ "lex_input" \notin {} /\ "open" # "errors"
        BY <1>1
      <4>3. /\ \A b \in Behind \cup {"vm"} : b # "open" => Alike(b)
            /\ pc'["errors"] = pc["errors"] /\ files' = files
        BY <1>2, <2>7, <4>2, BehindSends
      <4> QED
        BY <4>1, <4>3 DEF Behind
    <3>2. \A p \in (PipePorts \ {"lex_input"}) \cup {"vm_input"} : chan'[p] = chan[p]
      BY <1>1, <3>1 DEF PipePorts
    <3>3. CheckQuiet' /\ ErrorsQuiet' /\ Fate(s)' = Fate(s)
      BY <2>2, <3>1, <3>2 DEF InStream, CheckQuiet, ErrorsQuiet, PipePorts, Fate
    <3>4. Lexed(l)' /\ Parsed(s, c)'
      BY <2>4, <3>1, AgentKept
    <3>5. chan'["sem_input"] = Slice(s, c, l) /\ chan'["lex_input"] = Slice(s, l, n + 1)
      <4>1. Append(Slice(s, l, n), Item(s, n + 1)) = Slice(s, l, n + 1)
        BY <2>4, Slices
      <4>2. chan'["sem_input"] = chan["sem_input"]
        BY <3>2 DEF PipePorts
      <4> QED
        BY <2>4, <3>1, <4>1, <4>2
    <3>6. Streaming(s, c, l, n + 1)'
      BY <2>4, <2>7, <3>3, <3>4, <3>5, SliceStays DEF Streaming
    <3>7. n + 1 \in Nat
      OBVIOUS
    <3>8. InStream(s)'
      BY <2>2, <3>2, <3>3, <3>6, <3>7 DEF InStream, PipePorts
    <3> QED
      BY <3>2, <3>8 DEF Answering
  <2>8. CASE OpenLine /\ ~(Fate(s) = "unreadable" /\ reading.left = 1)
    <3>1. /\ GoesSends("open", {}, "lex_input", Text, "lines")
          /\ reading.left > 0 /\ reading' = [reading EXCEPT !.left = @ - 1]
      BY <2>5, <2>8, StreamsDo DEF OpenLine
    <3>2. Item(s, n + 1) = Text
      BY <1>3, <2>4, <2>5, <3>1 DEF Item
    <3>3. reading' = [path |-> s, left |-> Lines + 1 - (n + 1)]
      BY <1>3, <2>4, <3>1
    <3>4. n + 1 \in 1..(Lines + 1) /\ (Fate(s) = "unreadable" => n + 1 <= Lines)
      BY <1>3, <2>4, <2>5, <2>8, <3>1
    <3>5. pc'["open"] = "lines" /\ Fate(s)' = Fate(s)
      BY <3>1, AgentsAre DEF GoesSends, Fate
    <3>6. Opened(s, n + 1)'
      BY <3>3, <3>4, <3>5 DEF Opened
    <3> QED
      BY <1>3, <2>7, <3>1, <3>2, <3>4, <3>6
  <2>9. CASE OpenEnd
    <3>1. GoesSends("open", {}, "lex_input", End(s), "End") /\ reading.left = 0
      BY <2>5, <2>9, StreamsDo DEF OpenEnd
    <3>2. n = Lines + 1 /\ Fate(s) # "unreadable"
      BY <1>3, <2>4, <2>5, <3>1
    <3>3. Item(s, n + 1) = End(s)
      BY <1>3, <3>2 DEF Item
    <3>4. pc'["open"] = "End" /\ Fate(s)' = Fate(s)
      BY <3>1, AgentsAre DEF GoesSends, Fate
    <3>5. Opened(s, n + 1)'
      BY <1>3, <3>2, <3>4 DEF Opened
    <3> QED
      BY <1>3, <2>7, <3>1, <3>2, <3>3, <3>5
  <2> QED
    BY <1>5, <2>6, <2>8, <2>9
<1> QED
  BY <1>4, <1>5

LEMMA LexAnswers ==
  ASSUME Types, NEW s, Answering(s), LexStart \/ LexNext, UNCHANGED <<reading, parsing>>
  PROVE  Answering(s)' /\ chan'["vm_input"] = chan["vm_input"]
<1>1. {"open_input", "lex_input", "sem_input", "check_input", "errors_file", "errors_semantic",
       "vm_input"} \subseteq Ports
  BY PortsAre
<1>2. Lines \in Nat \ {0}
  BY LinesAssumption
<1>3. chan["lex_input"] # <<>> /\ pc["lex"] \in {"run", "stream"}
  BY DEF LexStart, LexNext, Has
<1>4. InStream(s)
  BY <1>3 DEF Answering, Asking, AtCheck, AtErrors, Answered, LexQuiet
<1>5. PICK c \in Nat, l \in Nat, n \in Nat : Streaming(s, c, l, n)
  BY <1>4 DEF InStream
<1>6. /\ Fate(s) # "missing" /\ c <= l /\ l <= n /\ n <= Lines + 2
      /\ chan["sem_input"] = Slice(s, c, l) /\ chan["lex_input"] = Slice(s, l, n)
      /\ Opened(s, n) /\ Lexed(l) /\ Parsed(s, c)
  BY <1>5 DEF Streaming
<1>7. l < n /\ First("lex_input") = Item(s, l + 1) /\ Tail(chan["lex_input"]) = Slice(s, l + 1, n)
      /\ Append(chan["sem_input"], Item(s, l + 1)) = Slice(s, c, l + 1)
  <2>1. l # n
    BY <1>3, <1>6, Slices
  <2>2. l < n
    BY <1>6, <2>1
  <2>3. Slice(s, l, n)[1] = Item(s, l + 1) /\ Tail(Slice(s, l, n)) = Slice(s, l + 1, n)
    BY <1>6, <2>2, Slices
  <2>4. Append(Slice(s, c, l), Item(s, l + 1)) = Slice(s, c, l + 1)
    BY <1>6, Slices
  <2> QED
    BY <1>6, <2>2, <2>3, <2>4 DEF First
<1>8. \E at : /\ GoesSends("lex", {"lex_input"}, "sem_input", Item(s, l + 1), at)
              /\ at = "stream" <=> l + 1 \in 1..(Lines + 1)
  <2>1. CASE LexStart
    <3>1. GoesSends("lex", {"lex_input"}, "sem_input", Item(s, l + 1), "stream")
      BY <1>7, <2>1, StreamsDo
    <3>2. pc["lex"] # "stream"
      BY <2>1 DEF LexStart
    <3>3. l \notin 1..(Lines + 1)
      BY <1>6, <3>2 DEF Lexed
    <3>4. l + 1 \in 1..(Lines + 1)
      BY <1>2, <1>6, <1>7, <3>3
    <3> QED
      BY <3>1, <3>4
  <2>2. CASE LexNext
    <3>1. GoesSends("lex", {"lex_input"}, "sem_input", Item(s, l + 1),
                    IF Item(s, l + 1).kind = "End" THEN "End" ELSE "stream")
      BY <1>7, <2>2, StreamsDo
    <3>2. l \in 1..(Lines + 1)
      BY <1>6, <2>2 DEF Lexed, LexNext
    <3>3. Item(s, l + 1).kind = "End" <=> l + 1 = Lines + 2
      BY <1>2, <3>2 DEF Item, Start, Text, End
    <3>4. l + 1 \in 1..(Lines + 1) <=> l + 1 # Lines + 2
      BY <1>2, <3>2
    <3> QED
      BY <3>1, <3>3, <3>4
  <2> QED
    BY <2>1, <2>2
<1>9. PICK at : /\ GoesSends("lex", {"lex_input"}, "sem_input", Item(s, l + 1), at)
                /\ at = "stream" <=> l + 1 \in 1..(Lines + 1)
  BY <1>8
<1>10. /\ \A p \in Ports : p \notin {"lex_input"} /\ p # "sem_input" => chan'[p] = chan[p]
       /\ chan'["lex_input"] = Slice(s, l + 1, n) /\ chan'["sem_input"] = Slice(s, c, l + 1)
  BY <1>1, <1>7, <1>9 DEF GoesSends, Left
<1>11. Alike("open") /\ Alike("sem")
  BY <1>9, SendsFrame, AgentsAre
<1>12. pc'["lex"] = at /\ files' = files /\ pc'["errors"] = pc["errors"]
  BY <1>9, AgentsAre, PortsAre DEF GoesSends
<1>13. /\ chan'["open_input"] = <<>> /\ chan'["vm_input"] = <<>>
       /\ CheckQuiet' /\ ErrorsQuiet' /\ Fate(s)' = Fate(s)
  BY <1>1, <1>4, <1>10, <1>12 DEF InStream, CheckQuiet, ErrorsQuiet, Fate
<1>14. Opened(s, n)' /\ Lexed(l + 1)' /\ Parsed(s, c)'
  <2>1. Opened(s, n)' /\ Parsed(s, c)'
    BY <1>6, <1>11, <1>12, AgentKept
  <2>2. Lexed(l + 1)'
    BY <1>9, <1>12 DEF Lexed
  <2> QED
    BY <2>1, <2>2
<1>15. Streaming(s, c, l + 1, n)'
  BY <1>6, <1>7, <1>10, <1>13, <1>14, SliceStays DEF Streaming
<1>16. InStream(s)'
  <2>1. l + 1 \in Nat
    OBVIOUS
  <2> QED
    BY <1>13, <1>15, <2>1 DEF InStream
<1> QED
  BY <1>4, <1>13, <1>16 DEF Answering, InStream

LEMMA SemAnswers ==
  ASSUME Types, NEW s, Answering(s), Fate(s) \in Fates,
         SemStart \/ SemStray \/ SemToken \/ SemEnd, UNCHANGED reading,
         SemStart \/ UNCHANGED parsing
  PROVE  Answering(s)' /\ chan'["vm_input"] = chan["vm_input"]
<1>1. {"open_input", "lex_input", "sem_input", "check_input", "errors_file", "errors_semantic",
       "vm_input"} \subseteq Ports
  BY PortsAre
<1>2. Lines \in Nat \ {0}
  BY LinesAssumption
<1>3. chan["sem_input"] # <<>> /\ pc["sem"] \in {"run", "stream"}
  BY DEF SemStart, SemStray, SemToken, SemEnd, Has
<1>4. InStream(s)
  BY <1>3 DEF Answering, Asking, AtCheck, AtErrors, Answered, SemQuiet
<1>5. PICK c \in Nat, l \in Nat, n \in Nat : Streaming(s, c, l, n)
  BY <1>4 DEF InStream
<1>6. /\ Fate(s) # "missing" /\ c <= l /\ l <= n /\ n <= Lines + 2
      /\ chan["sem_input"] = Slice(s, c, l) /\ chan["lex_input"] = Slice(s, l, n)
      /\ Opened(s, n) /\ Lexed(l) /\ Parsed(s, c)
  BY <1>5 DEF Streaming
<1>7. c < l /\ First("sem_input") = Item(s, c + 1) /\ Tail(chan["sem_input"]) = Slice(s, c + 1, l)
  <2>1. /\ Slice(s, c, c) = <<>>
        /\ c < l => Slice(s, c, l)[1] = Item(s, c + 1) /\ Tail(Slice(s, c, l)) = Slice(s, c + 1, l)
    BY <1>6, Slices
  <2>2. chan["sem_input"] # <<>>
    BY <1>3
  <2>3. c < l
    BY <1>6, <2>1, <2>2
  <2> QED
    BY <1>6, <2>1, <2>2, <2>3 DEF First
<1>8. /\ c + 1 \in Nat /\ c + 1 <= l
      /\ Item(s, c + 1).kind = "Start" <=> c + 1 = 1
      /\ Item(s, c + 1).kind = "End" <=> c + 1 = Lines + 2
      /\ Item(s, c + 1).kind \in {"Start", "Text", "End"}
      /\ c + 1 = 1 => Item(s, c + 1).path = s
  <2>1. c + 1 \in Nat /\ c + 1 <= l /\ Lines + 2 # 1
    BY <1>2, <1>7
  <2>2. CASE c + 1 = 1
    <3>1. Item(s, c + 1) = Start(s) /\ c + 1 # Lines + 2
      BY <2>1, <2>2 DEF Item
    <3>2. Item(s, c + 1).kind = "Start" /\ Item(s, c + 1).path = s
      BY <3>1 DEF Start
    <3> QED
      BY <2>1, <2>2, <3>1, <3>2
  <2>3. CASE c + 1 = Lines + 2
    <3>1. Item(s, c + 1) = End(s) /\ c + 1 # 1
      BY <2>1, <2>3 DEF Item
    <3>2. Item(s, c + 1).kind = "End"
      BY <3>1 DEF End
    <3> QED
      BY <2>1, <2>3, <3>1, <3>2
  <2>4. CASE c + 1 # 1 /\ c + 1 # Lines + 2
    <3>1. Item(s, c + 1) = Text
      BY <2>4 DEF Item
    <3>2. Text.kind = "Text"
      BY Zenon DEF Text
    <3>3. Item(s, c + 1).kind = "Text"
      BY <3>1, <3>2
    <3> QED
      BY <2>1, <2>4, <3>3
  <2> QED
    BY <2>2, <2>3, <2>4
<1>9. ASSUME NEW at, Goes("sem", {"sem_input"}, at), Parsed(s, c + 1)'
      PROVE  Answering(s)' /\ chan'["vm_input"] = chan["vm_input"]
  <2>1. /\ \A p \in Ports : p \notin {"sem_input"} => chan'[p] = chan[p]
        /\ chan'["sem_input"] = Slice(s, c + 1, l)
    BY <1>1, <1>7, <1>9 DEF Goes, Left
  <2>2. Alike("open") /\ Alike("lex")
    BY <1>9, GoesFrame, AgentsAre
  <2>3. files' = files /\ pc'["errors"] = pc["errors"]
    BY <1>9, AgentsAre DEF Goes
  <2>4. /\ chan'["open_input"] = <<>> /\ chan'["vm_input"] = <<>>
        /\ chan'["lex_input"] = Slice(s, l, n)
        /\ CheckQuiet' /\ ErrorsQuiet' /\ Fate(s)' = Fate(s)
    BY <1>1, <1>4, <1>6, <2>1, <2>3 DEF InStream, CheckQuiet, ErrorsQuiet, Fate
  <2>5. Opened(s, n)' /\ Lexed(l)'
    BY <1>6, <2>2, <2>3, AgentKept
  <2>6. Streaming(s, c + 1, l, n)'
    BY <1>6, <1>8, <1>9, <2>1, <2>4, <2>5, SliceStays DEF Streaming
  <2>7. InStream(s)'
    BY <1>8, <2>4, <2>6 DEF InStream
  <2> QED
    BY <1>4, <2>4, <2>7 DEF Answering, InStream
<1>10. CASE SemStart
  <2>1. Goes("sem", {"sem_input"}, "stream")
    BY <1>10, StreamsDo
  <2>2. pc["sem"] = "run" /\ c + 1 = 1 /\ parsing' = s
    BY <1>7, <1>8, <1>10 DEF SemStart
  <2>3. pc'["sem"] = "stream"
    BY <2>1, AgentsAre DEF Goes
  <2>4. Parsed(s, c + 1)'
    BY <1>2, <2>2, <2>3 DEF Parsed
  <2> QED
    BY <1>9, <2>1, <2>4
<1>11. CASE SemStray
  <2>1. Goes("sem", {"sem_input"}, "Err")
    BY <1>11, StreamsDo
  <2>2. pc["sem"] = "run" /\ c # 0
    BY <1>7, <1>8, <1>11 DEF SemStray
  <2>3. c >= 2 /\ Fate(s) = "stuck"
    BY <1>6, <2>2 DEF Parsed
  <2>4. pc'["sem"] = "Err" /\ Fate(s)' = "stuck"
    BY <2>1, <2>3, AgentsAre DEF Goes, Fate
  <2>5. Parsed(s, c + 1)'
    BY <2>3, <2>4 DEF Parsed
  <2> QED
    BY <1>9, <2>1, <2>5
<1>12. ASSUME SemToken \/ SemEnd
       PROVE  /\ pc["sem"] = "stream" /\ c \in 1..(Lines + 1) /\ parsing = s /\ parsing' = s
              /\ Fate(s) = "stuck" => c = 1
  <2>1. pc["sem"] = "stream"
    BY <1>12 DEF SemToken, SemEnd
  <2>2. parsing' = parsing
    BY <2>1 DEF SemStart
  <2> QED
    BY <1>6, <2>1, <2>2 DEF Parsed
<1>13. CASE SemToken
  <2>1. c + 1 # Lines + 2
    BY <1>7, <1>8, <1>13 DEF SemToken
  <2>2. CASE Fate(s) = "stuck"
    <3>1. \E at \in {"Err", "dead"} : Goes("sem", {"sem_input"}, at)
      BY <1>12, <1>13, <2>2, StreamsDo
    <3>2. PICK at \in {"Err", "dead"} : Goes("sem", {"sem_input"}, at)
      BY <3>1
    <3>3. pc'["sem"] = at /\ Fate(s)' = "stuck"
      BY <2>2, <3>2, AgentsAre DEF Goes, Fate
    <3>4. c + 1 >= 2
      BY <1>12, <1>13
    <3>5. Parsed(s, c + 1)'
      BY <3>3, <3>4 DEF Parsed
    <3> QED
      BY <1>9, <3>2, <3>5
  <2>3. CASE Fate(s) # "stuck"
    <3>1. Goes("sem", {"sem_input"}, "stream")
      BY <1>12, <1>13, <2>3, StreamsDo
    <3>2. pc'["sem"] = "stream" /\ Fate(s)' # "stuck"
      BY <2>3, <3>1, AgentsAre DEF Goes, Fate
    <3>3. c + 1 \in 1..(Lines + 1)
      BY <1>2, <1>12, <1>13, <2>1
    <3>4. Parsed(s, c + 1)'
      BY <1>12, <1>13, <3>2, <3>3 DEF Parsed
    <3> QED
      BY <1>9, <3>1, <3>4
  <2> QED
    BY <2>2, <2>3
<1>14. CASE SemEnd
  <2>1. c + 1 = Lines + 2 /\ l = Lines + 2 /\ n = Lines + 2
    <3>1. c + 1 = Lines + 2
      BY <1>7, <1>8, <1>14 DEF SemEnd
    <3> QED
      BY <1>2, <1>6, <1>7, <3>1
  <2>2. pc["open"] # "lines" /\ Fate(s) # "unreadable" /\ pc["lex"] # "stream"
        /\ Fate(s) # "stuck"
    BY <1>2, <1>6, <1>12, <1>14, <2>1 DEF Opened, Lexed
  <2>3. Tail(chan["sem_input"]) = <<>> /\ chan["lex_input"] = <<>>
    BY <1>6, <1>7, <2>1, Slices
  <2>4. ASSUME NEW q \in {"errors_semantic", "check_input"},
               GoesSends("sem", {"sem_input"}, q, s, "End")
        PROVE  /\ OpenQuiet' /\ LexQuiet' /\ SemQuiet' /\ Alike("errors") /\ files' = files
               /\ chan'["vm_input"] = <<>> /\ Fate(s)' = Fate(s)
               /\ chan'[q] = Append(chan[q], s)
               /\ \A p \in Ports : p \notin {"sem_input"} /\ p # q => chan'[p] = chan[p]
    <3>1. /\ \A p \in Ports : p \notin {"sem_input"} /\ p # q => chan'[p] = chan[p]
          /\ chan'["sem_input"] = Tail(chan["sem_input"]) /\ chan'[q] = Append(chan[q], s)
      BY <1>1, <2>4 DEF GoesSends, Left
    <3>2. Alike("open") /\ Alike("lex") /\ Alike("errors")
      BY <2>4, SendsFrame, AgentsAre
    <3>3. files' = files /\ pc'["sem"] = "End"
      BY <2>4, AgentsAre DEF GoesSends
    <3>4. /\ chan'["open_input"] = chan["open_input"] /\ chan'["lex_input"] = chan["lex_input"]
          /\ chan'["vm_input"] = chan["vm_input"]
      BY <1>1, <3>1
    <3>5. OpenQuiet' /\ LexQuiet' /\ SemQuiet' /\ chan'["vm_input"] = <<>>
      BY <1>4, <2>2, <2>3, <3>1, <3>2, <3>3, <3>4, AlikeAgents
         DEF InStream, OpenQuiet, LexQuiet, SemQuiet
    <3> QED
      BY <3>1, <3>2, <3>3, <3>5 DEF Fate
  <2>5. CheckQuiet /\ ErrorsQuiet /\ chan["vm_input"] = <<>>
    BY <1>4 DEF InStream
  <2>6. CASE Fate(s) = "unparsable"
    <3>1. GoesSends("sem", {"sem_input"}, "errors_semantic", s, "End")
      BY <1>12, <1>14, <2>6, StreamsDo
    <3>2. /\ OpenQuiet' /\ LexQuiet' /\ SemQuiet' /\ Alike("errors")
          /\ chan'["vm_input"] = <<>> /\ Fate(s)' = Fate(s)
          /\ chan'["errors_semantic"] = Append(chan["errors_semantic"], s)
          /\ \A p \in Ports : p \notin {"sem_input"} /\ p # "errors_semantic" => chan'[p] = chan[p]
      BY <2>4, <3>1
    <3>3. /\ chan'["errors_semantic"] = <<s>> /\ chan'["errors_file"] = <<>>
          /\ chan'["check_input"] = <<>>
      BY <1>1, <2>5, <3>2, OneMessage DEF CheckQuiet, ErrorsQuiet
    <3>4. pc'["errors"] # "file"
      BY <2>5, <3>2, AlikeAgents DEF ErrorsQuiet
    <3>5. AtErrors(s)'
      BY <2>6, <3>2, <3>3, <3>4 DEF AtErrors, CheckQuiet
    <3> QED
      BY <2>5, <3>2, <3>5 DEF Answering
  <2>7. CASE Fate(s) # "unparsable"
    <3>1. GoesSends("sem", {"sem_input"}, "check_input", s, "End")
      BY <1>12, <1>14, <2>7, StreamsDo
    <3>2. /\ OpenQuiet' /\ LexQuiet' /\ SemQuiet' /\ Alike("errors")
          /\ chan'["vm_input"] = <<>> /\ Fate(s)' = Fate(s)
          /\ chan'["check_input"] = Append(chan["check_input"], s)
          /\ \A p \in Ports : p \notin {"sem_input"} /\ p # "check_input" => chan'[p] = chan[p]
      BY <2>4, <3>1
    <3>3. /\ chan'["check_input"] = <<s>>
          /\ chan'["errors_file"] = <<>> /\ chan'["errors_semantic"] = <<>>
      BY <1>1, <2>5, <3>2, OneMessage DEF CheckQuiet, ErrorsQuiet
    <3>4. pc'["errors"] = pc["errors"]
      BY <3>1, AgentsAre, PortsAre DEF GoesSends
    <3>5. ErrorsQuiet'
      BY <2>5, <3>3, <3>4 DEF ErrorsQuiet
    <3>6. Fate(s)' \in {"good", "ill-formed"}
      BY <1>6, <2>2, <2>7, <3>2 DEF Fates
    <3>7. AtCheck(s)'
      BY <3>2, <3>3, <3>5, <3>6 DEF AtCheck
    <3> QED
      BY <2>5, <3>2, <3>7 DEF Answering
  <2> QED
    BY <2>6, <2>7
<1> QED
  BY <1>10, <1>11, <1>13, <1>14

LEMMA CheckAnswers ==
  ASSUME Types, NEW s \in DOMAIN files, Answering(s), Check \/ ErrorsSemantic \/ ErrorsFile,
         UNCHANGED <<reading, parsing>>
  PROVE  Answering(s)'
<1>1. {"open_input", "lex_input", "sem_input", "check_input", "errors_file", "errors_semantic",
       "vm_input"} \subseteq Ports
  BY PortsAre
<1>2. Fate(s) = files[s].fate
      /\ LibraryOf(files)[s] = IF Fate(s) = "good" THEN files[s].graph ELSE ErrorGraph
  BY DEF Fate, LibraryOf
<1>3. CASE Check
  <2>1. chan["check_input"] # <<>>
    BY <1>3 DEF Check, Has
  <2>2. AtCheck(s)
    BY <2>1 DEF Answering, Asking, InStream, AtErrors, Answered, CheckQuiet
  <2>3. /\ OpenQuiet /\ LexQuiet /\ SemQuiet /\ ErrorsQuiet /\ chan["vm_input"] = <<>>
        /\ chan["check_input"] = <<s>> /\ Fate(s) \in {"good", "ill-formed"}
        /\ First("check_input") = s
    BY <2>2, OneMessage DEF AtCheck, First
  <2>4. ASSUME NEW q \in {"errors_semantic", "vm_input"}, NEW m,
               GoesSends("check", {"check_input"}, q, m, "End")
        PROVE  /\ OpenQuiet' /\ LexQuiet' /\ SemQuiet' /\ CheckQuiet' /\ Alike("errors")
               /\ files' = files /\ chan'[q] = <<m>>
               /\ \A p \in Ports : p \notin {"check_input"} /\ p # q => chan'[p] = chan[p]
    <3>1. /\ \A p \in Ports : p \notin {"check_input"} /\ p # q => chan'[p] = chan[p]
          /\ chan'["check_input"] = Tail(chan["check_input"]) /\ chan'[q] = Append(chan[q], m)
      BY <1>1, <2>4 DEF GoesSends, Left
    <3>2. Alike("open") /\ Alike("lex") /\ Alike("sem") /\ Alike("errors")
      BY <2>4, SendsFrame, AgentsAre
    <3>3. files' = files
      BY <2>4 DEF GoesSends
    <3>4. /\ chan'["open_input"] = chan["open_input"] /\ chan'["lex_input"] = chan["lex_input"]
          /\ chan'["sem_input"] = chan["sem_input"] /\ chan'["check_input"] = <<>>
          /\ chan[q] = <<>>
      BY <1>1, <2>3, <3>1, OneMessage DEF ErrorsQuiet
    <3>5. OpenQuiet' /\ LexQuiet' /\ SemQuiet' /\ CheckQuiet'
      BY <2>3, <3>2, <3>4, AlikeAgents DEF OpenQuiet, LexQuiet, SemQuiet, CheckQuiet
    <3> QED
      BY <3>1, <3>2, <3>3, <3>4, <3>5, OneMessage
  <2>5. CASE Fate(s) = "ill-formed"
    <3>1. GoesSends("check", {"check_input"}, "errors_semantic", s, "End")
      BY <1>3, <2>3, <2>5, CheckDo
    <3>2. /\ OpenQuiet' /\ LexQuiet' /\ SemQuiet' /\ CheckQuiet' /\ Alike("errors")
          /\ files' = files /\ chan'["errors_semantic"] = <<s>>
          /\ \A p \in Ports : p \notin {"check_input"} /\ p # "errors_semantic" =>
               chan'[p] = chan[p]
      BY <2>4, <3>1
    <3>3. chan'["vm_input"] = <<>> /\ chan'["errors_file"] = <<>>
      BY <1>1, <2>3, <3>2 DEF ErrorsQuiet
    <3>4. pc'["errors"] # "file" /\ Fate(s)' # "good"
      BY <2>3, <2>5, <3>2, AlikeAgents DEF ErrorsQuiet, Fate
    <3>5. AtErrors(s)'
      BY <3>2, <3>3, <3>4 DEF AtErrors
    <3> QED
      BY <3>5 DEF Answering
  <2>6. CASE Fate(s) # "ill-formed"
    <3>1. GoesSends("check", {"check_input"}, "vm_input", files[s].graph, "End")
      BY <1>3, <2>3, <2>6, CheckDo
    <3>2. /\ OpenQuiet' /\ LexQuiet' /\ SemQuiet' /\ CheckQuiet'
          /\ files' = files /\ chan'["vm_input"] = <<files[s].graph>>
          /\ \A p \in Ports : p \notin {"check_input"} /\ p # "vm_input" => chan'[p] = chan[p]
      BY <2>4, <3>1
    <3>3. chan'["errors_file"] = <<>> /\ chan'["errors_semantic"] = <<>>
      BY <1>1, <2>3, <3>2 DEF ErrorsQuiet
    <3>4. pc'["errors"] = pc["errors"]
      BY <3>1, AgentsAre, PortsAre DEF GoesSends
    <3>5. ErrorsQuiet'
      BY <2>3, <3>3, <3>4 DEF ErrorsQuiet
    <3>6. LibraryOf(files)'[s] = files[s].graph
      BY <1>2, <2>3, <2>6, <3>2
    <3>7. Answered(s)'
      BY <3>2, <3>5, <3>6 DEF Answered
    <3> QED
      BY <3>7 DEF Answering
  <2> QED
    BY <2>5, <2>6
<1>4. CASE ErrorsSemantic
  <2>1. pc["errors"] = "run" /\ pc["errors"] \in {"queued", "run", "file"}
    BY <1>4 DEF ErrorsSemantic
  <2>2. AtErrors(s)
    BY <2>1 DEF Answering, Asking, InStream, AtCheck, Answered, ErrorsQuiet
  <2>3. /\ OpenQuiet /\ LexQuiet /\ SemQuiet /\ CheckQuiet /\ chan["vm_input"] = <<>>
        /\ Fate(s) # "good"
    BY <2>2 DEF AtErrors
  <2>4. Goes("errors", {p \in {"errors_semantic"} : Has(p)}, "file")
    BY <1>4, CheckDo
  <2>5. /\ \A p \in Ports : p # "errors_semantic" => chan'[p] = chan[p]
        /\ chan["errors_semantic"] = <<>> => chan'["errors_semantic"] = <<>>
        /\ chan["errors_semantic"] = <<s>> => chan'["errors_semantic"] = <<>>
    <3>1. \A p : p \in {q \in {"errors_semantic"} : Has(q)}
                <=> p = "errors_semantic" /\ chan["errors_semantic"] # <<>>
      BY DEF Has
    <3>2. \A p \in Ports : chan'[p] = Left(p, {q \in {"errors_semantic"} : Has(q)})
      BY <2>4 DEF Goes
    <3>3. \A p \in Ports :
            chan'[p] = IF p = "errors_semantic" /\ chan["errors_semantic"] # <<>>
                       THEN Tail(chan[p]) ELSE chan[p]
      BY <3>1, <3>2 DEF Left
    <3> QED
      BY <1>1, <3>3, OneMessage
  <2>6. Alike("open") /\ Alike("lex") /\ Alike("sem")
    BY <2>4, GoesFrame, AgentsAre
  <2>7. pc'["errors"] = "file" /\ files' = files
    BY <2>4, AgentsAre DEF Goes
  <2>8. /\ chan'["open_input"] = chan["open_input"] /\ chan'["lex_input"] = chan["lex_input"]
        /\ chan'["sem_input"] = chan["sem_input"] /\ chan'["check_input"] = chan["check_input"]
        /\ chan'["vm_input"] = chan["vm_input"] /\ chan'["errors_file"] = chan["errors_file"]
    BY <1>1, <2>5
  <2>9. OpenQuiet' /\ LexQuiet' /\ SemQuiet' /\ CheckQuiet'
    BY <2>3, <2>6, <2>8, AlikeAgents DEF OpenQuiet, LexQuiet, SemQuiet, CheckQuiet
  <2>10. \/ chan'["errors_file"] = <<s>> /\ chan'["errors_semantic"] = <<>>
         \/ chan'["errors_file"] = <<>> /\ chan'["errors_semantic"] = <<>>
    BY <2>1, <2>2, <2>5, <2>8 DEF AtErrors
  <2>11. AtErrors(s)'
    BY <2>3, <2>7, <2>8, <2>9, <2>10 DEF AtErrors, Fate
  <2> QED
    BY <2>11 DEF Answering
<1>5. CASE ErrorsFile
  <2>1. pc["errors"] = "file" /\ pc["errors"] \in {"queued", "run", "file"}
    BY <1>5 DEF ErrorsFile
  <2>2. AtErrors(s)
    BY <2>1 DEF Answering, Asking, InStream, AtCheck, Answered, ErrorsQuiet
  <2>3. /\ OpenQuiet /\ LexQuiet /\ SemQuiet /\ CheckQuiet /\ chan["vm_input"] = <<>>
        /\ Fate(s) # "good" /\ chan["errors_semantic"] = <<>>
        /\ chan["errors_file"] \in {<<>>, <<s>>}
    BY <2>1, <2>2 DEF AtErrors
  <2>4. GoesSends("errors", {p \in {"errors_file"} : Has(p)}, "vm_input", ErrorGraph, "End")
    BY <1>5, CheckDo
  <2>5. /\ \A p \in Ports : p # "errors_file" /\ p # "vm_input" => chan'[p] = chan[p]
        /\ chan'["vm_input"] = Append(chan["vm_input"], ErrorGraph)
        /\ chan["errors_file"] = <<>> => chan'["errors_file"] = <<>>
        /\ chan["errors_file"] = <<s>> => chan'["errors_file"] = <<>>
    <3>1. \A p : p \in {q \in {"errors_file"} : Has(q)}
                <=> p = "errors_file" /\ chan["errors_file"] # <<>>
      BY DEF Has
    <3>2. /\ \A p \in Ports \ {"vm_input"} : chan'[p] = Left(p, {q \in {"errors_file"} : Has(q)})
          /\ chan'["vm_input"]
               = Append(Left("vm_input", {p \in {"errors_file"} : Has(p)}), ErrorGraph)
      BY <2>4 DEF GoesSends
    <3>3. /\ \A p \in Ports \ {"vm_input"} :
               chan'[p] = IF p = "errors_file" /\ chan["errors_file"] # <<>>
                          THEN Tail(chan[p]) ELSE chan[p]
          /\ chan'["vm_input"] = Append(chan["vm_input"], ErrorGraph)
      BY <3>1, <3>2 DEF Left
    <3> QED
      BY <1>1, <3>3, OneMessage
  <2>6. Alike("open") /\ Alike("lex") /\ Alike("sem")
    BY <2>4, SendsFrame, AgentsAre
  <2>7. pc'["errors"] = "End" /\ files' = files
    BY <2>4, AgentsAre DEF GoesSends
  <2>8. /\ chan'["open_input"] = chan["open_input"] /\ chan'["lex_input"] = chan["lex_input"]
        /\ chan'["sem_input"] = chan["sem_input"] /\ chan'["check_input"] = chan["check_input"]
        /\ chan'["errors_semantic"] = <<>> /\ chan'["errors_file"] = <<>>
        /\ chan'["vm_input"] = <<ErrorGraph>>
    BY <1>1, <2>3, <2>5, OneMessage
  <2>9. OpenQuiet' /\ LexQuiet' /\ SemQuiet' /\ CheckQuiet' /\ ErrorsQuiet'
    BY <2>3, <2>6, <2>7, <2>8, AlikeAgents
       DEF OpenQuiet, LexQuiet, SemQuiet, CheckQuiet, ErrorsQuiet
  <2>10. LibraryOf(files)'[s] = ErrorGraph
    BY <1>2, <2>3, <2>7
  <2>11. Answered(s)'
    BY <2>8, <2>9, <2>10 DEF Answered, ErrorGraph
  <2> QED
    BY <2>11 DEF Answering
<1> QED
  BY <1>3, <1>4, <1>5

\* The agents behind the vm have nothing to do unless the vm waits for a graph.
LEMMA BehindAsked ==
  ASSUME Answers,
         ~(OpenQuiet /\ LexQuiet /\ SemQuiet /\ CheckQuiet /\ ErrorsQuiet)
  PROVE  pc["vm"] = "graph" /\ F!AtNode /\ F!Node.sort \in DOMAIN files
         /\ Answering(F!Node.sort)
  BY DEF Answers, GraphAsked

LEMMA BehindKeeps ==
  ASSUME Answers, pc["vm"] = "graph", Alike("vm"), UNCHANGED <<files, main, vm>>,
         \A p \in {"start_add", "sched_action", "find_input", "vm_new_path"} : chan'[p] = chan[p],
         NEW s, s = F!Node.sort, Answering(s)'
  PROVE  Answers' /\ UNCHANGED F!vars
<1>1. pc'["vm"] = "graph" /\ "graph" \in AtWork
  BY DEF Alike, Midway, AtWork
<1>2. UNCHANGED <<todo, sent>>
  BY DEF vm
<1>3. (F!AtNode' <=> F!AtNode) /\ F!Node' = F!Node
  BY <1>2 DEF F!AtNode, F!Node, F!Call
<1>4. NoRequest' <=> NoRequest
  BY DEF NoRequest, Adds
<1>5. PathAsked'
  BY <1>2, PathKept DEF Answers
<1>6. Requested'
  BY <1>1, <1>4 DEF Answers, Requested
<1>7. GraphAsked'
  BY <1>1, <1>3 DEF Answers, GraphAsked
<1> QED
  BY <1>5, <1>6, <1>7, SameLibrary DEF Answers

\* A step of one of them stays among them, and in the ports between.
BehindStep ==
  \E a \in Behind \cup {"check"}, took \in SUBSET PipePorts : \E at :
    \/ Goes(a, took, at)
    \/ \E q \in PipePorts \cup {"vm_input"} : \E m : GoesSends(a, took, q, m, at)

LEMMA BehindSteps ==
  ASSUME Types, \/ Streams
                \/ Check \/ ErrorsSemantic \/ ErrorsFile
  PROVE  BehindStep
<1>1. /\ {} \in SUBSET PipePorts /\ \A p \in PipePorts : {p} \in SUBSET PipePorts
      /\ {p \in {"errors_semantic"} : Has(p)} \in SUBSET PipePorts
      /\ {p \in {"errors_file"} : Has(p)} \in SUBSET PipePorts
  BY DEF PipePorts
<1>2. {"open_input", "lex_input", "sem_input", "check_input", "errors_file", "errors_semantic"}
        \subseteq PipePorts
  BY DEF PipePorts
<1>3. {"open", "lex", "sem", "check", "errors"} \subseteq Behind \cup {"check"}
  BY DEF Behind
<1>4. CASE OpenFile
  BY <1>1, <1>2, <1>3, <1>4, StreamsDo DEF BehindStep
<1>5. CASE OpenLine
  BY <1>1, <1>2, <1>3, <1>5, StreamsDo DEF BehindStep
<1>6. CASE OpenEnd
  BY <1>1, <1>2, <1>3, <1>6, StreamsDo DEF BehindStep
<1>7. CASE LexStart
  BY <1>1, <1>2, <1>3, <1>7, StreamsDo DEF BehindStep
<1>8. CASE LexNext
  BY <1>1, <1>2, <1>3, <1>8, StreamsDo DEF BehindStep
<1>9. CASE SemStart
  BY <1>1, <1>2, <1>3, <1>9, StreamsDo DEF BehindStep
<1>10. CASE SemStray
  BY <1>1, <1>2, <1>3, <1>10, StreamsDo DEF BehindStep
<1>11. CASE SemToken
  BY <1>1, <1>2, <1>3, <1>11, StreamsDo DEF BehindStep
<1>12. CASE SemEnd
  BY <1>1, <1>2, <1>3, <1>12, StreamsDo DEF BehindStep
<1>13. CASE Check
  BY <1>1, <1>2, <1>3, <1>13, CheckDo DEF BehindStep
<1>14. CASE ErrorsSemantic
  BY <1>1, <1>2, <1>3, <1>14, CheckDo DEF BehindStep
<1>15. CASE ErrorsFile
  BY <1>1, <1>2, <1>3, <1>15, CheckDo DEF BehindStep
<1> QED
  BY <1>4, <1>5, <1>6, <1>7, <1>8, <1>9, <1>10, <1>11, <1>12, <1>13, <1>14, <1>15 DEF Streams, Open, Lex, Sem

LEMMA BehindAnswers ==
  ASSUME Types, Answers, files \in FileSets, UNCHANGED <<main, vm>>,
         \/ Streams
         \/ (Check \/ ErrorsSemantic \/ ErrorsFile) /\ UNCHANGED <<reading, parsing>>
  PROVE  Answers' /\ UNCHANGED F!vars
<1>1. /\ pc["vm"] = "graph" /\ F!AtNode /\ F!Node.sort \in DOMAIN files
      /\ Answering(F!Node.sort)
  <2>1. ~(OpenQuiet /\ LexQuiet /\ SemQuiet /\ CheckQuiet /\ ErrorsQuiet)
    BY DEF Streams, Open, Lex, Sem, OpenFile, OpenLine, OpenEnd, LexStart, LexNext, SemStart,
           SemStray, SemToken, SemEnd, Check, ErrorsSemantic, ErrorsFile, Has,
           OpenQuiet, LexQuiet, SemQuiet, CheckQuiet, ErrorsQuiet
  <2> QED
    BY <2>1, BehindAsked
<1> PICK s : s = F!Node.sort
  OBVIOUS
<1>2. s \in DOMAIN files /\ Answering(s) /\ Fate(s) \in Fates
  BY <1>1, FilesAssumption DEF Fate
<1>3. ASSUME Streams
      PROVE  Answering(s)'
  <2>1. CASE Open
    BY <1>2, <2>1, OpenAnswers DEF Open
  <2>2. CASE Lex
    BY <1>2, <2>2, LexAnswers DEF Lex
  <2>3. CASE Sem
    <3>1. UNCHANGED reading /\ (SemStart \/ SemStray \/ SemToken \/ SemEnd)
      BY <2>3 DEF Sem
    <3>2. SemStart \/ UNCHANGED parsing
      BY <3>1, Zenon DEF SemStray, SemToken, SemEnd
    <3> QED
      BY <1>2, <3>1, <3>2, SemAnswers
  <2> QED
    BY <1>3, <2>1, <2>2, <2>3 DEF Streams
<1>4. Answering(s)'
  <2>1. CASE Streams
    BY <1>3, <2>1
  <2>2. CASE (Check \/ ErrorsSemantic \/ ErrorsFile) /\ UNCHANGED <<reading, parsing>>
    BY <1>2, <2>2, CheckAnswers
  <2> QED
    BY <2>1, <2>2
<1>5. Alike("vm") /\ files' = files
      /\ \A p \in {"start_add", "sched_action", "find_input", "vm_new_path"} : chan'[p] = chan[p]
  <2>0. PICK a \in Behind \cup {"check"}, took \in SUBSET PipePorts :
          \E at : \/ Goes(a, took, at)
                 \/ \E q \in PipePorts \cup {"vm_input"} : \E m : GoesSends(a, took, q, m, at)
    BY BehindSteps DEF BehindStep
  <2>1. PICK at : \/ Goes(a, took, at)
                  \/ \E q \in PipePorts \cup {"vm_input"} : \E m : GoesSends(a, took, q, m, at)
    BY <2>0
  <2>2. a # "vm" /\ "vm" \in Agents
    BY AgentsAre DEF Behind
  <2>3. \A p \in {"start_add", "sched_action", "find_input", "vm_new_path"} :
          p \in Ports /\ p \notin took /\ p \notin PipePorts \cup {"vm_input"}
    BY PortsAre DEF PipePorts
  <2>4. CASE Goes(a, took, at)
    <3>1. Alike("vm")
      BY <2>2, <2>4, GoesFrame
    <3>2. files' = files /\ \A p \in Ports : p \notin took => chan'[p] = chan[p]
      BY <2>4 DEF Goes, Left
    <3> QED
      BY <2>3, <3>1, <3>2
  <2>5. ASSUME NEW q \in PipePorts \cup {"vm_input"}, NEW m, GoesSends(a, took, q, m, at)
        PROVE  Alike("vm") /\ files' = files
               /\ \A p \in {"start_add", "sched_action", "find_input", "vm_new_path"} :
                    chan'[p] = chan[p]
    <3>1. Alike("vm")
      BY <2>2, <2>5, SendsFrame
    <3>2. files' = files /\ \A p \in Ports : p \notin took /\ p # q => chan'[p] = chan[p]
      BY <2>5 DEF GoesSends, Left
    <3> QED
      BY <2>3, <3>1, <3>2
  <2> QED
    BY <2>1, <2>4, <2>5
<1> QED
  BY <1>1, <1>4, <1>5, BehindKeeps

-----------------------------------------------------------------------------
(* The program flattens the files.                                          *)

\* The inductive invariant.
IInv == files \in FileSets /\ Types /\ Awake /\ Answers

LEMMA InitAnswers ==
  ASSUME Init
  PROVE  IInv /\ F!Init
<1>1. files \in FileSets /\ Types /\ Awake
  BY InitAwake DEF Init
<1>2. /\ \A p \in Ports : chan[p] = <<>>
      /\ \A a \in Agents : pc[a] = "idle"
      /\ main = "add" /\ todo = <<>> /\ sent = "none" /\ F!Init
  BY DEF Init, F!Init
<1>3. /\ chan["start_add"] = <<>> /\ chan["sched_action"] = <<>> /\ chan["vm_input"] = <<>>
      /\ chan["find_input"] = <<>> /\ chan["vm_new_path"] = <<>>
      /\ OpenQuiet /\ LexQuiet /\ SemQuiet /\ CheckQuiet /\ ErrorsQuiet /\ pc["vm"] = "idle"
  BY <1>2, PortsAre, AgentsAre DEF OpenQuiet, LexQuiet, SemQuiet, CheckQuiet, ErrorsQuiet
<1>4. Adds = {}
  BY <1>3 DEF Adds
<1>5. Answers
  BY <1>2, <1>3, <1>4 DEF Answers, Requested, OneRequest, PathAsked, GraphAsked, AtWork
<1> QED
  BY <1>1, <1>2, <1>5 DEF IInv

LEMMA StepAnswers ==
  ASSUME IInv, [Next]_vars
  PROVE  IInv' /\ [F!Next]_(F!vars)
<1>1. Types /\ Awake /\ Answers /\ files \in FileSets
  BY DEF IInv
<1>2. Types' /\ Awake'
  BY <1>1, StepAwake
<1>3. files' = files
  BY DEF Next, Main, MainAdd, MainHalt, MainJoin, Dispatch, RunEnd, Rest, Others, StartAdd,
         StartHalt, SchedAdd, SchedHalt, SchedGraph, Find, Vm, VmReceive, VmAskPath, VmAgent,
         VmAskGraph, VmGraph, VmReturn, Streams, Open, Lex, Sem, OpenFile, OpenLine, OpenEnd,
         LexStart, LexNext, SemStart, SemStray, SemToken, SemEnd, Check, ErrorsSemantic,
         ErrorsFile, Act, vars
<1>4. CASE Main
  BY <1>1, <1>2, <1>3, <1>4, MainAnswers DEF IInv
<1>5. CASE Dispatch \/ \E a \in Agents : RunEnd(a)
  BY <1>1, <1>2, <1>3, <1>5, RunAnswers DEF IInv
<1>6. CASE Rest /\ UNCHANGED <<main, locals, vm>>
  <2>1. UNCHANGED <<reading, parsing>>
    BY <1>6 DEF locals
  <2>2. Answers' /\ UNCHANGED F!vars
    BY <1>1, <1>6, <2>1, OthersAnswers, BehindAnswers DEF Rest
  <2> QED
    BY <1>1, <1>2, <1>3, <2>2 DEF IInv
<1>7. CASE SchedGraph /\ UNCHANGED <<main, reading, parsing, vm>>
  BY <1>1, <1>2, <1>3, <1>7, OthersAnswers DEF IInv
<1>8. CASE Vm /\ UNCHANGED <<main, locals>>
  <2>1. UNCHANGED <<reading, parsing>>
    BY <1>8 DEF locals
  <2> QED
    BY <1>1, <1>2, <1>3, <1>8, <2>1, VmAnswers DEF IInv
<1>9. CASE Streams /\ UNCHANGED <<main, loaded, vm>>
  BY <1>1, <1>2, <1>3, <1>9, BehindAnswers DEF IInv
<1>10. CASE UNCHANGED vars
  <2>1. UNCHANGED <<files, chan, pc, pool, counted, main, reading, parsing, vm, todo, graph,
                    errors, sent>>
    BY <1>10 DEF vars, sched, locals, vm
  <2>2. Answers'
    <3>1. Alike("vm") /\ Alike("open") /\ Alike("lex") /\ Alike("sem") /\ Alike("errors")
      BY <2>1 DEF Alike
    <3>2. ErrorsQuiet => ErrorsQuiet'
      BY <2>1 DEF ErrorsQuiet
    <3>3. Requested' /\ PathAsked'
      BY <1>1, <2>1, <3>1, RequestedKept, PathKept DEF Answers
    <3>4. GraphAsked'
      BY <1>1, <2>1, <3>1, <3>2, GraphKept DEF Answers
    <3> QED
      BY <3>3, <3>4 DEF Answers
  <2> QED
    BY <1>1, <1>2, <2>1, <2>2, SameLibrary DEF IInv
<1> QED
  BY <1>4, <1>5, <1>6, <1>7, <1>8, <1>9, <1>10 DEF Next

\* Whatever the files are, however many lines, threads and places in a channel
\* there are, and in whatever order nodes/fvm/rs runs its agents: each step is one
\* of the flattening of module Flatten, with the library that has the graph of
\* each good file and the error graph for every other, or changes nothing of it.
THEOREM FilesAreFlattened == Spec => FlattensTheFiles
<1>1. Init => IInv /\ F!Init
  BY InitAnswers
<1>2. IInv /\ [Next]_vars => IInv' /\ [F!Next]_(F!vars)
  BY StepAnswers
<1> QED
  BY <1>1, <1>2, PTL DEF Spec, FlattensTheFiles
=============================================================================
