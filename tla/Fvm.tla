---------------------------------- MODULE Fvm ----------------------------------
(***************************************************************************)
(* The program fvm (nodes/fvm/rs/main.rs): nine agents that find, open,    *)
(* lex, parse, check and flatten the files of a graph, each file when the  *)
(* flattening meets it, and load the result.  Here they run as the         *)
(* scheduler of module Rustfbp runs them: in a pool of threads, each when  *)
(* there is a message for it, and a thread is held while its agent waits   *)
(* for a message or for room.                                              *)
(*                                                                         *)
(* What the parser and the check say of a file is the file's fate here     *)
(* (modules Semantic and GraphCheck), and what loading a graph does is     *)
(* left out (module Loader).  The vm does what module Flatten says, with   *)
(* the answers that come in.                                               *)
(***************************************************************************)
EXTENDS Naturals, Sequences, FiniteSets, SequencesExt

CONSTANTS
  FileSets,  \* the files there may be: for each subgraph its fate and graph
  Request,   \* the graph that the scheduler's agent asks for
  Lines,     \* bound: lines of a file
  Capacity,  \* of a channel, 25 in the code
  PoolSize   \* threads, 8 in the code

VARIABLES
  files,    \* one of FileSets
  chan,     \* the messages on each input port
  pc,       \* of each agent: "idle", "queued" for a thread, or where its run is
  pool,     \* the runs that wait for a thread
  counted,  \* the agents that the scheduler counts as running
  main,     \* the main thread
  reading,  \* of the agent open: the path of its file and the lines left
  parsing,  \* of the agent sem: the path of its file
  todo, graph, errors, sent,  \* of the agent vm, as in module Flatten
  loaded    \* the graphs that the agent sched got

vm == <<todo, graph, errors, sent>>
locals == <<reading, parsing, loaded>>
sched == <<chan, pc, pool, counted>>
vars == <<files, sched, main, locals, vm>>

\* A file may parse and check well; not open; fail to be read to its end; make
\* the parser fail on the way; have errors; or be a graph that is not right.
Fates == {"good", "missing", "unreadable", "stuck", "unparsable", "ill-formed"}

ASSUME FilesAssumption == \A fs \in FileSets : \A s \in DOMAIN fs : fs[s].fate \in Fates

\* A file has a line to fail at, if it is one that fails on the way.
ASSUME LinesAssumption == Lines \in Nat \ {0}

ErrorGraph ==
  [path |-> "error", nodes |-> <<>>, edges |-> <<>>, imsgs |-> <<>>,
   ext_in |-> <<>>, ext_out |-> <<>>]

LibraryOf(fs) ==
  [s \in DOMAIN fs |-> IF fs[s].fate = "good" THEN fs[s].graph ELSE ErrorGraph]

F == INSTANCE Flatten WITH
       Libraries <- {LibraryOf(fs) : fs \in FileSets}, Top <- Request,
       library <- LibraryOf(files)

\* The input ports, and the agent of each.
Owner ==
  [start_add |-> "start", start_halt |-> "start", sched_action |-> "sched",
   sched_graph |-> "sched", vm_input |-> "vm", vm_new_path |-> "vm",
   find_input |-> "find", open_input |-> "open", lex_input |-> "lex",
   sem_input |-> "sem", check_input |-> "check",
   errors_file |-> "errors", errors_semantic |-> "errors"]

Ports == DOMAIN Owner
Agents == {Owner[p] : p \in Ports}

Init ==
  /\ files \in FileSets
  /\ chan = [p \in Ports |-> <<>>]
  /\ pc = [a \in Agents |-> "idle"] /\ pool = <<>> /\ counted = {}
  /\ main = "add"
  /\ reading = [path |-> "", left |-> 0] /\ parsing = "" /\ loaded = <<>>
  /\ F!Init

-----------------------------------------------------------------------------
(* Messages and runs.                                                       *)

Results == {"End", "Continue", "Err"}

None == {}
Msg(p, m) == {[port |-> p, msg |-> m]}

\* The thread of a takes the first message of each port of took, sends what
\* sends has, if there is room, and is at the place at.  A message wakes the
\* agent that it is for.
Act_mut(a, took, sends, at) ==
  LET woken == {b \in {Owner[s.port] : s \in sends} : pc[b] = "idle"} IN
  /\ \A p \in took : chan[p] # <<>>
  /\ \A s \in sends : Len(chan[s.port]) < Capacity
  /\ chan' = [p \in Ports |->
                (IF p \in took THEN Tail(chan[p]) ELSE chan[p])
                  \o SetToSeq({s.msg : s \in {s \in sends : s.port = p}})]
  /\ pc' = [b \in Agents |->
              IF b = a THEN at ELSE IF b \in woken THEN "queued" ELSE pc[b]]
  /\ pool' = pool \o SetToSeq(woken)
  /\ UNCHANGED <<counted, files>>
Act(a, took, sends, at) ==
  LET woken == {b \in {Owner[s.port] : s \in sends} : pc[b] = "idle"} IN
  /\ \A p \in took : chan[p] # <<>>
  /\ \A s \in sends : Len(chan[s.port]) < Capacity
  /\ chan' = [p \in Ports |->
                (IF p \in took THEN Tail(chan[p]) ELSE chan[p])
                  \o SetToSeq({s.msg : s \in {s \in sends : s.port = p}})]
  /\ pc' = [b \in Agents |->
              IF b = a THEN at ELSE IF b \in woken THEN "queued" ELSE pc[b]]
  /\ pool' = pool \o SetToSeq(woken)
  /\ counted' = counted \cup woken
  /\ UNCHANGED files

First(p) == chan[p][1]
Has(p) == chan[p] # <<>>

\* An agent that panicked has no thread: the pool starts a new one.
Held == {a \in Agents : pc[a] \notin {"idle", "queued", "dead"}}

Dispatch ==
  /\ pool # <<>> /\ Cardinality(Held) < PoolSize
  /\ pc' = [pc EXCEPT ![pool[1]] = "run"] /\ pool' = Tail(pool)
  /\ UNCHANGED <<files, chan, counted, main, locals, vm>>

\* The run ended: the agent runs again if there is more for it.  Only the
\* result End makes the scheduler count it out.
RunEnd_mut(a) ==
  /\ pc[a] \in Results
  /\ pc' = [pc EXCEPT ![a] = "idle"]
  /\ counted' = IF pc[a] = "End" THEN counted \ {a} ELSE counted
  /\ UNCHANGED <<files, chan, pool, main, locals, vm>>
RunEnd(a) ==
  LET again == \E p \in Ports : Owner[p] = a /\ Has(p) IN
  /\ pc[a] \in Results
  /\ pc' = [pc EXCEPT ![a] = IF again THEN "queued" ELSE "idle"]
  /\ pool' = IF again THEN Append(pool, a) ELSE pool
  /\ counted' = IF pc[a] = "End" /\ ~again THEN counted \ {a} ELSE counted
  /\ UNCHANGED <<files, chan, main, locals, vm>>

-----------------------------------------------------------------------------
(* main, start, sched, find.                                                *)

\* After the network is made: the path for start, then halt, then the join.
MainAdd == main = "add" /\ Act("main", {}, Msg("start_add", "M"), "") /\ main' = "halt"
MainHalt == main = "halt" /\ Act("main", {}, Msg("start_halt", "halt"), "") /\ main' = "join"
MainJoin == main = "join" /\ counted = {} /\ main' = "ended" /\ UNCHANGED <<files, sched>>

Main == (MainAdd \/ MainHalt \/ MainJoin) /\ UNCHANGED <<locals, vm>>

\* try_recv: a message or none.
StartAdd ==
  /\ pc["start"] = "run"
  /\ IF Has("start_add") THEN Act("start", {"start_add"}, Msg("sched_action", "Add"), "halt")
     ELSE Act("start", {}, None, "halt")

StartHalt ==
  /\ pc["start"] = "halt"
  /\ IF Has("start_halt") THEN Act("start", {"start_halt"}, Msg("sched_action", "Halt"), "End")
     ELSE Act("start", {}, None, "End")

SchedAdd ==
  /\ pc["sched"] = "run" /\ Has("sched_action") /\ First("sched_action") = "Add"
  /\ Act("sched", {"sched_action"}, Msg("vm_input", Request), "graph")

SchedHalt ==
  /\ pc["sched"] = "run" /\ Has("sched_action") /\ First("sched_action") = "Halt"
  /\ Act("sched", {"sched_action"}, None, "End")

SchedGraph ==
  /\ pc["sched"] = "graph" /\ Has("sched_graph")
  /\ loaded' = Append(loaded, First("sched_graph"))
  /\ Act("sched", {"sched_graph"}, None, "Continue")

\* It always answers with a path, of what it finds or of nothing that is there; that
\* it panics, as nix-build cannot be run or prints no UTF-8, is not followed.
Find ==
  /\ pc["find"] = "run" /\ Has("find_input")
  /\ Act("find", {"find_input"}, Msg("vm_new_path", First("find_input")), "End")

Others == StartAdd \/ StartHalt \/ SchedAdd \/ SchedHalt \/ Find

-----------------------------------------------------------------------------
(* vm: module Flatten's steps, each when the answer it needs is there.      *)

VmReceive ==
  /\ pc["vm"] = "run" /\ Has("vm_input")
  /\ F!AddGraph(First("vm_input"), <<>>, <<>>)
  /\ Act("vm", {"vm_input"}, None, "nodes")
  /\ UNCHANGED sent

VmAskPath ==
  /\ pc["vm"] = "nodes" /\ F!AtNode
  /\ Act("vm", {}, Msg("find_input", F!Node.sort), "path")
  /\ UNCHANGED vm

\* There is a library at the path, or a subgraph.
VmAgent ==
  /\ pc["vm"] = "path" /\ Has("vm_new_path") /\ First("vm_new_path") \notin DOMAIN files
  /\ graph' = [graph EXCEPT !.nodes =
                 Append(@, [name |-> F!NodeName, sort |-> First("vm_new_path")])]
  /\ todo' = F!GoneOn
  /\ Act("vm", {"vm_new_path"}, None, "nodes")
  /\ UNCHANGED <<errors, sent>>

VmAskGraph ==
  /\ pc["vm"] = "path" /\ Has("vm_new_path") /\ First("vm_new_path") \in DOMAIN files
  /\ Act("vm", {"vm_new_path"}, Msg("open_input", First("vm_new_path")), "graph")
  /\ UNCHANGED vm

VmGraph ==
  /\ pc["vm"] = "graph" /\ Has("vm_input")
  /\ F!AddGraph(First("vm_input"), F!NodeName, F!GoneOn)
  /\ Act("vm", {"vm_input"}, None, "nodes")
  /\ UNCHANGED sent

VmReturn ==
  /\ pc["vm"] = "nodes" /\ todo # <<>>
  /\ IF Len(todo) > 1 THEN Act("vm", {}, None, "nodes")
     ELSE Act("vm", {}, IF F!Sends THEN Msg("sched_graph", graph) ELSE None, "End")
  /\ F!Return

Vm == VmReceive \/ VmAskPath \/ VmAgent \/ VmAskGraph \/ VmGraph \/ VmReturn

-----------------------------------------------------------------------------
(* open, lex, sem: a file is a stream.  One Text stands for a line and for  *)
(* the tokens of a line.                                                    *)

Start(path) == [kind |-> "Start", path |-> path]
Text == [kind |-> "Text", path |-> ""]
End(path) == [kind |-> "End", path |-> path]

Fate(path) == files[path].fate

OpenFile ==
  /\ pc["open"] = "run" /\ Has("open_input")
  /\ LET path == First("open_input") IN
     IF Fate(path) = "missing"
     THEN Act("open", {"open_input"}, Msg("errors_file", path), "End") /\ UNCHANGED reading
     ELSE /\ Act("open", {"open_input"}, Msg("lex_input", Start(path)), "lines")
          /\ reading' = [path |-> path, left |-> Lines]

\* `line?`: the run ends with an error, and the stream without End.
OpenLine ==
  /\ pc["open"] = "lines" /\ reading.left > 0
  /\ reading' = [reading EXCEPT !.left = @ - 1]
  /\ IF Fate(reading.path) = "unreadable" /\ reading.left = 1
     THEN Act("open", {}, None, "Err")
     ELSE Act("open", {}, Msg("lex_input", Text), "lines")

OpenEnd ==
  /\ pc["open"] = "lines" /\ reading.left = 0
  /\ Act("open", {}, Msg("lex_input", End(reading.path)), "End")
  /\ UNCHANGED reading

Open == (OpenFile \/ OpenLine \/ OpenEnd) /\ UNCHANGED parsing

\* Its stream always begins with a Start: what it reads it reads to the End.
LexStart ==
  /\ pc["lex"] = "run" /\ Has("lex_input")
  /\ Act("lex", {"lex_input"}, Msg("sem_input", First("lex_input")), "stream")

LexNext ==
  /\ pc["lex"] = "stream" /\ Has("lex_input")
  /\ Act("lex", {"lex_input"}, Msg("sem_input", First("lex_input")),
         IF First("lex_input").kind = "End" THEN "End" ELSE "stream")

Lex == (LexStart \/ LexNext) /\ UNCHANGED <<reading, parsing>>

SemStart ==
  /\ pc["sem"] = "run" /\ Has("sem_input") /\ First("sem_input").kind = "Start"
  /\ parsing' = First("sem_input").path
  /\ Act("sem", {"sem_input"}, None, "stream")

\* What is left of a stream whose run failed: "bad stream".
SemStray ==
  /\ pc["sem"] = "run" /\ Has("sem_input") /\ First("sem_input").kind # "Start"
  /\ Act("sem", {"sem_input"}, None, "Err")
  /\ UNCHANGED parsing

SemToken ==
  /\ pc["sem"] = "stream" /\ Has("sem_input") /\ First("sem_input").kind = "Text"
  /\ \E at \in IF Fate(parsing) = "stuck" THEN {"Err", "dead"} ELSE {"stream"} :
       Act("sem", {"sem_input"}, None, at)
  /\ UNCHANGED parsing

SemEnd ==
  /\ pc["sem"] = "stream" /\ Has("sem_input") /\ First("sem_input").kind = "End"
  /\ Act("sem", {"sem_input"},
         IF Fate(parsing) = "unparsable" THEN Msg("errors_semantic", parsing)
         ELSE Msg("check_input", parsing), "End")
  /\ UNCHANGED parsing

Sem == (SemStart \/ SemStray \/ SemToken \/ SemEnd) /\ UNCHANGED reading

-----------------------------------------------------------------------------
(* check, errors.                                                           *)

Check_mut ==
  /\ pc["check"] = "run" /\ Has("check_input")
  /\ Act("check", {"check_input"},
         Msg("vm_input", files[First("check_input")].graph), "End")
Check ==
  /\ pc["check"] = "run" /\ Has("check_input")
  /\ LET path == First("check_input") IN
     Act("check", {"check_input"},
         IF Fate(path) = "ill-formed" THEN Msg("errors_semantic", path)
         ELSE Msg("vm_input", files[path].graph), "End")

ErrorsSemantic ==
  /\ pc["errors"] = "run"
  /\ Act("errors", {p \in {"errors_semantic"} : Has(p)}, None, "file")

ErrorsFile ==
  /\ pc["errors"] = "file"
  /\ Act("errors", {p \in {"errors_file"} : Has(p)}, Msg("vm_input", ErrorGraph), "End")

Rest == Others \/ Check \/ ErrorsSemantic \/ ErrorsFile

Streams == Open \/ Lex \/ Sem

Next ==
  \/ Main \/ Dispatch \/ \E a \in Agents : RunEnd(a)
  \/ Rest /\ UNCHANGED <<main, locals, vm>>
  \/ SchedGraph /\ UNCHANGED <<main, reading, parsing, vm>>
  \/ Vm /\ UNCHANGED <<main, locals>>
  \/ Streams /\ UNCHANGED <<main, loaded, vm>>

Spec == Init /\ [][Next]_vars /\ WF_vars(Next)
-----------------------------------------------------------------------------
(* What the program promises.                                               *)

\* The vm gets the answer to each question that it asks and no other, through
\* seven agents that run at the same time: it does what module Flatten does with
\* a library that has every good file and the error graph for every other.
FlattensTheFiles == F!Init /\ [][F!Next]_(F!vars)

\* When the main thread goes on after the join, no message is left and no agent
\* runs or waits for its turn.
JoinsQuiet ==
  main = "ended" => /\ \A p \in Ports : chan[p] = <<>>
                    /\ \A a \in Agents : pc[a] = "idle"

\* When all files are good the program ends, and the graph is loaded that the
\* vm made: nothing waits for what is only sent later, in a pool of few threads
\* and through channels that are full.
GoodFilesLoad ==
  (\A s \in DOMAIN files : files[s].fate = "good") => <>(main = "ended" /\ loaded = <<graph>>)

\* The program waits for the end of the execution, and goes on.
AlwaysEnds == <>(main = "ended")
=============================================================================
