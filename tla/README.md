# Fractalide in TLA+

Fractalide runs graphs of agents: an agent has input and output ports, a run of
it reads messages and sends others, and a scheduler runs an agent when a message
waits for it. There are two runtimes, one in Rust and one in Racket, and on top of
each a "virtual machine" (fvm), itself a graph of agents, that reads graph
descriptions, flattens them and hands them to a scheduler.

This directory holds TLA+ models of that code, the TLC configurations that check
them on small instances, and proofs that TLAPS checks.

## Inventory

| component | state | operations | interacts by |
|---|---|---|---|
| Rust interior scheduler, `rustfbp/src/scheduler.rs` 713-918 | `SchedState`: the table of `CompState` (box, `is_run`, `can_run`, `edit_msgs`, `ips`), `running`, `can_halt`, the pool | one handler per `CompMsg` | one FIFO mailbox; jobs given to the pool |
| Rust thread pool and agent runs, `scheduler.rs` 856-869, `agent.rs` | jobs, busy workers, the box in a job | `run` of an agent, `RunEnd` | the mailbox, the channels |
| Rust channels, `ports.rs` | a `sync_channel(25)` for each input port or array element | send, recv, try_recv | channel operation, then `Inc` or `Dec` to the mailbox |
| Rust exterior scheduler, `scheduler.rs` 92-710 | the owner's table: ids, sorts, schemas, array elements | `add_node`, `start*`, `connect*`, `disconnect*`, `add_*_element`, `get_*sender`, `join` | messages to the interior scheduler |
| Rust agent macro, `agent.rs` | ports, option value, user state | `connect`, `connect_array`, `add_inarr_element`, `recv_option`, `run` | called by the interior scheduler and the pool |
| Flowscript lexer and parser, `parser/lexical`, `parser/semantic` | a state, a stack of tokens, the graph, the errors | one transition per token | streams of tokens |
| Graph check, `parser/graph/check` | three tables and the errors | four loops over a graph | gets a graph, sends it on or sends errors |
| Rust vm, `fvm/rs/vm` | the flat graph, the recursion over nodes, `errors` | `add_graph` | asks for paths and graphs, gets answers on other ports |
| fvm's scheduler agent and main, `fvm/rs/scheduler`, `main.rs` | the accumulator: an exterior scheduler and its subnets | `Add`, `Halt` | calls of the exterior scheduler, a question to the vm |
| Racket scheduler, `rkt-fbp/scheduler.rkt` | agents with `number-ips`, `is-running`; `number-running`, `will-stop` | one clause per `msg-*` | one unbounded mailbox, a thread per run |
| Racket ports and agents, `port.rkt`, `agent.rkt` | bounded channels, the option value, reference counts of array elements | send, recv, try-recv, connect, disconnect | the mailbox |
| Racket fvm, `fvm.rkt`, `agents/fvm` | the flat graph with its virtual ports | add, dynamic-add, dynamic-remove, stop | messages to a Racket scheduler |
| Racket plumbing agents, `agents/plumbing` | accumulator | mux, demux, transforms | ports |
| user interface, hyperflow, wallets, Idris stubs, edge generator, Nix | | | not modelled |

What is hard in the two runtimes: an agent's box or state moves between the
scheduler and a thread; a message is accounted for twice, in its channel and in
the scheduler's counter, by steps of three threads; edits of the graph arrive while
agents run; runs block in bounded channels while they hold a worker; the end of
the program is decided from a counter. What is hard in the fvm: every agent holds a
thread of the same pool while it waits for another; a file may fail at each of
seven agents; the parser pops what other states pushed; names of two levels stand
for one end of an edge. What makes each component correct:

* interior schedulers: no box is doubled or mislaid, no message forgotten, no run for
  nothing, the count of running agents exact, an end only when all is quiet;
* channels: the counter and the channels agree once all notices are settled;
* exterior scheduler: what it answers with `Ok` happens, and nothing it lets through
  fails in the interior scheduler;
* parser and check: a file is accepted or reported, and the graph is what it says;
* vm: flattening preserves agents, edges and messages, and answers pair up with
  questions;
* loader: a graph runs when all of it is there, and what was loaded runs.

## Modules

| module | what it is | extends or instantiates |
|---|---|---|
| `Dataflow` | what a scheduler of agents promises, with no scheduler in it | |
| `Rustfbp` | the Rust runtime: interior scheduler, pool, channels, the calls that reach it | |
| `RustfbpProps` | its properties, inductive invariant and refinement mapping | `Rustfbp`, `Counting`, `Dataflow` |
| `Counting`, `CountingProofs` | counting in queues and channels; lemmas on counts, folds, induction | |
| `RustfbpProofs` | type correctness; counts, boxes, wires, the end, the refinement | `RustfbpProps`, `CountingProofs` |
| `MCRustfbp` | the graphs that TLC checks | `RustfbpProps` |
| `Rktfbp` | the Racket runtime: scheduler, ports, array elements, the holder of the scheduler | |
| `RktfbpProps` | its properties and refinement mapping | `Rktfbp`, `Counting`, `Dataflow` |
| `RktfbpProofs` | counts, array elements, options, the refinement | `RktfbpProps`, `CountingProofs` |
| `MCRktfbp` | graphs and scripts | `RktfbpProps` |
| `Exterior` | the exterior scheduler: tables, schemas, elements, the `Result` of each call | |
| `ExteriorClient`, `MCExterior` | an owner who makes any calls, and what they promise | `Exterior` |
| `ExteriorProofs` | that the promises are kept, and that the loader makes the edges first | `ExteriorClient`, `Loader`, `CountingProofs` |
| `Loader`, `MCLoader` | the fvm's scheduler agent, on an exterior scheduler whose agents run | `Exterior` |
| `Semantic`, `SemanticProps`, `MCSemantic` | the lexer's stream and the parser; the language as patterns | |
| `SemanticProofs` | the parser's stack; the graph and the errors are those of the language | `SemanticProps`, `CountingProofs` |
| `GraphCheck`, `GraphCheckProofs`, `MCGraphCheck` | the check of a graph; its proof | |
| `Flatten`, `FlattenProps`, `MCFlatten` | the vm over a library of graphs; what a graph of graphs means | |
| `FlattenProofs` | that the flat graph means what the graphs mean | `FlattenProps`, `CountingProofs` |
| `Fvm`, `MCFvm` | the nine agents of the fvm over files that may fail | `Flatten` |
| `FvmProofs` | the quiet end, and that the agents implement `Flatten` | `Fvm` |

Three compositions: `Loader` drives `Exterior`; `Fvm` has the agents that answer the
questions of the vm and implements `Flatten`; both runtimes implement `Dataflow`.

### How `Rustfbp` corresponds to the code

State. `agents`, `home`, `is_run`, `can_run`, `ips`, `edit_msgs` are the fields of
`CompState` (`home`: `comp` is `Some`); `running`, `can_halt` those of
`SchedState`; `mailbox` the `mpsc` channel of `CompMsg`; `pool` the jobs that no
worker took; `chan` the number of messages in each `sync_channel`; `conn` the
sender an output port has; `attached` the channels (of simple ports and of array
elements) whose receiver the agent was handed, `dropped` those of them that another
receiver replaced; `senders` the channels whose sender a client has got, `unlisted`
those of them that the exterior `Scheduler`'s table does not have; `known` its agents;
`lost` the agents whose box was dropped. A thread (an agent in the pool, or a
client: the owner of the `Scheduler`, a holder of a `MsgSender`) has `pc`, the operations
it has left (`todo`), the result its run will return (`res`) and the notice it owes
the scheduler (`owes`).

Steps. A send or recv is two steps, `Put` or `Get` and then `Notify`, because other
threads run between the channel operation and the notice. A handler of the interior
scheduler is one step, because its state belongs to one thread. A call of the
exterior API is one step: it reads the owner's own tables and sends one message. What
an agent does in a run is chosen from `Bodies`: a sequence of port operations
and a result. An operation that returns `Err` either goes on (`let _ =`, `.ok()`) or
ends the run with the error (`?`); both are explored. What the clients do is one of
`Scripts`.

An element of an array port is a `Slot`, for which channel after channel may be made:
`add_input_array_element` makes one also when the element exists, `soft_add_...` only
when it does not (`AddElement`), and `set_array_receiver` hands the agent the receiver of
a channel of the caller (`SetReceiver`). The agent keeps the last receiver that it was
handed (`Apply`, `ApplyAll`: `inarr.insert`, `agent.rs` 173) and reads from that one
(`Receivers`); the one before is dropped with its messages, and a send to it fails. These
messages stay in `ips`: `chan` goes on counting them, as a history.

Agents are named by themselves, not by the `usize` ids: `add_node` takes a fresh id at
every call, so each call makes another agent (`Exterior` has names that are given again).
Payloads and schemas are left out. `recv` on an empty channel waits for ever if nobody
sends: the receiver keeps a sender of its own, so it never sees a disconnection.

### How `Rktfbp` corresponds to the code

State. `agents`, `number_ips`, `is_running`, `outport`, `in_array` are what the table
of `agent-state` holds of each agent; `number_running`, `will_stop`, `mail_box` the
scheduler's; `chan` the async channels, each named by its port or element and, since
an element may be removed and made again, by a number; `input` what a run got of its
agent when it began, which later edits do not change.

An agent is what one `msg-add-agent` makes, with ports of its own, and `Name` is the name
under which the table has it. A name may be added again (`agents/test/dynamic.rkt` 26 and
38-46 does): the later agent replaces the earlier one, whose thread, senders and notices
may be left. A notice says the name only, so that the agent that has the name when it is
taken gets it (`Meets`): a `msg-inc-ip` for a channel of the earlier one, a `msg-dec-ip` or
`msg-run-end` of its thread. One thing is not followed: a later agent that the earlier
one's `msg-run-end` unmarks while it runs could get a second thread; in the model the
scheduler waits until its first has ended (`Exec`).

History variables: `missed`, the messages `#f` that `port-try-recv` took for no message;
`strays`, what an agent's count gained and lost by notices that met another of its name;
`strayed`, the agents to which that happened.

Steps. `port-send`, `port-recv` and `port-try-recv` are a step on the channel and one
on the mailbox, in the order of the code: a send announces after, a recv before,
it has done it. `recv-option` is a step for each message it takes and one that puts the
last back. A clause of `scheduler-match` is one step, but for `msg-mesg`, which waits
for room and posts in a second one, and `msg-start`, which goes over the agents. An
agent that is not in the table is an exception that ends the scheduler's thread
(`Raise`); one in a run is a body that is cut short.

### How the others correspond

* `Exterior`: `agents` is the owner's `HashMap` (id, sort, start, elements); `boxes` the
  agents with their senders, receivers, kept edits. `answer` is the `Result` of the last
  call; an `unwrap` of nothing is `Panics`. Each call is an operator, its early
  returns disjuncts in the code's order.
* `Loader`: `pc` is the loop of `add_graph` the agent is in, `at` its element. An `Error`
  drops what the run took from its accumulator (`?`).
* `Semantic`: `Moves` is the `match` on token and state, `Pops` and `Makes` what the
  states that end a statement pop and push. A token's text is its place in the file.
* `GraphCheck`: a step is an iteration of one of the loops.
* `Flatten`: `todo` is the recursion of `add_graph`; a name is the sequence of names that
  the code joins with "-". The library answers every question; waiting for an answer is
  in `Fvm`.
* `Fvm`: a port is a bounded channel; a run takes a thread of the pool and holds it while
  it waits. `RunEnd` counts an agent out for `Ok(End)` only, as the interior
  scheduler does. What `Rustfbp` shows of one transfer (two steps, two notices) is one
  step here. A file is one of six fates.

## Runs

| run | module | what it shows |
|---|---|---|
| `live` | `MCRustfbp` | a pipeline, an array port wired while its sender runs, silent ports: `join` returns and only when all is quiet, messages are read, no panic, `Dataflow` is implemented |
| `safe` | `MCRustfbp` | the same with a receiver that is replaced, failing edits, a call that panics the scheduler, runs that return `Err` or panic: boxes, counts, wiring, the inductive invariant |
| `racket` | `MCRktfbp` | graphs that are edited while they run, `#f` messages, a full port, a removed agent, a name added again, an agent that waits: counts, elements, options, `msg-stop`, the steps of `Dataflow` |
| `calls` | `MCExterior` | six calls in any order, agents running: what is answered with `Ok` happens |
| `load` | `MCLoader` | flat graphs, right and wrong: nothing runs before all edges are there, what was loaded runs |
| `lines` | `MCSemantic` | all token sequences of up to nine tokens, two files: graph, acceptance, errors |
| `graphs` | `MCGraphCheck` | all small graphs: the verdict is the definition of a well-formed graph |
| `nested` | `MCFlatten` | graphs nested three deep: agents, edges, messages, errors |
| `files` | `MCFvm` | three files of every fate: the agents implement `Flatten`; good files load; the join is quiet |
| `two` | `MCRustfbp` | **violated**: a node with two inputs holds the only worker; `join` does not return |
| `imsg` | `MCFlatten` | **violated**: an initial message for a subgraph does not get inside |
| `missing` | `MCFvm` | **violated**: a file that is missing keeps main in its join |

Bounds, and why they are enough.

* `live`, `safe`, `two`: channels of 1 or 2 messages instead of 25, so that full channels
  are reached; 1 or 2 workers instead of 8, so that the pool is exhausted; at most
  four messages on a port, so that one can arrive before, during and after a run,
  twice over. Clients are finite scripts: nothing else bounds the state.
* `racket`: channels of 2 instead of 30, so that the third initial message blocks; two
  outputs for one element, which is made twice (`MaxMade`), so that messages of the
  first life meet the second. Seven agents, but at most two or three in a script; "sink" is
  added again while its thread may run and with messages unread (`Again`), and while a
  sender to the earlier one is left (`OldSender`); `Halts` has an agent that waits for a
  second message, as `agents/halter.rkt` does.
* `calls`: two names, three agents, so that a name is given to another agent while it is
  connected; six calls are the fewest that add two agents and an element, connect it,
  replace it and connect again.
* `load`: three nodes, up to two edges and two messages, among them ports that are not
  there and schemas that differ; `MaxMail` messages at a time.
* `lines`: nine tokens are the shortest flow of three components, and longer than any
  statement with its error; a stack of four is one more than the parser ever needs, and
  `TypeOK` has the shape of the stack in each state.
* `graphs`: two equal names and two edges are all that an error is made of.
* `nested`: three levels (`Depth`, one more with the request), since an end is renamed by
  its own level, the next and the one above; a subgraph that occurs twice; every order of
  three nodes.
* `files`: files of two lines and channels of one message, so that a stream blocks its
  sender; a pool of five. With fewer than five threads the graph stops (`vm`, `open`,
  `lex`, `sem` and `sched` hold one each); the code has eight, so what holds with five
  holds there.

The runs with `CHECK_DEADLOCK FALSE` are those whose program really may stop: it ends, or
a thread waits for ever in `recv`, `send` or `join`. `live` checks for deadlock.

Fairness. `FairSpec` of the runtimes gives weak fairness to each agent's run, each client,
the workers and the scheduler's thread: they are threads of the operating system or of
Racket, which preempts them, and one that can go on eventually does. No fairness is put on an
outcome: which body runs, whether an error is returned. `Loader` has it for the agent and
the interior scheduler, not for the runs. `Fvm` has weak fairness of `Next`: some thread
goes on as long as one can, which is all that `GoodFilesLoad` needs, as the number of steps
is finite.

### Properties

`RustfbpProps`:

* `Conservation`: `ips` plus the `Inc` under way is the number of messages in the
  agent's channels, and of those thrown away with a receiver that was replaced, plus the
  `Dec` under way. `NoLostWakeup`: for an agent that does not
  run, every message in its channels has an `Inc` under way.
* `OneBox`, `RunningCounts`: where the box is, what `running` counts.
* `HaltsQuiescent`: when the scheduler's thread ends on `Halt`, no agent runs or
  waits, the channels that schedule are empty and the mailbox holds nothing else.
* `RunsForMessage`: an agent that no `Start` asked for is given to the pool only when a
  message waits on a port whose receiver it has (`Waits`), or messages of it were thrown
  away with a receiver, which the code goes on counting (`Spoiled`). `WiringIsStable`: an
  output is rewired only between runs.
* `Drained`, `JoinReturns`, `SchedulerSurvives`; `ImplementsDataflow`, liveness included.

`RktfbpProps`:

* `Conservation`, `NoLostWakeup`: as above, with recv announcing early, the messages
  `#f` that stay counted, and the notices that met another agent of the name: the count is
  off by exactly those (`strays`), and only an agent that has to do with one can sleep over
  a message (`strayed`). `RefCounts`: the count of an element is the number of outputs
  that are connected to it, and none is left with a removed one; scripts disconnect
  only what is connected and connect no agent to itself.
* `OptionKept`: an option that was given is never lost, whatever is sent between reading
  and putting back (which of two comes first is left to chance, see below).
* `StopReturns`: `msg-stop` returns, or there is for ever something that it has to wait for:
  a run that waits for a message or for room in a channel (`Waiting`: the repository keeps a
  scheduler alive so, `fvm.rkt` 39 "For halting"), the scheduler's own thread that waits for
  room (`Clogged`), or an agent that is run again and again for messages it cannot get: a
  `#f` that was missed (`Missed`), those in a removed element (`Stranded`), those of an
  earlier agent of its name (`Strayed`). What it excludes is a run that is over, by an
  exception too, and still waited for, and a wait that goes on when all of this is past. The
  scheduler's thread that died counts as returned, as `thread-wait` has it.
* `StepsAreDataflow`: every step is one of `Dataflow`, until a `#f` is missed or a notice
  meets another agent of its name (from then on an agent may be run for nothing, or run
  unmarked); in
  particular the loop ends only when no agent runs, none was asked to start and no
  message waits.

`Exterior`, `Loader`: `Wired`, `TablesAgree` (what is answered with `Ok` is what the agents
have, after edits that waited for a run and names that were given again), `SchemasAgree`,
`EditsSucceed`; `AllOrNothing`, `LoadedRuns`.

`Semantic`: `GraphIsMeaning`, `AcceptsLines`, `ReportsErrors`, `FailsAfterError`, against the
language given by patterns over the words of a file. `GraphCheck`: `Verdict`.
`Flatten`: `NodesAreTheAgents`, `FlowsMeet`, `MessagesStay`, `NoGraphWithErrors`, against
what a graph of graphs means: the places of a level are the nodes of the graphs of the level
above, and a port of a subgraph stands for one of a level deeper, as long as there is one.
`Fvm`: `FlattensTheFiles`, `JoinsQuiet`, `GoodFilesLoad`.

## Proofs

For every value of the constants that the named assumptions of the modules allow: any
set of agents, wiring, capacity, pool size, bodies and scripts; graphs, files and token
sequences of any length. The cardinalities of queues and channels are in `CountingProofs`,
with what a fold over a sequence computes: `Induction` states induction for a *set* of
numbers, which the provers can be given, where the library's theorem takes an operator.

| theorem | states | module |
|---|---|---|
| `TypeCorrect` | `Spec => []TypeOK` | `RustfbpProofs` |
| `RunningCorrect` | `Spec => []RunningIsCount` | `RustfbpProofs` |
| `Inductive` | `Spec => []IInv` | `RustfbpProofs` |
| `Conserved`, `NoWakeupLost` | `Spec => []Conservation`, `Spec => []NoLostWakeup` | `RustfbpProofs` |
| `RunningCounted`, `BoxesAreKept` | `Spec => []RunningCounts`, `Spec => []OneBox` | `RustfbpProofs` |
| `WiringKept` | `Spec => WiringIsStable` | `RustfbpProofs` |
| `SchedulerLives` | `NoDisconnect` implies `Spec => []SchedulerSurvives` | `RustfbpProofs` |
| `NoRunForNothing` | `Spec => RunsForMessage` | `RustfbpProofs` |
| `HaltsAreQuiet`, `OwnerHaltsQuietly` | `HaltsQuiescent`, if no client acts once the end was asked for; that is so of an only client | `RustfbpProofs` |
| `RefinesDataflow`, `OwnerRefinesDataflow` | the steps are those of `Dataflow`; the same for an only client | `RustfbpProofs` |
| `IpsAreConserved`, `WakeupsAreKept` | `Spec => []Conservation`, `Spec => []NoLostWakeup`, names added again included | `RktfbpProofs` |
| `CountsFollow` | `Spec /\ []WellUsed => []RefCounts` | `RktfbpProofs` |
| `OptionsAreKept` | `Spec => OptionKept` | `RktfbpProofs` |
| `RacketRefinesDataflow` | `Spec /\ []MadeWithin /\ []StartsKnown => StepsAreDataflow` | `RktfbpProofs` |
| `MessagesSucceed`, `SchemasMatch`, `OwnerAgrees`, `ConnectionsHold` | `ClientSpec` implies `[]EditsSucceed`, `[]SchemasAgree`, `[]TablesAgree`, `[]Wired` | `ExteriorProofs` |
| `EdgesBeforeRuns` | `LoaderSpec => []AllOrNothing` | `ExteriorProofs` |
| `StackKept`, `FailureHasError` | `Spec => []TypeOK`, `Spec => []FailsAfterError` | `SemanticProofs` |
| `GraphSent` | `Spec => []GraphIsMeaning` | `SemanticProofs` |
| `LinesAccepted`, `ErrorsReported` | `Spec => []AcceptsLines`, `Spec => []ReportsErrors` | `SemanticProofs` |
| `Invariance`, `TypeCorrect`, `VerdictHolds` | the inductive invariant, `[]TypeOK` and `[]Verdict` | `GraphCheckProofs` |
| `AgentsKept`, `FlowsKept` | `Spec => []NodesAreTheAgents`, `Spec => []FlowsMeet` | `FlattenProofs` |
| `MessagesKept`, `ErrorsStop` | `Spec => []MessagesStay`, `Spec => []NoGraphWithErrors` | `FlattenProofs` |
| `EndIsQuiet`, `FilesAreFlattened` | `Spec => []JoinsQuiet`, `Spec => FlattensTheFiles` | `FvmProofs` |

### The Rust runtime

`TypeOK` is not inductive: that `running`, a natural number, can be
decremented rests on it being the number of marked agents, and this on a `NewAgent`
being for an agent that the scheduler does not know (`KnownInv`), since a second one
would clear a mark that is counted. `TypeInv` joins the three.

`Conservation` is not inductive either. Put, get and notify keep the balance of
`ips`, notices and channels by themselves, but a notice that the scheduler takes
for an agent it does not know is dropped, so one must show that none is: the notice
was owed for an agent the owner knew (`AddressInv`), because whoever sends holds a
sender that came from `add_node` (`SenderInv`, through wiring, kept edits and edits under
way), and whoever reads is an agent in a run, so one whose box is away (`BoxInv`:
the box is in one job or one `RunEnd`). The `NewAgent` of a known agent is in front of
it in the mailbox. `NoLostWakeup` follows from the balance and `RestInv` (an agent whose
box is here has `ips` at most zero, or it would have been run).

The proofs go by kinds of steps: lemmas show that each step does one of a few things to
the boxes (`BoxSteps`), to the tables (`KnownSteps`, `PlainSteps`), to the mailbox (it
posts a message or takes one: `Posted`, `Took`), and the invariants are shown for the
kinds. `IInv` is checked by TLC in the run `safe`.

What rests on `IInv`:

* `OneBox`: `IInv` says that a box is in at most one place; `FoundInv`, that an agent the
  owner added is in the table, or its `NewAgent` is on its way, or its box was dropped.
* `WiringIsStable`: an edit that the mailbox or an agent keeps rewires a port of the agent
  it is for (`OwnEdits`), and a handler applies edits to a box that it has in hand.
* `SchedulerSurvives`: every message is for an agent whose `NewAgent` is in front of it.
  `NoDisconnect` is the one hypothesis: `disconnect*` posts an edit that is `unimplemented!()`.
* `RunsForMessage`: an element of an array port exists before its receiver reaches the
  agent, and a message in it would be counted although the agent cannot read it.
  `BehindInv`: the messages in elements still to come are announced by notices behind the
  edit. A receiver that was replaced is the one exception, and named in the property.
  `ElementInv`: an element that was created is with its agent or on its way.
* `HaltsQuiescent`: `Halt` is sent when every box is back. The last thing that a run posts is
  its `RunEnd` (`LastInv`), so nothing is behind it. A client that sends after another called
  `join` could break this, and does; the hypothesis (`AskedInv`) says that none does, and
  `OwnerHaltsQuietly` that it holds where the client that joins is alone (`JoinsAlone`), as
  the `Scheduler` is in the repository's programs.
* `RefinesDataflow` is the safety part of `ImplementsDataflow` under the same mapping:
  `Start` and `Inc` are `Activate` (an `Inc` that marks an agent finds a message, from the
  balance), `RunEnd` is `Rest`, and `Finish` needs the quiet end. It assumes what
  `HaltsAreQuiet` does, and that the thread does not panic. The abstract inbox has the messages
  that were thrown away with a receiver: for the code they are still to be read.

### The Racket runtime

The invariant (`IInv`) is: the types; an agent that runs has a thread or a `msg-run-end`
under way, and one only (`RunsOnce`: for one whose notices met no other agent of its
name); an agent is added once, and nothing was counted for it before (`AddedOnce`); an
agent that no notice strayed from or to has nothing in `strays` (`Strangers`); the balance
of `Conservation` for all agents, in the table or not (`Balanced`: what a stray notice
puts on one account it takes from the other); an agent that does not run has `number-ips`
at most zero (`Rested`). It holds while the scheduler's thread lives: the exception that
ends it takes a notice with it. A removed agent keeps its count and its place in the
balance. `AgentsAssumption` and `PortsAssumption` say what an agent and a port are,
`ValuesAssumption` that no value is the mark for none, `ProgramAssumption` that a
procedure uses the ports of its agent, that each `msg-add-agent` of a script makes an
agent of its own, and that a name in a script stands for the agent of that name that was
added last. Names may be added again as often as a script likes.

* `RefCounts` has the hypothesis `WellUsed`, of which the list below says why: to
  disconnect what is not connected, or to connect an agent to an element of its own,
  loses the count in the code.
* `OptionKept` must hold also after the scheduler's thread died, for the runs go on:
  `SafeRuns` (the types, and that who runs is marked) is kept by that exception as well.
  From it one follows the value: in the channel, then in hand, from the first read to the
  put back.
* `StepsAreDataflow`: the mapping takes the mailbox for the abstract requests to start:
  a `msg-start` asks for those that will be in the table when its turn comes (`ThereAt`).
  That an edit leaves what is asked for as it was, is `ThereTake` and `AskedTake`. A
  `msg-inc-ip` that runs an agent must find a message or a missed `#f`: from the balance,
  as no read of an agent at rest is under way (`OwesInv`, `DecsFirst`: the reads of a run are
  told before its end). The loop ends only when all is quiet because `number-running`
  counts the marked agents (`Counted`). `MadeWithin` bounds the abstract ports;
  `StartsKnown` excludes a start of an agent that is not there, which kills the thread. As
  long as no notice strayed, a notice is of the agent that takes it (`OwnNotice`), and the
  argument is that of a table of agents; the property ends where one strays.

### The others

* `ExteriorProofs`. An id is of one agent of one sort, and its `NewAgent` is in front of all
  else that is for it (`IdInv`); what the mailbox and the agents keep can be delivered and
  fits the schemas (`MailInv`, `BoxInv`). For `TablesAgree` and `Wired`, `Ends` says what a
  port or an element will hold after the edits that its agent keeps and those in the
  mailbox, the last one winning; `TablesInv` and `WantedInv` say that this is what the owner's
  table and the answers promise. `PlacesAssumption` says no more than that a place is a
  pair. `InductiveInvariant` is the theorem that the four follow from.
* `EdgesBeforeRuns`, of the loader, in the same module. No agent runs when the call for an
  edge is made, so that the answer alone does not help: the edge must be in place when one
  does. `LoaderInv` says that the messages come in the order `NewAgent`, `Connect`, `Start`
  or `Inc`, and are taken in it (`Ordered`); that what is connected, or will be, is an edge
  of the graph (`OfEdges`), for two edges of one output leave the last in place; that every
  edge that the loop is past is connected or will be, and all of them once anything is sent
  or started (`EdgesMade`); and that no edit waits for a run, for none began (`BoxType`).
  `GraphsAssumption`: the edges are a list, and what they name are strings.
* `SemanticProofs`. For each state of the parser, the kinds of the tokens at the top of the
  stack (`Stacked`), as long as no error was recorded: what the next pops need is there.
  After an error the shape may be gone, and with it the answer; `FailsAfterError` says that
  this is the only way. The other theorems are about a whole file, so that two invariants
  say what the tokens seen so far have to do with the state. `Read`: which words end the
  file and which of them are on the stack, state by state, and that the graph is the meaning
  of what was read: a pattern is found in the words with one more exactly where it ends in
  the new word (`MeansGrows`), for every one of the four patterns. `Lined`: the last line
  leads to the state (`At`), which is so for exactly the beginnings of lines (`BegunLeads`,
  `LedBegins`), the lines before it are lines, and after an error no line begins so. The
  words of a file are a fold over its tokens (`WordsFold`).
* `GraphCheckProofs`. The invariant says of the part of the graph that the loops have looked
  at: the table of sorts has the names so far and a sort where one was given, the counts are
  above one exactly where two edges leave a port or two inputs have a name, and `errors` is
  set exactly if that part is ill-formed. `Verdict` is the case in which all was looked at.
* `FlattenProofs`, for libraries of any number of graphs, of any size and depth. The invariant
  (`VmInv`) says that there is a set of graphs that were met, and what has become of them
  (`Met`): each of their nodes was met or is in a call still to come, and none twice (`Calls`,
  `Walked`); the edges that are built are theirs, each led in as far as the graphs met go
  (`Joined`); their messages for agents are there as they were (`Messages`), and their errors
  were counted. When the last call returns no node is to come, so that the graphs met are all
  there are (`ClosedIsAll`). The heart is `JoinedGrows`: to merge a graph leads in exactly the
  edges that end at it, from above or from beside, whatever was merged before. It rests on
  names: that of a place says which it is (`NamedOnce`), and a port of a subgraph stands for
  one port inside (`InputsAre`), the same whenever the way is gone (`InsideKept`).
  `GraphsAssumption`: in a graph, names, inputs and outputs are given once. The parser and the
  check see to the first two; nobody sees to the outputs, and of two with one name the flow
  from the second is lost. `DepthAssumption`: no graph is in itself, for such a one is
  flattened for ever.
* `FvmProofs`. `Awake`: who holds what when. `Answers`: at most one request is under way, and
  where it is: asked, read, lexed, parsed, checked or answered, with each line of the stream in
  one of the channels, in order (`Slice`). So the vm's question and the answer that it gets
  are for the same path, which makes each step one of `Flatten`. `FilesAssumption` lists the
  fates of a file, `LinesAssumption` says that a file has a line.

Model-checked only:

* liveness, and fairness in refinements, which need `ENABLED`: `JoinReturns`, `Drained`,
  `StopReturns`, `GoodFilesLoad`, `LoadedRuns`, the fairness of `ImplementsDataflow`.

## What the code does otherwise than it says

With a run:

* `two`: `recv` blocks its worker. With as many nodes that wait for a second input as workers
  the graph stops, and `join`, "Wait for the end of the scheduler", does not return.
* `imsg`: the message for a subgraph is compared with the name of the inner port
  (`vm/lib.rs` 66) instead of the exposed one, and stays with the subgraph, which is gone.
* `missing`: after an error the vm sends no graph; the scheduler's agent waits in
  `graph.recv`, and `main.rs` 94, "Wait for the end of the execution", for ever.

Met on the way, modelled as it is:

* An agent that returns `Err`, or panics, stays counted in `running`
  (`scheduler.rs` 840, 866): `join` does not return afterwards. `disconnect*` and
  `set_receiver` are answered with `unimplemented!()` and end the scheduler's thread.
* `add_input_array_element` and `set_array_receiver` replace the receiver of an element that
  exists (`agent.rs` 173): messages in the old channel are gone and stay in `ips`, so that the
  agent is run for nothing whenever it ends, and `join` does not return (script `Replace` of
  `MCRustfbp`).
* A wrong port name panics the caller of the exterior scheduler (`scheduler.rs` 1043); nothing
  makes the error that `result.rs` has for it.
* The parser reaches an `unreachable!()` or an empty stack after an error: the file then
  gets no answer (`FailsAfterError`).
* The vm loses the element of an edge that enters a subgraph (`vm/lib.rs` 58: `FlowsMeet`
  compares without elements) and keeps the external ports of the graphs it meets before
  the first agent (74). A graph that contains itself is flattened for ever. A name with a "-"
  may be taken for two names.
* The check counts no outputs that two agents share (`ext_out` is not read).
* The loader adds no array elements: an edge to one fails, the run ends with the error,
  and the exterior scheduler in its accumulator is dropped.
* Racket: `try-recv` of `#f` leaves the agent counted and run again and again; the
  scheduler's own thread blocks at the thirty-first initial message for a port; a message in a
  removed element keeps its agent running; an agent that is connected to an element of
  its own loses the element (`scheduler.rkt` 69-70, the second `hash-set` undoes the
  first); an option that is sent while the old one is put back is read before it, and the old
  one stays (`port.rkt` 51); removing an agent that has a notice under way ends the
  scheduler's thread; if its name was added again by then, the later agent takes the notice,
  and its count is wrong or its mark taken while it runs (`scheduler.rkt` 25-32, 153-172).

## Plan

Done: the two runtimes, the exterior scheduler, the loader, the parser, the check, the
flattening and the protocol of the Rust fvm, with the theorems above. Left, in this order:

1. The Racket flattening (`load-graph.rkt`, `resolve-virtual` of `agents/fvm/fvm.rkt`) and
   its dynamic removal, against the meaning in `FlattenProps`.
2. The value of an option and which one is last, for both runtimes.

## Not modelled

* User-interface, hyperflow and wallet agents (drawing and I/O), the edge generator and
  the Nix files (files written from templates), the Idris stubs: nothing of the
  scheduler's logic is in them.
* Which characters make a token (`parser/lexical`, combinators of a library): any token may
  follow any other.
* `recv_option`'s remembered value, the cache of loaded libraries, the loading of libraries
  (`dlopen`, `dynamic-require`). `SchedState::remove` is dead code: nothing sends
  `CompMsg::Remove`; `msg-update-agent` and `msg-display` of the Racket scheduler likewise.
* The branch of `add_graph` for a path that was not found (`vm/lib.rs` 120-125, which also
  clears `errors`): `find/node/lib.rs` 23-27 never answers with none. The panics of
  `find_node_path` (47, 50: `nix-build` cannot be started, or prints no UTF-8), after which the
  vm waits for ever, are not among the fates of a file.
* Graphs that contain themselves (`DepthAssumption`): the code has no guard against them.
* Sends of the Racket runtime from outside a run (callbacks of widgets), and the second
  thread of one agent that a stray `msg-run-end` may lead to.
* The plumbing agents of Racket are bodies of runs, of which `Rktfbp` takes any; the Racket
  fvm is a client, of whose messages the scripts of `MCRktfbp` are examples.
