# A formal model of statem

statem is an async state-machine engine driven by data: a graph of states
(`StateConfig`), registries of named guards and actions, and one entry point
that dispatches signals (`run`), or does the same while yielding AG-UI protocol
events (`stream`). It exists twice, in Python (`statem-py`) and in Rust
(`statem-rs`). This directory holds TLA+ modules that
model both engines callback by callback, the generators that stream their events,
how a Python machine is built, reported on and drawn, and the three Python example
programs; TLC configurations that check them on small graphs; and proofs, checked
by TLAPS, of what holds for every graph.

The source is the reference. Where a docstring or a page of the documentation
says something else, a run shows the difference (see *Disagreements*).

## Inventory

| Part | State it keeps | Operations | What makes it correct |
|---|---|---|---|
| Engine (`machine.py`) | none of its own; per call a `Context`, the locals of `_push_signal`, `_try_transitions`, `_check_always`, `_enter` | `run`, `stream`; internally dispatch, candidates, hop, always cascade, error state | candidates in order; settled between signals; failures routed to the right state or raised; every call ends |
| Context, Signal, ResultEntry (`schema.py`) | current state, history, results, the stream's queue and last snapshot | appended to by the engine | history, results and events tell the same story |
| Registries (`schema.py`) | name → (function, is_async) | `register`, `evaluate`, `execute`, `execute_many` | a result is recorded exactly for the callbacks that ended well |
| Construction (`machine.py:55-145`, config models of `schema.py`) | the frozen graph, the transition table, the names in both registries | `from_dict`: parse, normalise, check targets, register, check names; `register`, `validate_registries` later | what was accepted is the graph the user wrote and never leaves itself; a passed check stays true |
| Stream (`stream`, `_open_step`, `_close_step`, `_emit_activities`, `agui.py`) | an unbounded queue, a task, the base of the next delta | put, get, close | steps bracketed; a client applying the deltas stays in sync; nothing lost |
| Tracing (`tracing.py`) | none | `show_transitions` | the report can be read back as what happened |
| Diagram (`diagram.py`) | none | `to_mermaid` | node ids are unique: the drawing is the graph |
| Examples (`bank.py`, `pizza.py`, `bread.py`) | a session and the name of the current state, kept between calls | one `run` per signal | what was done to the session is what the state says |
| Rust engine, registries, stream | as above, per call | as above | the same contract |
| Rust tracing, diagram, examples | as above | as above | ports of the Python ones |

How they interact: the engine awaits callbacks from the registries; callbacks
change the caller's session and may raise anything. In a stream the engine runs
as a task that only appends to a queue; a generator drains it. Tracing reads the
`Context` a caller kept, the diagram the graph of a machine. An example assigns its
state name from what `run` returns, and hands the same session to the next call.

What is hard to test here: which of the many places a failure can come from are
recovered from, and into whose error state; cascades, error states and signals
that alternate over several hops; a step's events when a hop fails half-way; the
cap at its boundary; a state accessor that fails while another failure is
propagating; streams that are abandoned; concurrent runs on one session; graphs
written in another spelling, names registered late, names that sanitise alike;
reports of a path that returns to a state; calls that are cancelled half-way and
repeated on the session they left.
`PROJECT.json` lists each hazard at its line with the properties that cover it.

## Modules

| Module | What it is |
|---|---|
| `Schema` | the shape of a validated graph, `_validate_machine`, the look-up of candidates |
| `Statechart` | the contract of both engines: which states a call may go through |
| `PyMachine` | the Python engine, one callback (or the bookkeeping between two) per step; refines `Statechart` |
| `PyStream` | `PyMachine` as a task, beside `stream`'s generator and its consumer |
| `RsMachine` | the Rust engine, likewise; refines `Statechart` |
| `RsStream` | `RsMachine` polled by `stream`'s generator, which its consumer polls or drops |
| `Build` | from the dict a user wrote to a machine, and what its owner may do to it later |
| `Tracing`, `Diagram` | `show_transitions` and `to_mermaid`, as operators, and how they are read |
| `Conversation` | `PyMachine` called again and again on one session |
| `Bank`, `Pizza`, `Bread`, `Examples` | the graphs and callbacks of the examples, over `Conversation` |
| `CallRecords` | how properties read results, paths and event sequences |
| `PyMachineProperties`, `RsMachineProperties` | the properties of a call |
| `GraphNotation`, `MCGraphs` | short forms for graphs; graphs and signals for TLC, shared by both engines |
| `MCStatechart`, `MCPyMachine`, `MCPyStream`, `MCRsMachine`, `MCRsStream`, `MCBuild`, `MCExamples` | callbacks, accessors and inputs for TLC |
| `SchemaTheorems`, `StatechartProofs`, `BuildProofs`, `PyMachineProofs`, `ConversationProofs`, `PyStreamProofs`, `RsMachineProofs`, `RsStreamProofs` | the proofs |

### PyMachine and the code

A call is one coroutine. `pc` says where it is suspended:

| `pc` | in the code |
|---|---|
| `always` | head of the loop of `_check_always` |
| `dispatch` | head of the loop over the signals in `run`/`_drive` |
| `guard` | loop over the candidates, in `_try_transitions` or `_check_always` |
| `actions` | `execute_many` on a candidate's actions |
| `exit`, `entry` | `execute_many` on exit and entry actions in `_enter` |
| `close` | `_close_step`, in the `finally` of `_try_transitions` or at the end of a hop |
| `catch` | an exception is about to reach the `except TransitionError` of `_push_signal`, or the caller |
| `returned`, `raised` | the call has ended |

`hook` says what kind of round is in progress: an `on` transition, an `always`
transition, or the hop into an error state. `cands`, `ci`, `batch`, `n_before`,
`dispatched`, `fired`, `depth` are the locals `transitions`, the loop index, what
`execute_many` has left to run, `n_before`, `current` of `_push_signal`, `fired`,
and the loop counter of `_check_always`. `config` is the frozen graph;
`current_state`, `session`, `history`, `results`, `event_q`, `state_snapshot`
are the fields of `Context`. `log` is a history variable for the properties: the
hops made and the exceptions raised.

Each handler is modelled with everything it does: `RunAction` runs the callback
*and* records its result; `ChangeState` reports the exit activities, changes
history and state and looks up the entry actions (which raises `KeyError` in a
state unknown to the graph); `CloseStep` queues delta and `STEP_FINISHED` *and*
decides what follows.

User code is a constant. A guard or action is a function from the session and the
signal's data to a set of outcomes: an exception or a value, and the session it
leaves. So a callback may depend on what it is given, be nondeterministic,
change the session before it fails, return something that is not a bool, raise
`TransitionError` itself (a nested machine), or be cancelled (`CancelledError`,
which `except Exception` does not catch). A name that is not in the registry
raises `KeyError`. A state accessor is a function from sessions to a view or a
failure; without one the view is the current state. In the model a plain run is
a stream without a queue, as in the code.

Abstractions: names are strings, a session, a payload, a view is a value from a
small set; a JSON patch is the pair of views it leads from and to, and is empty
when they are equal; run and thread ids, message ids and log lines are left out.
A failing accessor raises an ordinary exception; one that raises
`TransitionError` itself is not modelled. `fired` is set when the state changes
rather than after the entry actions; the code reads it only after both, and the
contract's mapping uses the difference.

### Statechart, the contract

`Statechart` forgets callbacks, results, sessions and events. What is left is
the graph, the path (`history`), the signals taken and whose turn it is
(`mode`): always transitions first, at most `MaxDepth` in a row; then one signal,
its candidates in order, an earlier one skipped only if it has a guard that can
refuse; a failure of the signal's handling may lead to the error state of the
state the signal was *taken* in; nothing returns unsettled; what is settled does
not fail. Both engines refine it with `mode`, `hops` and `origin` computed from
`pc`, `hook`, `fired`, `depth` and `dispatched`.

The engines differ in two places, and the contract leaves both open: in a start
state unknown to the graph Python raises `KeyError` (`machine.py:401`) and Rust
settles (`machine.rs:302-305`); an exact row that is present but empty falls
through to the wildcard's in Python (`or`, `machine.py:338`) and hides it in Rust
(`or_else`, `machine.rs:265`).

### RsMachine and the code

The variables and most action names are those of `PyMachine`; what differs is the
code. A guard is a pure answer (`&Context`), an action succeeds or fails and
leaves a session (`&mut`), a name that is not registered is an error of its own.
`?` is `Fails`: out of `try_transitions` by way of `close_step`, out of an error
or always hop at once. Only `ActionFailed` is answered by an error state.
`EmptyRow` is the step that a row without candidates opens and closes. A panic
and actions that write to `ctx.current_state` or `ctx.history`, which are public
in both engines, are not modelled.

### The streams

In Python (`PyStream`) the engine is a task: it goes on whenever a callback ends,
also while the consumer is busy, has closed the generator, or was cancelled.
`stage` says where the generator is: before its first `__anext__`, in
`queue.get()`, at the `yield`, in the `finally`'s `await task`, or done. The end
marker is in the queue exactly when the engine has ended. `CancelEngine` is a
second cancellation, which `await task` passes on to the callback in progress.

In Rust (`RsStream`) nothing moves unless the consumer polls. `select!` may poll
the engine or look at the channel first; what is in the channel is handed out
only when the engine awaits a callback, or after it has ended. Then the context
goes to the oneshot, then the error to the consumer. `Drop` may happen whenever
the consumer has control.

A cancelled consumer leaves its loop by one of `Departures`, as does a closed one.

In both models any callback may suspend; a synchronous one never does, so the
real interleavings are among the modelled ones.

### Build, Tracing, Diagram

`Build` keeps what was written (`source`), the machine that came of it (`config`)
and the names in its registries. A source has the fields of `StateConfig` that
were written and, for each event, one of the spellings `_normalize_on` knows or
something else; `Parsed` normalises and fills in the defaults. `FromDict` is the
whole constructor: it parses, checks the targets, registers, and checks the names
if either dict is not empty, in this order, and leaves no machine behind when it
raises. `RegisterAction`, `RegisterGuard` and `ValidateRegistries` are what an
owner can do later. Values of a wrong type (a number for a target) are pydantic's
business and left out. `available_events` and `accepts_wildcard` only read a
config and are left out.

`Tracing!Report` is `show_transitions`: a section per entry of the history, with
the results of its state, a row's hook printed only where it changes. `ReadReport`
is a reader of it. `Diagram!AssignIds` is `_assign_ids`, over the names in the
order of declaration; `Edges` are the arrows. `DrawnSuccessors` is what its reader
takes them for. What replaces unsafe characters is a constant, `Sanitised`.

### Conversation and the examples

`Conversation` has one more variable, the caller's `state_name`. `NextCall` begins
a call with a fresh `Context` on the session the last one left; the state name is
assigned only when the call returned, so a call that raised or was cancelled
leaves the old name beside a session its callbacks may have changed.

The examples' callbacks are translated one by one, as functions of the session and
the signal's payload. The coroutines among them begin with `asyncio.sleep(0)`, where
a call may be cancelled: the callback itself has then done nothing, those before it
have. An exception (a payload without the key a callback subscripts) leaves what was
assigned before it.
`apply_teller_data` assigns whatever fields the payload has. What only feeds
messages (logs, names, ids) is left out; amounts are within the limit or above it;
a quality score is 0, 5 or 9; counters stop at 2, "more than once". The demos send
their signals in one order; here any signal of the graph may come at any time, and
any number of them.

## Properties

Of a call, whatever its callbacks do (`PyMachineProperties`, `PyMachine`):

- `RefinesStatechart` – the states of a call are those the contract allows.
- `BoundedHops` – after n signals at most `MaxDepth + n * (MaxDepth + 2)` hops.
- `FirstPassingCandidate` – the candidate carried out is the first one not
  refused; every earlier guard was asked, in order, and said no, in the state the
  round began in.
- `SettledBetweenSignals` – between signals and on return every always guard of
  the current state was asked since it was entered and refused.
- `LifecycleFollowsHistory` – the exit and entry actions that ran are exactly
  those of the path, in order, each recorded in its own state, as long as nothing
  failed: paths of `on` and `always` hops, since an error hop follows a failure.
- `NoFailureSwallowed`, `ErrorStateHonoured` – a call that returns has answered
  every failure by the hop to the right error state; a recoverable failure is never
  passed over.
- `ValidatedNeverUnregistered` – where every name was registered, no callback is
  ever looked up in vain.
- `TraceTellsTheCall` – the report of a path that does not return to a state can be
  read back, row by row, as the results of the call.
- `ErrorsRouted` – the Rust form of the two on failures: every error is answered at
  once by the right error state, or is what the caller gets.
- `ControlOK` – what each point of the coroutine relies on (see *Proofs*).
- `StepsBracketed` – the events are steps, one after the other, each closed under its
  name; all activities, also of refused guards, lie inside their step, as in the
  code (the documentation differs, see *Disagreements*).
- `ClientInSync` – every delta is made against what a client holds, and between rounds
  the client holds what the accessor reports.
- `ActivitiesReportResults` – the activities are the results, as long as nothing failed.
- `Termination` – a call whose callbacks end comes to an end.

Of a machine and of programs on top of one:

- `GraphAsWritten` – the machine offers the candidates that were written, in that
  order, in whichever spelling, and all lead to states it has.
- `CheckedMeansComplete` – a check of the names that passed stays true, whatever is
  registered afterwards.
- `DiagramTellsTheGraph` – from every state the diagram shows edges to the states
  the engine can go to and to no other, whatever the names and their order.
- `PostedWasAllowed` (bank) – what was posted had all its fields, was within the
  limit and did not go to a frozen account.
- `StateTellsTheOrder` (pizza) – an order that is baking or further has been paid
  for, one that is ready passed the check, one that left has a driver, a cancelled
  one is with nobody.
- `NothingTwice` – at most one receipt, one charge, one cake, though calls are
  cancelled and repeated.

Of a stream and its consumer (`PyStream`, `RsStream`):

- `ReaderSeesTheCall` – who reads a Python stream to its end has got every event of
  the call, those before a failure included; if the call returned, the patches
  received add up to the session's state, and if nothing failed, the activities
  received are the results.
- `FailureReachesConsumer`, `SilenceMeansWhole` – what the engine raised is not lost,
  also when the consumer has turned away and the call fails only afterwards; a stream
  that ends quietly was whole.
- `EngineOutlivesConsumer`, `ConsumerAnswered` – once started, a Python call runs
  to its end whoever listens; one who asks is answered.
- `EverythingDelivered`, `ContextAfterEvents`, `StreamEnds` – Rust's stream yields
  all events, then the error; the context comes after the last event and is
  cancelled only by a drop; a consumer that keeps polling reaches the end.

## Runs

| Run | Configuration | Shows |
|---|---|---|
| `contract` | `MCStatechart.cfg` | the contract keeps its budget of hops in every mode |
| `core` | `MCPyMachine.cfg` | the properties of a call, the refinement and termination, for Python's `run` |
| `stream` | `MCPyMachineStream.cfg` | the event properties, for Python's `stream` |
| `build` | `MCBuild.cfg` | what `from_dict` accepts, what registration adds, and the diagram of it |
| `examples` | `MCExamples.cfg` | the three examples, under any order of signals and with cancelled calls |
| `py_stream` | `MCPyStream.cfg` | Python's generator and its consumer |
| `rs_core` | `MCRsMachine.cfg` | the properties of a call for the Rust engine, run and streamed |
| `rs_stream` | `MCRsStream.cfg` | Rust's generator and its consumer |
| `activity`, `open_step`, `masked`, `trace` | `MCPyMachine<Name>.cfg` | disagreements with the documentation |

`core`, `stream` and `rs_core` use the named graphs of `MCGraphs` and 240 generated
ones, the other runs of an engine the named ones. The named ones put the hard cases
together: `Desk` (guarded alternatives, a failing action, an error state with a way
back), `Cascade` (always cycles, a wildcard, an empty row), `Nested` (entry and exit
actions that raise `TransitionError`, different error states along the way),
`Chain` (a chain as long as the smaller cap), for Python `Falsy` (names that escape
validation) and `Late` (an exit action never registered), for Rust `Unchecked`
(names never registered). The generated ones combine, over two states, five
candidate lists, four always lists, lifecycle actions or none, every error state,
and two shapes of the second state.

Bounds and why they are enough:

- `MaxDepth` is 3 in `core` and 2 elsewhere, for the code's 100. It is only compared
  with the number of hops of one cascade, and the graphs have cycles and chains
  shorter than, equal to and longer than it. The proofs are for every cap. In
  `examples` it is 10: no cascade of the three examples is as long, so it never
  bites there, as 100 does not in the code.
- At most three signals: enough for a signal after an ignored one, after a
  refused one, and after a recovered failure, whose error state then takes one. In
  `examples` the number of calls is not bounded.
- Two sessions and two payloads: a callback can tell apart, and change, what a
  later callback sees; payloads distinguish an always hop's empty one. The examples
  have the sessions their callbacks can make, counters stopped at 2.
- One failing action, one that raises `TransitionError`, and one that cannot
  fail, combined with guards that may refuse; each can sit in any hook.
- `MCBuild` has thirteen spellings of an event's value and seven of `always`,
  malformed ones and unknown targets among them, combined with entry and exit
  actions, every error state, and every set of names given at once or later; five
  states whose names sanitise alike, in all 120 orders, for the diagram.

No counter of an engine is cut off by a bound: every call is finite.

No `CHECK_DEADLOCK FALSE` is used: `Done` is the stuttering of a call that has
ended, so a coroutine that is stuck anywhere else is reported as a deadlock.

### Fairness

`FairSpec` is `WF_vars(Next)`. A call is one coroutine on one event loop (one
future that is polled); it can only fail to move if a callback never ends, and in
the model callbacks end. `Termination` depends on it.

`PyStream!FairStreamSpec` is fair to the engine's task and to the generator when
it can go on, not to the consumer: it need not ask again, nor close.
`RsStream!FairStreamSpec` is fair to the generator and to `Poll`: without a
consumer that polls, nothing is promised, as nothing runs.

## Proofs

For every set of graphs that passes `_validate_machine`, every registry,
accessor and list of signals, and every cap. The assumptions are named in the
modules, and TLC evaluates them in the runs: `DepthAssumption`, `ConfigAssumption`,
`CallAssumption`, `PayloadAssumption`, `StatechartAssumption` for the engines,
`SourceAssumption` for `Build`, `SuffixAssumption` for `Diagram`, `DepartureAssumption`
and `QueueAssumption` (the value for "no queue" is not a queue) for `PyStream`, `TalkAssumption` for `Conversation`. Those of the examples
(`BankAssumption`, `PizzaAssumption`, `BreadAssumption`, `ExamplesAssumption`) say that
the registries hold the example's functions under their names, that a talk begins
where the demo begins, which fields of the session a payload may assign (as in the
demos: never a receipt, of a pizza's only the way to pay), that there is no fourth
graph, and that the cap exceeds 3, the longest cascade of an example. The run
`examples` evaluates them.
`BuildProofs!BuiltIsRunnable` discharges `ConfigAssumption`: every machine
`from_dict` accepts satisfies it.

Construction (`BuildProofs`). `Built` says that a machine is what its source parses
to; from it follow `BuiltIsRunnable` and `SpellingsAgree` (`GraphAsWritten`), by way
of lemmas about one candidate, one spelling, one state. `CheckLasts`
(`CheckedMeansComplete`) is inductive as it stands: a larger registry misses less.
`DiagramsTell` (`DiagramTellsTheGraph`): there are more suffixes to try than ids in
use, so each turn of `_assign_ids` finds an id no state has (`FreshIdIsFree`,
`IdsDistinct`); with distinct ids, an edge can be read in one way only.
`SuffixAssumption`: two suffixes are not written alike.

The Python engine.

- `PyMachineProofs!TypeAndControl`: `Spec => [](TypeOK /\ ControlOK)`. `TypeOK`
  alone is not inductive: that `config[current_state].exit` can be looked up in
  the middle of a hop, that `ci` is a candidate when a hop is made, or that an
  error hop has a state to go to, depends on what happened several steps before.
  `ControlOK` says so for each point of the coroutine: which list the candidates
  are, that the signal was taken in a state of the graph, that every candidate
  before `ci` has a guard, that a pending `TransitionError` leaves the machine in
  a known state, that an error hop runs only for a declared error state. One
  lemma per action shows that it preserves both.
- `Refinement`: `Spec => RefinesStatechart`. `ChangeState` is the contract's
  `AlwaysHop`, `React` or `Recover` according to `hook`; `CloseStep` is `Enter`,
  `Refuse`, `Settle` or invisible; `NothingAlways` is `Settle`,
  `RouteToErrorState` is `Trip`; the callbacks themselves are invisible. Each
  case uses `ControlOK` for the guard of the contract's action.
- `StatechartProofs!BudgetKept`, `BoundedCalls`: the bound on hops. `Bounded` is
  not inductive; `WithinBudget` also counts what the mode the call is in has left
  to spend (the rest of the cascade, a hop to an error state).
  `PyMachineProofs!HopsBounded`: the engine inherits the bound through `Refinement`.
- `PyMachineProofs!FailuresAccounted`: `FailureOK` is inductive over the
  former. While an exception propagates it is the last thing in the log, in the hop
  in progress, perhaps wrapped (`Pending`); while none does, the last thing in the
  log is no failure, or the machine is on its way to the error state (`Quiet`);
  every earlier failure was answered (`AllAnswered`), except where an accessor that
  failed has overtaken the exception in flight (`Overtaken`). From it
  `FailuresSurface` (`NoFailureSwallowed`) and, where accessors do not raise
  (`AccessorsRead`), `RecoveryReached` (`ErrorStateHonoured`). The run `masked`
  shows that the premise is needed.
- `ValidationSuffices`: `ValidatedNeverUnregistered`, from `BatchOfGraph`: what
  `execute_many` has left to run are names of the graph.
- `RoundsTried`: `RoundOK` is inductive over the first invariant. The results of a
  round alone do not tell which guards were asked in it; `RoundOK` says that the
  refusals of the candidates before `ci` stand together in the results and that only
  this round's actions came after them, and, while a state stays settled, that the
  refusals of all its always transitions do. From it `FirstCandidateTaken`
  (`FirstPassingCandidate`) and `CallsSettle` (`SettledBetweenSignals`).
- `LifecycleFollowed` (`LifecycleFollowsHistory`), from `LifecycleOK`: as long as
  nothing failed, the exit and entry actions recorded are those of the hops made,
  less those the batch in progress still has to run. `FailureOK` is needed to know
  that nothing failed *and was recovered from* unseen.
- `TraceTells` (`TraceTellsTheCall`), from `TraceOK`: the results are grouped by the
  states of the path, in its order, so a section that collects a state's results
  and a reader that runs through the sections undo each other, and each hook can be
  read off the label last printed.
- `PathStaysOnGraph`: a hop leads to a target or an error state that
  `_validate_machine` has checked, so a call that starts on its graph stays there,
  and no hop fails for want of its target. Where an error state is named `""` this
  is false (see *Disagreements*), hence `ErrorStatesNamed`.
- `PyMachineProofs!CallsDescend`: the safety half of `Termination`. `Rank` counts the
  signals left, what the signal under way may still lead to (its own hop, the error
  hop, the cascade), the hops left in the cascade, the place in the round, and the
  candidates or actions left there. Compared from the left it falls with every
  step, and it cannot fall for ever (`SchemaTheorems!RanksWellFounded`). What is
  left to fairness is only that the steps are taken.
- `PyStreamProofs!EventsFit` (`BracketsFit`, `ClientsKeepUp`), from `BracketsOK` and
  `SyncOK`: at each point of the coroutine whether a step is open and under which
  name, and whether the snapshot the context keeps is what the client holds.
  `ActivitiesAccounted` (`ActivitiesReportResults`), from `ActivityOK`: which results
  are reported already, and which will be when the batch ends.

A conversation (`ConversationProofs`): one call after another, of any number, on one session
(`CallsInARow`). Nothing that is proved of a call rests on the session it starts
with, nor on how it got its start state: the lemmas ask for `Fresh`, a call about to
begin, which both `Init` and `NextCall` establish. So the promises hold of every
call (`ConversationKeepsPromises`), those after a failure or a cancellation
included; and a caller whose talk started on its graph never holds the name of a
state its machine does not have (`NamesStayOnGraph`).

What a conversation does to its session depends on the graph and its callbacks.
`OutlineFollowed` is the rule for that. An outline of a graph gives, for each state q,
the sessions `at[q]` when a call rests there or looks for a way on, `into[q]` on the way
to q before its entry actions, `lost[q]` after a signal dispatched in q has failed, and
a bound `level[q]` on the always hops that led to q. `Outlined` asks of one hop at a
time that its actions lead from `at` to `into` and the entry actions from `into` to
`at`, that what a callback leaves when it raises is in `lost`, that `lost[q]` is within
`at[q]` (the caller still holds q, and may send anything) and within what the error
state expects, and that a cascade always finds a way on, cannot fail and climbs in
`level` below the cap. The steps of the engine do not occur in it. The theorem says
that a conversation then stays in its outline, at each point of each call
(`Follows`), after any number of calls that returned, raised or were cancelled. It
assumes `AccessorsRead`: an accessor may raise where no callback would, in the middle
of a cascade.

Three outlines follow, and with them the examples' properties:

- `TransfersPostedWereAllowed` (`PostedWasAllowed`). What makes it hold is in
  `BankAt`: in `posting`, and nowhere else on the way to a receipt, all fields are
  there, since every correction passes through `resolve_fields` again; a receipt
  exists only in `posting_pass`, which nothing leaves.
- `StateNameTellsTheOrder` (`StateTellsTheOrder`). `PizzaAt` says of each state what was
  paid, made and checked by then. What the entry actions of a state do is behind it
  and not before it, so a cancelled `charge_card` or `find_driver` finds the order as
  it was.
- `NothingDoneTwice` (`NothingTwice`): the same outlines count receipts, charges and
  cakes. That a call may be repeated after it was cancelled is `lost[q]` within `at[q]`:
  a callback that had charged before it was cancelled would break it there.

The Python stream (`PyStreamProofs`): `StreamsSound`. `EngineOK` survives
`CancelEngine`, a cancellation thrown into any callback; `StreamOK` says why the
generator is in its `finally` and what it re-raises. From it `SilentMeansWhole` and
`FailuresReachConsumer`. A cancelled callback is a callback that
failed, which every invariant above survives: `StreamsKeepPromises`,
`StreamedEventsFit`, `StreamRefinement`, `StreamedHopsBounded` and `StreamsDescend`
say of a streamed call, closed early or cancelled, what the theorems above say of a
plain one. `ReadersSeeTheCall` (`ReaderSeesTheCall`) puts both sides together:
`ReadingOK` – no step takes an event off the queue but the generator's, which never
gets ahead of it – and `StreamOK` make what a reader has received the whole queue,
and the two theorems before say what the queue is worth when the call is over.

The Rust engine (`RsMachineProofs`): `TypeAndControl` and `Refinement` as in Python,
with a `ControlOK` of its own: an error is pending only in the hop of a signal or
on its way out. `ErrorsReachTheirPlace` (`ErrorsRouted`) from `ErrorOK`, the Rust
counterpart of `FailureOK`, simpler because no accessor fails and every error has
one place to go. `FirstCandidateTaken`, `CallsSettle`, `LifecycleFollowed`,
`HopsBounded`, `CallsDescend` and `PathStaysOnGraph` as in Python; the last without
a condition on names, since an error state `""` does not pass `validate_machine`. `RsStreamProofs!EventsFit` and `ActivitiesAccounted` are
about the events of any call.

The Rust stream (`RsStreamProofs`): `StreamsSound`, whose `StreamOK` says in each
stage what is still in the channel, who has the context, and who the error. From it
`NothingLost` (`EverythingDelivered`) and `ContextComesLast` (`ContextAfterEvents`).
`StreamIsCall`: `StreamSpec => Spec`; the consumer may stop the engine but not change
what it does, so a stream keeps every promise of a call (`StreamsKeepPromises`,
`StreamedEventsFit`, `StreamRefinement`, `StreamsDescend`).

What results, paths and events have in common is in `SchemaTheorems`: what
`FlattenSeq`, `EndsWith`, `Latest` and the reading of a report do when a sequence
grows at its end. These lemmas need induction, which is carried out on the least
number at which a claim would fail (`LeastNumber`, `Induct`, `SeqInduct`) over a set
of numbers rather than a predicate. A property about a sequence is stated as what
its last entry adds; that is why `CallRecords` has no filters.

Each strengthening was checked by TLC as an invariant of the run whose property it
is for, before it was proved.

Concurrent runs on one session. In one event loop another call moves only while
this one awaits, that is, inside a callback. To this call it is a callback that
leaves a session nobody expected; the registries of the theorems may do so, and
`TypeAndControl`, `Refinement` and the theorems on failures therefore hold of each
of several calls on a session. What they do to each other's session is the business
of the callbacks.

What is only model-checked:

- liveness (`Termination`, `EngineOutlivesConsumer`, `ConsumerAnswered`,
  `StreamEnds`), out of the prover's reach; of `Termination` the descent is proved,
  and that a call which has not ended has a step to take is what TLC's search for
  deadlocks shows.

Every other property of a passing run is the statement of a theorem.

## Disagreements

| Run | The documentation | The code |
|---|---|---|
| `activity` | an activity for every result *as it fires* (`machine.py:213`) | only after the whole batch succeeded; results before a failure are never reported (`machine.py:455-456`) |
| `open_step` | every step ends with `STEP_FINISHED` (`machine.py:206-219`) | not when an always or an error hop fails (`machine.py:354-356`) |
| `masked` | a stream has the same effects as a run (`streaming.md:3`) | an accessor failing in the `finally` hides the `TransitionError` of a failed hop (a failed `on` action, or, as in the trace, a callback of the hop that raises one itself), and the error state `run` would enter is not entered (`machine.py:463`) |
| `trace` | entries *in execution order* (`tracing.py:21`, `84`) | a section lists the results of all visits to its state (`tracing.py:85`), so a path that returns to a state repeats them, some before they happened |

The Rust engine shares the second: `?` leaves the step of an error or always hop
open (`machine.rs:279,321`, against `machine.rs:411`).

Met while modelling, and not given a run:

- An always chain that *never settles* raises (`guide.md:67`); a chain of exactly
  100 hops raises even if it has settled (`machine.py:399,427`). Rust does the same
  (`machine.rs:332`, against `machine.rs:18`). The model has the code's cap.
- `*` is used when there is no exact match (`guide.md:25`); also when the exact match
  is an empty list (`machine.py:338`). The model has the code's look-up.
- Unknown error states raise at construction (`guide.md:27`); `""` is skipped
  (`machine.py:95`), entered (`machine.py:346`), and a `KeyError` in `to_mermaid`
  (`diagram.py:57`), which `DiagramTellsTheGraph` leaves out for this reason.
- The activity of a refused guard is reported *before its step – or the step before
  it – opens* (`machine.py:214-216`, `machine.rs:415-417`), *just before its step
  opens* (`streaming.md:58-59`). The code opens the step of a round first and asks
  its guards inside (`machine.py:431-443`, `404-409`; `machine.rs:344-355`,
  `307-313`), so the activity comes after `STEP_STARTED` and `STATE_SNAPSHOT`, in
  every stream with a refused guard. `StepsBracketed` checks the order of the code.
- A signal whose guards all refuse opens and closes a step, though the docstrings of
  `stream` (`machine.py:221`, `machine.rs:420`) say it produces no events.
- A synchronous function that returns an awaitable is never awaited: registries
  decide by `iscoroutinefunction` (`schema.py:168`).
- `agui.py:33` says a `STATE_SNAPSHOT` is emitted once, at the beginning of a stream,
  and `agui.py:53` that a step finishes after its `always` cascade; every hop opens a
  step with a snapshot of its own and closes it before the next (`machine.py:305-325`).
- In `bank.py`, `PROVIDE_DATA` may replace the transaction type without the check
  that `IDENTIFY` makes. In `pizza.py`, cancelling an order notes that a refund was
  issued, though it may never have been charged; and the `error_state` of
  `payment_processing` and `out_for_delivery` is never entered, the one having no
  `on` transition, the other none whose actions can fail.

## Not modelled, and what could come next

- Accessors that return a live object: the snapshot event then holds the very dict
  the next action changes, and what a client receives depends on when the event is
  serialised. Accessors of the model return fresh values, as in the documentation.
- Callbacks that write to `signal.data` of the shared `_ALWAYS_SIGNAL`, or to the
  `Context` itself. No callback of the repository does.
- The Rust side of construction: the serde attributes that accept the shorthands,
  and registration. `Build` models their Python counterparts; the graphs of
  `RsMachine` are those its validation accepts.
- The Rust tracing, diagram and examples, which are ports of the Python ones.

Next: the deserialisation of Rust configs.

Left out for good: log lines, message ids, uuid generation, the layout of traces
and diagrams, the package fronts, the settings of the documentation build, and the
example programs' console output.
