------------------------------ MODULE PyMachine ------------------------------
(***************************************************************************)
(* One call of StateMachine.run or StateMachine.stream, as machine.py      *)
(* executes it: the signals are dispatched one by one, each hop runs its   *)
(* callbacks one await at a time, and the always cascade settles the       *)
(* machine before the next signal.  In a stream the same steps also put    *)
(* AG-UI events on a queue.                                                *)
(*                                                                         *)
(* A step of this module is one callback, or the bookkeeping between two   *)
(* callbacks.  What user callbacks do is a constant: for each registered   *)
(* name, the outcomes it may have in a session with a signal's data.       *)
(***************************************************************************)
EXTENDS Schema

CONSTANTS
  Configs,       \* the state graphs a machine may have been built from
  GuardFns,      \* GuardRegistry._fns: name -> [<<session, data>> -> outcomes]
  ActionFns,     \* ActionRegistry._fns, likewise
  Data,          \* abstract values of a signal's data
  Sessions,      \* abstract values of the caller's session object
  StartStates,   \* state_name arguments, known to the graph or not
  Inputs,        \* events arguments: sequences of [event, data]
  Streaming,     \* subset of BOOLEAN: is the call stream() or run()?
  Accessors,     \* state_accessor arguments: None or [Sessions -> reading]
  MaxDepth       \* _ALWAYS_MAX_DEPTH, 100 in the code

(***************************************************************************)
(* An exception raised by a callback.  CancelledError is a BaseException;  *)
(* the engine's `except Exception` does not see it.                        *)
(***************************************************************************)
Exceptions == {"Exception", "TransitionError", "GuardError", "KeyError",
               "RuntimeError", "CancelledError"}

(* How one call of a guard or an action ends, and the session it leaves. *)
Outcome == [raises : Exceptions \cup {None}, value : BOOLEAN \cup {None},
            session : Sessions]

(* How one call of the state accessor ends. *)
Reading == [raises : BOOLEAN, view : STRING]

(* Where a result may come from: _source of the hop, or of _enter. *)
ResultSources == {"on", "always", "entry", "exit"}

IsRegistry(fns) ==
  \A name \in DOMAIN fns :
    /\ name \in STRING
    /\ fns[name] \in [Sessions \X Data -> (SUBSET Outcome) \ {{}}]

ASSUME DepthAssumption == MaxDepth \in Nat \ {0}

ASSUME ConfigAssumption ==
  \A c \in Configs :
    /\ IsConfig(c)
    /\ BadTargets(c) = {}

ASSUME CallAssumption ==
  /\ None \notin STRING \cup Exceptions \cup ResultSources
  /\ None \notin BOOLEAN
  /\ IsRegistry(GuardFns) /\ IsRegistry(ActionFns)
  /\ StartStates \subseteq STRING
  /\ Inputs \subseteq Seq([event : STRING, data : Data])
  /\ Streaming \subseteq BOOLEAN
  /\ Accessors \subseteq [Sessions -> Reading] \cup {None}

(* The signal of an always hop carries an empty payload. *)
ASSUME PayloadAssumption == "" \in Data

VARIABLES
  \* the frozen machine and the arguments of the call
  config, events, state_accessor,
  \* Context
  current_state, session, history, results, event_q, state_snapshot,
  \* locals of run/_push_signal/_try_transitions/_check_always/_enter
  pc,            \* where the coroutine is suspended
  taken,         \* signals taken from events so far
  hook,          \* what the hop in progress is: "on", "always" or "error"
  dispatched,    \* `current` of the last _push_signal
  cands, ci,     \* transitions being tried, and the one under trial
  batch,         \* names execute_many has still to run
  n_before,      \* len(results) when the batch began
  fired,         \* has this round entered a state?
  depth,         \* always hops since the cascade began
  exc,           \* exception propagating, or None
  \* history variable, read by properties only
  log            \* hops taken and exceptions raised, in order

argVars == <<config, events, state_accessor>>
ctxVars == <<current_state, session, history, results, event_q, state_snapshot>>
locals  == <<taken, hook, dispatched, cands, ci, batch, n_before, fired, depth>>
vars    == <<argVars, ctxVars, pc, locals, exc, log>>

----------------------------------------------------------------------------
(* AG-UI events *)

StepStarted(name)     == [type |-> "STEP_STARTED", step |-> name]
StepFinished(name)    == [type |-> "STEP_FINISHED", step |-> name]
StateSnapshot(view)   == [type |-> "STATE_SNAPSHOT", view |-> view]
StateDelta(old, new)  == [type |-> "STATE_DELTA", old |-> old, new |-> new]
Activity(entry)       == [type |-> "ACTIVITY_SNAPSHOT", entry |-> entry]

(* A stream owns a queue; a plain run has None in its place. *)
IsStream == event_q # None

(* _current_state_dict: the accessor's reading, or the default view. *)
CurrentStateDict ==
  IF state_accessor = None THEN [raises |-> FALSE, view |-> current_state]
                           ELSE state_accessor[session]

AccessorFails == IsStream /\ CurrentStateDict.raises

(* The signal the callbacks of the current hop are given. *)
AlwaysSignal == [event |-> "__always__", data |-> ""]
Signal == IF hook = "always" THEN AlwaysSignal ELSE events[taken]

(* Put events on the queue, if there is one. *)
Emit(evts) == event_q' = IF IsStream THEN event_q \o evts ELSE event_q

(* Mutant: the first entry of the batch is left out. *)
EmitActivitiesSkip(from) ==
  Emit([i \in 1 .. (IF Len(results) > from THEN Len(results) - from - 1 ELSE 0)
          |-> Activity(results[from + 1 + i])])

(* _emit_activities(ctx, ctx.results[from:]) *)
EmitActivities(from) ==
  Emit([i \in 1 .. Len(results) - from |-> Activity(results[from + i])])

(* _open_step: the snapshot is taken after STEP_STARTED is already queued. *)
OpenStep(name) ==
  /\ Emit(IF CurrentStateDict.raises
            THEN <<StepStarted(name)>>
            ELSE <<StepStarted(name), StateSnapshot(CurrentStateDict.view)>>)
  /\ state_snapshot' = IF IsStream /\ ~CurrentStateDict.raises
                         THEN CurrentStateDict.view ELSE state_snapshot

(* Mutant: no patch for a round that did not change the state. *)
PatchIfFired ==
  IF state_snapshot = CurrentStateDict.view \/ ~fired THEN <<>>
  ELSE <<StateDelta(state_snapshot, CurrentStateDict.view)>>

(* The patch that closes a step; empty when the view did not change. *)
Patch ==
  IF state_snapshot = CurrentStateDict.view THEN <<>>
  ELSE <<StateDelta(state_snapshot, CurrentStateDict.view)>>

----------------------------------------------------------------------------
(* Exceptions *)

Failure(h, phase, e) == [what |-> "fail", hook |-> h, phase |-> phase, exc |-> e]

(* Mutant: the failure of a transition's action is not wrapped. *)
WrappedNever(e) == e

(***************************************************************************)
(* Only the actions listed on an `on` transition have their exceptions     *)
(* turned into a TransitionError, and only ordinary ones.                  *)
(***************************************************************************)
Wrapped(e) ==
  IF hook = "on" /\ pc = "actions" /\ e # "CancelledError"
  THEN "TransitionError" ELSE e

(***************************************************************************)
(* An exception leaves the callback that raised it.  Within                *)
(* _try_transitions the `finally` closes the step first; an always or      *)
(* error hop has no such clause and the exception leaves at once.          *)
(***************************************************************************)
Throw(e) ==
  /\ exc' = Wrapped(e)
  /\ pc' = IF hook = "on" THEN "close" ELSE "catch"
  /\ log' = Append(log, Failure(hook, pc, e))

(* An exception raised before the try block is entered, or in its finally. *)
ThrowOutside(h, e) ==
  /\ exc' = e
  /\ pc' = "catch"
  /\ log' = Append(log, Failure(h, "step", e))

----------------------------------------------------------------------------
Init ==
  /\ config \in Configs
  /\ events \in Inputs
  /\ current_state \in StartStates
  /\ session \in Sessions
  /\ history = <<current_state>>
  /\ results = <<>>
  /\ \E streaming \in Streaming :
       /\ event_q = IF streaming THEN <<>> ELSE None
       /\ state_accessor \in IF streaming THEN Accessors ELSE {None}
  /\ state_snapshot = None
  /\ pc = "always"
  /\ taken = 0
  /\ hook = "always"
  /\ dispatched = current_state
  /\ cands = <<>> /\ ci = 1 /\ batch = <<>> /\ n_before = 0
  /\ fired = FALSE
  /\ depth = 0
  /\ exc = None
  /\ log = <<>>

(***************************************************************************)
(* A round tries a list of candidates in the state it starts in: open its  *)
(* step, then start with the first guard.                                  *)
(***************************************************************************)
BeginRound(h, name, list) ==
  /\ hook' = h
  /\ cands' = list
  /\ ci' = 1
  /\ fired' = FALSE
  /\ OpenStep(name)
  /\ IF AccessorFails
       THEN ThrowOutside(h, "Exception")
       ELSE pc' = "guard" /\ UNCHANGED <<exc, log>>

----------------------------------------------------------------------------
(* _check_always *)

Always == config[current_state].always

(* Mutant: off by one. *)
CappedLate(d) == d > MaxDepth

(* `for _ in range(_ALWAYS_MAX_DEPTH)` is exhausted. *)
Capped(d) == d >= MaxDepth

(* The cascade stops with an error: at its cap, or in a state unknown to   *)
(* the graph.                                                              *)
AlwaysFails ==
  /\ pc = "always"
  /\ \/ Capped(depth) /\ ThrowOutside("always", "RuntimeError")
     \/ /\ ~Capped(depth)
        /\ current_state \notin DOMAIN config
        /\ ThrowOutside("always", "KeyError")
  /\ UNCHANGED <<argVars, ctxVars, locals>>

(* A state without always transitions is settled. *)
NothingAlways ==
  /\ pc = "always" /\ ~Capped(depth)
  /\ current_state \in DOMAIN config
  /\ Always = <<>>
  /\ pc' = "dispatch"
  /\ UNCHANGED <<argVars, ctxVars, locals, exc, log>>

AlwaysRound ==
  /\ pc = "always" /\ ~Capped(depth)
  /\ current_state \in DOMAIN config
  /\ Always # <<>>
  /\ BeginRound("always", AlwaysSignal.event, Always)
  /\ UNCHANGED <<argVars, current_state, session, history, results,
                 taken, dispatched, batch, n_before, depth>>

----------------------------------------------------------------------------
(* run and _push_signal *)

Candidates == Lookup(config, current_state, events[taken + 1].event)

Return ==
  /\ pc = "dispatch"
  /\ taken = Len(events)
  /\ pc' = "returned"
  /\ UNCHANGED <<argVars, ctxVars, locals, exc, log>>

(* Mutant: a signal without candidates is never taken off the list. *)
SignalsTakenStuck == IF Candidates = <<>> THEN taken ELSE taken + 1

(* The loop over the signals moves on, matched or not. *)
SignalsTaken == taken + 1

IgnoreSignal ==
  /\ pc = "dispatch"
  /\ taken < Len(events)
  /\ Candidates = <<>>
  /\ taken' = SignalsTaken
  /\ UNCHANGED <<argVars, ctxVars, pc, hook, dispatched, cands, ci, batch,
                 n_before, fired, depth, exc, log>>

ReceiveSignal ==
  /\ pc = "dispatch"
  /\ taken < Len(events)
  /\ Candidates # <<>>
  /\ taken' = SignalsTaken
  /\ dispatched' = current_state
  /\ BeginRound("on", events[taken + 1].event, Candidates)
  /\ UNCHANGED <<argVars, current_state, session, history, results,
                 batch, n_before, depth>>

----------------------------------------------------------------------------
(* Guards: the loop over the candidates *)

Source == IF pc \in {"entry", "exit"} THEN pc ELSE hook

Entry(kind, name, value) ==
  [state |-> current_state, source |-> Source, kind |-> kind, name |-> name,
   value |-> value]

(* execute_many is about to run names. *)
StartBatch(phase, names) ==
  /\ pc' = phase
  /\ batch' = names
  /\ n_before' = Len(results')

(* Mutant: the candidates are tried from the last. *)
CandidateFromLast == cands[Len(cands) - ci + 1]

Candidate == cands[ci]

(* No guard: the candidate passes and nothing is recorded. *)
PassUnguarded ==
  /\ pc = "guard" /\ ci <= Len(cands)
  /\ Candidate.guard = None
  /\ UNCHANGED results
  /\ StartBatch("actions", Candidate.actions)
  /\ UNCHANGED <<argVars, current_state, session, history, event_q,
                 state_snapshot, taken, hook, dispatched, cands, ci, fired,
                 depth, exc, log>>

(* The guard answers; its result is recorded and reported. *)
EvalGuard ==
  /\ pc = "guard" /\ ci <= Len(cands)
  /\ Candidate.guard \in DOMAIN GuardFns
  /\ \E o \in GuardFns[Candidate.guard][<<session, Signal.data>>] :
       /\ o.raises = None
       /\ o.value # None
       /\ session' = o.session
       /\ results' = Append(results, Entry("guard", Candidate.guard, o.value))
       /\ Emit(<<Activity(Entry("guard", Candidate.guard, o.value))>>)
       /\ IF o.value
            THEN StartBatch("actions", Candidate.actions) /\ UNCHANGED ci
            ELSE ci' = ci + 1 /\ UNCHANGED <<pc, batch, n_before>>
  /\ UNCHANGED <<argVars, current_state, history, state_snapshot, taken, hook,
                 dispatched, cands, fired, depth, exc, log>>

(* The guard raises, returns something that is not a bool (None here), or  *)
(* was never registered.                                                   *)
GuardFails ==
  /\ pc = "guard" /\ ci <= Len(cands)
  /\ Candidate.guard # None
  /\ \/ /\ Candidate.guard \notin DOMAIN GuardFns
        /\ Throw("KeyError")
        /\ UNCHANGED session
     \/ /\ Candidate.guard \in DOMAIN GuardFns
        /\ \E o \in GuardFns[Candidate.guard][<<session, Signal.data>>] :
             /\ o.raises # None \/ o.value = None
             /\ session' = o.session
             /\ Throw(IF o.raises # None THEN o.raises ELSE "GuardError")
  /\ UNCHANGED <<argVars, current_state, history, results, event_q,
                 state_snapshot, locals>>

(* Every candidate was refused. *)
NoneFired ==
  /\ pc = "guard" /\ ci > Len(cands)
  /\ pc' = "close"
  /\ UNCHANGED <<argVars, ctxVars, locals, exc, log>>

----------------------------------------------------------------------------
(* Actions: execute_many on a transition's actions, then _enter *)

InBatch == pc \in {"actions", "exit", "entry"}

RunAction ==
  /\ InBatch /\ batch # <<>>
  /\ Head(batch) \in DOMAIN ActionFns
  /\ \E o \in ActionFns[Head(batch)][<<session, Signal.data>>] :
       /\ o.raises = None
       /\ session' = o.session
       /\ results' = Append(results, Entry("action", Head(batch), o.value))
  /\ batch' = Tail(batch)
  /\ UNCHANGED <<argVars, current_state, history, event_q, state_snapshot, pc,
                 taken, hook, dispatched, cands, ci, n_before, fired, depth,
                 exc, log>>

(* A failed action leaves no result; what it did to the session stays. *)
ActionFails ==
  /\ InBatch /\ batch # <<>>
  /\ \/ /\ Head(batch) \notin DOMAIN ActionFns
        /\ Throw("KeyError")
        /\ UNCHANGED session
     \/ /\ Head(batch) \in DOMAIN ActionFns
        /\ \E o \in ActionFns[Head(batch)][<<session, Signal.data>>] :
             /\ o.raises # None
             /\ session' = o.session
             /\ Throw(o.raises)
  /\ UNCHANGED <<argVars, current_state, history, results, event_q,
                 state_snapshot, locals>>

(* Mutant: the exit actions of the state the last signal found. *)
ExitActionsOfDispatched == config[dispatched].exit

ExitActions == config[current_state].exit

(* The transition's actions are done; _enter begins with the exit actions. *)
TransitionActionsDone ==
  /\ pc = "actions" /\ batch = <<>>
  /\ EmitActivities(n_before)
  /\ UNCHANGED results
  /\ StartBatch("exit", ExitActions)
  /\ UNCHANGED <<argVars, current_state, session, history, state_snapshot,
                 taken, hook, dispatched, cands, ci, fired, depth, exc, log>>

(* Mutant: the error state is looked up where the failure left the machine. *)
RecoveryStateOfCurrent == config[current_state].error_state

(* error_state of the state the signal was dispatched in. *)
RecoveryState == config[dispatched].error_state

Target == IF hook = "error" THEN RecoveryState ELSE Candidate.target

Hop == [what |-> "hop", hook |-> hook, dispatched |-> dispatched,
        from |-> current_state, to |-> Target]

(***************************************************************************)
(* The exit actions are done and the state changes.  `fired` is set here   *)
(* and not after the entry actions: on the normal path nothing reads it in *)
(* between.                                                                *)
(***************************************************************************)
ChangeState ==
  /\ pc = "exit" /\ batch = <<>>
  /\ EmitActivities(n_before)
  /\ history' = Append(history, Target)
  /\ current_state' = Target
  /\ fired' = TRUE
  /\ UNCHANGED results
  /\ IF Target \in DOMAIN config
       THEN /\ StartBatch("entry", config[Target].entry)
            /\ log' = Append(log, Hop)
            /\ UNCHANGED exc
       ELSE /\ pc' = IF hook = "on" THEN "close" ELSE "catch"
            /\ exc' = "KeyError"
            /\ log' = log \o <<Hop, Failure(hook, "entry", "KeyError")>>
            /\ UNCHANGED <<batch, n_before>>
  /\ UNCHANGED <<argVars, session, state_snapshot, taken, hook, dispatched,
                 cands, ci, depth>>

EntryActionsDone ==
  /\ pc = "entry" /\ batch = <<>>
  /\ EmitActivities(n_before)
  /\ pc' = "close"
  /\ UNCHANGED <<argVars, current_state, session, history, results,
                 state_snapshot, locals, exc, log>>

----------------------------------------------------------------------------
(* The end of a round *)

(* Mutant: the always hops of a cascade are not counted. *)
NextDepthForgets == 0

(* An on or error hop starts a new cascade; an always hop continues one. *)
NextDepth == IF hook = "always" THEN depth + 1 ELSE 0

(* Mutant: only a signal's own hop is followed by the cascade. *)
CascadesUnlessError == fired /\ hook # "error"

(* Does _check_always look again after this round? *)
Cascades == fired

(* Mutant: STEP_FINISHED is queued before the delta. *)
ClosingEventsSwapped == <<StepFinished(Signal.event)>> \o Patch

(* The events of _close_step. *)
ClosingEvents == Patch \o <<StepFinished(Signal.event)>>

CloseStep ==
  /\ pc = "close" /\ ~AccessorFails
  /\ Emit(ClosingEvents)
  /\ state_snapshot' = IF IsStream THEN CurrentStateDict.view ELSE state_snapshot
  /\ \/ /\ exc # None                 \* the finally of a failed round
        /\ pc' = "catch"
        /\ UNCHANGED <<hook, depth, fired>>
     \/ /\ exc = None /\ Cascades
        /\ pc' = "always"
        /\ hook' = "always"
        /\ depth' = NextDepth
        /\ fired' = FALSE
     \/ /\ exc = None /\ ~Cascades
        /\ pc' = "dispatch"
        /\ UNCHANGED <<hook, depth, fired>>
  /\ UNCHANGED <<argVars, current_state, session, history, results, taken,
                 dispatched, cands, ci, batch, n_before, exc, log>>

(* The accessor raises in _close_step: its exception replaces whatever was *)
(* propagating, and neither STATE_DELTA nor STEP_FINISHED is queued.       *)
CloseFails ==
  /\ pc = "close" /\ AccessorFails
  /\ ThrowOutside(hook, "Exception")
  /\ UNCHANGED <<argVars, ctxVars, locals>>

(* Mutant: any exception of the round is caught. *)
CaughtAny == hook = "on"

(* `except TransitionError` around _try_transitions. *)
Caught == hook = "on" /\ exc = "TransitionError"

Recovers == Caught /\ RecoveryState # None

(* A caught failure enters the error state in a step of its own. *)
RouteToErrorState ==
  /\ pc = "catch"
  /\ Recovers
  /\ hook' = "error"
  /\ fired' = FALSE
  /\ OpenStep(Signal.event)
  /\ UNCHANGED results
  /\ IF AccessorFails
       THEN /\ ThrowOutside("error", "Exception")
            /\ UNCHANGED <<batch, n_before>>
       ELSE /\ StartBatch("exit", ExitActions)
            /\ exc' = None
            /\ UNCHANGED log
  /\ UNCHANGED <<argVars, current_state, session, history, taken, dispatched,
                 cands, ci, depth>>

(* Anything else reaches the caller of run. *)
Propagate ==
  /\ pc = "catch"
  /\ ~Recovers
  /\ pc' = "raised"
  /\ UNCHANGED <<argVars, ctxVars, locals, exc, log>>

(* The call has ended. *)
Terminated == pc \in {"returned", "raised"}

Done == Terminated /\ UNCHANGED vars

Next ==
  \/ AlwaysFails \/ NothingAlways \/ AlwaysRound
  \/ Return \/ IgnoreSignal \/ ReceiveSignal
  \/ PassUnguarded \/ EvalGuard \/ GuardFails \/ NoneFired
  \/ RunAction \/ ActionFails
  \/ TransitionActionsDone \/ ChangeState \/ EntryActionsDone
  \/ CloseStep \/ CloseFails \/ RouteToErrorState \/ Propagate
  \/ Done

Spec == Init /\ [][Next]_vars

(***************************************************************************)
(* Nothing runs beside the coroutine but the callbacks it awaits; if each  *)
(* of them ends, the coroutine keeps moving.                               *)
(***************************************************************************)
FairSpec == Spec /\ WF_vars(Next)

----------------------------------------------------------------------------
(* The contract *)

(***************************************************************************)
(* How far the call is, in the terms of Statechart.                        *)
(***************************************************************************)
Mode ==
  IF Terminated THEN pc
  ELSE IF pc = "dispatch" THEN "idle"
  ELSE IF hook = "on" THEN IF fired THEN "entering" ELSE "reacting"
  ELSE IF hook = "error" /\ ~fired THEN "recovering"
  ELSE "cascading"

Hops == IF ~fired \/ hook = "on" THEN depth
        ELSE IF hook = "always" THEN depth + 1 ELSE 0

Contract == INSTANCE Statechart
              WITH mode <- Mode, hops <- Hops, origin <- dispatched

(* A call goes through the states of its graph as Statechart promises:     *)
(* always transitions before the next signal, candidates in order, at most *)
(* MaxDepth always hops in a row, failures to the error state of the state *)
(* that took the signal, and no return while anything is unsettled.        *)
RefinesStatechart == Contract!Spec

(* The number of hops of a call is bounded by the number of signals it has *)
(* taken, however the guards answer and whatever fails: no graph and no    *)
(* combination of always cycles and error states runs away.                *)
BoundedHops == Contract!Bounded

----------------------------------------------------------------------------
(* Types *)

ResultEntry == [state : STRING, source : ResultSources,
                kind : {"guard", "action"}, name : STRING,
                value : BOOLEAN \cup {None}]

(* What a step may be named after. *)
StepName == STRING \cup {AlwaysSignal.event}

Event ==
       [type : {"STEP_STARTED", "STEP_FINISHED"}, step : StepName]
  \cup [type : {"STATE_SNAPSHOT"}, view : STRING]
  \cup [type : {"STATE_DELTA"}, old : STRING \cup {None}, new : STRING]
  \cup [type : {"ACTIVITY_SNAPSHOT"}, entry : ResultEntry]

Hooks == {"on", "always", "error"}

LogEntry ==
       [what : {"fail"}, hook : Hooks,
        phase : {"step", "guard", "actions", "exit", "entry"}, exc : Exceptions]
  \cup [what : {"hop"}, hook : Hooks, dispatched : STRING, from : STRING, to : STRING]

(* The arguments and the graph keep their types. *)
ArgsOK ==
  /\ config \in Configs
  /\ events \in Inputs
  /\ state_accessor \in Accessors \cup {None}

(* The Context the callbacks see. *)
ContextOK ==
  /\ current_state \in STRING
  /\ session \in Sessions
  /\ history \in Seq(STRING)
  /\ Len(history) > 0
  /\ current_state = history[Len(history)]
  /\ results \in Seq(ResultEntry)
  /\ event_q \in Seq(Event) \cup {None}
  /\ state_snapshot \in STRING \cup {None}

(* Where the coroutine is, and its locals. *)
LocalsOK ==
  /\ pc \in {"always", "dispatch", "guard", "actions", "exit", "entry", "close",
             "catch", "returned", "raised"}
  /\ taken \in 0 .. Len(events)
  /\ hook \in Hooks
  /\ dispatched \in STRING
  /\ cands \in Seq(TransitionConfig)
  /\ ci \in 1 .. Len(cands) + 1
  /\ batch \in Seq(STRING)
  /\ n_before \in 0 .. Len(results)
  /\ fired \in BOOLEAN
  /\ depth \in 0 .. MaxDepth
  /\ exc \in Exceptions \cup {None}
  /\ log \in Seq(LogEntry)

(***************************************************************************)
(* Type invariant.  It says a little more than types: current_state is the *)
(* last element of history, and every index stays within its sequence.     *)
(***************************************************************************)
TypeOK == ArgsOK /\ ContextOK /\ LocalsOK

----------------------------------------------------------------------------
(* Control: what the locals say of each other *)

(* A round or a hop is under way. *)
Busy == pc \in {"guard", "actions", "exit", "entry", "close", "catch"}

(* The signal in hand was taken in a known state, which has these candidates. *)
OnControl ==
  hook = "on" /\ Busy =>
    /\ taken > 0
    /\ dispatched \in DOMAIN config
    /\ cands = Lookup(config, dispatched, events[taken].event)
    /\ ~fired => current_state = dispatched
    /\ pc \in {"close", "catch"} /\ exc = "TransitionError" =>
         current_state \in DOMAIN config

AlwaysControl ==
  hook = "always" /\ Busy /\ pc # "catch" =>
    /\ depth < MaxDepth
    /\ ~fired => current_state \in DOMAIN config /\ cands = Always

ErrorControl ==
  hook = "error" /\ Busy =>
    /\ pc \in {"exit", "entry", "close", "catch"}
    /\ taken > 0
    /\ dispatched \in DOMAIN config
    /\ RecoveryState # None
    /\ pc = "exit" => current_state \in DOMAIN config

(* A candidate is tried only when those before it were refused; a round    *)
(* that closes without a hop or an exception has tried them all.           *)
CandidateControl ==
  /\ hook # "error" /\ pc \in {"guard", "actions", "exit"} => Reachable(cands, ci)
  /\ hook # "error" /\ pc \in {"actions", "exit"} => ci <= Len(cands)
  /\ pc = "close" /\ exc = None /\ ~fired => hook # "error" /\ AllRefusable(cands)

(* The strengthening that makes TypeOK inductive and the refinement of     *)
(* Statechart provable: what every point of the coroutine may rely on.     *)
ControlOK ==
  /\ pc = "always" => hook = "always"
  /\ pc \in {"always", "dispatch", "guard", "actions", "exit"} => ~fired
  /\ pc = "entry" => fired /\ current_state \in DOMAIN config
  /\ ~Terminated /\ pc \notin {"close", "catch"} => exc = None
  /\ OnControl /\ AlwaysControl /\ ErrorControl /\ CandidateControl
=============================================================================
