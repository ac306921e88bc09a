------------------------------ MODULE RsMachine ------------------------------
(***************************************************************************)
(* One call of StateMachine::run or StateMachine::stream of statem-rs, as  *)
(* machine.rs executes it, one callback (or the bookkeeping between two)   *)
(* per step.  It is a second implementation of Statechart beside           *)
(* PyMachine: errors are values that `?` passes on, only a failed action   *)
(* of a signal's own hop is recovered from, guards cannot fail or change   *)
(* the session, and a state or row the graph does not have is no error.    *)
(***************************************************************************)
EXTENDS Schema

CONSTANTS
  Configs,         \* the graphs from_config may have accepted
  GuardFns,        \* GuardRegistry.guards: name -> [<<session, data>> -> answers]
  ActionFns,       \* ActionRegistry.actions: name -> [<<session, data>> -> outcomes]
  Data, Sessions,  \* abstract payloads of signals, and values of the session
  StartStates,     \* state_name arguments, known to the graph or not
  Inputs,          \* events arguments: sequences of [event, data]
  Streaming,       \* subset of BOOLEAN: is the call stream() or run()?
  Accessors,       \* state_accessor arguments: None or [Sessions -> view]
  MaxDepth         \* ALWAYS_MAX_DEPTH, 100 in the code

(* A guard answers; an action succeeds or fails, and leaves a session. *)
GuardFn  == [Sessions \X Data -> (SUBSET BOOLEAN) \ {{}}]
Outcome  == [ok : BOOLEAN, session : Sessions]
ActionFn == [Sessions \X Data -> (SUBSET Outcome) \ {{}}]

(* RunError, one kind for each variant. *)
Errors == [kind : {"ActionFailed", "UnknownGuard", "UnknownAction", "AlwaysLoopExceeded"},
           state : STRING \cup {None}, name : STRING \cup {None}]

(* from_config collects every target that is not a state, "" included. *)
InvalidTargets(c) ==
  (UNION {   {t.target : t \in AllCandidates(c, s)}
       \cup ({c[s].error_state} \ {None}) : s \in DOMAIN c}) \ DOMAIN c

ASSUME DepthAssumption == MaxDepth \in Nat \ {0}

ASSUME ConfigAssumption ==
  \A c \in Configs : IsConfig(c) /\ InvalidTargets(c) = {}

ASSUME CallAssumption ==
  /\ None \notin STRING \cup BOOLEAN \cup Errors
  /\ \A name \in DOMAIN GuardFns : name \in STRING /\ GuardFns[name] \in GuardFn
  /\ \A name \in DOMAIN ActionFns : name \in STRING /\ ActionFns[name] \in ActionFn
  /\ StartStates \subseteq STRING
  /\ Inputs \subseteq Seq([event : STRING, data : Data])
  /\ Streaming \subseteq BOOLEAN
  /\ Accessors \subseteq [Sessions -> STRING] \cup {None}

(* The signal of an always hop carries an empty payload. *)
ASSUME PayloadAssumption == "" \in Data

VARIABLES
  \* the machine and the arguments of the call
  config, events, state_accessor,
  \* Context
  current_state, session, history, results, event_tx, state_snapshot,
  \* locals of run/push_signal/try_transitions/check_always/enter
  pc,            \* where the future is suspended
  taken,         \* signals taken from events so far
  hook,          \* the hop in progress: "on", "always" or "error"
  dispatched,    \* `current` of the last push_signal that had candidates
  cands, ci,     \* candidates being tried, and the one under trial
  batch,         \* names execute_many has still to run
  n_before,      \* results.len() when the batch began
  fired,         \* has this round entered a state?
  depth,         \* always hops since the cascade began
  error,         \* RunError on its way to the caller, or None
  \* history variable, read by properties only
  log            \* hops made and errors returned, in order

argVars == <<config, events, state_accessor>>
ctxVars == <<current_state, session, history, results, event_tx, state_snapshot>>
locals  == <<taken, hook, dispatched, cands, ci, batch, n_before, fired, depth>>
vars    == <<argVars, ctxVars, pc, locals, error, log>>

----------------------------------------------------------------------------
(* AG-UI events *)

StepStarted(name)    == [type |-> "STEP_STARTED", step |-> name]
StepFinished(name)   == [type |-> "STEP_FINISHED", step |-> name]
StateSnapshot(view)  == [type |-> "STATE_SNAPSHOT", view |-> view]
StateDelta(old, new) == [type |-> "STATE_DELTA", old |-> old, new |-> new]
Activity(entry)      == [type |-> "ACTIVITY_SNAPSHOT", entry |-> entry]

(* stream() puts a sender into the context; run() leaves None. *)
IsStream == event_tx # None

CurrentStateDict ==
  IF state_accessor = None THEN current_state ELSE state_accessor[session]

(* The receiver lives as long as the engine's future: sending never fails. *)
Emit(evts) == event_tx' = IF IsStream THEN event_tx \o evts ELSE event_tx

(* Mutant: the entries of the batch without the last. *)
EmitActivitiesButLast(from) ==
  Emit([i \in 1 .. (IF Len(results) > from THEN Len(results) - from - 1 ELSE 0)
          |-> Activity(results[from + i])])

(* emit_activities(ctx, &ctx.results[n_before..]) *)
EmitActivities(from) ==
  Emit([i \in 1 .. Len(results) - from |-> Activity(results[from + i])])

OpeningEvents(name) == <<StepStarted(name), StateSnapshot(CurrentStateDict)>>

(* Mutant: the base of the next delta is kept from the step before. *)
SnapshotKept == IF state_snapshot = None THEN CurrentStateDict ELSE state_snapshot

(* What open_step and close_step leave in state_snapshot. *)
SnapshotTaken == CurrentStateDict

OpenStep(name) ==
  /\ Emit(OpeningEvents(name))
  /\ state_snapshot' = IF IsStream THEN SnapshotTaken ELSE state_snapshot

(* Mutant: the end of the step overtakes its patch. *)
ClosingEventsSwapped(name) ==
  <<StepFinished(name)>>
  \o IF state_snapshot = CurrentStateDict THEN <<>>
     ELSE <<StateDelta(state_snapshot, CurrentStateDict)>>

(* A patch if anything changed since the step's snapshot, then the end. *)
ClosingEvents(name) ==
  (IF state_snapshot = CurrentStateDict THEN <<>>
   ELSE <<StateDelta(state_snapshot, CurrentStateDict)>>)
  \o <<StepFinished(name)>>

----------------------------------------------------------------------------
Init ==
  /\ config \in Configs
  /\ events \in Inputs
  /\ current_state \in StartStates
  /\ session \in Sessions
  /\ history = <<current_state>>
  /\ results = <<>>
  /\ \E streaming \in Streaming :
       /\ event_tx = IF streaming THEN <<>> ELSE None
       /\ state_accessor \in IF streaming THEN Accessors ELSE {None}
  /\ state_snapshot = None
  /\ pc = "always"
  /\ taken = 0
  /\ hook = "always"
  /\ dispatched = current_state
  /\ cands = <<>> /\ ci = 1 /\ batch = <<>> /\ n_before = 0
  /\ fired = FALSE
  /\ depth = 0
  /\ error = None
  /\ log = <<>>

(* The signal the callbacks of the current hop are given. *)
AlwaysSignal == [event |-> "__always__", data |-> ""]
Signal == IF hook = "always" THEN AlwaysSignal ELSE events[taken]

RunError(kind, state, name) == [kind |-> kind, state |-> state, name |-> name]

(* try_transitions closes its step around any result; the other two hops   *)
(* leave theirs open.                                                      *)
ClosesOnError == hook = "on"

(* `?`: the error leaves the hop. *)
Fails(e) ==
  /\ error' = e
  /\ pc' = IF ClosesOnError THEN "close" ELSE "raised"
  /\ log' = Append(log, [what |-> "fail", hook |-> hook, error |-> e])

BeginRound(h, name, list) ==
  /\ hook' = h
  /\ cands' = list
  /\ ci' = 1
  /\ fired' = FALSE
  /\ OpenStep(name)
  /\ pc' = "guard"

----------------------------------------------------------------------------
(* check_always *)

(* A state the graph does not have has nothing to follow. *)
Always == IF current_state \in DOMAIN config THEN config[current_state].always ELSE <<>>

(* Mutant: the hop counter is compared one too late. *)
CappedLate == depth > MaxDepth

(* `for _ in 0..ALWAYS_MAX_DEPTH` is exhausted. *)
Capped == depth >= MaxDepth

AlwaysLoopExceeded ==
  /\ pc = "always"
  /\ Capped
  /\ Fails(RunError("AlwaysLoopExceeded", current_state, None))
  /\ UNCHANGED <<argVars, ctxVars, locals>>

NothingAlways ==
  /\ pc = "always" /\ ~Capped
  /\ Always = <<>>
  /\ pc' = "dispatch"
  /\ UNCHANGED <<argVars, ctxVars, locals, error, log>>

AlwaysRound ==
  /\ pc = "always" /\ ~Capped
  /\ Always # <<>>
  /\ BeginRound("always", AlwaysSignal.event, Always)
  /\ UNCHANGED <<argVars, current_state, session, history, results, taken,
                 dispatched, batch, n_before, depth, error, log>>

----------------------------------------------------------------------------
(* run and push_signal *)

(* `get((s, e)).or_else(|| get((s, "*")))`: the exact row, if there is one, *)
(* even when it is empty.                                                   *)
NextEvent == events[taken + 1].event
Matched == HasRow(config, current_state, NextEvent)
        \/ HasRow(config, current_state, Wildcard)

Transitions ==
  TableRow(config, current_state,
           IF HasRow(config, current_state, NextEvent) THEN NextEvent ELSE Wildcard)

Return ==
  /\ pc = "dispatch"
  /\ taken = Len(events)
  /\ pc' = "returned"
  /\ UNCHANGED <<argVars, ctxVars, locals, error, log>>

(* Mutant: the loop stays with a signal nothing matches. *)
TakenStuck == IF Matched THEN taken + 1 ELSE taken

(* The loop over the signals moves on, matched or not. *)
Taken == taken + 1

IgnoreSignal ==
  /\ pc = "dispatch" /\ taken < Len(events)
  /\ ~Matched
  /\ taken' = Taken
  /\ UNCHANGED <<argVars, ctxVars, pc, hook, dispatched, cands, ci, batch,
                 n_before, fired, depth, error, log>>

(* A row without candidates: a step is opened and closed, nothing awaited. *)
EmptyRow ==
  /\ pc = "dispatch" /\ taken < Len(events)
  /\ Matched /\ Transitions = <<>>
  /\ taken' = Taken
  /\ Emit(OpeningEvents(NextEvent) \o <<StepFinished(NextEvent)>>)
  /\ state_snapshot' = IF IsStream THEN SnapshotTaken ELSE state_snapshot
  /\ UNCHANGED <<argVars, current_state, session, history, results, pc, hook,
                 dispatched, cands, ci, batch, n_before, fired, depth, error, log>>

ReceiveSignal ==
  /\ pc = "dispatch" /\ taken < Len(events)
  /\ Matched /\ Transitions # <<>>
  /\ taken' = Taken
  /\ dispatched' = current_state
  /\ BeginRound("on", NextEvent, Transitions)
  /\ UNCHANGED <<argVars, current_state, session, history, results, batch,
                 n_before, depth, error, log>>

----------------------------------------------------------------------------
(* Guards: the loop over the candidates *)

Source == IF pc \in {"entry", "exit"} THEN pc ELSE hook

Entry(kind, name, value) ==
  [state |-> current_state, source |-> Source, kind |-> kind, name |-> name,
   value |-> value]

(* execute_many is about to run names. *)
StartBatch(phase, names) ==
  /\ pc' = phase
  /\ batch' = names
  /\ n_before' = Len(results')

(* Mutant: the candidates are tried from the last. *)
CandidateFromLast == cands[Len(cands) - ci + 1]

Candidate == cands[ci]

PassUnguarded ==
  /\ pc = "guard" /\ ci <= Len(cands)
  /\ Candidate.guard = None
  /\ UNCHANGED results
  /\ StartBatch("actions", Candidate.actions)
  /\ UNCHANGED <<argVars, current_state, session, history, event_tx,
                 state_snapshot, taken, hook, dispatched, cands, ci, fired,
                 depth, error, log>>

(* The guard answers, on a context it can only read. *)
EvalGuard ==
  /\ pc = "guard" /\ ci <= Len(cands)
  /\ Candidate.guard \in DOMAIN GuardFns
  /\ \E passed \in GuardFns[Candidate.guard][<<session, Signal.data>>] :
       /\ results' = Append(results, Entry("guard", Candidate.guard, passed))
       /\ Emit(<<Activity(Entry("guard", Candidate.guard, passed))>>)
       /\ IF passed
            THEN StartBatch("actions", Candidate.actions) /\ UNCHANGED ci
            ELSE ci' = ci + 1 /\ UNCHANGED <<pc, batch, n_before>>
  /\ UNCHANGED <<argVars, current_state, session, history, state_snapshot, taken,
                 hook, dispatched, cands, fired, depth, error, log>>

UnknownGuard ==
  /\ pc = "guard" /\ ci <= Len(cands)
  /\ Candidate.guard \notin DOMAIN GuardFns \cup {None}
  /\ Fails(RunError("UnknownGuard", None, Candidate.guard))
  /\ UNCHANGED <<argVars, ctxVars, locals>>

NoneFired ==
  /\ pc = "guard" /\ ci > Len(cands)
  /\ pc' = "close"
  /\ UNCHANGED <<argVars, ctxVars, locals, error, log>>

----------------------------------------------------------------------------
(* Actions: execute_many on a candidate's actions, then enter *)

InBatch == pc \in {"actions", "exit", "entry"}

RunAction ==
  /\ InBatch /\ batch # <<>>
  /\ Head(batch) \in DOMAIN ActionFns
  /\ \E o \in ActionFns[Head(batch)][<<session, Signal.data>>] :
       o.ok /\ session' = o.session
  /\ results' = Append(results, Entry("action", Head(batch), None))
  /\ batch' = Tail(batch)
  /\ UNCHANGED <<argVars, current_state, history, event_tx, state_snapshot, pc,
                 taken, hook, dispatched, cands, ci, n_before, fired, depth,
                 error, log>>

(* A failed action leaves no result; what it did to the session stays. *)
ActionFailed ==
  /\ InBatch /\ batch # <<>>
  /\ Head(batch) \in DOMAIN ActionFns
  /\ \E o \in ActionFns[Head(batch)][<<session, Signal.data>>] :
       ~o.ok /\ session' = o.session
  /\ Fails(RunError("ActionFailed", current_state, Head(batch)))
  /\ UNCHANGED <<argVars, current_state, history, results, event_tx,
                 state_snapshot, locals>>

UnknownAction ==
  /\ InBatch /\ batch # <<>>
  /\ Head(batch) \notin DOMAIN ActionFns
  /\ Fails(RunError("UnknownAction", None, Head(batch)))
  /\ UNCHANGED <<argVars, ctxVars, locals>>

(* The transition's actions are done; enter begins with the exit actions. *)
TransitionActionsDone ==
  /\ pc = "actions" /\ batch = <<>>
  /\ EmitActivities(n_before)
  /\ UNCHANGED results
  /\ StartBatch("exit", config[current_state].exit)
  /\ UNCHANGED <<argVars, current_state, session, history, state_snapshot, taken,
                 hook, dispatched, cands, ci, fired, depth, error, log>>

(* Mutant: the error state of the state the failure left the machine in. *)
RecoveryStateOfCurrent == config[current_state].error_state

(* error_state of the state the signal was dispatched in. *)
RecoveryState == config[dispatched].error_state

Target == IF hook = "error" THEN RecoveryState ELSE Candidate.target

(* Mutant: the entry actions of the state being left. *)
EntryActionsOfLeft == config[current_state].entry

EntryActions == config[Target].entry

ChangeState ==
  /\ pc = "exit" /\ batch = <<>>
  /\ EmitActivities(n_before)
  /\ history' = Append(history, Target)
  /\ current_state' = Target
  /\ fired' = TRUE
  /\ log' = Append(log, [what |-> "hop", hook |-> hook, dispatched |-> dispatched,
                         from |-> current_state, to |-> Target])
  /\ UNCHANGED results
  /\ StartBatch("entry", EntryActions)
  /\ UNCHANGED <<argVars, session, state_snapshot, taken, hook, dispatched, cands,
                 ci, depth, error>>

EntryActionsDone ==
  /\ pc = "entry" /\ batch = <<>>
  /\ EmitActivities(n_before)
  /\ pc' = "close"
  /\ UNCHANGED <<argVars, current_state, session, history, results,
                 state_snapshot, locals, error, log>>

----------------------------------------------------------------------------
(* The end of a round *)

(* An always hop continues a cascade; the others start a new one. *)
NextDepth == IF hook = "always" THEN depth + 1 ELSE 0

(* Mutant: `Ok(fired)` with a recovery that does not count as fired. *)
CascadesUnlessError == fired /\ hook # "error"

Cascades == fired

CloseStep ==
  /\ pc = "close"
  /\ Emit(ClosingEvents(Signal.event))
  /\ state_snapshot' = IF IsStream THEN SnapshotTaken ELSE state_snapshot
  /\ \/ /\ error # None                \* only in try_transitions
        /\ pc' = "failed"
        /\ UNCHANGED <<hook, depth, fired>>
     \/ /\ error = None /\ Cascades
        /\ pc' = "always"
        /\ hook' = "always"
        /\ depth' = NextDepth
        /\ fired' = FALSE
     \/ /\ error = None /\ ~Cascades
        /\ pc' = "dispatch"
        /\ UNCHANGED <<hook, depth, fired>>
  /\ UNCHANGED <<argVars, current_state, session, history, results, taken,
                 dispatched, cands, ci, batch, n_before, error, log>>

(* Mutant: any error of the round is recovered from. *)
RecoversAny == RecoveryState # None

(* push_signal's `Err(ActionFailed)` arm, with an error_state to go to. *)
Recovers == error.kind = "ActionFailed" /\ RecoveryState # None

RouteToErrorState ==
  /\ pc = "failed"
  /\ Recovers
  /\ hook' = "error"
  /\ fired' = FALSE
  /\ error' = None
  /\ OpenStep(Signal.event)
  /\ UNCHANGED results
  /\ StartBatch("exit", config[current_state].exit)
  /\ UNCHANGED <<argVars, current_state, session, history, taken, dispatched,
                 cands, ci, depth, log>>

Propagate ==
  /\ pc = "failed"
  /\ ~Recovers
  /\ pc' = "raised"
  /\ UNCHANGED <<argVars, ctxVars, locals, error, log>>

(* The call has ended, in Ok or in Err. *)
Terminated == pc \in {"returned", "raised"}

Done == Terminated /\ UNCHANGED vars

(* What the engine's future does when it is polled. *)
Step ==
  \/ AlwaysLoopExceeded \/ NothingAlways \/ AlwaysRound
  \/ Return \/ IgnoreSignal \/ EmptyRow \/ ReceiveSignal
  \/ PassUnguarded \/ EvalGuard \/ UnknownGuard \/ NoneFired
  \/ RunAction \/ ActionFailed \/ UnknownAction
  \/ TransitionActionsDone \/ ChangeState \/ EntryActionsDone
  \/ CloseStep \/ RouteToErrorState \/ Propagate

Next == Step \/ Done

Spec == Init /\ [][Next]_vars

(* If every callback ends, the future keeps moving. *)
FairSpec == Spec /\ WF_vars(Next)

----------------------------------------------------------------------------
(* The contract *)

Mode ==
  IF Terminated THEN pc
  ELSE IF pc = "dispatch" THEN "idle"
  ELSE IF hook = "on" THEN IF fired THEN "entering" ELSE "reacting"
  ELSE IF hook = "error" /\ ~fired THEN "recovering"
  ELSE "cascading"

Hops == IF ~fired \/ hook = "on" THEN depth
        ELSE IF hook = "always" THEN depth + 1 ELSE 0

Contract == INSTANCE Statechart
              WITH mode <- Mode, hops <- Hops, origin <- dispatched

(* The Rust engine keeps the contract the Python engine keeps: the states  *)
(* of a call, the order of cascades, signals and error states, and the     *)
(* states a call may end in are those Statechart allows.                   *)
RefinesStatechart == Contract!Spec

----------------------------------------------------------------------------
(* Types *)

ResultEntry == [state : STRING, source : {"on", "always", "entry", "exit"},
                kind : {"guard", "action"}, name : STRING,
                value : BOOLEAN \cup {None}]

StepName == STRING \cup {AlwaysSignal.event}

Event ==
       [type : {"STEP_STARTED", "STEP_FINISHED"}, step : StepName]
  \cup [type : {"STATE_SNAPSHOT"}, view : STRING]
  \cup [type : {"STATE_DELTA"}, old : STRING \cup {None}, new : STRING]
  \cup [type : {"ACTIVITY_SNAPSHOT"}, entry : ResultEntry]

Hooks == {"on", "always", "error"}

LogEntry ==
       [what : {"fail"}, hook : Hooks, error : Errors]
  \cup [what : {"hop"}, hook : Hooks, dispatched : STRING, from : STRING, to : STRING]

ArgsOK ==
  /\ config \in Configs
  /\ events \in Inputs
  /\ state_accessor \in Accessors \cup {None}

ContextOK ==
  /\ current_state \in STRING
  /\ session \in Sessions
  /\ history \in Seq(STRING)
  /\ Len(history) > 0
  /\ current_state = history[Len(history)]
  /\ results \in Seq(ResultEntry)
  /\ event_tx \in Seq(Event) \cup {None}
  /\ state_snapshot \in STRING \cup {None}

LocalsOK ==
  /\ pc \in {"always", "dispatch", "guard", "actions", "exit", "entry", "close",
             "failed", "returned", "raised"}
  /\ taken \in 0 .. Len(events)
  /\ hook \in Hooks
  /\ dispatched \in STRING
  /\ cands \in Seq(TransitionConfig)
  /\ ci \in 1 .. Len(cands) + 1
  /\ batch \in Seq(STRING)
  /\ n_before \in 0 .. Len(results)
  /\ fired \in BOOLEAN
  /\ depth \in 0 .. MaxDepth
  /\ error \in Errors \cup {None}
  /\ log \in Seq(LogEntry)

(* Type invariant; every index stays within its sequence. *)
TypeOK == ArgsOK /\ ContextOK /\ LocalsOK
=============================================================================
