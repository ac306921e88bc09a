--------------------------- MODULE RsMachineProofs ---------------------------
(***************************************************************************)
(* The Rust engine: type correctness, that it implements Statechart, that  *)
(* errors go where they should, that candidates are tried in order and a   *)
(* call settles, that the lifecycle follows the path and the path stays on *)
(* the graph, and that steps cannot go on for ever, for every set of       *)
(* graphs, every registry of callbacks, every accessor and every cap.      *)
(***************************************************************************)
EXTENDS RsMachineProperties, SchemaTheorems

----------------------------------------------------------------------------
(* Control: what the locals say of each other *)

Busy == pc \in {"guard", "actions", "exit", "entry", "close", "failed"}

OnControl ==
  hook = "on" /\ Busy =>
    /\ taken > 0
    /\ dispatched \in DOMAIN config
    /\ cands = Lookup(config, dispatched, events[taken].event)
    /\ ~fired => current_state = dispatched

AlwaysControl ==
  hook = "always" /\ Busy =>
    /\ depth < MaxDepth
    /\ ~fired => cands = config[current_state].always

ErrorControl ==
  hook = "error" /\ Busy =>
    /\ pc \in {"exit", "entry", "close"}
    /\ taken > 0
    /\ dispatched \in DOMAIN config
    /\ RecoveryState # None

CandidateControl ==
  /\ hook # "error" /\ pc \in {"guard", "actions", "exit"} => Reachable(cands, ci)
  /\ hook # "error" /\ pc \in {"actions", "exit"} => ci <= Len(cands)
  /\ pc = "close" /\ error = None /\ ~fired => hook # "error" /\ AllRefusable(cands)

(* An error is pending only in a signal's own hop; the other two pass      *)
(* theirs on at once.                                                      *)
PendingControl ==
  /\ ~Terminated /\ pc \notin {"close", "failed"} => error = None
  /\ pc = "failed" => error # None
  /\ error # None /\ pc \in {"close", "failed"} => hook = "on"

(* The strengthening: what every point of the future may rely on. *)
ControlOK ==
  /\ pc = "always" => hook = "always"
  /\ pc \in {"always", "dispatch", "guard", "actions", "exit"} => ~fired
  /\ pc = "entry" => fired
  /\ Busy => current_state \in DOMAIN config
  /\ OnControl /\ AlwaysControl /\ ErrorControl /\ CandidateControl /\ PendingControl

----------------------------------------------------------------------------
(* The events put on the channel are events. *)

LEMMA QueueGrows ==
  ASSUME NEW q \in Seq(Event) \cup {None}, NEW e \in Seq(Event)
  PROVE  (IF q # None THEN q \o e ELSE q) \in Seq(Event) \cup {None}
<1>1. CASE q = None
  BY <1>1
<1>2. CASE q # None
  BY <1>2, ConcatProperties
<1>3. QED BY <1>1, <1>2

LEMMA ActivitiesType ==
  ASSUME NEW r \in Seq(ResultEntry), NEW n \in 0 .. Len(r)
  PROVE  [i \in 1 .. Len(r) - n |-> Activity(r[n + i])] \in Seq(Event)
<1>1. Len(r) \in Nat
  BY LenProperties
<1>2. \A i \in 1 .. Len(r) - n : Activity(r[n + i]) \in Event
  <2> TAKE i \in 1 .. Len(r) - n
  <2>1. n + i \in 1 .. Len(r)
    BY <1>1
  <2>2. r[n + i] \in ResultEntry
    BY <2>1, ElementOfSeq
  <2>3. QED BY <2>2 DEF Activity, Event
<1>3. Len(r) - n \in Nat
  BY <1>1
<1>4. [i \in 1 .. Len(r) - n |-> Activity(r[n + i])] \in [1 .. Len(r) - n -> Event]
  BY <1>2
<1>5. QED BY <1>3, <1>4, FunctionIsSeq

----------------------------------------------------------------------------
(* What the accessor reads, the signal callbacks are given, and what the   *)
(* graph and the registries hold.                                          *)

LEMMA GraphType == TypeOK => IsConfig(config)
BY ConfigAssumption DEF TypeOK, ArgsOK

LEMMA TargetsKnown ==
  ASSUME NEW c, InvalidTargets(c) = {}, NEW s \in DOMAIN c
  PROVE  /\ \A t \in AllCandidates(c, s) : t.target \in DOMAIN c
         /\ c[s].error_state \in DOMAIN c \cup {None}
<1> DEFINE Targets(r) == {u.target : u \in AllCandidates(c, r)}
           Error(r) == {c[r].error_state} \ {None}
           All == UNION {Targets(r) \cup Error(r) : r \in DOMAIN c}
<1>1. InvalidTargets(c) = All \ DOMAIN c
  BY DEF InvalidTargets
<1>2. All \subseteq DOMAIN c
  BY <1>1
<1>3. Targets(s) \subseteq All /\ Error(s) \subseteq All
  OBVIOUS
<1>4. QED BY <1>2, <1>3

LEMMA ViewType == TypeOK => CurrentStateDict \in STRING
BY CallAssumption DEF CurrentStateDict, TypeOK, ArgsOK, ContextOK

(* emit_activities, on the results of the batch *)
LEMMA EmittedActivities ==
  ASSUME TypeOK, EmitActivities(n_before)
  PROVE  event_tx' \in Seq(Event) \cup {None}
BY ActivitiesType, QueueGrows DEF EmitActivities, Emit, IsStream, TypeOK, ContextOK, LocalsOK

LEMMA EventsType ==
  ASSUME TypeOK, NEW i \in 1 .. Len(events)
  PROVE  events[i].event \in STRING /\ events[i].data \in Data
<1>1. events \in Seq([event : STRING, data : Data])
  BY CallAssumption DEF TypeOK, ArgsOK
<1>2. events[i] \in [event : STRING, data : Data]
  BY <1>1, ElementOfSeq
<1>3. QED BY <1>2

LEMMA SignalType ==
  ASSUME TypeOK, ControlOK, Busy
  PROVE  Signal.event \in StepName /\ Signal.data \in Data
<1>1. CASE hook = "always"
  <2>1. Signal.event = AlwaysSignal.event /\ Signal.data = ""
    BY <1>1, Zenon DEF Signal, AlwaysSignal
  <2>2. QED BY <2>1, PayloadAssumption, Zenon DEF StepName
<1>2. CASE hook # "always"
  <2>1. taken \in 1 .. Len(events)
    <3>1. taken > 0 /\ taken \in 0 .. Len(events)
      BY <1>2 DEF TypeOK, LocalsOK, Hooks, ControlOK, OnControl, ErrorControl
    <3>2. Len(events) \in Nat
      BY CallAssumption, LenProperties DEF TypeOK, ArgsOK
    <3>3. QED BY <3>1, <3>2
  <2>2. QED BY <1>2, <2>1, EventsType DEF Signal, StepName
<1>3. QED BY <1>1, <1>2

LEMMA AnswerType ==
  ASSUME NEW name \in DOMAIN GuardFns, NEW s \in Sessions, NEW d \in Data,
         NEW passed \in GuardFns[name][<<s, d>>]
  PROVE  passed \in BOOLEAN /\ name \in STRING
<1>1. GuardFns[name] \in [Sessions \X Data -> (SUBSET BOOLEAN) \ {{}}] /\ name \in STRING
  BY CallAssumption DEF GuardFn
<1>2. GuardFns[name][<<s, d>>] \in (SUBSET BOOLEAN) \ {{}}
  BY <1>1
<1>3. QED BY <1>1, <1>2

LEMMA OutcomeType ==
  ASSUME NEW name \in DOMAIN ActionFns, NEW s \in Sessions, NEW d \in Data,
         NEW o \in ActionFns[name][<<s, d>>]
  PROVE  o \in Outcome /\ name \in STRING
<1>1. ActionFns[name] \in [Sessions \X Data -> (SUBSET Outcome) \ {{}}] /\ name \in STRING
  BY CallAssumption DEF ActionFn
<1>2. ActionFns[name][<<s, d>>] \in (SUBSET Outcome) \ {{}}
  BY <1>1
<1>3. QED BY <1>1, <1>2

----------------------------------------------------------------------------
(* What a step that changes few variables leaves as it was. *)

LEMMA ArgsKept ==
  ASSUME TypeOK, UNCHANGED argVars
  PROVE  ArgsOK'
BY DEF TypeOK, ArgsOK, argVars

LEMMA ContextKept ==
  ASSUME TypeOK, UNCHANGED ctxVars
  PROVE  ContextOK'
BY DEF TypeOK, ContextOK, ctxVars

(* An error leaves its hop: in an on hop the step is closed first. *)
LEMMA ErrorType ==
  ASSUME TypeOK, NEW kind \in {"ActionFailed", "UnknownGuard", "UnknownAction", "AlwaysLoopExceeded"},
         NEW state \in STRING \cup {None}, NEW name \in STRING \cup {None}
  PROVE  RunError(kind, state, name) \in Errors
BY DEF RunError, Errors

LEMMA FailsType ==
  ASSUME TypeOK, NEW e \in Errors, Fails(e)
  PROVE  /\ error' = e /\ error' # None /\ error' \in Errors
         /\ pc' = IF hook = "on" THEN "close" ELSE "raised"
         /\ log' \in Seq(LogEntry)
<1>1. [what |-> "fail", hook |-> hook, error |-> e] \in LogEntry
  BY DEF LogEntry, TypeOK, LocalsOK
<1>2. log' \in Seq(LogEntry)
  BY <1>1, SeqGrows DEF Fails, TypeOK, LocalsOK
<1>3. e # None
  BY CallAssumption
<1>4. QED BY <1>2, <1>3 DEF Fails, ClosesOnError

(***************************************************************************)
(* The cascade.                                                            *)
(***************************************************************************)
LEMMA AlwaysLoopExceededOK ==
  ASSUME TypeOK, ControlOK, AlwaysLoopExceeded
  PROVE  TypeOK' /\ ControlOK'
<1>1. ArgsOK' /\ ContextOK'
  BY ArgsKept, ContextKept DEF AlwaysLoopExceeded
<1>2. /\ pc' = "raised" /\ log' \in Seq(LogEntry) /\ error' \in Errors
  <2>1. RunError("AlwaysLoopExceeded", current_state, None) \in Errors
    BY ErrorType DEF TypeOK, ContextOK
  <2>2. QED BY <2>1, FailsType DEF AlwaysLoopExceeded, ControlOK
<1>3. LocalsOK'
  BY <1>2 DEF AlwaysLoopExceeded, TypeOK, LocalsOK, ctxVars, argVars, locals
<1>4. ControlOK'
  BY <1>2 DEF ControlOK, OnControl, AlwaysControl, ErrorControl, CandidateControl,
     PendingControl, Busy, Terminated
<1>5. QED BY <1>1, <1>3, <1>4 DEF TypeOK

LEMMA NothingAlwaysOK ==
  ASSUME TypeOK, ControlOK, NothingAlways
  PROVE  TypeOK' /\ ControlOK'
<1>1. ArgsOK' /\ ContextOK'
  BY ArgsKept, ContextKept DEF NothingAlways
<1>2. LocalsOK'
  BY DEF NothingAlways, TypeOK, LocalsOK, ctxVars, argVars, locals
<1>3. ControlOK'
  BY DEF NothingAlways, ControlOK, OnControl, AlwaysControl, ErrorControl,
     CandidateControl, PendingControl, Busy, Terminated, locals
<1>4. QED BY <1>1, <1>2, <1>3 DEF TypeOK

(* STEP_STARTED and the snapshot. *)
LEMMA OpeningType ==
  ASSUME TypeOK, NEW name \in StepName
  PROVE  OpeningEvents(name) \in Seq(Event)
<1>1. /\ StepStarted(name) \in Event
      /\ StateSnapshot(CurrentStateDict) \in Event
  BY ViewType DEF StepStarted, StateSnapshot, Event
<1>2. QED BY <1>1, Couple DEF OpeningEvents

LEMMA OpenStepType ==
  ASSUME TypeOK, NEW name \in StepName, OpenStep(name)
  PROVE  /\ event_tx' \in Seq(Event) \cup {None}
         /\ state_snapshot' \in STRING \cup {None}
<1>1. event_tx' \in Seq(Event) \cup {None}
  BY OpeningType, QueueGrows DEF OpenStep, Emit, IsStream, TypeOK, ContextOK
<1>2. QED BY <1>1, ViewType DEF OpenStep, SnapshotTaken, TypeOK, ContextOK

LEMMA AlwaysRoundOK ==
  ASSUME TypeOK, ControlOK, AlwaysRound
  PROVE  TypeOK' /\ ControlOK'
<1>0. /\ BeginRound("always", AlwaysSignal.event, Always)
      /\ current_state \in DOMAIN config /\ Always = config[current_state].always
  BY DEF AlwaysRound, Always
<1>1. ArgsOK'
  BY ArgsKept DEF AlwaysRound
<1>2. ContextOK'
  <2>1. AlwaysSignal.event \in StepName
    BY DEF StepName
  <2>2. QED BY <1>0, <2>1, OpenStepType DEF BeginRound, AlwaysRound, TypeOK, ContextOK
<1>3. LocalsOK'
  <2>1. Always \in Seq(TransitionConfig)
    BY <1>0, GraphType, StateConfigType
  <2>2. ci' \in 1 .. Len(cands') + 1 /\ cands' \in Seq(TransitionConfig)
    BY <1>0, <2>1, LenProperties DEF BeginRound
  <2>3. QED BY <1>0, <2>2 DEF BeginRound, AlwaysRound, TypeOK, LocalsOK, Hooks, argVars
<1>4. ControlOK'
  <2>1. depth < MaxDepth
    BY DepthAssumption DEF AlwaysRound, Capped, TypeOK, LocalsOK
  <2>2. QED
    BY <1>0, <2>1
    DEF BeginRound, AlwaysRound, ControlOK, OnControl, AlwaysControl, ErrorControl,
        CandidateControl, PendingControl, Busy, Terminated, Reachable, argVars
<1>5. QED BY <1>1, <1>2, <1>3, <1>4 DEF TypeOK

(***************************************************************************)
(* Dispatch.                                                               *)
(***************************************************************************)
LEMMA ReturnOK ==
  ASSUME TypeOK, ControlOK, Return
  PROVE  TypeOK' /\ ControlOK'
<1>1. ArgsOK' /\ ContextOK'
  BY ArgsKept, ContextKept DEF Return
<1>2. LocalsOK'
  BY DEF Return, TypeOK, LocalsOK, ctxVars, argVars, locals
<1>3. ControlOK'
  BY DEF Return, ControlOK, OnControl, AlwaysControl, ErrorControl,
     CandidateControl, PendingControl, Busy, Terminated, locals
<1>4. QED BY <1>1, <1>2, <1>3 DEF TypeOK

LEMMA TakenType ==
  ASSUME TypeOK, taken < Len(events)
  PROVE  taken + 1 \in 1 .. Len(events) /\ NextEvent \in StepName
<1>1. taken \in 0 .. Len(events) /\ Len(events) \in Nat
  BY CallAssumption, LenProperties DEF TypeOK, LocalsOK, ArgsOK
<1>2. taken + 1 \in 1 .. Len(events)
  BY <1>1
<1>3. QED BY <1>2, EventsType DEF StepName, NextEvent

LEMMA IgnoreSignalOK ==
  ASSUME TypeOK, ControlOK, IgnoreSignal
  PROVE  TypeOK' /\ ControlOK'
<1>1. ArgsOK' /\ ContextOK'
  BY ArgsKept, ContextKept DEF IgnoreSignal
<1>2. LocalsOK'
  <2>1. taken' \in 0 .. Len(events)
    BY TakenType DEF IgnoreSignal, Taken
  <2>2. QED BY <2>1 DEF IgnoreSignal, TypeOK, LocalsOK, ctxVars, argVars
<1>3. ControlOK'
  BY DEF IgnoreSignal, ControlOK, OnControl, AlwaysControl, ErrorControl,
     CandidateControl, PendingControl, Busy, Terminated
<1>4. QED BY <1>1, <1>2, <1>3 DEF TypeOK

LEMMA EmptyRowOK ==
  ASSUME TypeOK, ControlOK, EmptyRow
  PROVE  TypeOK' /\ ControlOK'
<1>1. ArgsOK'
  BY ArgsKept DEF EmptyRow
<1>2. NextEvent \in StepName /\ taken' \in 0 .. Len(events)
  BY TakenType DEF EmptyRow, Taken
<1>3. ContextOK'
  <2>1. StepFinished(NextEvent) \in Event
    BY <1>2 DEF StepFinished, Event
  <2>2. OpeningEvents(NextEvent) \o <<StepFinished(NextEvent)>> \in Seq(Event)
    BY <1>2, <2>1, OpeningType, Singleton, ConcatProperties
  <2>3. event_tx' \in Seq(Event) \cup {None}
    BY <2>2, QueueGrows DEF EmptyRow, Emit, IsStream, TypeOK, ContextOK
  <2>4. QED BY <2>3, ViewType DEF EmptyRow, SnapshotTaken, TypeOK, ContextOK
<1>4. LocalsOK'
  BY <1>2 DEF EmptyRow, TypeOK, LocalsOK, argVars
<1>5. ControlOK'
  BY DEF EmptyRow, ControlOK, OnControl, AlwaysControl, ErrorControl,
     CandidateControl, PendingControl, Busy, Terminated
<1>6. QED BY <1>1, <1>3, <1>4, <1>5 DEF TypeOK

(* A row that is not empty is the one the contract looks up. *)
LEMMA TransitionsLookedUp ==
  ASSUME Transitions # <<>>
  PROVE  /\ Transitions = Lookup(config, current_state, NextEvent)
         /\ current_state \in DOMAIN config
BY DEF Transitions, HasRow, TableRow, Lookup

LEMMA ReceiveSignalOK ==
  ASSUME TypeOK, ControlOK, ReceiveSignal
  PROVE  TypeOK' /\ ControlOK'
<1>0. /\ BeginRound("on", NextEvent, Transitions)
      /\ dispatched' = current_state
      /\ Transitions = Lookup(config, current_state, NextEvent)
      /\ current_state \in DOMAIN config
  BY TransitionsLookedUp DEF ReceiveSignal
<1>1. ArgsOK'
  BY ArgsKept DEF ReceiveSignal
<1>2. taken + 1 \in 1 .. Len(events) /\ NextEvent \in StepName
  BY TakenType DEF ReceiveSignal
<1>3. ContextOK'
  BY <1>0, <1>2, OpenStepType DEF BeginRound, ReceiveSignal, TypeOK, ContextOK
<1>4. LocalsOK'
  <2>1. Transitions \in Seq(TransitionConfig)
    BY <1>0, GraphType, LookupType
  <2>2. ci' \in 1 .. Len(cands') + 1 /\ cands' \in Seq(TransitionConfig)
    BY <1>0, <2>1, LenProperties DEF BeginRound
  <2>3. taken' \in 0 .. Len(events)
    BY <1>2 DEF ReceiveSignal, Taken
  <2>4. QED
    BY <1>0, <2>2, <2>3
    DEF BeginRound, ReceiveSignal, TypeOK, LocalsOK, ContextOK, Hooks, argVars
<1>5. ControlOK'
  <2>1. taken' = taken + 1 /\ taken' > 0
    BY <1>2 DEF ReceiveSignal, Taken, TypeOK, LocalsOK
  <2>2. QED
    BY <1>0, <2>1
    DEF BeginRound, ReceiveSignal, NextEvent, ControlOK, OnControl, AlwaysControl,
        ErrorControl, CandidateControl, PendingControl, Busy, Terminated, Reachable, argVars
<1>6. QED BY <1>1, <1>3, <1>4, <1>5 DEF TypeOK

(***************************************************************************)
(* Guards.                                                                 *)
(***************************************************************************)
LEMMA CandidateType ==
  ASSUME TypeOK, ci <= Len(cands)
  PROVE  /\ ci \in 1 .. Len(cands)
         /\ ci \in 1 .. Len(cands) + 1
         /\ ci + 1 \in 1 .. Len(cands) + 1
         /\ Candidate.guard \in STRING \cup {None}
         /\ Candidate.actions \in Seq(STRING)
         /\ Candidate.target \in STRING
<1>1. cands \in Seq(TransitionConfig) /\ ci \in 1 .. Len(cands) + 1
  BY DEF TypeOK, LocalsOK
<1>2. Len(cands) \in Nat /\ DOMAIN cands = 1 .. Len(cands)
  BY <1>1, LenProperties
<1>3. ci \in 1 .. Len(cands) /\ ci + 1 \in 1 .. Len(cands) + 1
  BY <1>1, <1>2
<1>4. QED BY <1>1, <1>2, <1>3, TargetType DEF Candidate

LEMMA ResultType ==
  ASSUME TypeOK, ControlOK, pc \in {"guard", "actions", "exit", "entry"},
         NEW kind \in {"guard", "action"}, NEW name \in STRING,
         NEW value \in BOOLEAN \cup {None}
  PROVE  Entry(kind, name, value) \in ResultEntry
<1>1. Source \in {"on", "always", "entry", "exit"}
  BY DEF Source, TypeOK, LocalsOK, Hooks, ControlOK, ErrorControl, Busy
<1>2. current_state \in STRING
  BY DEF TypeOK, ContextOK
<1>3. QED BY <1>1, <1>2 DEF Entry, ResultEntry

LEMMA PassUnguardedOK ==
  ASSUME TypeOK, ControlOK, PassUnguarded
  PROVE  TypeOK' /\ ControlOK'
<1>1. ArgsOK' /\ ContextOK'
  BY ArgsKept, ContextKept DEF PassUnguarded, ctxVars
<1>2. Candidate.actions \in Seq(STRING) /\ Len(results) \in 0 .. Len(results)
  BY CandidateType, LenProperties DEF PassUnguarded, TypeOK, ContextOK
<1>3. LocalsOK'
  BY <1>2 DEF PassUnguarded, StartBatch, TypeOK, LocalsOK, argVars
<1>4. ControlOK'
  BY DEF PassUnguarded, StartBatch, ControlOK, OnControl, AlwaysControl, ErrorControl,
     CandidateControl, PendingControl, Busy, Terminated, argVars
<1>5. QED BY <1>1, <1>3, <1>4 DEF TypeOK

LEMMA EvalGuardOK ==
  ASSUME TypeOK, ControlOK, EvalGuard
  PROVE  TypeOK' /\ ControlOK'
<1>1. ArgsOK'
  BY ArgsKept DEF EvalGuard
<1>2. PICK passed \in GuardFns[Candidate.guard][<<session, Signal.data>>] :
        /\ results' = Append(results, Entry("guard", Candidate.guard, passed))
        /\ Emit(<<Activity(Entry("guard", Candidate.guard, passed))>>)
        /\ IF passed
             THEN StartBatch("actions", Candidate.actions) /\ UNCHANGED ci
             ELSE ci' = ci + 1 /\ UNCHANGED <<pc, batch, n_before>>
  BY DEF EvalGuard
<1>3. passed \in BOOLEAN /\ Candidate.guard \in STRING
  <2>1. Signal.data \in Data
    BY SignalType DEF EvalGuard, Busy
  <2>2. QED
    BY <2>1, AnswerType DEF EvalGuard, TypeOK, ContextOK
<1>4. Entry("guard", Candidate.guard, passed) \in ResultEntry
  BY <1>3, ResultType DEF EvalGuard
<1>5. /\ results' \in Seq(ResultEntry)
      /\ Len(results) \in Nat
      /\ Len(results') = Len(results) + 1
  BY <1>2, <1>4, SeqGrows, LenProperties DEF TypeOK, ContextOK
<1>6. event_tx' \in Seq(Event) \cup {None}
  <2>1. Activity(Entry("guard", Candidate.guard, passed)) \in Event
    BY <1>4 DEF Activity, Event
  <2>2. <<Activity(Entry("guard", Candidate.guard, passed))>> \in Seq(Event)
    BY <2>1, Singleton
  <2>3. QED BY <1>2, <2>2, QueueGrows DEF Emit, IsStream, TypeOK, ContextOK
<1>7. ContextOK'
  BY <1>5, <1>6 DEF EvalGuard, TypeOK, ContextOK
<1>8. /\ ci \in 1 .. Len(cands) /\ ci + 1 \in 1 .. Len(cands) + 1
      /\ Candidate.actions \in Seq(STRING)
  BY CandidateType DEF EvalGuard
<1>9. LocalsOK'
  BY <1>2, <1>3, <1>5, <1>8 DEF EvalGuard, StartBatch, TypeOK, LocalsOK, argVars
<1>10. ControlOK'
  <2>1. Reachable(cands, ci) /\ cands[ci].guard # None
    BY CallAssumption, <1>3
    DEF EvalGuard, ControlOK, CandidateControl, ErrorControl, Busy, Candidate
  <2>2. Reachable(cands, ci + 1)
    BY <2>1, <1>8 DEF Reachable
  <2>3. QED
    BY <1>2, <1>3, <1>8, <2>1, <2>2
    DEF EvalGuard, StartBatch, ControlOK, OnControl, AlwaysControl, ErrorControl,
        CandidateControl, PendingControl, Busy, Terminated, argVars
<1>11. QED BY <1>1, <1>7, <1>9, <1>10 DEF TypeOK

LEMMA NoneFiredOK ==
  ASSUME TypeOK, ControlOK, NoneFired
  PROVE  TypeOK' /\ ControlOK'
<1>1. ArgsOK' /\ ContextOK'
  BY ArgsKept, ContextKept DEF NoneFired
<1>2. LocalsOK'
  BY DEF NoneFired, TypeOK, LocalsOK, ctxVars, argVars, locals
<1>3. AllRefusable(cands) /\ hook # "error"
  <2>1. ci = Len(cands) + 1
    <3>1. Len(cands) \in Nat /\ ci \in 1 .. Len(cands) + 1
      BY LenProperties DEF TypeOK, LocalsOK
    <3>2. QED BY <3>1 DEF NoneFired
  <2>2. QED
    BY <2>1 DEF NoneFired, ControlOK, CandidateControl, ErrorControl, Busy, AllRefusable
<1>4. ControlOK'
  BY <1>3 DEF NoneFired, ControlOK, OnControl, AlwaysControl, ErrorControl, CandidateControl,
     PendingControl, Busy, Terminated, ctxVars, argVars, locals
<1>5. QED BY <1>1, <1>2, <1>4 DEF TypeOK

(***************************************************************************)
(* Actions.                                                                *)
(***************************************************************************)
LEMMA BatchType ==
  ASSUME TypeOK, batch # <<>>
  PROVE  Head(batch) \in STRING /\ Tail(batch) \in Seq(STRING)
BY HeadTailProperties DEF TypeOK, LocalsOK

LEMMA RunActionOK ==
  ASSUME TypeOK, ControlOK, RunAction
  PROVE  TypeOK' /\ ControlOK'
<1>1. ArgsOK'
  BY ArgsKept DEF RunAction
<1>2. session' \in Sessions
  <2>1. PICK o \in ActionFns[Head(batch)][<<session, Signal.data>>] : session' = o.session
    BY DEF RunAction
  <2>2. Signal.data \in Data
    BY SignalType DEF RunAction, InBatch, Busy
  <2>3. o \in Outcome
    BY <2>2, OutcomeType DEF RunAction, TypeOK, ContextOK
  <2>4. QED BY <2>1, <2>3 DEF Outcome
<1>3. Entry("action", Head(batch), None) \in ResultEntry
  BY BatchType, ResultType DEF RunAction, InBatch
<1>4. /\ results' \in Seq(ResultEntry)
      /\ Len(results) \in Nat
      /\ Len(results') = Len(results) + 1
  BY <1>3, SeqGrows, LenProperties DEF RunAction, TypeOK, ContextOK
<1>5. ContextOK'
  BY <1>2, <1>4 DEF RunAction, TypeOK, ContextOK
<1>6. LocalsOK'
  BY <1>4, BatchType DEF RunAction, TypeOK, LocalsOK, argVars
<1>7. ControlOK'
  <2>1. OnControl' /\ AlwaysControl'
    BY DEF RunAction, InBatch, ControlOK, OnControl, AlwaysControl, Busy, argVars
  <2>2. ErrorControl'
    BY DEF RunAction, InBatch, ControlOK, ErrorControl, Busy, RecoveryState, argVars
  <2>3. CandidateControl' /\ PendingControl'
    BY DEF RunAction, InBatch, ControlOK, CandidateControl, PendingControl, Reachable, Terminated
  <2>4. QED
    BY <2>1, <2>2, <2>3 DEF RunAction, InBatch, ControlOK, Busy, argVars
<1>8. QED BY <1>1, <1>5, <1>6, <1>7 DEF TypeOK

(***************************************************************************)
(* The three ways a callback fails.                                        *)
(***************************************************************************)
LEMMA CallbackFailsOK ==
  ASSUME TypeOK, ControlOK, pc \in {"guard", "actions", "exit", "entry"},
         NEW e \in Errors, Fails(e), session' \in Sessions,
         UNCHANGED <<argVars, current_state, history, results, event_tx,
                     state_snapshot, locals>>
  PROVE  TypeOK' /\ ControlOK'
<1>1. ArgsOK'
  BY ArgsKept
<1>2. ContextOK'
  BY DEF TypeOK, ContextOK
<1>3. /\ error' \in Errors /\ error' # None /\ log' \in Seq(LogEntry)
      /\ pc' = IF hook = "on" THEN "close" ELSE "raised"
  BY FailsType
<1>4. LocalsOK'
  BY <1>3 DEF TypeOK, LocalsOK, locals, argVars
<1>5. ControlOK'
  <2>1. OnControl'
    BY <1>3 DEF ControlOK, OnControl, Busy, locals, argVars
  <2>2. AlwaysControl' /\ ErrorControl'
    BY <1>3 DEF AlwaysControl, ErrorControl, Busy, locals
  <2>3. CandidateControl'
    BY <1>3 DEF CandidateControl, locals
  <2>4. PendingControl'
    BY <1>3 DEF PendingControl, Terminated, locals
  <2>5. Busy' => current_state' \in DOMAIN config'
    BY DEF ControlOK, Busy, argVars
  <2>6. QED BY <1>3, <2>1, <2>2, <2>3, <2>4, <2>5 DEF ControlOK
<1>6. QED BY <1>1, <1>2, <1>4, <1>5 DEF TypeOK

LEMMA UnknownGuardOK ==
  ASSUME TypeOK, ControlOK, UnknownGuard
  PROVE  TypeOK' /\ ControlOK'
<1>1. RunError("UnknownGuard", None, Candidate.guard) \in Errors
  BY CandidateType, ErrorType DEF UnknownGuard
<1>2. QED
  BY <1>1, CallbackFailsOK DEF UnknownGuard, TypeOK, ContextOK, ctxVars

LEMMA UnknownActionOK ==
  ASSUME TypeOK, ControlOK, UnknownAction
  PROVE  TypeOK' /\ ControlOK'
<1>1. RunError("UnknownAction", None, Head(batch)) \in Errors
  BY BatchType, ErrorType DEF UnknownAction
<1>2. QED
  BY <1>1, CallbackFailsOK DEF UnknownAction, InBatch, TypeOK, ContextOK, ctxVars

LEMMA ActionFailedOK ==
  ASSUME TypeOK, ControlOK, ActionFailed
  PROVE  TypeOK' /\ ControlOK'
<1>1. RunError("ActionFailed", current_state, Head(batch)) \in Errors
  BY BatchType, ErrorType DEF ActionFailed, TypeOK, ContextOK
<1>2. session' \in Sessions
  <2>1. PICK o \in ActionFns[Head(batch)][<<session, Signal.data>>] : session' = o.session
    BY DEF ActionFailed
  <2>2. Signal.data \in Data
    BY SignalType DEF ActionFailed, InBatch, Busy
  <2>3. o \in Outcome
    BY <2>2, OutcomeType DEF ActionFailed, TypeOK, ContextOK
  <2>4. QED BY <2>1, <2>3 DEF Outcome
<1>3. QED
  BY <1>1, <1>2, CallbackFailsOK DEF ActionFailed, InBatch

LEMMA TransitionActionsDoneOK ==
  ASSUME TypeOK, ControlOK, TransitionActionsDone
  PROVE  TypeOK' /\ ControlOK'
<1>1. ArgsOK'
  BY ArgsKept DEF TransitionActionsDone
<1>2. ContextOK'
  BY EmittedActivities DEF TransitionActionsDone, TypeOK, ContextOK
<1>3. config[current_state].exit \in Seq(STRING)
  BY GraphType, StateConfigType DEF TransitionActionsDone, ControlOK, Busy
<1>4. LocalsOK'
  BY <1>3, LenProperties DEF TransitionActionsDone, StartBatch, TypeOK, ContextOK, LocalsOK, argVars
<1>5. ControlOK'
  BY DEF TransitionActionsDone, StartBatch, ControlOK, OnControl, AlwaysControl, ErrorControl,
     CandidateControl, PendingControl, Busy, Terminated, RecoveryState, argVars
<1>6. QED BY <1>1, <1>2, <1>4, <1>5 DEF TypeOK

(***************************************************************************)
(* Entering a state.                                                       *)
(***************************************************************************)

(* Every place a hop can lead to is a state of the graph. *)
LEMMA TargetKnown ==
  ASSUME TypeOK, ControlOK, pc = "exit"
  PROVE  Target \in DOMAIN config
<1>1. InvalidTargets(config) = {}
  BY ConfigAssumption DEF TypeOK, ArgsOK
<1>2. CASE hook = "error"
  BY <1>1, <1>2, TargetsKnown DEF Target, RecoveryState, ControlOK, ErrorControl, Busy
<1>3. CASE hook # "error"
  <2>1. /\ ci \in 1 .. Len(cands)
        /\ cands \in Seq(TransitionConfig) /\ ci \in DOMAIN cands
    BY <1>3, CandidateType, LenProperties DEF ControlOK, CandidateControl, TypeOK, LocalsOK
  <2>2. \E s \in DOMAIN config : Candidate \in AllCandidates(config, s)
    <3>1. CASE hook = "on"
      BY <2>1, <3>1, LookedUpIsCandidate DEF ControlOK, OnControl, Busy, Candidate
    <3>2. CASE hook = "always"
      BY <2>1, <3>2 DEF ControlOK, AlwaysControl, Busy, Candidate, AllCandidates, Elements
    <3>3. QED BY <1>3, <3>1, <3>2 DEF TypeOK, LocalsOK, Hooks
  <2>3. QED BY <1>1, <1>3, <2>2, TargetsKnown DEF Target
<1>4. QED BY <1>2, <1>3

LEMMA ChangeStateOK ==
  ASSUME TypeOK, ControlOK, ChangeState
  PROVE  TypeOK' /\ ControlOK'
<1>1. ArgsOK'
  BY ArgsKept DEF ChangeState
<1>2. Target \in DOMAIN config /\ Target \in STRING /\ EntryActions \in Seq(STRING)
  BY TargetKnown, GraphType, StateConfigType DEF ChangeState, EntryActions
<1>3. ContextOK'
  <2>1. event_tx' \in Seq(Event) \cup {None}
    BY EmittedActivities DEF ChangeState
  <2>2. /\ history' \in Seq(STRING) /\ Len(history') > 0
        /\ current_state' = history'[Len(history')]
    BY <1>2, SeqGrows DEF ChangeState, TypeOK, ContextOK
  <2>3. QED BY <1>2, <2>1, <2>2 DEF ChangeState, TypeOK, ContextOK
<1>4. LocalsOK'
  <2>1. [what |-> "hop", hook |-> hook, dispatched |-> dispatched,
         from |-> current_state, to |-> Target] \in LogEntry
    BY <1>2 DEF LogEntry, TypeOK, ContextOK, LocalsOK
  <2>2. log' \in Seq(LogEntry)
    BY <2>1, SeqGrows DEF ChangeState, TypeOK, LocalsOK
  <2>3. /\ pc' = "entry" /\ batch' \in Seq(STRING) /\ n_before' \in 0 .. Len(results')
    BY <1>2, LenProperties DEF ChangeState, StartBatch, TypeOK, ContextOK
  <2>4. QED BY <2>2, <2>3 DEF ChangeState, TypeOK, LocalsOK, argVars
<1>5. ControlOK'
  <2>1. OnControl' /\ AlwaysControl'
    BY DEF ChangeState, StartBatch, ControlOK, OnControl, AlwaysControl, Busy, argVars
  <2>2. ErrorControl'
    BY DEF ChangeState, StartBatch, ControlOK, ErrorControl, Busy, RecoveryState, argVars
  <2>3. CandidateControl' /\ PendingControl'
    BY DEF ChangeState, StartBatch, ControlOK, CandidateControl, PendingControl, Terminated
  <2>4. QED
    BY <1>2, <2>1, <2>2, <2>3 DEF ChangeState, StartBatch, ControlOK, argVars
<1>6. QED BY <1>1, <1>3, <1>4, <1>5 DEF TypeOK

LEMMA EntryActionsDoneOK ==
  ASSUME TypeOK, ControlOK, EntryActionsDone
  PROVE  TypeOK' /\ ControlOK'
<1>1. ArgsOK'
  BY ArgsKept DEF EntryActionsDone
<1>2. ContextOK'
  BY EmittedActivities DEF EntryActionsDone, TypeOK, ContextOK
<1>3. LocalsOK'
  BY DEF EntryActionsDone, TypeOK, LocalsOK, locals, argVars
<1>4. ControlOK'
  <2>1. OnControl' /\ AlwaysControl'
    BY DEF EntryActionsDone, ControlOK, OnControl, AlwaysControl, Busy, locals, argVars
  <2>2. ErrorControl'
    BY DEF EntryActionsDone, ControlOK, ErrorControl, Busy, RecoveryState, locals, argVars
  <2>3. CandidateControl' /\ PendingControl'
    BY DEF EntryActionsDone, ControlOK, CandidateControl, PendingControl, Terminated, locals
  <2>4. QED
    BY <2>1, <2>2, <2>3 DEF EntryActionsDone, ControlOK, Busy, locals, argVars
<1>5. QED BY <1>1, <1>2, <1>3, <1>4 DEF TypeOK

(***************************************************************************)
(* The end of a round.                                                     *)
(***************************************************************************)
LEMMA ClosingType ==
  ASSUME TypeOK, NEW name \in StepName
  PROVE  ClosingEvents(name) \in Seq(Event)
<1>1. CurrentStateDict \in STRING /\ state_snapshot \in STRING \cup {None}
  BY ViewType DEF TypeOK, ContextOK
<1>2. /\ StateDelta(state_snapshot, CurrentStateDict) \in Event
      /\ StepFinished(name) \in Event
  BY <1>1 DEF StateDelta, StepFinished, Event
<1>3. /\ <<StateDelta(state_snapshot, CurrentStateDict)>> \in Seq(Event)
      /\ <<StepFinished(name)>> \in Seq(Event)
      /\ <<>> \in Seq(Event)
  BY <1>2, Singleton
<1>4. (IF state_snapshot = CurrentStateDict THEN <<>>
       ELSE <<StateDelta(state_snapshot, CurrentStateDict)>>) \in Seq(Event)
  BY <1>3
<1>5. QED BY <1>3, <1>4, ConcatProperties DEF ClosingEvents

LEMMA CloseStepOK ==
  ASSUME TypeOK, ControlOK, CloseStep
  PROVE  TypeOK' /\ ControlOK'
<1>1. ArgsOK'
  BY ArgsKept DEF CloseStep
<1>2. ContextOK'
  <2>1. Signal.event \in StepName
    BY SignalType DEF CloseStep, Busy
  <2>2. event_tx' \in Seq(Event) \cup {None}
    BY <2>1, ClosingType, QueueGrows DEF CloseStep, Emit, IsStream, TypeOK, ContextOK
  <2>3. QED BY <2>2, ViewType DEF CloseStep, SnapshotTaken, TypeOK, ContextOK
<1>3. LocalsOK'
  <2>1. NextDepth \in 0 .. MaxDepth
    BY DepthAssumption
    DEF NextDepth, CloseStep, ControlOK, AlwaysControl, Busy, TypeOK, LocalsOK
  <2>2. /\ depth' \in 0 .. MaxDepth /\ fired' \in BOOLEAN /\ hook' \in Hooks
        /\ pc' \in {"failed", "always", "dispatch"}
    BY <2>1 DEF CloseStep, TypeOK, LocalsOK, Hooks
  <2>3. QED BY <2>2 DEF CloseStep, TypeOK, LocalsOK, argVars
<1>4. ControlOK'
  <2>1. CASE error # None
    <3>1. /\ pc' = "failed" /\ hook' = "on" /\ hook = "on"
          /\ UNCHANGED <<fired, error, taken, dispatched, cands, config, events, current_state>>
      BY <2>1 DEF CloseStep, ControlOK, PendingControl, argVars
    <3>2. OnControl'
      BY <3>1 DEF CloseStep, ControlOK, OnControl, Busy
    <3>3. AlwaysControl' /\ ErrorControl' /\ CandidateControl' /\ PendingControl'
      BY <2>1, <3>1 DEF AlwaysControl, ErrorControl, CandidateControl, PendingControl, Terminated
    <3>4. current_state' \in DOMAIN config'
      BY <3>1 DEF CloseStep, ControlOK, Busy
    <3>5. QED BY <3>1, <3>2, <3>3, <3>4 DEF ControlOK
  <2>2. CASE error = None
    <3>1. /\ ~fired' /\ error' = None
          /\ (pc' = "always" /\ hook' = "always") \/ pc' = "dispatch"
      BY <2>2 DEF CloseStep, Cascades, TypeOK, LocalsOK
    <3>2. QED
      BY <3>1 DEF ControlOK, OnControl, AlwaysControl, ErrorControl, CandidateControl,
         PendingControl, Busy, Terminated
  <2>3. QED BY <2>1, <2>2
<1>5. QED BY <1>1, <1>2, <1>3, <1>4 DEF TypeOK

(***************************************************************************)
(* Errors.                                                                 *)
(***************************************************************************)
LEMMA RouteToErrorStateOK ==
  ASSUME TypeOK, ControlOK, RouteToErrorState
  PROVE  TypeOK' /\ ControlOK'
<1>0. /\ RecoveryState # None /\ taken > 0
      /\ dispatched \in DOMAIN config /\ current_state \in DOMAIN config
  BY DEF RouteToErrorState, Recovers, ControlOK, OnControl, PendingControl, Busy
<1>1. ArgsOK'
  BY ArgsKept DEF RouteToErrorState
<1>2. ContextOK'
  <2>1. Signal.event \in StepName
    BY SignalType DEF RouteToErrorState, Busy
  <2>2. QED BY <2>1, OpenStepType DEF RouteToErrorState, TypeOK, ContextOK
<1>3. LocalsOK'
  <2>1. config[current_state].exit \in Seq(STRING) /\ Len(results) \in 0 .. Len(results)
    BY <1>0, GraphType, StateConfigType, LenProperties DEF TypeOK, ContextOK
  <2>2. QED BY <2>1 DEF RouteToErrorState, StartBatch, TypeOK, LocalsOK, Hooks, argVars
<1>4. ControlOK'
  <2>1. hook' = "error" /\ ~fired' /\ pc' = "exit" /\ error' = None
    BY DEF RouteToErrorState, StartBatch
  <2>2. ErrorControl'
    BY <1>0, <2>1 DEF RouteToErrorState, ErrorControl, RecoveryState, argVars
  <2>3. current_state' \in DOMAIN config'
    BY <1>0 DEF RouteToErrorState, argVars
  <2>4. QED
    BY <2>1, <2>2, <2>3
    DEF ControlOK, OnControl, AlwaysControl, CandidateControl, PendingControl
<1>5. QED BY <1>1, <1>2, <1>3, <1>4 DEF TypeOK

LEMMA PropagateOK ==
  ASSUME TypeOK, ControlOK, Propagate
  PROVE  TypeOK' /\ ControlOK'
<1>1. ArgsOK' /\ ContextOK'
  BY ArgsKept, ContextKept DEF Propagate
<1>2. LocalsOK'
  BY DEF Propagate, TypeOK, LocalsOK, ctxVars, argVars, locals
<1>3. ControlOK'
  BY DEF Propagate, ControlOK, OnControl, AlwaysControl, ErrorControl,
     CandidateControl, PendingControl, Busy, Terminated
<1>4. QED BY <1>1, <1>2, <1>3 DEF TypeOK

LEMMA StutterOK ==
  ASSUME TypeOK, ControlOK, UNCHANGED vars
  PROVE  TypeOK' /\ ControlOK'
<1>1. ArgsOK' /\ ContextOK'
  BY ArgsKept, ContextKept DEF vars
<1>2. LocalsOK'
  BY DEF vars, argVars, ctxVars, locals, TypeOK, LocalsOK
<1>3. OnControl' /\ AlwaysControl'
  BY DEF vars, argVars, ctxVars, locals, ControlOK, OnControl, AlwaysControl, Busy
<1>4. ErrorControl'
  BY DEF vars, argVars, ctxVars, locals, ControlOK, ErrorControl, RecoveryState, Busy
<1>5. CandidateControl' /\ PendingControl'
  BY DEF vars, locals, ControlOK, CandidateControl, PendingControl, Terminated
<1>6. ControlOK'
  BY <1>3, <1>4, <1>5 DEF vars, argVars, ctxVars, locals, ControlOK, Busy
<1>7. QED BY <1>1, <1>2, <1>6 DEF TypeOK

(* Every call starts well typed, settling the state it was given. *)
LEMMA InitOK == Init => TypeOK /\ ControlOK
<1> SUFFICES ASSUME Init PROVE TypeOK /\ ControlOK
  OBVIOUS
<1>0. current_state \in STRING /\ events \in Seq([event : STRING, data : Data])
  BY CallAssumption DEF Init
<1>1. ArgsOK
  BY DEF Init, ArgsOK
<1>2. ContextOK
  <2>1. history \in Seq(STRING) /\ Len(history) = 1 /\ current_state = history[1]
    BY <1>0, Singleton DEF Init
  <2>2. QED BY <1>0, <2>1 DEF Init, ContextOK
<1>3. LocalsOK
  <2>1. Len(events) \in Nat /\ Len(results) = 0
    BY <1>0, LenProperties DEF Init
  <2>2. taken \in 0 .. Len(events) /\ n_before \in 0 .. Len(results) /\ depth \in 0 .. MaxDepth
    BY <2>1, DepthAssumption DEF Init
  <2>3. cands \in Seq(TransitionConfig) /\ ci \in 1 .. Len(cands) + 1
    BY DEF Init
  <2>4. batch \in Seq(STRING) /\ log \in Seq(LogEntry)
    BY DEF Init
  <2>5. QED BY <1>0, <2>2, <2>3, <2>4 DEF Init, LocalsOK, Hooks
<1>4. ControlOK
  BY DEF Init, ControlOK, OnControl, AlwaysControl, ErrorControl, CandidateControl,
     PendingControl, Busy
<1>5. QED BY <1>1, <1>2, <1>3, <1>4 DEF TypeOK

(* Every step keeps both. *)
LEMMA StepOK == TypeOK /\ ControlOK /\ [Next]_vars => TypeOK' /\ ControlOK'
BY AlwaysLoopExceededOK, NothingAlwaysOK, AlwaysRoundOK, ReturnOK, IgnoreSignalOK,
   EmptyRowOK, ReceiveSignalOK, PassUnguardedOK, EvalGuardOK, UnknownGuardOK,
   NoneFiredOK, RunActionOK, ActionFailedOK, UnknownActionOK,
   TransitionActionsDoneOK, ChangeStateOK, EntryActionsDoneOK, CloseStepOK,
   RouteToErrorStateOK, PropagateOK, StutterOK
DEF Next, Step, Done

(***************************************************************************)
(* TypeOK and ControlOK are invariants of every call of the Rust engine:   *)
(* an index is in range because of the list it is known to run over, and a *)
(* hop is under way only in a state the graph has, so the `config.get` of  *)
(* enter, written config[current_state] here, never comes back empty.      *)
(***************************************************************************)
THEOREM TypeAndControl == Spec => [](TypeOK /\ ControlOK)
BY StepOK, InitOK, PTL DEF Spec

(* What a reader of the two may rely on: every variable is in its range,   *)
(* and the state a round or a hop is under way in is one of the graph.     *)
THEOREM TypeCorrect == Spec => [](TypeOK /\ (Busy => current_state \in DOMAIN config))
<1>1. TypeOK /\ ControlOK => TypeOK /\ (Busy => current_state \in DOMAIN config)
  BY DEF ControlOK
<1>2. QED BY <1>1, TypeAndControl, PTL

THEOREM ControlCorrect == Spec => []ControlOK
BY TypeAndControl, PTL

----------------------------------------------------------------------------
(***************************************************************************)
(* Implementation of Statechart.                                           *)
(***************************************************************************)

(* The contract looks candidates up as Schema does. *)
LEMMA SameLookups ==
  /\ \A c, s, e : Contract!Lookup(c, s, e) = Lookup(c, s, e)
  /\ \A c, s, e : Contract!TableRow(c, s, e) = TableRow(c, s, e)
  /\ \A c, s, e : Contract!HasRow(c, s, e) = HasRow(c, s, e)
  /\ \A list, i : Contract!Reachable(list, i) = Reachable(list, i)
  /\ \A list : Contract!AllRefusable(list) = AllRefusable(list)
BY DEF Contract!Lookup, Contract!TableRow, Contract!HasRow, Contract!Wildcard,
   Contract!Reachable, Contract!AllRefusable, Lookup, TableRow, HasRow, Wildcard,
   Reachable, AllRefusable

LEMMA SameCurrent == TypeOK => Contract!current = current_state
BY DEF TypeOK, ContextOK, Contract!current

LEMMA InitRefines == Init => Contract!Init
<1> SUFFICES ASSUME Init PROVE Contract!Init
  OBVIOUS
<1>1. Contract!current = current_state
  BY DEF Init, Contract!current
<1>2. Mode = "cascading" /\ Hops = 0
  BY DEF Init, Mode, Hops, Terminated
<1>3. QED BY <1>1, <1>2 DEF Init, Contract!Init

(* A step that leaves the graph, the path and the phase alone is invisible. *)
LEMMA InvisibleStep ==
  ASSUME UNCHANGED <<config, events, history, taken, dispatched>>,
         UNCHANGED <<hook, fired, depth>>,
         ~Terminated, ~Terminated', pc # "dispatch", pc' # "dispatch"
  PROVE  UNCHANGED Contract!vars
BY DEF Contract!vars, Mode, Hops

LEMMA SettleRefines ==
  ASSUME TypeOK, ControlOK, NothingAlways
  PROVE  Contract!Settle
<1>1. /\ Mode = "cascading" /\ Mode' = "idle" /\ Hops = depth /\ Hops' = depth
  BY DEF NothingAlways, ControlOK, Mode, Hops, Terminated, locals
<1>2. depth < MaxDepth
  BY DepthAssumption DEF NothingAlways, Capped, TypeOK, LocalsOK
<1>3. current_state \in DOMAIN config => AllRefusable(config[current_state].always)
  BY DEF NothingAlways, Always, AllRefusable, Reachable
<1>4. QED
  BY <1>1, <1>2, <1>3, SameLookups, SameCurrent
  DEF NothingAlways, Contract!Settle, Contract!MayCascade, argVars, ctxVars, locals

(* A signal nothing matches, or whose row is empty, is dropped. *)
LEMMA IgnoreRefines ==
  ASSUME TypeOK, ControlOK, IgnoreSignal \/ EmptyRow
  PROVE  Contract!Ignore
<1>1. Mode = "idle" /\ Mode' = "idle" /\ Hops' = Hops
  BY DEF IgnoreSignal, EmptyRow, Mode, Hops, Terminated
<1>2. \/ Lookup(config, current_state, NextEvent) = <<>>
      \/ HasRow(config, current_state, NextEvent) /\ TableRow(config, current_state, NextEvent) = <<>>
  BY DEF IgnoreSignal, EmptyRow, Matched, Transitions, Lookup, TableRow, HasRow
<1>3. Contract!NoCandidate(NextEvent)
  BY <1>2, SameLookups, SameCurrent DEF Contract!NoCandidate
<1>4. QED
  BY <1>1, <1>3
  DEF IgnoreSignal, EmptyRow, NextEvent, Taken, Contract!Ignore, Contract!NextTaken,
      argVars, ctxVars

LEMMA TakeRefines ==
  ASSUME TypeOK, ControlOK, ReceiveSignal
  PROVE  Contract!Take
<1>1. Mode = "idle" /\ Mode' = "reacting" /\ Hops' = Hops
  BY DEF ReceiveSignal, BeginRound, ControlOK, Mode, Hops, Terminated
<1>2. Lookup(config, current_state, NextEvent) # <<>>
  BY TransitionsLookedUp DEF ReceiveSignal
<1>3. QED
  BY <1>1, <1>2, SameLookups, SameCurrent
  DEF ReceiveSignal, NextEvent, Taken, Contract!Take, Contract!NextTaken, argVars

(* The hop: which of the contract's hops it is depends on the round. *)
LEMMA ChangeStateRefines ==
  ASSUME TypeOK, ControlOK, ChangeState
  PROVE  Contract!AlwaysHop \/ Contract!React \/ Contract!Recover
<1>1. /\ UNCHANGED <<config, events, taken, dispatched, hook, depth>>
      /\ ~fired /\ fired' /\ history' = Append(history, Target)
      /\ pc = "exit" /\ pc' = "entry"
  BY DEF ChangeState, StartBatch, ControlOK, argVars
<1>2. CASE hook = "always"
  <2>1. Mode = "cascading" /\ Mode' = "cascading" /\ Hops = depth /\ Hops' = depth + 1
    BY <1>1, <1>2 DEF Mode, Hops, Terminated
  <2>2. /\ depth < MaxDepth /\ current_state \in DOMAIN config
        /\ cands = config[current_state].always /\ Reachable(cands, ci) /\ ci <= Len(cands)
    BY <1>1, <1>2 DEF ControlOK, AlwaysControl, CandidateControl, Busy
  <2>3. ci \in DOMAIN config[current_state].always
    BY <2>2, CandidateType, LenProperties DEF TypeOK, LocalsOK
  <2>4. Target = config[current_state].always[ci].target
    BY <1>2, <2>2 DEF Target, Candidate
  <2>5. QED
    BY <1>1, <2>1, <2>2, <2>3, <2>4, SameLookups, SameCurrent
    DEF Contract!AlwaysHop, Contract!MayCascade, Contract!HopsCounted, Contract!Goto
<1>3. CASE hook = "on"
  <2>1. Mode = "reacting" /\ Mode' = "entering" /\ Hops = depth /\ Hops' = depth
    BY <1>1, <1>3 DEF Mode, Hops, Terminated
  <2>2. /\ cands = Lookup(config, dispatched, events[taken].event)
        /\ Reachable(cands, ci) /\ ci <= Len(cands)
    BY <1>1, <1>3 DEF ControlOK, OnControl, CandidateControl, Busy
  <2>3. Contract!Offered = cands
    BY <2>2, SameLookups DEF Contract!Offered
  <2>4. ci \in DOMAIN Contract!Offered
    BY <2>2, <2>3, CandidateType, LenProperties DEF TypeOK, LocalsOK
  <2>5. Target = Contract!Offered[ci].target
    BY <1>3, <2>3 DEF Target, Candidate
  <2>6. QED
    BY <1>1, <2>1, <2>2, <2>3, <2>4, <2>5, SameLookups DEF Contract!React, Contract!Goto
<1>4. CASE hook = "error"
  <2>1. Mode = "recovering" /\ Mode' = "cascading" /\ Hops' = 0
    BY <1>1, <1>4 DEF Mode, Hops, Terminated
  <2>2. QED
    BY <1>1, <1>4, <2>1 DEF Target, RecoveryState, Contract!Recover, Contract!Goto
<1>5. QED BY <1>2, <1>3, <1>4 DEF TypeOK, LocalsOK, Hooks

(* The end of a round that failed, moved, or was refused. *)
LEMMA CloseStepRefines ==
  ASSUME TypeOK, ControlOK, CloseStep
  PROVE  Contract!Enter \/ Contract!Refuse \/ Contract!Settle \/ UNCHANGED Contract!vars
<1>0. UNCHANGED <<config, events, taken, dispatched, history>> /\ pc = "close"
  BY DEF CloseStep, argVars
<1>1. CASE error # None
  <2>1. UNCHANGED <<hook, fired, depth>> /\ pc' = "failed"
    BY <1>1 DEF CloseStep
  <2>2. QED BY <1>0, <2>1, InvisibleStep DEF Terminated
<1>2. CASE error = None /\ fired
  <2>1. pc' = "always" /\ hook' = "always" /\ depth' = NextDepth /\ ~fired'
    BY <1>2 DEF CloseStep, Cascades
  <2>2. Mode' = "cascading" /\ Hops' = NextDepth
    BY <2>1 DEF Mode, Hops, Terminated
  <2>3. CASE hook = "on"
    <3>1. Mode = "entering" /\ NextDepth = 0
      BY <1>0, <1>2, <2>3 DEF Mode, NextDepth, Terminated
    <3>2. QED BY <1>0, <2>2, <3>1 DEF Contract!Enter
  <2>4. CASE hook # "on"
    <3>1. Mode = "cascading" /\ Hops = NextDepth
      BY <1>0, <1>2, <2>4 DEF Mode, Hops, NextDepth, Terminated
    <3>2. QED BY <1>0, <2>2, <3>1 DEF Contract!vars
  <2>5. QED BY <2>3, <2>4
<1>3. CASE error = None /\ ~fired
  <2>1. pc' = "dispatch" /\ UNCHANGED <<hook, fired, depth>>
    BY <1>3 DEF CloseStep, Cascades
  <2>2. Mode' = "idle" /\ Hops' = Hops /\ Hops = depth
    BY <1>3, <2>1 DEF Mode, Hops, Terminated
  <2>3. hook # "error" /\ AllRefusable(cands)
    BY <1>0, <1>3 DEF ControlOK, CandidateControl
  <2>4. CASE hook = "on"
    <3>1. Mode = "reacting" /\ Contract!Offered = cands
      BY <1>0, <1>3, <2>4, SameLookups
      DEF Mode, Terminated, ControlOK, OnControl, Busy, Contract!Offered
    <3>2. QED BY <1>0, <2>2, <2>3, <3>1, SameLookups DEF Contract!Refuse
  <2>5. CASE hook = "always"
    <3>1. Mode = "cascading"
      BY <1>0, <2>5 DEF Mode, Terminated
    <3>2. /\ depth < MaxDepth /\ current_state \in DOMAIN config
          /\ cands = config[current_state].always
      BY <1>0, <1>3, <2>5 DEF ControlOK, AlwaysControl, Busy
    <3>3. QED
      BY <1>0, <2>2, <2>3, <3>1, <3>2, SameLookups, SameCurrent
      DEF Contract!Settle, Contract!MayCascade
  <2>6. QED BY <2>3, <2>4, <2>5 DEF TypeOK, LocalsOK, Hooks
<1>4. QED BY <1>1, <1>2, <1>3 DEF TypeOK, LocalsOK

LEMMA TripRefines ==
  ASSUME TypeOK, ControlOK, RouteToErrorState
  PROVE  Contract!Trip
<1>1. hook = "on" /\ RecoveryState # None /\ pc = "failed"
  BY DEF RouteToErrorState, Recovers, ControlOK, PendingControl
<1>2. /\ Mode \in {"reacting", "entering"} /\ Mode' = "recovering"
      /\ Hops = depth /\ Hops' = depth
  BY <1>1 DEF RouteToErrorState, StartBatch, Mode, Hops, Terminated
<1>3. QED
  BY <1>1, <1>2 DEF RouteToErrorState, RecoveryState, Contract!Trip, Contract!Recoverable, argVars

(* A failure of a callback: a signal's own hop closes its step first, the  *)
(* other two hops are left by `?` at once.                                 *)
LEMMA FailureRefines ==
  ASSUME TypeOK, ControlOK,
         pc \in {"always", "guard", "actions", "exit", "entry"},
         NEW e, Fails(e), UNCHANGED <<argVars, history, locals>>
  PROVE  Contract!Fail \/ UNCHANGED Contract!vars
<1>1. CASE hook = "on"
  <2>1. pc' = "close"
    BY <1>1 DEF Fails, ClosesOnError
  <2>2. QED BY <2>1, InvisibleStep DEF Terminated, argVars, locals
<1>2. CASE hook # "on"
  <2>1. pc' = "raised"
    BY <1>2 DEF Fails, ClosesOnError
  <2>2. Mode \in {"cascading", "recovering"} /\ Mode' = "raised" /\ Hops' = Hops
    BY <1>2, <2>1 DEF Mode, Hops, Terminated, locals
  <2>3. QED BY <2>2 DEF Contract!Fail, argVars, locals
<1>3. QED BY <1>1, <1>2

LEMMA PropagateRefines ==
  ASSUME TypeOK, ControlOK, Propagate
  PROVE  Contract!Fail
<1>1. /\ Mode \in {"reacting", "entering"} /\ Mode' = "raised" /\ Hops' = Hops
  BY DEF Propagate, ControlOK, PendingControl, Mode, Hops, Terminated, locals
<1>2. QED BY <1>1 DEF Propagate, Contract!Fail, argVars, ctxVars, locals

LEMMA ReturnRefines ==
  ASSUME TypeOK, ControlOK, Return
  PROVE  Contract!Return
<1>1. Mode = "idle" /\ Mode' = "returned" /\ Hops' = Hops
  BY DEF Return, Mode, Hops, Terminated, locals
<1>2. QED BY <1>1 DEF Return, Contract!Return, argVars, ctxVars, locals

(* The other steps are invisible. *)
LEMMA CallbacksInvisible ==
  ASSUME TypeOK, ControlOK,
         \/ AlwaysRound \/ PassUnguarded \/ EvalGuard \/ NoneFired \/ RunAction
         \/ TransitionActionsDone \/ EntryActionsDone
  PROVE  UNCHANGED Contract!vars
<1> USE InvisibleStep
<1> USE DEF Terminated, StartBatch, InBatch, argVars, ctxVars, locals
<1>1. CASE AlwaysRound
  <2>1. hook' = hook /\ fired' = fired
    BY <1>1 DEF AlwaysRound, BeginRound, ControlOK, TypeOK, LocalsOK
  <2>2. QED BY <1>1, <2>1 DEF AlwaysRound, BeginRound
<1>2. CASE PassUnguarded
  BY <1>2 DEF PassUnguarded
<1>3. CASE EvalGuard
  BY <1>3 DEF EvalGuard
<1>4. CASE NoneFired
  BY <1>4 DEF NoneFired
<1>5. CASE RunAction
  BY <1>5 DEF RunAction
<1>6. CASE TransitionActionsDone
  BY <1>6 DEF TransitionActionsDone
<1>7. CASE EntryActionsDone
  BY <1>7 DEF EntryActionsDone
<1>8. QED BY <1>1, <1>2, <1>3, <1>4, <1>5, <1>6, <1>7

LEMMA FailuresRefine ==
  ASSUME TypeOK, ControlOK,
         AlwaysLoopExceeded \/ UnknownGuard \/ ActionFailed \/ UnknownAction
  PROVE  Contract!Fail \/ UNCHANGED Contract!vars
<1> USE FailureRefines
<1>1. CASE AlwaysLoopExceeded
  BY <1>1 DEF AlwaysLoopExceeded, ctxVars
<1>2. CASE UnknownGuard
  BY <1>2 DEF UnknownGuard, ctxVars
<1>3. CASE ActionFailed
  BY <1>3 DEF ActionFailed, InBatch
<1>4. CASE UnknownAction
  BY <1>4 DEF UnknownAction, InBatch, ctxVars
<1>5. QED BY <1>1, <1>2, <1>3, <1>4

(***************************************************************************)
(* Every step of a call of the Rust engine is a step of the contract or    *)
(* leaves it unchanged: both engines implement the same Statechart.        *)
(***************************************************************************)
THEOREM Refinement == Spec => RefinesStatechart
<1>1. TypeOK /\ ControlOK /\ [Next]_vars => [Contract!Next]_(Contract!vars)
  <2> SUFFICES ASSUME TypeOK, ControlOK, [Next]_vars
               PROVE  Contract!Next \/ UNCHANGED Contract!vars
    OBVIOUS
  <2>1. UNCHANGED vars => UNCHANGED Contract!vars
    BY DEF vars, argVars, ctxVars, locals, Contract!vars, Mode, Hops, Terminated
  <2>2. QED
    BY <2>1, SettleRefines, IgnoreRefines, TakeRefines, ChangeStateRefines,
       CloseStepRefines, TripRefines, FailuresRefine, PropagateRefines, ReturnRefines,
       CallbacksInvisible
    DEF Next, Step, Done, Contract!Next
<1>2. QED
  BY <1>1, InitRefines, TypeAndControl, PTL DEF Spec, RefinesStatechart, Contract!Spec

(***************************************************************************)
(* The bound on hops is inherited from the contract, as in Python.         *)
(***************************************************************************)
Length == INSTANCE StatechartProofs
            WITH mode <- Mode, hops <- Hops, origin <- dispatched

(* Two instances of the contract under the same substitution are the same. *)
LEMMA SameContract ==
  /\ Contract!Init => Length!Init
  /\ [Contract!Next]_(Contract!vars) => [Length!Next]_(Length!vars)
  /\ Length!Bounded => Contract!Bounded
<1>1. Contract!Init => Length!Init
  BY DEF Contract!Init, Length!Init, Contract!current, Length!current
<1>2. [Contract!Next]_(Contract!vars) => [Length!Next]_(Length!vars)
  BY DEF Contract!Wildcard, Length!Wildcard, Contract!TableRow, Length!TableRow,
      Contract!Lookup, Length!Lookup, Contract!HasRow, Length!HasRow,
      Contract!NoCandidate, Length!NoCandidate, Contract!Reachable, Length!Reachable,
      Contract!AllRefusable, Length!AllRefusable, Contract!current, Length!current,
      Contract!Goto, Length!Goto, Contract!MayCascade, Length!MayCascade,
      Contract!HopsCounted, Length!HopsCounted, Contract!NextTaken,
      Length!NextTaken, Contract!Offered, Length!Offered, Contract!Recoverable,
      Length!Recoverable, Contract!vars, Length!vars, Contract!AlwaysHop,
      Length!AlwaysHop, Contract!Settle, Length!Settle, Contract!Ignore,
      Length!Ignore, Contract!Take, Length!Take, Contract!Refuse, Length!Refuse,
      Contract!React, Length!React, Contract!Enter, Length!Enter, Contract!Trip,
      Length!Trip, Contract!Recover, Length!Recover, Contract!Return,
      Length!Return, Contract!Fail, Length!Fail, Contract!Done, Length!Done,
      Contract!Next, Length!Next
<1>3. Length!Bounded => Contract!Bounded
  BY DEF Contract!Bounded, Length!Bounded, Contract!PerSignal, Length!PerSignal
<1>4. QED BY <1>1, <1>2, <1>3

(* However the callbacks answer and whatever fails, a call that has taken  *)
(* n signals has made at most MaxDepth + n * (MaxDepth + 2) hops: Bounded  *)
(* is what BoundedHops says of the Python engine.                          *)
THEOREM HopsBounded == Spec => []Contract!Bounded
<1>1. /\ StartStates \subseteq STRING /\ MaxDepth \in Nat \ {0}
      /\ \A c \in Configs : Length!IsConfig(c)
  BY CallAssumption, DepthAssumption, ConfigAssumption
  DEF IsConfig, IsStateConfig, TransitionConfig, Length!IsConfig, Length!IsStateConfig,
      Length!TransitionConfig
<1>2. Length!Spec => []Length!Bounded
  BY <1>1, Length!BoundedCalls
<1>3. QED
  BY <1>2, Refinement, SameContract, PTL
  DEF RefinesStatechart, Contract!Spec, Length!Spec

----------------------------------------------------------------------------
(***************************************************************************)
(* Errors                                                                  *)
(***************************************************************************)

(* An error that is not the last thing that happened was answered by a hop *)
(* into the error state, or by one that failed on the way there.           *)
Overtaken(i) ==
  /\ log[i].hook = "on" /\ log[i].error.kind = "ActionFailed"
  /\ log[i + 1].hook = "error"
  /\ log[i + 1].what = "hop" => log[i + 1].to = config[log[i + 1].dispatched].error_state

AllAnswered ==
  \A i \in 1 .. Len(log) - 1 : log[i].what = "fail" => Overtaken(i)

Failed == log # <<>> /\ log[Len(log)].what = "fail"

(* What is in `error` is what happened last, in the hop still in progress. *)
ErrorIsLast ==
  error # None =>
    log # <<>> /\ log[Len(log)] = [what |-> "fail", hook |-> hook, error |-> error]

(* With no error pending, the last thing that happened can be a failure    *)
(* only while the machine leaves the failed state for the error state.     *)
Quiet ==
  error = None /\ Failed =>
    /\ hook = "error" /\ pc = "exit"
    /\ log[Len(log)].hook = "on" /\ log[Len(log)].error.kind = "ActionFailed"

(* Ok carries no error, and Err none that had an answer. *)
PassedOn ==
  /\ pc = "returned" => error = None
  /\ pc = "raised" =>
       /\ error # None
       /\ hook = "on" /\ error.kind = "ActionFailed" => RecoveryState = None

ErrorOK == AllAnswered /\ ErrorIsLast /\ Quiet /\ PassedOn

LEMMA AllAnsweredKept ==
  ASSUME AllAnswered, UNCHANGED <<config, log>>
  PROVE  AllAnswered'
BY DEF AllAnswered, Overtaken

LEMMA LastOfLog ==
  ASSUME TypeOK, NEW e, log' = Append(log, e)
  PROVE  log' # <<>> /\ log'[Len(log')] = e
<1>1. /\ Len(log) \in Nat /\ Len(log') = Len(log) + 1
      /\ log'[Len(log) + 1] = e
  BY LenProperties, AppendProperties DEF TypeOK, LocalsOK
<1>2. Len(log') # 0
  BY <1>1
<1>3. Len(<<>>) = 0
  OBVIOUS
<1>4. QED BY <1>1, <1>2, <1>3, Zenon

(* Something happens: if the last thing that did was a failure, it had     *)
(* better be the answer.                                                   *)
LEMMA AllAnsweredGrows ==
  ASSUME TypeOK, AllAnswered, config' = config,
         NEW e, log' = Append(log, e),
         Failed => /\ log[Len(log)].hook = "on"
                   /\ log[Len(log)].error.kind = "ActionFailed"
                   /\ e.hook = "error"
                   /\ e.what = "hop" => e.to = config[e.dispatched].error_state
  PROVE  AllAnswered'
<1>1. /\ Len(log) \in Nat /\ Len(log') = Len(log) + 1
      /\ \A i \in 1 .. Len(log) : log'[i] = log[i]
      /\ log'[Len(log) + 1] = e
  BY LenProperties, AppendProperties DEF TypeOK, LocalsOK
<1> SUFFICES ASSUME NEW i \in 1 .. Len(log') - 1, log'[i].what = "fail"
             PROVE  Overtaken(i)'
  BY DEF AllAnswered
<1>2. CASE i \in 1 .. Len(log) - 1
  <2>1. log'[i] = log[i] /\ log'[i + 1] = log[i + 1]
    BY <1>1, <1>2
  <2>2. Overtaken(i)
    BY <1>2, <2>1 DEF AllAnswered
  <2>3. QED BY <2>1, <2>2 DEF Overtaken
<1>3. CASE i = Len(log)
  <2>1. log'[i] = log[i] /\ log'[i + 1] = e /\ i \in 1 .. Len(log)
    BY <1>1, <1>3
  <2>2. Failed
    BY <1>3, <2>1, EmptySeq DEF Failed, TypeOK, LocalsOK
  <2>3. QED BY <1>3, <2>1, <2>2 DEF Overtaken
<1>4. QED BY <1>1, <1>2, <1>3

(* A failure of a hop: the error is the last thing that happened. *)
LEMMA FailsErrorOK ==
  ASSUME TypeOK, ControlOK, ErrorOK, ~Terminated, error = None,
         NEW e \in Errors, Fails(e), UNCHANGED <<config, dispatched, hook>>
  PROVE  ErrorOK'
<1> DEFINE fail == [what |-> "fail", hook |-> hook, error |-> e]
<1>1. log' = Append(log, fail) /\ error' = e /\ error' # None
  BY FailsType DEF Fails
<1>2. log' # <<>> /\ log'[Len(log')] = fail
  BY <1>1, LastOfLog
<1>3. AllAnswered'
  <2>1. /\ Failed => /\ hook = "error"
                     /\ log[Len(log)].hook = "on" /\ log[Len(log)].error.kind = "ActionFailed"
    BY DEF ErrorOK, Quiet
  <2>2. fail.hook = hook /\ fail.what = "fail"
    OBVIOUS
  <2>3. AllAnswered
    BY DEF ErrorOK
  <2> HIDE DEF fail
  <2>4. QED BY <1>1, <2>1, <2>2, <2>3, AllAnsweredGrows
<1>4. ErrorIsLast' /\ Quiet'
  BY <1>1, <1>2 DEF ErrorIsLast, Quiet
<1>5. PassedOn'
  <2>1. /\ pc' = IF hook = "on" THEN "close" ELSE "raised"
    BY FailsType
  <2>2. QED BY <1>1, <2>1 DEF PassedOn
<1>6. QED BY <1>3, <1>4, <1>5 DEF ErrorOK

LEMMA ChangeStateErrorOK ==
  ASSUME TypeOK, ControlOK, ErrorOK, ChangeState
  PROVE  ErrorOK'
<1> DEFINE hop == [what |-> "hop", hook |-> hook, dispatched |-> dispatched,
                   from |-> current_state, to |-> Target]
<1>1. /\ log' = Append(log, hop) /\ error' = error /\ error = None
      /\ pc' = "entry" /\ config' = config
  BY DEF ChangeState, StartBatch, ControlOK, PendingControl, Terminated, argVars
<1>2. log' # <<>> /\ log'[Len(log')] = hop
  BY <1>1, LastOfLog
<1>3. AllAnswered'
  <2>1. Failed => /\ hook = "error"
                  /\ log[Len(log)].hook = "on" /\ log[Len(log)].error.kind = "ActionFailed"
    BY <1>1 DEF ErrorOK, Quiet
  <2>2. hop.hook = hook /\ (hook = "error" => hop.to = config[hop.dispatched].error_state)
    BY DEF Target, RecoveryState
  <2>3. AllAnswered
    BY DEF ErrorOK
  <2> HIDE DEF hop
  <2>4. QED BY <1>1, <2>1, <2>2, <2>3, AllAnsweredGrows
<1>4. hop.what # "fail"
  OBVIOUS
<1>5. ErrorIsLast' /\ Quiet' /\ PassedOn'
  BY <1>1, <1>2, <1>4 DEF ErrorIsLast, Quiet, PassedOn, Failed
<1>6. QED BY <1>3, <1>5 DEF ErrorOK

(* Nothing happens that the log records, and no error is pending. *)
LEMMA NothingFailedOK ==
  ASSUME TypeOK, ErrorOK, error = None, error' = None, UNCHANGED <<config, log>>,
         pc' # "raised",
         Failed => UNCHANGED <<hook, pc>>
  PROVE  ErrorOK'
<1>1. AllAnswered'
  BY AllAnsweredKept DEF ErrorOK
<1>2. ErrorIsLast' /\ PassedOn'
  BY DEF ErrorIsLast, PassedOn
<1>3. Quiet'
  BY DEF ErrorOK, Quiet, Failed
<1>4. QED BY <1>1, <1>2, <1>3 DEF ErrorOK

(* The steps in which neither an error comes up nor a state is entered. *)
LEMMA QuietStepsOK ==
  ASSUME TypeOK, ControlOK, ErrorOK,
         \/ NothingAlways \/ AlwaysRound \/ Return \/ IgnoreSignal \/ EmptyRow
         \/ ReceiveSignal \/ PassUnguarded \/ EvalGuard \/ NoneFired \/ RunAction
         \/ TransitionActionsDone \/ EntryActionsDone
  PROVE  ErrorOK'
<1>1. error = None /\ error' = None /\ UNCHANGED <<config, log>> /\ pc' # "raised"
  BY DEF NothingAlways, AlwaysRound, Return, IgnoreSignal, EmptyRow, ReceiveSignal,
     BeginRound, PassUnguarded, EvalGuard, NoneFired, RunAction, InBatch,
     TransitionActionsDone, EntryActionsDone, StartBatch, ControlOK, PendingControl,
     Terminated, argVars
<1>2. Failed => UNCHANGED <<hook, pc>>
  <2>1. Failed => pc = "exit"
    BY <1>1 DEF ErrorOK, Quiet
  <2>2. CASE pc = "exit"
    <3>1. RunAction
      BY <2>2 DEF NothingAlways, AlwaysRound, Return, IgnoreSignal, EmptyRow, ReceiveSignal,
         PassUnguarded, EvalGuard, NoneFired, TransitionActionsDone, EntryActionsDone
    <3>2. QED BY <3>1 DEF RunAction
  <2>3. QED BY <2>1, <2>2
<1>3. QED BY <1>1, <1>2, NothingFailedOK

LEMMA FailingStepsOK ==
  ASSUME TypeOK, ControlOK, ErrorOK,
         AlwaysLoopExceeded \/ UnknownGuard \/ ActionFailed \/ UnknownAction
  PROVE  ErrorOK'
<1>1. ~Terminated /\ error = None /\ UNCHANGED <<config, dispatched, hook>>
  BY DEF AlwaysLoopExceeded, UnknownGuard, ActionFailed, UnknownAction, InBatch,
     ControlOK, PendingControl, Terminated, argVars, locals
<1>2. CASE AlwaysLoopExceeded
  <2>1. RunError("AlwaysLoopExceeded", current_state, None) \in Errors
    BY ErrorType DEF TypeOK, ContextOK
  <2>2. QED BY <1>1, <1>2, <2>1, FailsErrorOK DEF AlwaysLoopExceeded
<1>3. CASE UnknownGuard
  <2>1. RunError("UnknownGuard", None, Candidate.guard) \in Errors
    BY <1>3, CandidateType, ErrorType DEF UnknownGuard
  <2>2. QED BY <1>1, <1>3, <2>1, FailsErrorOK DEF UnknownGuard
<1>4. CASE ActionFailed
  <2>1. RunError("ActionFailed", current_state, Head(batch)) \in Errors
    BY <1>4, BatchType, ErrorType DEF ActionFailed, TypeOK, ContextOK
  <2>2. QED BY <1>1, <1>4, <2>1, FailsErrorOK DEF ActionFailed
<1>5. CASE UnknownAction
  <2>1. RunError("UnknownAction", None, Head(batch)) \in Errors
    BY <1>5, BatchType, ErrorType DEF UnknownAction
  <2>2. QED BY <1>1, <1>5, <2>1, FailsErrorOK DEF UnknownAction
<1>6. QED BY <1>2, <1>3, <1>4, <1>5

LEMMA CloseStepErrorOK ==
  ASSUME TypeOK, ControlOK, ErrorOK, CloseStep
  PROVE  ErrorOK'
<1>1. /\ UNCHANGED <<config, log, error>> /\ pc = "close"
      /\ pc' \in {"failed", "always", "dispatch"}
  BY DEF CloseStep, argVars
<1>2. CASE error = None
  BY <1>1, <1>2, NothingFailedOK DEF ErrorOK, Quiet
<1>3. CASE error # None
  <2>1. hook' = hook
    BY <1>3 DEF CloseStep
  <2>2. AllAnswered'
    BY <1>1, AllAnsweredKept DEF ErrorOK
  <2>3. ErrorIsLast' /\ Quiet' /\ PassedOn'
    BY <1>1, <1>3, <2>1 DEF ErrorOK, ErrorIsLast, Quiet, PassedOn
  <2>4. QED BY <2>2, <2>3 DEF ErrorOK
<1>4. QED BY <1>2, <1>3

LEMMA RouteErrorOK ==
  ASSUME TypeOK, ControlOK, ErrorOK, RouteToErrorState
  PROVE  ErrorOK'
<1>1. /\ UNCHANGED <<config, log>> /\ pc' = "exit" /\ hook' = "error" /\ error' = None
      /\ error # None /\ hook = "on" /\ error.kind = "ActionFailed"
  BY DEF RouteToErrorState, Recovers, StartBatch, ControlOK, PendingControl, argVars
<1>2. log[Len(log)] = [what |-> "fail", hook |-> hook, error |-> error]
  BY <1>1 DEF ErrorOK, ErrorIsLast
<1>3. log[Len(log)].hook = "on" /\ log[Len(log)].error.kind = "ActionFailed"
  BY <1>1, <1>2
<1>4. AllAnswered'
  BY <1>1, AllAnsweredKept DEF ErrorOK
<1>5. ErrorIsLast' /\ Quiet' /\ PassedOn'
  BY <1>1, <1>3 DEF ErrorIsLast, Quiet, PassedOn
<1>6. QED BY <1>4, <1>5 DEF ErrorOK

LEMMA PropagateErrorOK ==
  ASSUME TypeOK, ControlOK, ErrorOK, Propagate
  PROVE  ErrorOK'
<1>1. /\ UNCHANGED <<config, log, error, hook, dispatched>>
      /\ pc' = "raised" /\ error # None
  BY DEF Propagate, ControlOK, PendingControl, argVars, locals
<1>2. AllAnswered'
  BY <1>1, AllAnsweredKept DEF ErrorOK
<1>3. ErrorIsLast' /\ Quiet'
  BY <1>1 DEF ErrorOK, ErrorIsLast, Quiet
<1>4. PassedOn'
  BY <1>1 DEF Propagate, Recovers, RecoveryState, PassedOn
<1>5. QED BY <1>2, <1>3, <1>4 DEF ErrorOK

LEMMA StutterErrorOK ==
  ASSUME ErrorOK, UNCHANGED vars
  PROVE  ErrorOK'
<1>1. AllAnswered'
  BY AllAnsweredKept DEF ErrorOK, vars, argVars
<1>2. ErrorIsLast' /\ Quiet' /\ PassedOn'
  BY DEF ErrorOK, ErrorIsLast, Quiet, Failed, PassedOn, RecoveryState, vars, argVars, locals
<1>3. QED BY <1>1, <1>2 DEF ErrorOK

LEMMA InitErrorOK == Init => ErrorOK
<1> SUFFICES ASSUME Init PROVE ErrorOK
  OBVIOUS
<1>1. log = <<>> /\ Len(log) = 0 /\ error = None /\ pc = "always"
  BY DEF Init
<1>2. AllAnswered
  BY <1>1 DEF AllAnswered
<1>3. QED BY <1>1, <1>2 DEF ErrorOK, ErrorIsLast, Quiet, Failed, PassedOn

LEMMA ErrorsFollow == TypeOK /\ ControlOK /\ ErrorOK => ErrorsRouted
<1> SUFFICES ASSUME TypeOK, ControlOK, ErrorOK,
                    NEW i \in DOMAIN log, log[i].what = "fail"
             PROVE  \/ /\ Answered(i)
                       /\ i < Len(log) /\ log[i + 1].what = "hop" =>
                            log[i + 1].to = config[log[i + 1].dispatched].error_state
                    \/ /\ i = Len(log) /\ error = log[i].error
                       /\ pc \in {"close", "failed", "raised"}
                       /\ log[i].hook = "on" /\ error.kind = "ActionFailed" => RecoveryState = None
  BY DEF ErrorsRouted
<1>1. i \in 1 .. Len(log) /\ Len(log) \in Nat /\ log # <<>>
  BY LenProperties, EmptySeq DEF TypeOK, LocalsOK
<1>2. CASE i < Len(log)
  <2>1. Overtaken(i)
    BY <1>1, <1>2 DEF ErrorOK, AllAnswered
  <2>2. QED BY <1>2, <2>1 DEF Overtaken, Answered
<1>3. CASE i = Len(log) /\ error = None
  <2>1. /\ hook = "error" /\ pc = "exit"
        /\ log[i].hook = "on" /\ log[i].error.kind = "ActionFailed"
    BY <1>1, <1>3 DEF ErrorOK, Quiet, Failed
  <2>2. RecoveryState # None
    BY <2>1 DEF ControlOK, ErrorControl, Busy
  <2>3. QED BY <1>1, <1>3, <2>1, <2>2 DEF Answered
<1>4. CASE i = Len(log) /\ error # None
  <2>1. log[i].error = error /\ log[i].hook = hook
    BY <1>4 DEF ErrorOK, ErrorIsLast
  <2>2. pc \in {"close", "failed", "raised"}
    BY <1>4 DEF ErrorOK, PassedOn, ControlOK, PendingControl, Terminated
  <2>3. CASE pc = "raised"
    BY <1>4, <2>1, <2>2, <2>3 DEF ErrorOK, PassedOn
  <2>4. CASE pc # "raised"
    BY <1>1, <1>4, <2>1, <2>2, <2>4 DEF Answered
  <2>5. QED BY <2>3, <2>4
<1>5. QED BY <1>1, <1>2, <1>3, <1>4

(* Every step keeps it. *)
LEMMA ErrorStepOK == TypeOK /\ ControlOK /\ ErrorOK /\ [Next]_vars => ErrorOK'
BY QuietStepsOK, FailingStepsOK, ChangeStateErrorOK, CloseStepErrorOK, RouteErrorOK,
   PropagateErrorOK, StutterErrorOK
DEF Next, Step, Done

(***************************************************************************)
(* Whatever the actions do and however the call ends, no error of the Rust *)
(* engine is lost and none is answered that should reach the caller:       *)
(* ErrorsRouted speaks of every entry of the log, and is inductive once    *)
(* `error` is tied to the last of them.                                    *)
(***************************************************************************)
THEOREM ErrorsReachTheirPlace == Spec => []ErrorsRouted
BY ErrorStepOK, TypeAndControl, InitErrorOK, ErrorsFollow, PTL DEF Spec

----------------------------------------------------------------------------
(***************************************************************************)
(* Rounds                                                                  *)
(***************************************************************************)

(* An answered guard leaves its result, tells it, and moves on. *)
LEMMA GuardRecords ==
  ASSUME TypeOK, ControlOK, EvalGuard
  PROVE  \E answer \in BOOLEAN, e \in ResultEntry :
           /\ e = GuardResult(current_state, hook, cands[ci].guard, answer)
           /\ results' = Append(results, e)
           /\ Emit(<<Activity(e)>>)
           /\ IF answer
                THEN StartBatch("actions", Candidate.actions) /\ UNCHANGED ci
                ELSE ci' = ci + 1 /\ UNCHANGED <<pc, batch, n_before>>
<1>1. PICK passed \in GuardFns[Candidate.guard][<<session, Signal.data>>] :
        /\ results' = Append(results, Entry("guard", Candidate.guard, passed))
        /\ Emit(<<Activity(Entry("guard", Candidate.guard, passed))>>)
        /\ IF passed
             THEN StartBatch("actions", Candidate.actions) /\ UNCHANGED ci
             ELSE ci' = ci + 1 /\ UNCHANGED <<pc, batch, n_before>>
  BY DEF EvalGuard
<1>2. pc = "guard" /\ hook # "error"
  BY DEF EvalGuard, ControlOK, ErrorControl, Busy
<1>3. passed \in BOOLEAN /\ Candidate.guard \in STRING
  <2>1. Signal.data \in Data
    BY <1>2, SignalType DEF Busy
  <2>2. QED
    BY <2>1, AnswerType DEF EvalGuard, TypeOK, ContextOK
<1> DEFINE e == Entry("guard", Candidate.guard, passed)
<1>4. e = GuardResult(current_state, hook, cands[ci].guard, passed)
  BY <1>2 DEF Entry, Source, GuardResult, Candidate
<1>5. e \in ResultEntry
  BY <1>2, <1>3, ResultType
<1>6. /\ results' = Append(results, e) /\ Emit(<<Activity(e)>>)
      /\ IF passed
           THEN StartBatch("actions", Candidate.actions) /\ UNCHANGED ci
           ELSE ci' = ci + 1 /\ UNCHANGED <<pc, batch, n_before>>
  BY <1>1
<1> HIDE DEF e
<1>7. QED BY <1>3, <1>4, <1>5, <1>6

(* An action that ran leaves its result. *)
LEMMA ActionRecords ==
  ASSUME TypeOK, ControlOK, RunAction
  PROVE  \E e \in ResultEntry :
           /\ results' = Append(results, e)
           /\ e.kind = "action" /\ e.source = Source
           /\ e.state = current_state /\ e.name = Head(batch)
<1>1. results' = Append(results, Entry("action", Head(batch), None))
  BY DEF RunAction
<1>2. Entry("action", Head(batch), None) \in ResultEntry
  BY BatchType, ResultType DEF RunAction, InBatch
<1>3. QED BY <1>1, <1>2 DEF Entry

(* The four steps that fail raise an error of RunError's. *)
LEMMA ErrorRaised ==
  ASSUME TypeOK, ControlOK, AlwaysLoopExceeded \/ UnknownGuard \/ ActionFailed \/ UnknownAction
  PROVE  \E e \in Errors : Fails(e)
<1>1. CASE AlwaysLoopExceeded
  <2>1. RunError("AlwaysLoopExceeded", current_state, None) \in Errors
    BY ErrorType DEF TypeOK, ContextOK
  <2>2. QED BY <1>1, <2>1 DEF AlwaysLoopExceeded
<1>2. CASE UnknownGuard
  <2>1. RunError("UnknownGuard", None, Candidate.guard) \in Errors
    BY <1>2, CandidateType, ErrorType DEF UnknownGuard
  <2>2. QED BY <1>2, <2>1 DEF UnknownGuard
<1>3. CASE ActionFailed
  <2>1. RunError("ActionFailed", current_state, Head(batch)) \in Errors
    BY <1>3, BatchType, ErrorType DEF ActionFailed, TypeOK, ContextOK
  <2>2. QED BY <1>3, <2>1 DEF ActionFailed
<1>4. CASE UnknownAction
  <2>1. RunError("UnknownAction", None, Head(batch)) \in Errors
    BY <1>4, BatchType, ErrorType DEF UnknownAction
  <2>2. QED BY <1>4, <2>1 DEF UnknownAction
<1>5. QED BY <1>1, <1>2, <1>3, <1>4

(* The candidates before the one under trial were asked and refused. *)
Asked == EndsWith(results, Refusals(cands, ci - 1, current_state, hook), {})

(* ... and the one being carried out was accepted. *)
Accepted ==
  EndsWith(results, Acceptance(cands, ci, current_state, hook),
           {<<"action", hook>>, <<"action", "exit">>})

(* Nothing always is left to do in this state. *)
Settled ==
  /\ \A i \in DOMAIN Always : Always[i].guard # None
  /\ EndsWith(results, Refusals(Always, Len(Always), current_state, "always"),
              {<<"guard", "on">>})

(* A round is about to close with no candidate accepted. *)
AllRefused == pc = "close" /\ error = None /\ ~fired

Trying == pc = "guard" \/ AllRefused

(* The strengthening: a signal's round begins in a settled state, and what *)
(* it asks there leaves the state settled.                                 *)
RoundOK ==
  /\ Trying => Asked
  /\ AllRefused => ci = Len(cands) + 1
  /\ hook # "error" /\ pc \in {"actions", "exit"} => Accepted
  /\ pc \in {"dispatch", "returned"} => Settled
  /\ hook = "on" /\ Trying => Settled

LEMMA AlwaysType ==
  ASSUME TypeOK
  PROVE  /\ Always \in Seq(TransitionConfig) /\ Len(Always) \in Nat
         /\ DOMAIN Always = 1 .. Len(Always)
<1>1. Always \in Seq(TransitionConfig)
  <2>1. CASE current_state \in DOMAIN config
    BY <2>1, GraphType, StateConfigType DEF Always
  <2>2. CASE current_state \notin DOMAIN config
    BY <2>2, EmptySeq DEF Always
  <2>3. QED BY <2>1, <2>2
<1>2. QED BY <1>1, LenProperties

LEMMA NothingAsked ==
  ASSUME TypeOK, ci' = 1, UNCHANGED results
  PROVE  Asked'
<1>1. results' \in Seq(ResultEntry)
  BY DEF TypeOK, ContextOK
<1>2. Refusals(cands', 0, current_state', hook') = <<>>
  BY RefusalsGrow
<1>3. EndsWith(results', <<>>, {})
  BY <1>1, EndsEmpty
<1>4. ci' - 1 = 0
  OBVIOUS
<1>5. QED BY <1>2, <1>3, <1>4 DEF Asked

LEMMA StaysSettled ==
  ASSUME Settled, UNCHANGED <<config, current_state, results>>
  PROVE  Settled'
BY DEF Settled, Always

LEMMA AlwaysRoundTried ==
  ASSUME TypeOK, ControlOK, AlwaysRound
  PROVE  RoundOK'
<1>1. hook' = "always" /\ ci' = 1 /\ UNCHANGED results /\ pc' = "guard"
  BY DEF AlwaysRound, BeginRound
<1>2. QED BY <1>1, NothingAsked DEF RoundOK, AllRefused, Trying

LEMMA ReceiveSignalTried ==
  ASSUME TypeOK, ControlOK, RoundOK, ReceiveSignal
  PROVE  RoundOK'
<1>1. /\ hook' = "on" /\ ci' = 1 /\ UNCHANGED <<config, current_state, results>>
      /\ pc' = "guard"
  BY DEF ReceiveSignal, BeginRound, argVars
<1>2. Settled
  BY DEF RoundOK, ReceiveSignal
<1>3. QED BY <1>1, <1>2, NothingAsked, StaysSettled DEF RoundOK, AllRefused, Trying

LEMMA NothingAlwaysTried ==
  ASSUME TypeOK, ControlOK, NothingAlways
  PROVE  RoundOK'
<1>1. /\ UNCHANGED <<config, current_state, results>> /\ pc' = "dispatch"
      /\ Always = <<>> /\ hook' = "always"
  BY DEF NothingAlways, argVars, ctxVars, locals, ControlOK
<1>2. EndsWith(results, Refusals(Always, Len(Always), current_state, "always"), {<<"guard", "on">>})
  <2>1. results \in Seq(ResultEntry)
    BY DEF TypeOK, ContextOK
  <2>2. Len(Always) = 0
    BY <1>1
  <2>3. Refusals(Always, 0, current_state, "always") = <<>>
    BY RefusalsGrow
  <2>4. QED BY <2>1, <2>2, <2>3, EndsEmpty
<1>3. Settled
  BY <1>1, <1>2 DEF Settled
<1>4. QED BY <1>1, <1>3, StaysSettled DEF RoundOK, AllRefused, Trying

LEMMA PassUnguardedTried ==
  ASSUME TypeOK, ControlOK, RoundOK, PassUnguarded
  PROVE  RoundOK'
<1>1. /\ pc = "guard" /\ ci <= Len(cands) /\ cands[ci].guard = None
      /\ UNCHANGED <<results, cands, ci, current_state, hook, error, fired>>
      /\ pc' = "actions"
  BY DEF PassUnguarded, StartBatch, Candidate
<1>2. Asked
  BY <1>1 DEF RoundOK, Trying
<1>3. ci - 1 \in Nat /\ (ci - 1) + 1 = ci
  BY <1>1, CandidateType
<1>4. results \in Seq(ResultEntry)
  BY DEF TypeOK, ContextOK
<1>5. EndsWith(results, Acceptance(cands, ci, current_state, hook), {})
  BY <1>1, <1>2, <1>3, <1>4, ThenAccepted DEF Asked
<1>6. Accepted
  BY <1>5, EndsWeaken DEF Accepted
<1>7. Accepted'
  BY <1>1, <1>6 DEF Accepted
<1>8. QED BY <1>1, <1>7 DEF RoundOK, AllRefused, Trying

LEMMA EvalGuardTried ==
  ASSUME TypeOK, ControlOK, RoundOK, EvalGuard
  PROVE  RoundOK'
<1>1. PICK answer \in BOOLEAN, e \in ResultEntry :
        /\ e = GuardResult(current_state, hook, cands[ci].guard, answer)
        /\ results' = Append(results, e)
        /\ IF answer
             THEN StartBatch("actions", Candidate.actions) /\ UNCHANGED ci
             ELSE ci' = ci + 1 /\ UNCHANGED <<pc, batch, n_before>>
  BY GuardRecords
<1>2. /\ pc = "guard" /\ ci <= Len(cands)
      /\ UNCHANGED <<config, cands, current_state, hook, error, fired>>
  BY DEF EvalGuard, argVars
<1>3. Asked /\ (hook = "on" => Settled)
  BY <1>2 DEF RoundOK, Trying
<1>4. ci - 1 \in Nat /\ (ci - 1) + 1 = ci /\ (ci + 1) - 1 = ci /\ ci \in Nat
  BY <1>2, CandidateType
<1>5. results \in Seq(ResultEntry) /\ <<e.kind, e.source>> = <<"guard", hook>>
  BY <1>1 DEF GuardResult, TypeOK, ContextOK
<1>6. cands[ci].guard # None
  <2>1. cands[ci].guard = e.name /\ e.name \in STRING
    BY <1>1 DEF GuardResult, ResultEntry
  <2>2. QED BY <2>1, CallAssumption
<1>7. CASE answer
  <2>1. pc' = "actions" /\ ci' = ci
    BY <1>1, <1>7 DEF StartBatch
  <2>2. e = GuardResult(current_state, hook, cands[ci].guard, TRUE)
    BY <1>1, <1>7
  <2>3. EndsWith(Append(results, e), Acceptance(cands, ci, current_state, hook), {})
    BY <1>3, <1>4, <1>5, <1>6, <2>2, ThenAccepted DEF Asked
  <2>4. Accepted'
    BY <1>2, <1>1, <2>1, <2>3, EndsWeaken DEF Accepted
  <2>5. QED BY <2>1, <2>4 DEF RoundOK, AllRefused, Trying
<1>8. CASE ~answer
  <2>1. pc' = "guard" /\ ci' = ci + 1
    BY <1>1, <1>2, <1>8
  <2>2. e = GuardResult(current_state, hook, cands[ci].guard, FALSE)
    BY <1>1, <1>8
  <2>3. EndsWith(Append(results, e), Refusals(cands, ci, current_state, hook), {})
    BY <1>3, <1>4, <1>5, <2>2, OneMoreRefusal DEF Asked
  <2>4. Asked'
    BY <1>2, <1>4, <1>1, <2>1, <2>3 DEF Asked
  <2>5. ASSUME hook = "on" PROVE Settled'
    <3>1. Settled /\ Len(Always) \in Nat /\ UNCHANGED Always
      BY <1>2, <1>3, <2>5, AlwaysType DEF Always
    <3>2. EndsWith(Append(results, e), Refusals(Always, Len(Always), current_state, "always"),
                   {<<"guard", "on">>})
      BY <1>5, <2>5, <3>1, RefusalsStay DEF Settled
    <3>3. QED BY <1>2, <1>1, <3>1, <3>2 DEF Settled
  <2>6. QED BY <1>2, <2>1, <2>4, <2>5 DEF RoundOK, AllRefused, Trying
<1>9. QED BY <1>7, <1>8

LEMMA NoneFiredTried ==
  ASSUME TypeOK, ControlOK, RoundOK, NoneFired
  PROVE  RoundOK'
<1>1. /\ pc = "guard" /\ ci > Len(cands) /\ pc' = "close"
      /\ UNCHANGED <<config, results, cands, ci, current_state, hook, error, fired>>
  BY DEF NoneFired, argVars, ctxVars, locals
<1>2. Asked /\ (hook = "on" => Settled)
  BY <1>1 DEF RoundOK, Trying
<1>3. ci = Len(cands) + 1
  BY <1>1, LenProperties DEF TypeOK, LocalsOK
<1>4. Asked' /\ (hook = "on" => Settled')
  BY <1>1, <1>2, StaysSettled DEF Asked
<1>5. QED BY <1>1, <1>3, <1>4 DEF RoundOK, AllRefused, Trying

LEMMA RunActionTried ==
  ASSUME TypeOK, ControlOK, RoundOK, RunAction
  PROVE  RoundOK'
<1>1. PICK e \in ResultEntry :
        results' = Append(results, e) /\ e.kind = "action" /\ e.source = Source
  BY ActionRecords
<1>2. /\ InBatch /\ results \in Seq(ResultEntry)
      /\ UNCHANGED <<pc, config, cands, ci, current_state, hook, error, fired>>
  BY DEF RunAction, argVars, TypeOK, ContextOK
<1>3. ASSUME hook # "error", pc \in {"actions", "exit"}
      PROVE  Accepted'
  <2>1. Accepted /\ ci \in Nat /\ ci > 0
    BY <1>3 DEF RoundOK, TypeOK, LocalsOK
  <2>2. <<e.kind, e.source>> \in {<<"action", hook>>, <<"action", "exit">>}
    BY <1>1, <1>3 DEF Source
  <2>3. EndsWith(Append(results, e), Acceptance(cands, ci, current_state, hook),
                 {<<"action", hook>>, <<"action", "exit">>})
    BY <1>2, <2>1, <2>2, AcceptanceStays DEF Accepted
  <2>4. QED BY <1>1, <1>2, <2>3 DEF Accepted
<1>4. QED BY <1>2, <1>3 DEF RoundOK, AllRefused, Trying, InBatch

LEMMA CloseStepTried ==
  ASSUME TypeOK, ControlOK, RoundOK, CloseStep
  PROVE  RoundOK'
<1>1. /\ pc = "close" /\ UNCHANGED <<config, current_state, results>>
      /\ pc' \in {"failed", "always", "dispatch"}
      /\ pc' = "dispatch" => error = None /\ ~fired
  BY DEF CloseStep, Cascades, argVars
<1>2. ASSUME pc' = "dispatch" PROVE Settled
  <2>1. AllRefused /\ hook \in {"on", "always"}
    BY <1>1, <1>2 DEF AllRefused, ControlOK, CandidateControl, TypeOK, LocalsOK, Hooks
  <2>2. CASE hook = "on"
    BY <2>1, <2>2 DEF RoundOK, Trying
  <2>3. CASE hook = "always"
    <3>1. /\ cands = Always
          /\ \A i \in 1 .. Len(cands) : cands[i].guard # None
      BY <1>1, <2>1, <2>3
      DEF AllRefused, ControlOK, AlwaysControl, CandidateControl, AllRefusable, Reachable, Busy,
          Always
    <3>2. Asked /\ ci - 1 = Len(Always) /\ DOMAIN Always = 1 .. Len(Always)
      BY <2>1, <3>1, AlwaysType DEF RoundOK, Trying
    <3>3. EndsWith(results, Refusals(Always, Len(Always), current_state, "always"), {})
      BY <2>3, <3>1, <3>2 DEF Asked
    <3>4. QED BY <3>1, <3>2, <3>3, EndsWeaken DEF Settled
  <2>4. QED BY <2>1, <2>2, <2>3
<1>3. QED BY <1>1, <1>2, StaysSettled DEF RoundOK, AllRefused, Trying

(* The other steps neither ask a guard nor close a round. *)
LEMMA OthersTried ==
  ASSUME TypeOK, ControlOK, RoundOK,
         \/ AlwaysLoopExceeded \/ Return \/ IgnoreSignal \/ EmptyRow \/ UnknownGuard
         \/ ActionFailed \/ UnknownAction \/ TransitionActionsDone \/ ChangeState
         \/ EntryActionsDone \/ RouteToErrorState \/ Propagate \/ UNCHANGED vars
  PROVE  RoundOK'
<1>1. CASE AlwaysLoopExceeded \/ UnknownGuard \/ ActionFailed \/ UnknownAction
  <2>1. PICK e \in Errors : Fails(e)
    BY <1>1, ErrorRaised
  <2>2. error' # None /\ pc' \in {"close", "raised"}
    BY <2>1, FailsType
  <2>3. QED BY <2>2 DEF RoundOK, AllRefused, Trying
<1>2. CASE Return \/ IgnoreSignal \/ EmptyRow
  <2>1. /\ pc' \in {"dispatch", "returned"}
        /\ UNCHANGED <<config, current_state, results>>
    BY <1>2 DEF Return, IgnoreSignal, EmptyRow, argVars, ctxVars
  <2>2. Settled
    BY <1>2 DEF Return, IgnoreSignal, EmptyRow, RoundOK
  <2>3. QED BY <2>1, <2>2, StaysSettled DEF RoundOK, AllRefused, Trying
<1>3. CASE TransitionActionsDone
  <2>1. /\ UNCHANGED <<results, cands, ci, current_state, hook>>
        /\ pc = "actions" /\ pc' = "exit"
    BY <1>3 DEF TransitionActionsDone, StartBatch
  <2>2. hook # "error" => Accepted'
    BY <2>1 DEF RoundOK, Accepted
  <2>3. QED BY <2>1, <2>2 DEF RoundOK, AllRefused, Trying
<1>4. CASE ChangeState \/ EntryActionsDone
  BY <1>4 DEF ChangeState, EntryActionsDone, StartBatch, ControlOK, RoundOK, AllRefused,
     Trying, locals
<1>5. CASE RouteToErrorState \/ Propagate
  BY <1>5 DEF RouteToErrorState, Propagate, StartBatch, RoundOK, AllRefused, Trying
<1>6. CASE UNCHANGED vars
  BY <1>6 DEF vars, argVars, ctxVars, locals, RoundOK, AllRefused, Trying, Asked, Accepted,
     Settled, Always
<1>7. QED BY <1>1, <1>2, <1>3, <1>4, <1>5, <1>6

THEOREM RoundsTried == Spec => [](TypeOK /\ ControlOK /\ RoundOK)
<1>1. Init => RoundOK
  BY DEF Init, RoundOK, AllRefused, Trying
<1>2. TypeOK /\ ControlOK /\ RoundOK /\ [Next]_vars => RoundOK'
  BY AlwaysRoundTried, ReceiveSignalTried, NothingAlwaysTried, PassUnguardedTried,
     EvalGuardTried, NoneFiredTried, RunActionTried, CloseStepTried, OthersTried
  DEF Next, Step, Done
<1>3. QED BY <1>1, <1>2, TypeAndControl, PTL DEF Spec

(***************************************************************************)
(* The candidate that is carried out is the first that passed: a guard     *)
(* before it said no, its own said yes, in the state the round began in.   *)
(***************************************************************************)
THEOREM FirstCandidateTaken == Spec => []FirstPassingCandidate
<1>1. TypeOK /\ ControlOK /\ RoundOK => FirstPassingCandidate
  <2> SUFFICES ASSUME TypeOK, ControlOK, RoundOK, pc \in {"actions", "exit"}, hook # "error"
               PROVE  (\A i \in 1 .. ci - 1 : cands[i].guard # None) /\ Accepted
    BY DEF FirstPassingCandidate, Accepted
  <2>1. QED BY DEF RoundOK, ControlOK, CandidateControl, Reachable
<1>2. QED BY <1>1, RoundsTried, PTL

(***************************************************************************)
(* Between signals and when run returns Ok, no always hop of the state is  *)
(* left untried: also where the start state is unknown to the graph, and   *)
(* after rows without candidates.                                          *)
(***************************************************************************)
THEOREM CallsSettle == Spec => []SettledBetweenSignals
<1>1. RoundOK => SettledBetweenSignals
  BY DEF RoundOK, Settled, SettledBetweenSignals
<1>2. QED BY <1>1, RoundsTried, PTL

----------------------------------------------------------------------------
(***************************************************************************)
(* The lifecycle                                                           *)
(***************************************************************************)

(* The strengthening: within the exit and entry batches, what has run and  *)
(* what is still to run make up the path.                                  *)

LifecycleOK ==
  NothingFailed =>
    LET done == LifecycleResults(results)
        path == LifecycleOfPath(config, history)
    IN /\ Walk(config, history)
       /\ pc \notin {"exit", "entry"} => done = path
       /\ pc = "exit" => done \o Ran(current_state, "exit", batch)
                           = path \o Ran(current_state, "exit", config[current_state].exit)
       /\ pc = "entry" => done \o Ran(current_state, "entry", batch) = path

LEMMA CleanRuns ==
  ASSUME TypeOK, ControlOK, ErrorOK, NothingFailed
  PROVE  error = None /\ pc \notin {"failed", "raised"}
<1>1. log # <<>> => Len(log) \in DOMAIN log
  BY LenProperties, EmptySeq DEF TypeOK, LocalsOK
<1>2. error = None
  BY <1>1 DEF ErrorOK, ErrorIsLast, NothingFailed
<1>3. QED BY <1>2 DEF ErrorOK, PassedOn, ControlOK, PendingControl

LEMMA CleanBefore ==
  ASSUME TypeOK, NEW x \in LogEntry, log' = Append(log, x), NothingFailed'
  PROVE  NothingFailed /\ x.what = "hop"
<1>1. /\ Len(log) \in Nat /\ DOMAIN log = 1 .. Len(log)
      /\ DOMAIN log' = 1 .. Len(log) + 1
      /\ \A i \in 1 .. Len(log) : log'[i] = log[i]
      /\ log'[Len(log) + 1] = x
  <2>1. log \in Seq(LogEntry)
    BY DEF TypeOK, LocalsOK
  <2>2. QED BY <2>1, Grown
<1>2. QED BY <1>1 DEF NothingFailed

(* Steps that fail have nothing to say of a clean call. *)
LEMMA FailingSteps ==
  ASSUME TypeOK, ControlOK, AlwaysLoopExceeded \/ UnknownGuard \/ ActionFailed \/ UnknownAction
  PROVE  ~NothingFailed'
<1>1. PICK e \in Errors : Fails(e)
  BY ErrorRaised
<1> DEFINE fail == [what |-> "fail", hook |-> hook, error |-> e]
<1>2. log' = Append(log, fail) /\ fail \in LogEntry /\ fail.what = "fail"
  BY <1>1 DEF Fails, LogEntry, TypeOK, LocalsOK
<1> HIDE DEF fail
<1>3. QED BY <1>2, CleanBefore

LEMMA ResultsMarked ==
  ASSUME TypeOK, NEW e \in ResultEntry
  PROVE  /\ LifecycleOfResult(e) \in Seq(Mark)
         /\ LifecycleResults(results) \in Seq(Mark)
         /\ LifecycleResults(Append(results, e)) = LifecycleResults(results) \o LifecycleOfResult(e)
<1>1. \A r \in ResultEntry : LifecycleOfResult(r) \in Seq(Mark)
  <2> SUFFICES ASSUME NEW r \in ResultEntry PROVE LifecycleOfResult(r) \in Seq(Mark)
    OBVIOUS
  <2>1. r.source \in {"exit", "entry"} => <<r.state, r.source, r.name>> \in Mark
    BY DEF ResultEntry, Mark
  <2>2. r.source \in {"exit", "entry"} => <<<<r.state, r.source, r.name>>>> \in Seq(Mark)
    BY <2>1, Singleton
  <2>3. QED BY <2>2, EmptySeq DEF LifecycleOfResult
<1>2. QED BY <1>1, ResultsLifecycleGrows DEF TypeOK, ContextOK

LEMMA NowMarked ==
  ASSUME TypeOK
  PROVE  LifecycleResults(results) \in Seq(Mark)
<1>1. CASE results = <<>>
  <2>1. [i \in DOMAIN <<>> |-> LifecycleOfResult(<<>>[i])] = <<>>
    OBVIOUS
  <2>2. LifecycleResults(<<>>) = <<>>
    BY <2>1, FlattenEmpty DEF LifecycleResults
  <2>3. QED BY <1>1, <2>2, EmptySeq
<1>2. CASE results # <<>>
  <2>1. results[1] \in ResultEntry
    BY <1>2, LenProperties, EmptySeq, ElementOfSeq DEF TypeOK, ContextOK
  <2>2. QED BY <2>1, ResultsMarked
<1>3. QED BY <1>1, <1>2

LEMMA PathMarked ==
  ASSUME TypeOK, Walk(config, history), current_state \in DOMAIN config, NEW to \in DOMAIN config
  PROVE  /\ Walk(config, Append(history, to))
         /\ LifecycleOfPath(config, history) \in Seq(Mark)
         /\ LifecycleOfPath(config, Append(history, to))
              = LifecycleOfPath(config, history) \o LifecycleOf(config, current_state, to)
BY GraphType, PathLifecycleGrows DEF TypeOK, ContextOK

(* Steps between the batches. *)
LEMMA LifecycleAside ==
  ASSUME LifecycleOK, NothingFailed' => NothingFailed,
         UNCHANGED <<config, history, results>>,
         pc \notin {"exit", "entry"}, pc' \notin {"exit", "entry"}
  PROVE  LifecycleOK'
BY DEF LifecycleOK

LEMMA SameLog ==
  ASSUME UNCHANGED log
  PROVE  NothingFailed' <=> NothingFailed
BY DEF NothingFailed

LEMMA RoundsAside ==
  ASSUME TypeOK, ControlOK, ErrorOK, LifecycleOK,
         \/ NothingAlways \/ AlwaysRound \/ Return \/ IgnoreSignal \/ EmptyRow
         \/ ReceiveSignal \/ PassUnguarded \/ NoneFired \/ CloseStep
         \/ RouteToErrorState \/ Propagate
  PROVE  LifecycleOK'
<1>1. CASE RouteToErrorState \/ Propagate
  <2>1. pc = "failed" /\ UNCHANGED log
    BY <1>1 DEF RouteToErrorState, Propagate
  <2>2. ~NothingFailed
    BY <2>1, CleanRuns
  <2>3. QED BY <2>1, <2>2, SameLog DEF LifecycleOK
<1>2. CASE \/ NothingAlways \/ AlwaysRound \/ Return \/ IgnoreSignal \/ EmptyRow
           \/ ReceiveSignal \/ PassUnguarded \/ NoneFired \/ CloseStep
  <2>1. /\ UNCHANGED <<config, history, results, log>>
        /\ pc \notin {"exit", "entry"} /\ pc' \notin {"exit", "entry"}
    BY <1>2
    DEF NothingAlways, AlwaysRound, Return, IgnoreSignal, EmptyRow, ReceiveSignal, BeginRound,
        PassUnguarded, NoneFired, CloseStep, StartBatch, argVars, ctxVars
  <2>2. QED BY <2>1, SameLog, LifecycleAside
<1>3. QED BY <1>1, <1>2

(* A guard's answer is no lifecycle action. *)
LEMMA GuardAside ==
  ASSUME TypeOK, ControlOK, LifecycleOK, EvalGuard
  PROVE  LifecycleOK'
<1>1. /\ UNCHANGED <<config, history, log>>
      /\ pc \notin {"exit", "entry"} /\ pc' \notin {"exit", "entry"}
  BY DEF EvalGuard, StartBatch, argVars
<1>2. PICK e \in ResultEntry : results' = Append(results, e) /\ e.source = hook
  <2>1. PICK answer \in BOOLEAN, e \in ResultEntry :
          /\ e = GuardResult(current_state, hook, cands[ci].guard, answer)
          /\ results' = Append(results, e)
    BY GuardRecords
  <2>2. e.source = hook
    BY <2>1 DEF GuardResult
  <2>3. QED BY <2>1, <2>2
<1>3. hook \notin {"exit", "entry"}
  BY DEF TypeOK, LocalsOK, Hooks
<1>4. LifecycleOfResult(e) = <<>>
  BY <1>2, <1>3 DEF LifecycleOfResult
<1>5. LifecycleResults(results') = LifecycleResults(results)
  BY <1>2, <1>4, ResultsMarked, ConcatEmptySeq
<1>6. QED BY <1>1, <1>5, SameLog DEF LifecycleOK

LEMMA ActionMarked ==
  ASSUME TypeOK, ControlOK, LifecycleOK, RunAction
  PROVE  LifecycleOK'
<1>1. /\ UNCHANGED <<config, history, log, pc, current_state>>
      /\ InBatch /\ batch # <<>> /\ batch' = Tail(batch)
  BY DEF RunAction, argVars
<1>2. PICK e \in ResultEntry : /\ results' = Append(results, e)
                               /\ e.source = Source /\ e.state = current_state
                               /\ e.name = Head(batch)
  BY ActionRecords
<1> DEFINE done == LifecycleResults(results)
           path == LifecycleOfPath(config, history)
<1>3. done \in Seq(Mark) /\ LifecycleResults(results') = done \o LifecycleOfResult(e)
  BY <1>2, ResultsMarked
<1> HIDE DEF done
<1>4. CASE pc = "actions"
  <2>1. hook \notin {"exit", "entry"} /\ Source = hook
    BY <1>4 DEF TypeOK, LocalsOK, Hooks, Source
  <2>2. LifecycleOfResult(e) = <<>>
    BY <1>2, <2>1 DEF LifecycleOfResult
  <2>3. LifecycleResults(results') = done
    BY <1>3, <2>2, ConcatEmptySeq
  <2>4. QED BY <1>1, <1>4, <2>3, SameLog DEF LifecycleOK, done
<1>5. CASE pc \in {"exit", "entry"}
  <2> DEFINE m == <<<<current_state, pc, Head(batch)>>>>
  <2>1. LifecycleOfResult(e) = m
    BY <1>2, <1>5 DEF LifecycleOfResult, Source
  <2>2. /\ Ran(current_state, pc, batch) = m \o Ran(current_state, pc, Tail(batch))
        /\ Ran(current_state, pc, Tail(batch)) \in Seq(Mark)
    BY <1>1, <1>5, BatchType, RanType DEF TypeOK, LocalsOK, ContextOK
  <2>3. m \in Seq(Mark)
    BY <1>2, <2>1, ResultsMarked
  <2> HIDE DEF m
  <2>4. \A a, b, c \in Seq(Mark) : (a \o b) \o c = a \o (b \o c)
    BY ConcatAssociative
  <2>5. LifecycleResults(results') \o Ran(current_state, pc, batch')
          = done \o Ran(current_state, pc, batch)
    BY <1>1, <1>3, <2>1, <2>2, <2>3, <2>4
  <2>6. ASSUME NothingFailed' PROVE NothingFailed
    BY <1>1, <2>6, SameLog
  <2>7. QED BY <1>1, <1>5, <2>5, <2>6 DEF LifecycleOK, done
<1>6. QED BY <1>1, <1>4, <1>5 DEF InBatch

LEMMA ExitBegins ==
  ASSUME TypeOK, ControlOK, LifecycleOK, TransitionActionsDone
  PROVE  LifecycleOK'
<1>1. /\ UNCHANGED <<config, history, results, log, current_state>>
      /\ pc = "actions" /\ pc' = "exit" /\ batch' = config[current_state].exit
  BY DEF TransitionActionsDone, StartBatch, argVars
<1>2. QED BY <1>1, SameLog DEF LifecycleOK

LEMMA StateExited ==
  ASSUME TypeOK, ControlOK, ChangeState, NothingFailed'
  PROVE  NothingFailed
<1> DEFINE hop == [what |-> "hop", hook |-> hook, dispatched |-> dispatched,
                   from |-> current_state, to |-> Target]
<1>1. pc = "exit" /\ log' = Append(log, hop)
  BY DEF ChangeState
<1>2. Target \in STRING
  BY <1>1, TargetKnown, GraphType DEF IsConfig
<1>3. hop \in LogEntry
  BY <1>2 DEF LogEntry, TypeOK, LocalsOK, ContextOK
<1> HIDE DEF hop
<1>4. QED BY <1>1, <1>3, CleanBefore

LEMMA EntryBegins ==
  ASSUME TypeOK, ControlOK, LifecycleOK, ChangeState
  PROVE  LifecycleOK'
<1> SUFFICES ASSUME NothingFailed' PROVE LifecycleOK'
  BY DEF LifecycleOK
<1>1. /\ UNCHANGED <<config, results>> /\ history' = Append(history, Target)
      /\ current_state' = Target /\ pc = "exit" /\ batch = <<>>
  BY DEF ChangeState, argVars
<1>2. NothingFailed /\ Target \in DOMAIN config /\ current_state \in DOMAIN config
  BY <1>1, StateExited, TargetKnown DEF ControlOK, Busy
<1>3. pc' = "entry" /\ batch' = config[Target].entry
  BY DEF ChangeState, StartBatch, EntryActions
<1> DEFINE done == LifecycleResults(results)
           path == LifecycleOfPath(config, history)
           out == Ran(current_state, "exit", config[current_state].exit)
           in == Ran(Target, "entry", config[Target].entry)
<1>4. Walk(config, history) /\ done \o Ran(current_state, "exit", <<>>) = path \o out
  BY <1>1, <1>2 DEF LifecycleOK
<1>5. out \in Seq(Mark) /\ in \in Seq(Mark) /\ Ran(current_state, "exit", <<>>) = <<>>
  BY <1>2, GraphType, StateConfigType, RanType
<1>6. done \in Seq(Mark)
  BY NowMarked
<1>7. /\ Walk(config, history') /\ path \in Seq(Mark)
      /\ LifecycleOfPath(config, history') = path \o (out \o in)
  BY <1>1, <1>2, <1>4, PathMarked DEF LifecycleOf
<1> HIDE DEF done, path, out, in
<1>8. done = path \o out
  BY <1>4, <1>5, <1>6, ConcatEmptySeq
<1>9. \A a, b, c \in Seq(Mark) : (a \o b) \o c = a \o (b \o c)
  BY ConcatAssociative
<1>10. done \o in = path \o (out \o in)
  BY <1>5, <1>7, <1>8, <1>9
<1>11. LifecycleResults(results') = done /\ Ran(current_state', "entry", batch') = in
  BY <1>1, <1>3 DEF done, in
<1>12. QED BY <1>1, <1>3, <1>7, <1>10, <1>11 DEF LifecycleOK

LEMMA EntryEnds ==
  ASSUME TypeOK, ControlOK, LifecycleOK, EntryActionsDone
  PROVE  LifecycleOK'
<1>1. /\ UNCHANGED <<config, history, results, log, current_state>>
      /\ pc = "entry" /\ pc' = "close" /\ batch = <<>>
  BY DEF EntryActionsDone, argVars
<1>2. Ran(current_state, "entry", <<>>) = <<>> /\ LifecycleResults(results) \in Seq(Mark)
  BY NowMarked, RanType, EmptySeq DEF TypeOK, ContextOK
<1>3. LifecycleResults(results) \o <<>> = LifecycleResults(results)
  BY <1>2, ConcatEmptySeq
<1>4. QED BY <1>1, <1>2, <1>3, SameLog DEF LifecycleOK

LEMMA LifecycleStutter ==
  ASSUME LifecycleOK, UNCHANGED vars
  PROVE  LifecycleOK'
BY SameLog DEF LifecycleOK, vars, argVars, ctxVars, locals

LEMMA LifecycleInit == Init => LifecycleOK
<1> SUFFICES ASSUME Init PROVE LifecycleOK
  OBVIOUS
<1>1. history = <<current_state>> /\ results = <<>> /\ pc = "always"
  BY DEF Init
<1>2. LifecycleOfPath(config, history) = <<>> /\ Walk(config, history)
  BY <1>1, NoHopNoLifecycle
<1>3. LifecycleResults(results) = <<>>
  <2>1. [i \in DOMAIN <<>> |-> LifecycleOfResult(<<>>[i])] = <<>>
    OBVIOUS
  <2>2. QED BY <1>1, <2>1, FlattenEmpty DEF LifecycleResults
<1>4. QED BY <1>1, <1>2, <1>3 DEF LifecycleOK

(***************************************************************************)
(* While nothing has failed, the exit and entry actions that ran are those *)
(* of the path, each in its own state, whatever the actions did.           *)
(***************************************************************************)
THEOREM LifecycleFollowed == Spec => []LifecycleFollowsHistory
<1>1. TypeOK /\ ControlOK /\ ErrorOK /\ LifecycleOK /\ [Next]_vars => LifecycleOK'
  <2>1. ASSUME ~NothingFailed' PROVE LifecycleOK'
    BY <2>1 DEF LifecycleOK
  <2>2. QED
    BY <2>1, FailingSteps, RoundsAside, GuardAside, ActionMarked, ExitBegins, EntryBegins,
       EntryEnds, LifecycleStutter
    DEF Next, Step, Done
<1>2. LifecycleOK => LifecycleFollowsHistory
  BY DEF LifecycleOK, LifecycleFollowsHistory
<1>3. QED
  BY <1>1, <1>2, LifecycleInit, InitErrorOK, ErrorStepOK, TypeAndControl, PTL DEF Spec

-----------------------------------------------------------------------------
(* The path *)

(* A call that starts in a state of its graph never leaves the graph:      *)
(* every state it passes through, recoveries included, is one of those     *)
(* validate_machine knew.                                                  *)
PathOnGraph ==
  history[1] \in DOMAIN config => \A i \in DOMAIN history : history[i] \in DOMAIN config

LEMMA PathGrows ==
  ASSUME TypeOK, ControlOK, [Next]_vars
  PROVE  /\ config' = config
         /\ \/ history' = history
            \/ /\ history' = Append(history, Target) /\ Target \in DOMAIN config
               /\ history \in Seq(STRING) /\ Len(history) > 0 /\ Target \in STRING
<1>1. CASE ChangeState
  <2>1. Target \in DOMAIN config /\ IsConfig(config)
    BY <1>1, TargetKnown, GraphType DEF ChangeState
  <2>2. QED BY <1>1, <2>1 DEF ChangeState, IsConfig, argVars, TypeOK, ContextOK
<1>2. CASE \/ AlwaysLoopExceeded \/ NothingAlways \/ AlwaysRound
           \/ Return \/ IgnoreSignal \/ EmptyRow \/ ReceiveSignal
  BY <1>2 DEF AlwaysLoopExceeded, NothingAlways, AlwaysRound, Return, IgnoreSignal, EmptyRow,
     ReceiveSignal, BeginRound, Fails, argVars, ctxVars
<1>3. CASE PassUnguarded \/ EvalGuard \/ UnknownGuard \/ NoneFired \/ RunAction
  BY <1>3 DEF PassUnguarded, EvalGuard, UnknownGuard, NoneFired, RunAction, Fails, argVars, ctxVars
<1>4. CASE ActionFailed \/ UnknownAction \/ TransitionActionsDone \/ EntryActionsDone
  BY <1>4 DEF ActionFailed, UnknownAction, TransitionActionsDone, EntryActionsDone, Fails, argVars, ctxVars
<1>5. CASE CloseStep \/ RouteToErrorState \/ Propagate \/ Done \/ UNCHANGED vars
  BY <1>5 DEF CloseStep, RouteToErrorState, Propagate, Done, vars, argVars, ctxVars
<1>6. QED BY <1>1, <1>2, <1>3, <1>4, <1>5 DEF Next, Step

(* For every graph that validate_machine accepts, whatever callbacks do.   *)
THEOREM PathStaysOnGraph == Spec => []PathOnGraph
<1>1. Init => PathOnGraph
  <2> SUFFICES ASSUME Init PROVE PathOnGraph
    OBVIOUS
  <2>1. DOMAIN history = {1}
    BY DEF Init
  <2>2. QED BY <2>1 DEF PathOnGraph
<1>2. TypeOK /\ ControlOK /\ PathOnGraph /\ [Next]_vars => PathOnGraph'
  <2> SUFFICES ASSUME TypeOK, ControlOK, PathOnGraph, [Next]_vars PROVE PathOnGraph'
    OBVIOUS
  <2>1. CASE history' = history
    BY <2>1, PathGrows DEF PathOnGraph
  <2>2. CASE history' # history
    <3>1. /\ config' = config
          /\ history' = Append(history, Target) /\ Target \in DOMAIN config
          /\ history \in Seq(STRING) /\ Len(history) > 0 /\ Target \in STRING
      BY <2>2, PathGrows
    <3>2. /\ history'[1] = history[1]
          /\ Target \in DOMAIN config /\ (\A i \in DOMAIN history : history[i] \in DOMAIN config) =>
               \A i \in DOMAIN history' : history'[i] \in DOMAIN config
      BY <3>1, PathLengthens
    <3>3. QED BY <3>1, <3>2 DEF PathOnGraph
  <2>3. QED BY <2>1, <2>2
<1>3. QED BY <1>1, <1>2, TypeAndControl, PTL DEF Spec

-----------------------------------------------------------------------------
(***************************************************************************)
(* Descent.  A signal leads from its own hop over the error hop to the     *)
(* cascade, and every hop from its guards to its end.                      *)
(***************************************************************************)
SignalsLeft == Len(events) - taken
HopKinds == [on |-> 2, error |-> 1, always |-> 0]
HopsToCome == HopKinds[hook]
CascadeLeft == MaxDepth - depth
Places ==
  [always |-> 8, guard |-> 7, actions |-> 6, exit |-> 5, entry |-> 4, close |-> 3,
   failed |-> 2, dispatch |-> 1, returned |-> 0, raised |-> 0]
Place == Places[pc]
Todo == IF pc = "guard" THEN Len(cands) + 1 - ci ELSE Len(batch)

(* How far the call is from its end. *)
Rank == <<SignalsLeft, HopsToCome, CascadeLeft, Place, Todo>>

ComesCloser == <<Rank', Rank>> \in RankOrder

LEMMA Placed ==
  /\ Places["always"] = 8 /\ Places["guard"] = 7 /\ Places["actions"] = 6
  /\ Places["exit"] = 5 /\ Places["entry"] = 4 /\ Places["close"] = 3
  /\ Places["failed"] = 2 /\ Places["dispatch"] = 1
  /\ Places["returned"] = 0 /\ Places["raised"] = 0
BY DEF Places

LEMMA PlaceType == TypeOK => Place \in Nat
<1> SUFFICES ASSUME TypeOK PROVE Place \in Nat
  OBVIOUS
<1>1. pc \in {"always", "dispatch", "guard", "actions", "exit", "entry", "close",
            "failed", "returned", "raised"}
  BY DEF TypeOK, LocalsOK
<1>2. QED BY <1>1, Placed DEF Place

LEMMA KindsOfHop == HopKinds["on"] = 2 /\ HopKinds["error"] = 1 /\ HopKinds["always"] = 0
BY DEF HopKinds

LEMMA HopsType == TypeOK => HopsToCome \in Nat /\ (hook # "always" => HopsToCome > 0)
<1> SUFFICES ASSUME TypeOK PROVE HopsToCome \in Nat /\ (hook # "always" => HopsToCome > 0)
  OBVIOUS
<1>1. hook \in {"always", "on", "error"}
  BY DEF TypeOK, LocalsOK, Hooks
<1>2. QED BY <1>1, KindsOfHop DEF HopsToCome

RankOK ==
  /\ SignalsLeft \in Nat /\ HopsToCome \in Nat /\ CascadeLeft \in Nat
  /\ Place \in Nat /\ Todo \in Nat

LEMMA RankIsNumbers == TypeOK => RankOK
<1> SUFFICES ASSUME TypeOK PROVE RankOK
  OBVIOUS
<1>1. Len(events) \in Nat /\ Len(cands) \in Nat /\ Len(batch) \in Nat
  BY CallAssumption, LenProperties DEF TypeOK, ArgsOK, LocalsOK
<1>2. SignalsLeft \in Nat /\ CascadeLeft \in Nat /\ Todo \in Nat
  BY <1>1, DepthAssumption DEF SignalsLeft, CascadeLeft, Todo, TypeOK, LocalsOK
<1>3. QED BY <1>2, PlaceType, HopsType DEF RankOK

(* What makes the rank fall. *)
Descent ==
  \/ SignalsLeft' < SignalsLeft
  \/ SignalsLeft' = SignalsLeft /\ HopsToCome' < HopsToCome
  \/ SignalsLeft' = SignalsLeft /\ HopsToCome' = HopsToCome /\ CascadeLeft' < CascadeLeft
  \/ /\ SignalsLeft' = SignalsLeft /\ HopsToCome' = HopsToCome /\ CascadeLeft' = CascadeLeft
     /\ Place' < Place
  \/ /\ SignalsLeft' = SignalsLeft /\ HopsToCome' = HopsToCome /\ CascadeLeft' = CascadeLeft
     /\ Place' = Place /\ Todo' < Todo

LEMMA DescentFalls ==
  ASSUME TypeOK, TypeOK', Descent
  PROVE  ComesCloser
<1>1. RankOK /\ RankOK'
  <2>1. TypeOK' => RankOK'
    BY RankIsNumbers, PTL
  <2>2. QED BY <2>1, RankIsNumbers
<1>2. QED BY <1>1, RankFalls DEF RankOK, Descent, Rank, ComesCloser

(* Within a round the call moves on to a later place. *)
LEMMA PlaceFalls ==
  ASSUME UNCHANGED <<events, taken, hook, depth>>, Place' < Place
  PROVE  Descent
BY DEF Descent, SignalsLeft, HopsToCome, CascadeLeft

(* ... or has one thing less to do at its place. *)
LEMMA TodoFalls ==
  ASSUME UNCHANGED <<events, taken, hook, depth, pc>>, Todo' < Todo
  PROVE  Descent
BY DEF Descent, SignalsLeft, HopsToCome, CascadeLeft, Place

LEMMA SignalsFall ==
  ASSUME TypeOK, IgnoreSignal \/ EmptyRow \/ ReceiveSignal
  PROVE  Descent
<1>1. Len(events) \in Nat /\ taken \in Nat
  BY LenProperties, CallAssumption DEF TypeOK, ArgsOK, LocalsOK
<1>2. events' = events /\ taken' = taken + 1
  BY DEF IgnoreSignal, EmptyRow, ReceiveSignal, Taken, argVars
<1>3. QED BY <1>1, <1>2 DEF Descent, SignalsLeft

LEMMA CascadeFalls ==
  ASSUME TypeOK, TypeOK', ControlOK, CloseStep
  PROVE  Descent
<1>0. UNCHANGED <<events, taken>> /\ pc = "close"
  BY DEF CloseStep, argVars
<1>1. CASE pc' \in {"failed", "dispatch"} /\ UNCHANGED <<hook, depth>>
  BY <1>0, <1>1, Placed, PlaceFalls DEF Place
<1>2. CASE hook' = "always" /\ depth' = NextDepth
  <2>1. CASE hook = "always"
    <3>1. depth' = depth + 1 /\ depth \in Nat /\ MaxDepth \in Nat
      BY <1>2, <2>1, DepthAssumption DEF NextDepth, TypeOK, LocalsOK
    <3>2. CascadeLeft' < CascadeLeft
      BY <3>1 DEF CascadeLeft
    <3>3. QED BY <1>0, <1>2, <2>1, <3>2 DEF Descent, SignalsLeft, HopsToCome
  <2>2. CASE hook # "always"
    <3>1. HopsToCome > 0 /\ HopsToCome' = 0
      BY <1>2, <2>2, HopsType, KindsOfHop DEF HopsToCome
    <3>2. QED BY <1>0, <3>1 DEF Descent, SignalsLeft
  <2>3. QED BY <2>1, <2>2
<1>3. QED BY <1>1, <1>2 DEF CloseStep

LEMMA RecoveryFalls ==
  ASSUME TypeOK, TypeOK', ControlOK, RouteToErrorState
  PROVE  Descent
<1>1. UNCHANGED <<events, taken>> /\ hook = "on" /\ hook' = "error"
  BY DEF RouteToErrorState, ControlOK, PendingControl, argVars
<1>2. HopsToCome = 2 /\ HopsToCome' = 1
  BY <1>1, KindsOfHop DEF HopsToCome
<1>3. QED BY <1>1, <1>2 DEF Descent, SignalsLeft

(* A guard that refuses, an action that is done. *)
LEMMA CallbacksFall ==
  ASSUME TypeOK, TypeOK', EvalGuard \/ RunAction
  PROVE  Descent
<1>0. UNCHANGED <<events, taken, hook, depth>>
  BY DEF EvalGuard, RunAction, argVars
<1>1. CASE EvalGuard
  <2>1. pc = "guard" /\ cands' = cands
    BY <1>1 DEF EvalGuard
  <2>2. CASE pc' = "actions"
    BY <1>0, <2>1, <2>2, Placed, PlaceFalls DEF Place
  <2>3. CASE pc' = pc /\ ci' = ci + 1
    <3>1. Len(cands) \in Nat /\ ci \in Nat
      BY LenProperties DEF TypeOK, LocalsOK
    <3>2. Todo' < Todo
      BY <2>1, <2>3, <3>1 DEF Todo
    <3>3. QED BY <1>0, <2>3, <3>2, TodoFalls
  <2>4. QED BY <1>1, <2>2, <2>3 DEF EvalGuard, StartBatch
<1>2. CASE RunAction
  <2>1. /\ pc' = pc /\ pc # "guard" /\ batch \in Seq(STRING) /\ batch # <<>>
        /\ batch' = Tail(batch)
    BY <1>2 DEF RunAction, InBatch, TypeOK, LocalsOK
  <2>2. Len(batch) \in Nat /\ Len(batch') = Len(batch) - 1
    BY <2>1, HeadTailProperties, LenProperties
  <2>3. Todo' < Todo
    BY <2>1, <2>2 DEF Todo
  <2>4. QED BY <1>0, <2>1, <2>3, TodoFalls
<1>3. QED BY <1>1, <1>2

LEMMA RoundFalls ==
  ASSUME TypeOK, TypeOK', ControlOK,
         \/ AlwaysLoopExceeded \/ NothingAlways \/ AlwaysRound \/ Return
         \/ PassUnguarded \/ UnknownGuard \/ NoneFired \/ ActionFailed \/ UnknownAction
         \/ TransitionActionsDone \/ ChangeState \/ EntryActionsDone \/ Propagate
  PROVE  Descent
<1>1. CASE AlwaysRound
  <2>1. /\ pc = "always" /\ hook = "always" /\ UNCHANGED <<events, taken, depth>>
        /\ hook' = "always" /\ pc' = "guard"
    BY <1>1 DEF AlwaysRound, BeginRound, ControlOK, argVars
  <2>2. Place' < Place
    BY <2>1, Placed DEF Place
  <2>3. QED BY <2>1, <2>2, PlaceFalls
<1>2. CASE NothingAlways \/ Return \/ Propagate
  <2>1. /\ UNCHANGED <<events, taken, hook, depth>>
        /\ \/ pc = "always" /\ pc' = "dispatch"
           \/ pc = "dispatch" /\ pc' = "returned"
           \/ pc = "failed" /\ pc' = "raised"
    BY <1>2 DEF NothingAlways, Return, Propagate, argVars, locals
  <2>2. Place' < Place
    BY <2>1, Placed DEF Place
  <2>3. QED BY <2>1, <2>2, PlaceFalls
<1>3. CASE AlwaysLoopExceeded \/ UnknownGuard \/ ActionFailed \/ UnknownAction
  <2>1. /\ UNCHANGED <<events, taken, hook, depth>>
        /\ pc \in {"always", "guard", "actions", "exit", "entry"}
    BY <1>3 DEF AlwaysLoopExceeded, UnknownGuard, ActionFailed, UnknownAction, InBatch,
       argVars, locals
  <2>2. pc' \in {"close", "raised"}
    BY <1>3 DEF AlwaysLoopExceeded, UnknownGuard, ActionFailed, UnknownAction, Fails
  <2>3. Place' < Place
    BY <2>1, <2>2, Placed DEF Place
  <2>4. QED BY <2>1, <2>3, PlaceFalls
<1>4. CASE PassUnguarded \/ NoneFired \/ TransitionActionsDone \/ EntryActionsDone
  <2>1. /\ UNCHANGED <<events, taken, hook, depth>>
        /\ \/ pc = "guard" /\ pc' \in {"actions", "close"}
           \/ pc = "actions" /\ pc' = "exit"
           \/ pc = "entry" /\ pc' = "close"
    BY <1>4 DEF PassUnguarded, NoneFired, TransitionActionsDone, EntryActionsDone, StartBatch,
       argVars, locals
  <2>2. Place' < Place
    BY <2>1, Placed DEF Place
  <2>3. QED BY <2>1, <2>2, PlaceFalls
<1>5. CASE ChangeState
  <2>1. UNCHANGED <<events, taken, hook, depth>> /\ pc = "exit" /\ pc' = "entry"
    BY <1>5 DEF ChangeState, StartBatch, argVars
  <2>2. Place' < Place
    BY <2>1, Placed DEF Place
  <2>3. QED BY <2>1, <2>2, PlaceFalls
<1>6. QED BY <1>1, <1>2, <1>3, <1>4, <1>5

LEMMA StepDescends ==
  ASSUME TypeOK, TypeOK', ControlOK, Next
  PROVE  UNCHANGED vars \/ ComesCloser
<1>1. UNCHANGED vars \/ Descent
  BY SignalsFall, CascadeFalls, RecoveryFalls, CallbacksFall, RoundFalls DEF Next, Step, Done
<1>2. QED BY <1>1, DescentFalls

(***************************************************************************)
(* Every step of a call brings it closer to its end, by an order in which  *)
(* nothing falls for ever (RanksWellFounded): whatever the graph, the cap  *)
(* and the callbacks, a call has no infinite run of steps.  That it does   *)
(* take its steps is the fairness of the runs.                             *)
(***************************************************************************)
THEOREM CallsDescend == Spec => [][ComesCloser]_vars
<1>1. TypeOK /\ ControlOK /\ [Next]_vars => [ComesCloser]_vars
  BY StepOK, StepDescends
<1>2. QED BY <1>1, TypeAndControl, PTL DEF Spec
=============================================================================
