---------------------------- MODULE PyStreamProofs ----------------------------
(***************************************************************************)
(* The events of a stream: steps never nest and close under their name, a  *)
(* client that applies the patches holds the state, and every result is    *)
(* reported once.  Then the generator and the task it owns: a consumer     *)
(* that reads to the end has seen the call, and whenever it closes the     *)
(* generator or is cancelled, nothing is lost unnoticed and a failure is   *)
(* passed on.                                                              *)
(***************************************************************************)
EXTENDS PyStream, PyMachineProofs

-----------------------------------------------------------------------------
(* Events: the strengthening *)

(* A step is open. *)
InRound == pc \in {"guard", "actions", "exit", "entry", "close"}

(* The step that is open is the one of the signal under way. *)
BracketsOK ==
  IsStream =>
    /\ WellBracketed(event_q)
    /\ AtRest => AllClosed(event_q)
    /\ InRound => InStep(event_q, Signal.event)
    /\ pc = "catch" /\ Caught => AllClosed(event_q)

(* Within a step the client holds the snapshot the next delta is made      *)
(* against; between steps, what the accessor says now.                     *)
SyncOK ==
  IsStream =>
    /\ DeltasApply(event_q)
    /\ InRound => InSync(event_q, state_snapshot)
    /\ AtRest => \/ event_q = <<>>
                 \/ /\ ~CurrentStateDict.raises
                    /\ state_snapshot = CurrentStateDict.view
                    /\ InSync(event_q, state_snapshot)

EventsOK == BracketsOK /\ SyncOK

ActivityEvent == [type : {"ACTIVITY_SNAPSHOT"}, entry : ResultEntry]

(* Only a stream has a queue, and it only grows. *)
LEMMA Emitted ==
  ASSUME TypeOK, NEW evts, Emit(evts), IsStream'
  PROVE  IsStream /\ event_q \in Seq(Event) /\ event_q' = event_q \o evts
BY DEF Emit, IsStream, TypeOK, ContextOK

(* A step is opened, between two others. *)
LEMMA Opened ==
  ASSUME TypeOK, IsStream', NEW name \in StepName, OpenStep(name),
         WellBracketed(event_q), AllClosed(event_q), DeltasApply(event_q)
  PROVE  /\ WellBracketed(event_q') /\ DeltasApply(event_q')
         /\ ~CurrentStateDict.raises =>
              /\ InStep(event_q', name)
              /\ InSync(event_q', state_snapshot')
<1> DEFINE a == StepStarted(name)
           b == StateSnapshot(CurrentStateDict.view)
<1>1. /\ a \in Event /\ a.type = "STEP_STARTED" /\ a.step = name
      /\ b \in Event /\ b.type = "STATE_SNAPSHOT" /\ b.view = CurrentStateDict.view
  BY ViewType DEF StepStarted, StateSnapshot, Event
<1>2. /\ IsStream /\ event_q \in Seq(Event)
      /\ event_q' = event_q \o (IF CurrentStateDict.raises THEN <<a>> ELSE <<a, b>>)
      /\ ~CurrentStateDict.raises => state_snapshot' = b.view
  <2> DEFINE both == IF CurrentStateDict.raises THEN <<a>> ELSE <<a, b>>
  <2>1. Emit(both)
    BY DEF OpenStep
  <2>2. IsStream /\ ~CurrentStateDict.raises => state_snapshot' = CurrentStateDict.view
    BY DEF OpenStep
  <2> HIDE DEF a, b, both
  <2>3. IsStream /\ event_q \in Seq(Event) /\ event_q' = event_q \o both
    BY <2>1, Emitted
  <2>4. QED BY <1>1, <2>2, <2>3 DEF both
<1> HIDE DEF a, b
<1>3. /\ WellBracketed(event_q \o <<a>>) /\ InStep(event_q \o <<a, b>>, name)
      /\ DeltasApply(event_q \o <<a>>) /\ InSync(event_q \o <<a, b>>, b.view)
  BY <1>1, <1>2, StepOpens, SnapshotSyncs
<1>4. CASE CurrentStateDict.raises
  BY <1>2, <1>3, <1>4
<1>5. CASE ~CurrentStateDict.raises
  BY <1>2, <1>3, <1>5 DEF InStep, InSync
<1>6. QED BY <1>4, <1>5

(* Where a step may be opened. *)
LEMMA RestIsClosed ==
  ASSUME EventsOK, IsStream, AtRest \/ (pc = "catch" /\ Caught)
  PROVE  WellBracketed(event_q) /\ AllClosed(event_q) /\ DeltasApply(event_q)
BY DEF EventsOK, BracketsOK, SyncOK

(* A round opens its step. *)
LEMMA RoundOpens ==
  ASSUME TypeOK, ControlOK, EventsOK, AlwaysRound \/ ReceiveSignal \/ RouteToErrorState
  PROVE  EventsOK'
<1> SUFFICES ASSUME IsStream' PROVE EventsOK'
  BY DEF EventsOK, BracketsOK, SyncOK
<1>1. PICK name \in StepName : OpenStep(name) /\ Signal'.event = name
  <2>1. CASE AlwaysRound
    <3>1. OpenStep(AlwaysSignal.event) /\ Signal'.event = AlwaysSignal.event
      BY <2>1, Zenon DEF AlwaysRound, BeginRound, Signal
    <3>2. QED BY <3>1 DEF StepName
  <2>2. CASE ReceiveSignal
    <3>1. taken' = taken + 1 /\ hook' = "on" /\ events' = events
      BY <2>2 DEF ReceiveSignal, SignalsTaken, BeginRound, argVars
    <3>2. events[taken + 1].event \in StepName
      BY <2>2, TakenType DEF ReceiveSignal
    <3>3. Signal'.event = events[taken + 1].event
      BY <3>1 DEF Signal
    <3>4. QED BY <2>2, <3>2, <3>3 DEF ReceiveSignal, BeginRound
  <2>3. CASE RouteToErrorState
    <3>1. hook = "on" /\ hook' = "error" /\ UNCHANGED <<events, taken>>
      BY <2>3 DEF RouteToErrorState, Recovers, Caught, argVars
    <3>2. Signal'.event = Signal.event /\ Signal.event \in StepName
      BY <2>3, <3>1, SignalType DEF Signal, RouteToErrorState, Busy
    <3>3. QED BY <2>3, <3>2 DEF RouteToErrorState
  <2>4. QED BY <2>1, <2>2, <2>3
<1>2. IsStream /\ (AtRest \/ (pc = "catch" /\ Caught))
  BY <1>1, Emitted DEF OpenStep, AlwaysRound, ReceiveSignal, RouteToErrorState, Recovers, AtRest
<1>3. /\ WellBracketed(event_q') /\ DeltasApply(event_q')
      /\ ~CurrentStateDict.raises =>
           InStep(event_q', Signal'.event) /\ InSync(event_q', state_snapshot')
  BY <1>1, <1>2, RestIsClosed, Opened
<1>4. \/ pc' \in {"guard", "exit"} /\ ~AccessorFails
      \/ pc' = "catch" /\ ~Caught'
  <2>1. CASE AlwaysRound \/ ReceiveSignal
    <3>1. /\ ~AccessorFails => pc' = "guard"
          /\ AccessorFails => pc' = "catch" /\ exc' = "Exception"
      BY <2>1 DEF AlwaysRound, ReceiveSignal, BeginRound, ThrowOutside
    <3>2. QED BY <3>1 DEF Caught
  <2>2. CASE RouteToErrorState
    <3>1. hook' = "error" /\ (~AccessorFails => pc' = "exit") /\ (AccessorFails => pc' = "catch")
      BY <2>2 DEF RouteToErrorState, StartBatch, ThrowOutside
    <3>2. QED BY <3>1 DEF Caught
  <2>3. QED BY <2>1, <2>2
<1>5. QED
  BY <1>2, <1>3, <1>4 DEF EventsOK, BracketsOK, SyncOK, InRound, AtRest, AccessorFails

(* Activities are reported within the step. *)
LEMMA ReportIsActivities ==
  ASSUME NEW r \in Seq(ResultEntry), NEW n \in 0 .. Len(r)
  PROVE  [i \in 1 .. Len(r) - n |-> Activity(r[n + i])] \in Seq(ActivityEvent)
<1>1. Len(r) \in Nat
  BY LenProperties
<1>2. \A i \in 1 .. Len(r) - n : Activity(r[n + i]) \in ActivityEvent
  <2> TAKE i \in 1 .. Len(r) - n
  <2>1. n + i \in 1 .. Len(r)
    BY <1>1
  <2>2. r[n + i] \in ResultEntry
    BY <2>1, ElementOfSeq
  <2>3. QED BY <2>2 DEF Activity, ActivityEvent
<1>3. Len(r) - n \in Nat
  BY <1>1
<1>4. [i \in 1 .. Len(r) - n |-> Activity(r[n + i])] \in [1 .. Len(r) - n -> ActivityEvent]
  BY <1>2
<1>5. QED BY <1>3, <1>4, FunctionIsSeq

(* Activities keep the step open and the client in sync. *)
LEMMA RoundGoesOn ==
  ASSUME TypeOK, EventsOK, InRound, pc' \in {"guard", "actions", "exit", "entry", "close"},
         UNCHANGED <<events, taken, hook, state_snapshot>>,
         NEW acts \in Seq(ActivityEvent), Emit(acts)
  PROVE  EventsOK'
<1> SUFFICES ASSUME IsStream' PROVE EventsOK'
  BY DEF EventsOK, BracketsOK, SyncOK
<1>1. IsStream /\ event_q \in Seq(Event) /\ event_q' = event_q \o acts
  BY Emitted
<1>2. InStep(event_q, Signal.event) /\ InSync(event_q, state_snapshot)
  BY <1>1 DEF EventsOK, BracketsOK, SyncOK
<1>3. ActivityEvent \subseteq Event /\ \A e \in ActivityEvent : e.type = "ACTIVITY_SNAPSHOT"
  BY DEF ActivityEvent, Event
<1>4. InStep(event_q', Signal.event) /\ InSync(event_q', state_snapshot)
  BY <1>1, <1>2, <1>3, ActivitiesInStep
<1>5. Signal' = Signal
  BY DEF Signal
<1>6. QED BY <1>4, <1>5 DEF EventsOK, BracketsOK, SyncOK, InRound, AtRest, InStep, InSync

(* So does nothing at all. *)
LEMMA NothingEmitted ==
  ASSUME TypeOK, EventsOK, InRound, pc' \in {"guard", "actions", "exit", "entry", "close"},
         UNCHANGED <<events, taken, hook, state_snapshot, event_q>>
  PROVE  EventsOK'
<1>1. Signal' = Signal
  BY DEF Signal
<1>2. QED BY <1>1 DEF EventsOK, BracketsOK, SyncOK, InRound, AtRest, IsStream

(* The end of each batch. *)
LEMMA ReportGoesOn ==
  ASSUME TypeOK, ControlOK, EventsOK, TransitionActionsDone \/ ChangeState \/ EntryActionsDone
  PROVE  EventsOK'
<1> DEFINE acts == [i \in 1 .. Len(results) - n_before |-> Activity(results[n_before + i])]
<1>1. acts \in Seq(ActivityEvent)
  BY ReportIsActivities DEF TypeOK, ContextOK, LocalsOK
<1>2. /\ Emit(acts) /\ InRound
      /\ UNCHANGED <<events, taken, hook, state_snapshot>>
      /\ \/ pc' \in {"exit", "entry", "close"}
         \/ pc' = "catch" /\ hook # "on"
  BY DEF TransitionActionsDone, ChangeState, EntryActionsDone, EmitActivities, StartBatch,
     InRound, argVars, locals
<1> HIDE DEF acts
<1>3. CASE pc' \in {"exit", "entry", "close"}
  BY <1>1, <1>2, <1>3, RoundGoesOn
<1>4. CASE pc' = "catch" /\ hook # "on"
  <2> SUFFICES ASSUME IsStream' PROVE EventsOK'
    BY DEF EventsOK, BracketsOK, SyncOK
  <2>1. IsStream /\ event_q \in Seq(Event) /\ event_q' = event_q \o acts
    BY <1>2, Emitted
  <2>2. InStep(event_q, Signal.event) /\ InSync(event_q, state_snapshot)
    BY <1>2, <2>1 DEF EventsOK, BracketsOK, SyncOK
  <2>3. ActivityEvent \subseteq Event /\ \A e \in ActivityEvent : e.type = "ACTIVITY_SNAPSHOT"
    BY DEF ActivityEvent, Event
  <2>4. WellBracketed(event_q') /\ DeltasApply(event_q')
    BY <1>1, <2>1, <2>2, <2>3, ActivitiesInStep DEF InStep, InSync
  <2>5. QED
    BY <1>2, <1>4, <2>4 DEF EventsOK, BracketsOK, SyncOK, InRound, AtRest, Caught
<1>5. QED BY <1>2, <1>3, <1>4

(* The answer of a guard. *)
LEMMA GuardReported ==
  ASSUME TypeOK, ControlOK, EventsOK, EvalGuard
  PROVE  EventsOK'
<1>1. /\ InRound /\ pc' \in {"guard", "actions"}
      /\ UNCHANGED <<events, taken, hook, state_snapshot>>
  BY DEF EvalGuard, StartBatch, InRound, argVars
<1>2. PICK e \in ResultEntry : Emit(<<Activity(e)>>)
  BY GuardRecords
<1>3. <<Activity(e)>> \in Seq(ActivityEvent)
  <2>1. Activity(e) \in ActivityEvent
    BY DEF Activity, ActivityEvent
  <2>2. QED BY <2>1, Singleton
<1>4. QED BY <1>1, <1>2, <1>3, RoundGoesOn

(* An exception of a callback leaves the step open, or the finally to      *)
(* close it.                                                               *)
LEMMA ThrownInRound ==
  ASSUME TypeOK, EventsOK, pc \in {"guard", "actions", "exit", "entry"}, NEW e, Throw(e),
         UNCHANGED <<events, taken, hook, state_snapshot, event_q>>
  PROVE  EventsOK'
<1>1. CASE hook = "on"
  BY <1>1, NothingEmitted DEF Throw, InRound
<1>2. CASE hook # "on"
  <2>1. pc' = "catch" /\ ~Caught'
    BY <1>2 DEF Throw, Caught
  <2>2. QED
    BY <2>1 DEF EventsOK, BracketsOK, SyncOK, InRound, AtRest, IsStream, InStep, InSync
<1>3. QED BY <1>1, <1>2

(* What the closing events are. *)
LEMMA ClosingIs ==
  ASSUME NEW e \in Event, e = StepFinished(Signal.event),
         NEW d \in Event, d = StateDelta(state_snapshot, CurrentStateDict.view)
  PROVE  ClosingEvents = IF state_snapshot = CurrentStateDict.view THEN <<e>> ELSE <<d, e>>
<1>1. ClosingEvents = (IF state_snapshot = CurrentStateDict.view THEN <<>> ELSE <<d>>) \o <<e>>
  BY Zenon DEF ClosingEvents, Patch
<1>2. <<e>> \in Seq(Event) /\ <<d>> \in Seq(Event) /\ Append(<<d>>, e) = <<d, e>>
  BY PairAppended, Singleton
<1>3. <<>> \o <<e>> = <<e>> /\ <<d>> \o <<e>> = Append(<<d>>, e)
  BY <1>2, ConcatEmptySeq, AppendIsConcat
<1>4. QED BY <1>1, <1>2, <1>3

(* The step closes, the client brought up to date. *)
LEMMA StepCloseReported ==
  ASSUME TypeOK, ControlOK, EventsOK, CloseStep
  PROVE  EventsOK'
<1> SUFFICES ASSUME IsStream' PROVE EventsOK'
  BY DEF EventsOK, BracketsOK, SyncOK
<1>1. /\ pc = "close" /\ ~AccessorFails /\ Emit(ClosingEvents)
      /\ pc' \in {"catch", "always", "dispatch"}
      /\ UNCHANGED <<state_accessor, current_state, session>>
      /\ state_snapshot' = IF IsStream THEN CurrentStateDict.view ELSE state_snapshot
  BY DEF CloseStep, argVars
<1>2. IsStream /\ event_q \in Seq(Event) /\ event_q' = event_q \o ClosingEvents
  BY <1>1, Emitted
<1> DEFINE e == StepFinished(Signal.event)
           d == StateDelta(state_snapshot, CurrentStateDict.view)
<1>3. /\ e \in Event /\ e.type = "STEP_FINISHED" /\ e.step = Signal.event
      /\ d \in Event /\ d.type = "STATE_DELTA" /\ d.old = state_snapshot
      /\ d.new = CurrentStateDict.view
  <2>1. Signal.event \in StepName
    BY <1>1, SignalType DEF Busy
  <2>2. QED BY <2>1, ViewType DEF StepFinished, StateDelta, Event, TypeOK, ContextOK
<1>4. ClosingEvents = IF state_snapshot = CurrentStateDict.view THEN <<e>> ELSE <<d, e>>
  BY <1>3, ClosingIs
<1> HIDE DEF e, d
<1>5. InStep(event_q, e.step) /\ InSync(event_q, state_snapshot)
  BY <1>1, <1>2, <1>3 DEF EventsOK, BracketsOK, SyncOK, InRound
<1>6. /\ WellBracketed(event_q \o <<e>>) /\ AllClosed(event_q \o <<e>>)
      /\ WellBracketed(event_q \o <<d, e>>) /\ AllClosed(event_q \o <<d, e>>)
  BY <1>2, <1>3, <1>5, StepCloses
<1>7. /\ InSync(event_q \o <<e>>, state_snapshot)
      /\ InSync(event_q \o <<d, e>>, CurrentStateDict.view)
  <2>1. \A v : d.old = v /\ InSync(event_q, v) => InSync(event_q \o <<d, e>>, d.new)
    BY <1>2, <1>3, PatchSyncs
  <2>2. QED BY <1>2, <1>3, <1>5, <2>1, PatchSyncs
<1>8. /\ WellBracketed(event_q') /\ AllClosed(event_q')
      /\ InSync(event_q', CurrentStateDict.view)
  BY <1>2, <1>4, <1>6, <1>7
<1>9. /\ state_snapshot' = CurrentStateDict.view
      /\ CurrentStateDict' = CurrentStateDict /\ ~CurrentStateDict.raises
  BY <1>1, <1>2 DEF CurrentStateDict, AccessorFails
<1>10. QED
  BY <1>1, <1>8, <1>9 DEF EventsOK, BracketsOK, SyncOK, InRound, AtRest, InSync

(* Steps that tell the consumer nothing. *)
LEMMA NothingTold ==
  ASSUME TypeOK, ControlOK, EventsOK,
         \/ AlwaysFails \/ NothingAlways \/ Return \/ IgnoreSignal \/ PassUnguarded
         \/ NoneFired \/ RunAction \/ CloseFails \/ Propagate \/ UNCHANGED vars
  PROVE  EventsOK'
<1>1. CASE AlwaysFails \/ CloseFails \/ Propagate
  <2>1. UNCHANGED event_q /\ (pc' = "raised" \/ (pc' = "catch" /\ ~Caught'))
    BY <1>1 DEF AlwaysFails, CloseFails, Propagate, ThrowOutside, Caught, ControlOK, ctxVars, locals
  <2>2. QED
    BY <2>1 DEF EventsOK, BracketsOK, SyncOK, InRound, AtRest, IsStream
<1>2. CASE NothingAlways \/ Return \/ IgnoreSignal
  <2>1. /\ AtRest /\ pc' \in {"dispatch", "returned"}
        /\ UNCHANGED <<event_q, state_accessor, current_state, session, state_snapshot>>
    BY <1>2 DEF NothingAlways, Return, IgnoreSignal, AtRest, argVars, ctxVars
  <2>2. CurrentStateDict' = CurrentStateDict
    BY <2>1 DEF CurrentStateDict
  <2>3. QED
    BY <2>1, <2>2 DEF EventsOK, BracketsOK, SyncOK, InRound, AtRest, IsStream
<1>3. CASE PassUnguarded \/ NoneFired \/ RunAction
  BY <1>3, NothingEmitted
  DEF PassUnguarded, NoneFired, RunAction, InBatch, StartBatch, InRound, argVars, ctxVars, locals
<1>4. CASE UNCHANGED vars
  <2>1. CurrentStateDict' = CurrentStateDict /\ Signal' = Signal
    BY <1>4 DEF vars, argVars, ctxVars, locals, CurrentStateDict, Signal
  <2>2. QED
    BY <1>4, <2>1
    DEF vars, argVars, ctxVars, locals, EventsOK, BracketsOK, SyncOK, InRound, AtRest,
        IsStream, Caught
<1>5. QED BY <1>1, <1>2, <1>3, <1>4

LEMMA EventsInit == Init => EventsOK
<1> SUFFICES ASSUME Init, IsStream PROVE EventsOK
  BY DEF EventsOK, BracketsOK, SyncOK
<1>1. event_q = <<>> /\ pc = "always"
  BY DEF Init, IsStream
<1>2. WellBracketed(<<>>) /\ DeltasApply(<<>>) /\ AllClosed(<<>>)
  BY EmptySeq DEF WellBracketed, DeltasApply, AllClosed, TypeAt
<1>3. QED BY <1>1, <1>2 DEF EventsOK, BracketsOK, SyncOK, InRound, AtRest

LEMMA EventsStep ==
  ASSUME TypeOK, ControlOK, EventsOK, [Next]_vars
  PROVE  EventsOK'
<1>1. CASE GuardFails \/ ActionFails
  <2>1. PICK e \in Exceptions : Throw(e)
    BY <1>1, GuardThrows, ActionThrows
  <2>2. /\ pc \in {"guard", "actions", "exit", "entry"}
        /\ UNCHANGED <<events, taken, hook, state_snapshot, event_q>>
    BY <1>1 DEF GuardFails, ActionFails, InBatch, argVars, locals
  <2>3. QED BY <2>1, <2>2, ThrownInRound
<1>2. QED
  BY <1>1, RoundOpens, ReportGoesOn, GuardReported, StepCloseReported, NothingTold
  DEF Next, Done

(* The strengthening implies the two properties. *)
LEMMA EventsTell ==
  ASSUME EventsOK, TypeOK
  PROVE  StepsBracketed /\ ClientInSync
<1>0. CASE ~IsStream
  <2>1. Queue = <<>> /\ WellBracketed(<<>>) /\ DeltasApply(<<>>) /\ AllClosed(<<>>)
    BY <1>0, EmptySeq DEF Queue, WellBracketed, DeltasApply, AllClosed, TypeAt
  <2>2. HoldsNothingBut(<<>>, CurrentStateDict.view)
    BY DEF HoldsNothingBut
  <2>3. QED BY <2>1, <2>2 DEF StepsBracketed, ClientInSync
<1>1. CASE IsStream
  <2>1. Queue = event_q /\ HoldsNothingBut(<<>>, CurrentStateDict.view)
    BY <1>1 DEF Queue, HoldsNothingBut
  <2>2. StepsBracketed
    BY <1>1, <2>1 DEF EventsOK, BracketsOK, StepsBracketed
  <2>3. AtRest => HoldsNothingBut(event_q, CurrentStateDict.view)
    BY <1>1, <2>1 DEF EventsOK, SyncOK, InSync, HoldsNothingBut
  <2>4. QED BY <1>1, <2>1, <2>2, <2>3 DEF EventsOK, SyncOK, ClientInSync
<1>2. QED BY <1>0, <1>1

(***************************************************************************)
(* Steps never nest, each closes under the name it was opened with, and    *)
(* none is open between rounds; every delta is made against what a client  *)
(* holds that keeps the last snapshot and applies each delta, and between  *)
(* rounds that is the state the accessor reports.                          *)
(***************************************************************************)
THEOREM EventsFit == Spec => [](StepsBracketed /\ ClientInSync)
BY EventsInit, EventsStep, EventsTell, TypeAndControl, PTL DEF Spec

(* Each of the two, for the runs that check it. *)
THEOREM BracketsFit == Spec => []StepsBracketed
BY EventsFit, PTL

THEOREM ClientsKeepUp == Spec => []ClientInSync
BY EventsFit, PTL

-----------------------------------------------------------------------------
(***************************************************************************)
(* Activities: the strengthening.  What a batch has recorded is reported   *)
(* at its end; up to then the report stops where the batch began.          *)
(***************************************************************************)
ActivityOK ==
  IsStream /\ NothingFailed =>
    Reported(event_q) = IF InBatch THEN SubSeq(results, 1, n_before) ELSE results

(* What an event reports is a list of results, ... *)
LEMMA Tellable ==
  ASSUME TypeOK
  PROVE  Reporting(Event, ResultEntry)
<1>1. \A e \in Event : ReportedBy(e) \in Seq(ResultEntry)
  <2> SUFFICES ASSUME NEW e \in Event PROVE ReportedBy(e) \in Seq(ResultEntry)
    OBVIOUS
  <2>1. e.type = "ACTIVITY_SNAPSHOT" => e.entry \in ResultEntry
    BY DEF Event
  <2>2. \A x \in ResultEntry : <<x>> \in Seq(ResultEntry)
    BY Singleton
  <2>3. QED BY <2>1, <2>2, EmptySeq DEF ReportedBy
<1>2. QED BY <1>1 DEF Reporting

(* ... one result for an activity. *)
LEMMA ActivityTells ==
  Tells([x \in ResultEntry |-> Activity(x)], ResultEntry, Event)
<1>1. \A x \in ResultEntry : Activity(x) \in Event /\ ReportedBy(Activity(x)) = <<x>>
  BY DEF Activity, Event, ReportedBy
<1>2. QED BY <1>1 DEF Tells, Maps

(* The activities that end a batch bring the report up to date. *)
LEMMA BatchReported ==
  ASSUME TypeOK, ActivityOK, InBatch, IsStream', NothingFailed, EmitActivities(n_before)
  PROVE  Reported(event_q') = results
<1> DEFINE f == [x \in ResultEntry |-> Activity(x)]
           acts == [i \in 1 .. Len(results) - n_before |-> Activity(results[n_before + i])]
<1>1. /\ results \in Seq(ResultEntry) /\ n_before \in 0 .. Len(results) /\ Len(results) \in Nat
  BY LenProperties DEF TypeOK, ContextOK, LocalsOK
<1>2. \A i \in 1 .. Len(results) - n_before : results[n_before + i] \in ResultEntry
  <2> TAKE i \in 1 .. Len(results) - n_before
  <2>1. n_before + i \in 1 .. Len(results)
    BY <1>1
  <2>2. QED BY <1>1, <2>1, ElementOfSeq
<1>3. acts = [i \in 1 .. Len(results) - n_before |-> f[results[n_before + i]]]
  BY <1>2
<1>4. Tells(f, ResultEntry, Event) /\ Reporting(Event, ResultEntry)
  BY Tellable, ActivityTells
<1>5. Emit(acts)
  BY DEF EmitActivities
<1> HIDE DEF f, acts
<1>6. IsStream /\ event_q \in Seq(Event) /\ event_q' = event_q \o acts
  BY <1>5, Emitted
<1>7. Reported(event_q) = SubSeq(results, 1, n_before)
       => Reported(event_q \o [i \in 1 .. Len(results) - n_before |-> f[results[n_before + i]]])
            = results
  BY <1>1, <1>4, <1>6, RestReported
<1>8. QED BY <1>3, <1>6, <1>7 DEF ActivityOK

(* Whatever begins a batch begins it with nothing left to report. *)
LEMMA BatchBegins ==
  ASSUME TypeOK', Reported(event_q') = results', n_before' = Len(results')
  PROVE  ActivityOK'
<1>1. SubSeq(results', 1, Len(results')) = results'
  BY SubSeqFull DEF TypeOK, ContextOK
<1>2. QED BY <1>1 DEF ActivityOK

(* The events of a step's opening report nothing, ... *)
LEMMA OpeningUntold ==
  ASSUME TypeOK, IsStream', NEW name \in StepName, OpenStep(name)
  PROVE  IsStream /\ Reported(event_q') = Reported(event_q)
<1> DEFINE a == StepStarted(name)
           b == StateSnapshot(CurrentStateDict.view)
           both == IF CurrentStateDict.raises THEN <<a>> ELSE <<a, b>>
<1>1. a \in Event /\ a.type = "STEP_STARTED" /\ b \in Event /\ b.type = "STATE_SNAPSHOT"
  BY ViewType DEF StepStarted, StateSnapshot, Event
<1>2. Emit(both)
  BY DEF OpenStep
<1> HIDE DEF a, b, both
<1>3. IsStream /\ event_q \in Seq(Event) /\ event_q' = event_q \o both
  BY <1>2, Emitted
<1>4. /\ Reported(event_q \o <<a>>) = Reported(event_q)
      /\ Reported(event_q \o <<a, b>>) = Reported(event_q)
  BY <1>1, <1>3, Tellable, OthersReportNothing
<1>5. QED BY <1>3, <1>4 DEF both

(* ... nor do those of its closing. *)
LEMMA ClosingUntold ==
  ASSUME TypeOK, ControlOK, IsStream', CloseStep
  PROVE  IsStream /\ Reported(event_q') = Reported(event_q)
<1>1. pc = "close" /\ Emit(ClosingEvents)
  BY DEF CloseStep
<1>2. IsStream /\ event_q \in Seq(Event) /\ event_q' = event_q \o ClosingEvents
  BY <1>1, Emitted
<1> DEFINE e == StepFinished(Signal.event)
           d == StateDelta(state_snapshot, CurrentStateDict.view)
<1>3. e \in Event /\ e.type = "STEP_FINISHED" /\ d \in Event /\ d.type = "STATE_DELTA"
  <2>1. Signal.event \in StepName
    BY <1>1, SignalType DEF Busy
  <2>2. QED BY <2>1, ViewType DEF StepFinished, StateDelta, Event, TypeOK, ContextOK
<1>4. ClosingEvents = <<e>> \/ ClosingEvents = <<d, e>>
  BY <1>3, ClosingIs
<1> HIDE DEF e, d
<1>5. /\ Reported(event_q \o <<e>>) = Reported(event_q)
      /\ Reported(event_q \o <<d, e>>) = Reported(event_q)
  BY <1>2, <1>3, Tellable, OthersReportNothing
<1>6. QED BY <1>2, <1>4, <1>5

(* A round opens with the report where it was. *)
LEMMA OpeningReports ==
  ASSUME TypeOK, ControlOK, FailureOK, ActivityOK, AlwaysRound \/ ReceiveSignal \/ RouteToErrorState
  PROVE  ActivityOK'
<1> SUFFICES ASSUME IsStream', NothingFailed' PROVE ActivityOK'
  BY DEF ActivityOK
<1>1. NothingFailed
  <2>1. UNCHANGED log \/ \E h \in Hooks, e \in Exceptions : log' = Append(log, Failure(h, "step", e))
    BY DEF AlwaysRound, ReceiveSignal, BeginRound, RouteToErrorState, ThrowOutside, Hooks, Exceptions
  <2>2. QED BY <2>1, SameLog, FailureShows
<1>2. ~RouteToErrorState
  BY <1>1, CleanRuns DEF RouteToErrorState
<1>3. PICK name \in StepName : OpenStep(name)
  <2>1. CASE AlwaysRound
    BY <2>1 DEF AlwaysRound, BeginRound, StepName
  <2>2. CASE ReceiveSignal
    <3>1. events[taken + 1].event \in StepName
      BY <2>2, TakenType DEF ReceiveSignal
    <3>2. QED BY <2>2, <3>1 DEF ReceiveSignal, BeginRound
  <2>3. QED BY <1>2, <2>1, <2>2
<1>4. IsStream /\ Reported(event_q') = Reported(event_q)
  BY <1>3, OpeningUntold
<1>5. UNCHANGED results /\ ~InBatch /\ ~InBatch'
  BY <1>2 DEF AlwaysRound, ReceiveSignal, BeginRound, ThrowOutside, InBatch
<1>6. QED BY <1>1, <1>4, <1>5 DEF ActivityOK

(* The answer of a guard is reported at once, ... *)
LEMMA GuardTold ==
  ASSUME TypeOK, TypeOK', ControlOK, ActivityOK, EvalGuard
  PROVE  ActivityOK'
<1> SUFFICES ASSUME IsStream', NothingFailed' PROVE ActivityOK'
  BY DEF ActivityOK
<1>1. pc = "guard" /\ UNCHANGED log
  BY DEF EvalGuard
<1>2. PICK e \in ResultEntry : results' = Append(results, e) /\ Emit(<<Activity(e)>>)
  BY GuardRecords
<1>3. IsStream /\ event_q \in Seq(Event) /\ event_q' = event_q \o <<Activity(e)>>
  BY <1>2, Emitted
<1>4. Activity(e) \in Event /\ ReportedBy(Activity(e)) = <<e>>
  BY DEF Activity, Event, ReportedBy
<1>5. Reported(event_q \o <<Activity(e)>>) = Reported(event_q) \o <<e>>
  <2>1. Reported(Append(event_q, Activity(e))) = Reported(event_q) \o ReportedBy(Activity(e))
    BY <1>3, <1>4, Tellable, ReportedGrows
  <2>2. event_q \o <<Activity(e)>> = Append(event_q, Activity(e))
    BY <1>3, <1>4, AppendIsConcat
  <2>3. QED BY <1>4, <2>1, <2>2
<1>6. Reported(event_q) = results
  BY <1>1, <1>3, SameLog DEF ActivityOK, InBatch
<1>7. results \o <<e>> = Append(results, e)
  BY AppendIsConcat DEF TypeOK, ContextOK
<1>8. Reported(event_q') = results'
  BY <1>2, <1>3, <1>5, <1>6, <1>7
<1>9. pc' = "guard" \/ n_before' = Len(results')
  BY <1>1 DEF EvalGuard, StartBatch
<1>10. QED BY <1>8, <1>9, BatchBegins DEF ActivityOK, InBatch

(* ... those of a batch when it ends. *)
LEMMA BatchesTold ==
  ASSUME TypeOK, TypeOK', ControlOK, ActivityOK,
         TransitionActionsDone \/ ChangeState \/ EntryActionsDone
  PROVE  ActivityOK'
<1> SUFFICES ASSUME IsStream', NothingFailed' PROVE ActivityOK'
  BY DEF ActivityOK
<1>1. NothingFailed
  <2>1. CASE ChangeState
    BY <2>1, StateExited
  <2>2. CASE TransitionActionsDone \/ EntryActionsDone
    BY <2>2, SameLog DEF TransitionActionsDone, EntryActionsDone
  <2>3. QED BY <2>1, <2>2
<1>2. InBatch /\ EmitActivities(n_before) /\ UNCHANGED results
  BY DEF TransitionActionsDone, ChangeState, EntryActionsDone, InBatch
<1>3. Reported(event_q') = results'
  BY <1>1, <1>2, BatchReported
<1>4. ~InBatch' \/ n_before' = Len(results')
  BY DEF TransitionActionsDone, ChangeState, EntryActionsDone, StartBatch, InBatch
<1>5. QED BY <1>3, <1>4, BatchBegins DEF ActivityOK

(* An action that ran waits for the end of its batch. *)
LEMMA ActionUntold ==
  ASSUME TypeOK, ControlOK, ActivityOK, RunAction
  PROVE  ActivityOK'
<1>1. UNCHANGED <<config, state_accessor, log, pc, event_q, n_before>> /\ InBatch
  BY DEF RunAction, argVars
<1>2. PICK e \in ResultEntry : results' = Append(results, e)
  BY ActionRecords
<1>3. SubSeq(Append(results, e), 1, n_before) = SubSeq(results, 1, n_before)
  BY FirstOfAppend DEF TypeOK, ContextOK, LocalsOK
<1>4. IsStream' => IsStream
  BY <1>1 DEF IsStream
<1>5. QED BY <1>1, <1>2, <1>3, <1>4, SameLog DEF ActivityOK, InBatch

(* The rest records and reports nothing. *)
LEMMA RestUntold ==
  ASSUME TypeOK, TypeOK', ControlOK, FailureOK, ActivityOK,
         \/ NothingAlways \/ Return \/ IgnoreSignal \/ PassUnguarded \/ NoneFired
         \/ CloseStep \/ Propagate \/ UNCHANGED vars
  PROVE  ActivityOK'
<1> SUFFICES ASSUME IsStream', NothingFailed' PROVE ActivityOK'
  BY DEF ActivityOK
<1>1. UNCHANGED <<log, results>>
  BY DEF NothingAlways, Return, IgnoreSignal, PassUnguarded, NoneFired, CloseStep, Propagate,
     vars, ctxVars, locals
<1>2. NothingFailed
  BY <1>1, SameLog
<1>3. IsStream /\ Reported(event_q') = Reported(event_q)
  <2>1. CASE CloseStep
    BY <2>1, ClosingUntold
  <2>2. CASE ~CloseStep
    <3>1. UNCHANGED event_q
      BY <2>2 DEF NothingAlways, Return, IgnoreSignal, PassUnguarded, NoneFired, Propagate,
         vars, ctxVars, locals
    <3>2. QED BY <3>1 DEF IsStream
  <2>3. QED BY <2>1, <2>2
<1>4. CASE UNCHANGED vars
  BY <1>2, <1>3, <1>4 DEF ActivityOK, InBatch, vars, ctxVars, locals
<1>5. CASE PassUnguarded
  BY <1>1, <1>2, <1>3, <1>5, BatchBegins DEF ActivityOK, InBatch, PassUnguarded, StartBatch
<1>6. CASE NothingAlways \/ Return \/ IgnoreSignal \/ NoneFired \/ CloseStep \/ Propagate
  <2>1. ~InBatch /\ ~InBatch'
    BY <1>6 DEF NothingAlways, Return, IgnoreSignal, NoneFired, CloseStep, Propagate, InBatch
  <2>2. QED BY <1>1, <1>2, <1>3, <2>1 DEF ActivityOK
<1>7. QED BY <1>4, <1>5, <1>6

LEMMA ActivityInit == Init => ActivityOK
<1> SUFFICES ASSUME Init, IsStream PROVE ActivityOK
  BY DEF ActivityOK
<1>1. event_q = <<>> /\ results = <<>> /\ pc = "always"
  BY DEF Init, IsStream
<1>2. QED BY <1>1, NothingReported DEF ActivityOK, InBatch

LEMMA ActivityStep ==
  /\ TypeOK /\ TypeOK' /\ ControlOK /\ FailureOK /\ ActivityOK /\ [Next]_vars
  => ActivityOK'
<1>1. ASSUME ~NothingFailed' PROVE ActivityOK'
  BY <1>1 DEF ActivityOK
<1>2. QED
  BY <1>1, FailingSteps, OpeningReports, GuardTold, BatchesTold, ActionUntold, RestUntold
  DEF Next, Done

LEMMA ActivitiesTell == ActivityOK => ActivitiesReportResults
BY DEF ActivityOK, ActivitiesReportResults, Queue, AtRest, InBatch

(***************************************************************************)
(* Between rounds, a stream in which nothing failed has reported every     *)
(* result, once and in the order it was recorded.                          *)
(***************************************************************************)
THEOREM ActivitiesAccounted == Spec => []ActivitiesReportResults
BY ActivityStep, ActivitiesTell, ActivityInit, FailuresAccounted, PTL DEF Spec

-----------------------------------------------------------------------------
(* The generator: the strengthening *)

(* A call that is failing, or has failed, has an exception to show. *)
RaisesSomething == pc \in {"catch", "raised"} => exc # None

(* The finally is entered for a reason, or behind the last event of a call *)
(* that is over; what it re-raises tells which.                            *)
StreamOK ==
  /\ stage \in Stages
  /\ left \in Departures \cup {None}
  /\ stage = "joining" /\ left = None => AtMarker
  /\ stage = "ended" =>
       /\ Terminated
       /\ seen = Propagating
       /\ left = None => ~Undelivered

(* The engine's own invariant holds beside the consumer. *)
EngineOK == TypeOK /\ ControlOK /\ RaisesSomething

----------------------------------------------------------------------------
LEMMA ThrownIsSomething ==
  ASSUME NEW e \in Exceptions, Throw(e)
  PROVE  exc' # None
BY WrappedType, CallAssumption DEF Throw

LEMMA DriveRaises ==
  ASSUME TypeOK, ControlOK, RaisesSomething, [Next]_vars
  PROVE  RaisesSomething'
<1>0. \A e \in Exceptions : e # None
  BY CallAssumption
<1>1. {"Exception", "KeyError", "RuntimeError"} \subseteq Exceptions
  BY DEF Exceptions
<1>2. CASE AlwaysFails
  BY <1>0, <1>1, <1>2 DEF AlwaysFails, ThrowOutside, RaisesSomething
<1>3. CASE AlwaysRound \/ ReceiveSignal
  BY <1>0, <1>1, <1>3
  DEF AlwaysRound, ReceiveSignal, BeginRound, ThrowOutside, RaisesSomething
<1>4. CASE GuardFails \/ ActionFails
  BY <1>4, GuardThrows, ActionThrows, ThrownIsSomething DEF RaisesSomething
<1>5. CASE ChangeState
  BY <1>0, <1>1, <1>5 DEF ChangeState, StartBatch, RaisesSomething
<1>6. CASE CloseStep
  BY <1>6 DEF CloseStep, RaisesSomething
<1>7. CASE CloseFails \/ RouteToErrorState
  BY <1>0, <1>1, <1>7
  DEF CloseFails, RouteToErrorState, ThrowOutside, StartBatch, RaisesSomething
<1>8. CASE NothingAlways \/ Return \/ IgnoreSignal \/ PassUnguarded \/ EvalGuard \/ NoneFired
           \/ RunAction \/ TransitionActionsDone \/ EntryActionsDone \/ Propagate
           \/ Done \/ UNCHANGED vars
  BY <1>8
  DEF NothingAlways, Return, IgnoreSignal, PassUnguarded, EvalGuard, NoneFired, RunAction,
      TransitionActionsDone, EntryActionsDone, Propagate, Done, StartBatch, InBatch, vars,
      locals, RaisesSomething
<1>9. QED BY <1>2, <1>3, <1>4, <1>5, <1>6, <1>7, <1>8 DEF Next

(* A second cancellation is raised by the callback that is awaited. *)
LEMMA CancelEngineOK ==
  ASSUME EngineOK, CancelEngine
  PROVE  EngineOK'
<1>1. "CancelledError" \in Exceptions
  BY DEF Exceptions
<1>2. TypeOK' /\ ControlOK'
  BY <1>1, CallbackThrowsOK
  DEF EngineOK, CancelEngine, Awaiting, InBatch, ctxVars, TypeOK, ContextOK
<1>3. RaisesSomething'
  BY <1>1, ThrownIsSomething DEF CancelEngine, RaisesSomething
<1>4. QED BY <1>2, <1>3 DEF EngineOK

(* What the generator does to the engine: nothing, unless it passes the     *)
(* cancellation on.                                                         *)
LEMMA EngineMoves == [StreamNext]_<<vars, streamVars>> => [Next]_vars \/ CancelEngine
BY DEF StreamNext, Drive, Start, CloseFresh, Get, GetMarker, Resume, Close, Cancel, Join,
   StreamDone

LEMMA EngineStepOK == EngineOK /\ [StreamNext]_<<vars, streamVars>> => EngineOK'
BY EngineMoves, CancelEngineOK, StepOK, DriveRaises DEF EngineOK

LEMMA GeneratorStepOK ==
  ASSUME StreamOK, [StreamNext]_<<vars, streamVars>>
  PROVE  StreamOK'
<1>0. "GeneratorExit" # None /\ "CancelledError" # None
  BY DepartureAssumption DEF Departures
<1>1. UNCHANGED vars =>
        (Terminated' <=> Terminated) /\ (Undelivered' <=> yielded' < Len(event_q))
        /\ exc' = exc
  BY DEF vars, ctxVars, Terminated, Undelivered
<1>2. CASE Drive
  BY <1>2 DEF Drive, StreamOK, AtMarker, streamVars
<1>3. CASE CancelEngine
  BY <1>0, <1>3 DEF CancelEngine, StreamOK, Departures, Stages
<1>4. CASE Start \/ CloseFresh \/ Get \/ Resume
  BY <1>4 DEF Start, CloseFresh, Get, Resume, StreamOK, Stages
<1>5. CASE GetMarker
  BY <1>1, <1>5 DEF GetMarker, AtMarker, Undelivered, StreamOK, Stages
<1>6. CASE Close \/ Cancel
  BY <1>0, <1>6 DEF Close, Cancel, StreamOK, Departures, Stages
<1>7. CASE Join
  BY <1>1, <1>7 DEF Join, Joinable, AtMarker, Propagating, Undelivered, StreamOK, Stages
<1>8. CASE StreamDone \/ UNCHANGED <<vars, streamVars>>
  BY <1>1, <1>8 DEF StreamDone, streamVars, StreamOK, AtMarker, Propagating, Undelivered
<1>9. QED BY <1>2, <1>3, <1>4, <1>5, <1>6, <1>7, <1>8 DEF StreamNext

LEMMA StreamInitOK == StreamInit => EngineOK /\ StreamOK
<1> SUFFICES ASSUME StreamInit PROVE EngineOK /\ StreamOK
  OBVIOUS
<1>1. EngineOK
  BY InitOK DEF StreamInit, Init, EngineOK, RaisesSomething
<1>2. StreamOK
  BY DEF StreamInit, StreamOK, Stages
<1>3. QED BY <1>1, <1>2

(***************************************************************************)
(* Both hold of every stream, however its consumer behaves: the engine's   *)
(* invariant survives a cancellation thrown into any callback.             *)
(***************************************************************************)
THEOREM StreamsSound == StreamSpec => [](EngineOK /\ StreamOK)
BY StreamInitOK, EngineStepOK, GeneratorStepOK, PTL DEF StreamSpec

(* A consumer that sees no exception has every event of a call that        *)
(* returned.                                                               *)
THEOREM SilentMeansWhole == StreamSpec => []SilenceMeansWhole
<1>1. EngineOK /\ StreamOK => SilenceMeansWhole
  BY DEF EngineOK, RaisesSomething, StreamOK, SilenceMeansWhole, Propagating, Terminated
<1>2. QED BY <1>1, StreamsSound, PTL

(* What the engine raised is what the consumer gets, even after it has     *)
(* turned away.                                                            *)
THEOREM FailuresReachConsumer == StreamSpec => []FailureReachesConsumer
<1>1. EngineOK /\ StreamOK => FailureReachesConsumer
  BY DEF EngineOK, RaisesSomething, StreamOK, FailureReachesConsumer, Propagating
<1>2. QED BY <1>1, StreamsSound, PTL

(* The events survive whatever the consumer does: a cancelled callback is  *)
(* a failure like any other.                                               *)
LEMMA CancelTold ==
  ASSUME TypeOK, EventsOK, CancelEngine
  PROVE  EventsOK'
<1>1. pc \in {"guard", "actions", "exit", "entry"} /\ Throw("CancelledError")
  BY DEF CancelEngine, Awaiting, InBatch
<1>2. UNCHANGED <<events, taken, hook, state_snapshot, event_q>>
  BY DEF CancelEngine, argVars, ctxVars, locals
<1>3. QED BY <1>1, <1>2, ThrownInRound

(* The queue of a stream is well formed however its consumer behaves: also *)
(* when it leaves in the middle of a step.                                 *)
THEOREM StreamedEventsFit == StreamSpec => [](StepsBracketed /\ ClientInSync)
<1>1. StreamInit => EventsOK
  BY EventsInit DEF StreamInit
<1>2. EngineOK /\ EventsOK /\ [StreamNext]_<<vars, streamVars>> => EventsOK'
  BY EngineMoves, CancelTold, EventsStep DEF EngineOK
<1>3. EngineOK /\ EventsOK => StepsBracketed /\ ClientInSync
  BY EventsTell DEF EngineOK
<1>4. QED BY <1>1, <1>2, <1>3, StreamsSound, PTL DEF StreamSpec

-----------------------------------------------------------------------------
(***************************************************************************)
(* A streamed call keeps what a call promises.  Each strengthening of the  *)
(* engine survives a cancellation thrown into the callback being awaited.  *)
(***************************************************************************)
PromisesOK == FailureOK /\ RoundOK /\ LifecycleOK /\ TraceOK /\ BatchOfGraph /\ ActivityOK

LEMMA CancelThrows ==
  ASSUME CancelEngine
  PROVE  /\ Throw("CancelledError") /\ "CancelledError" \in Exceptions
         /\ pc \in {"guard", "actions", "exit", "entry"}
         /\ pc' \in {"close", "catch"}
         /\ UNCHANGED <<argVars, ctxVars, locals>>
BY DEF CancelEngine, Awaiting, InBatch, Throw, Exceptions

LEMMA CancelKept ==
  ASSUME EngineOK, PromisesOK, CancelEngine
  PROVE  PromisesOK'
<1>1. FailureOK'
  BY CancelThrows, CallbackThrows DEF EngineOK, PromisesOK, argVars, locals
<1>2. RoundOK'
  <2>1. exc' # None
    BY CancelThrows, ThrownIsSomething
  <2>2. QED BY <2>1, CancelThrows DEF RoundOK, AllRefused, Trying
<1>3. ~NothingFailed'
  <2>1. /\ hook \in Hooks /\ pc \in {"step", "guard", "actions", "exit", "entry"}
        /\ log' = Append(log, Failure(hook, pc, "CancelledError"))
    BY CancelThrows DEF EngineOK, TypeOK, LocalsOK, Throw
  <2>2. QED BY <2>1, CancelThrows, FailureShows DEF EngineOK
<1>4. LifecycleOK' /\ ActivityOK'
  BY <1>3 DEF LifecycleOK, ActivityOK
<1>5. TraceOK'
  BY CancelThrows DEF PromisesOK, TraceOK, ctxVars
<1>6. BatchOfGraph'
  BY CancelThrows DEF BatchOfGraph, InBatch
<1>7. QED BY <1>1, <1>2, <1>4, <1>5, <1>6 DEF PromisesOK

LEMMA PromisesKept ==
  ASSUME EngineOK, EngineOK', PromisesOK, [StreamNext]_<<vars, streamVars>>
  PROVE  PromisesOK'
<1>1. ASSUME [Next]_vars PROVE PromisesOK'
  BY <1>1, FailureStep, RoundStep, LifecycleStep, TraceStep, BatchKept, ActivityStep
  DEF EngineOK, PromisesOK
<1>2. QED BY <1>1, EngineMoves, CancelKept

LEMMA PromisesMade == Init => PromisesOK
<1>1. Init => BatchOfGraph
  BY DEF Init, BatchOfGraph, InBatch
<1>2. QED BY <1>1, InitFresh, FailureInit, RoundInit, LifecycleInit, TraceInit, ActivityInit DEF PromisesOK

LEMMA PromisesTell ==
  EngineOK /\ PromisesOK =>
    /\ NoFailureSwallowed /\ FirstPassingCandidate /\ SettledBetweenSignals
    /\ LifecycleFollowsHistory /\ ValidatedNeverUnregistered
    /\ TraceTellsTheCall /\ ActivitiesReportResults
BY FailuresTell, RoundsTell, LifecycleTells, NamesTell, ReportTells, ActivitiesTell
DEF EngineOK, PromisesOK

(* Whether its consumer reads to the end, closes it or is cancelled once or *)
(* twice, a stream keeps every promise of a run: failures surface, the      *)
(* first candidate that passes is taken, signals find the machine settled,  *)
(* the lifecycle follows the path, names are known, report and activities   *)
(* account for the results.                                                 *)
THEOREM StreamsKeepPromises ==
  StreamSpec => [](/\ NoFailureSwallowed /\ FirstPassingCandidate /\ SettledBetweenSignals
                   /\ LifecycleFollowsHistory /\ ValidatedNeverUnregistered
                   /\ TraceTellsTheCall /\ ActivitiesReportResults)
<1>1. StreamInit => PromisesOK
  BY PromisesMade DEF StreamInit
<1>2. QED BY <1>1, PromisesKept, PromisesTell, StreamsSound, PTL DEF StreamSpec

-----------------------------------------------------------------------------
(* What a reader has seen: the strengthening *)

(* The queue is never taken away, and the generator yields what is on it. *)
ReadingOK ==
  /\ IsStream
  /\ yielded \in Nat /\ yielded <= Len(event_q)

LEMMA QueueLengthens ==
  ASSUME TypeOK, IsStream, NEW evts \in Seq(Event), Emit(evts)
  PROVE  IsStream' /\ Len(event_q') >= Len(event_q)
<1>1. event_q \in Seq(Event) /\ event_q' = event_q \o evts
  BY DEF Emit, IsStream, TypeOK, ContextOK
<1>2. event_q' \in Seq(Event) /\ Len(event_q') = Len(event_q) + Len(evts)
  BY <1>1, ConcatProperties
<1>3. Len(event_q) \in Nat /\ Len(evts) \in Nat
  BY <1>1, LenProperties
<1>4. QED BY <1>2, <1>3, QueueAssumption DEF IsStream

(* No step of the engine takes an event back. *)
LEMMA QueueStep ==
  ASSUME TypeOK, ControlOK, IsStream, [Next]_vars
  PROVE  IsStream' /\ Len(event_q') >= Len(event_q)
<1>0. event_q \in Seq(Event) /\ Len(event_q) \in Nat
  <2>1. event_q \in Seq(Event)
    BY DEF IsStream, TypeOK, ContextOK
  <2>2. QED BY <2>1, LenProperties
<1>1. CASE AlwaysRound \/ ReceiveSignal \/ RouteToErrorState
  <2>1. PICK name \in StepName : OpenStep(name)
    <3>1. CASE AlwaysRound
      <4>1. OpenStep(AlwaysSignal.event)
        BY <3>1, Zenon DEF AlwaysRound, BeginRound
      <4>2. QED BY <4>1 DEF StepName
    <3>2. CASE ReceiveSignal
      BY <3>2, TakenType DEF ReceiveSignal, SignalsTaken, BeginRound
    <3>3. CASE RouteToErrorState
      BY <3>3, SignalType DEF RouteToErrorState, Busy
    <3>4. QED BY <1>1, <3>1, <3>2, <3>3
  <2> DEFINE a == StepStarted(name)
             b == StateSnapshot(CurrentStateDict.view)
  <2>2. a \in Event /\ b \in Event
    BY ViewType DEF StepStarted, StateSnapshot, Event
  <2>3. Emit(IF CurrentStateDict.raises THEN <<a>> ELSE <<a, b>>)
    BY <2>1 DEF OpenStep
  <2> HIDE DEF a, b
  <2>4. <<a>> \in Seq(Event) /\ <<a, b>> \in Seq(Event)
    BY <2>2
  <2>5. QED BY <2>3, <2>4, QueueLengthens
<1>2. CASE EvalGuard
  <2>1. PICK e \in ResultEntry : Emit(<<Activity(e)>>)
    BY <1>2, GuardRecords
  <2>2. Activity(e) \in Event
    BY DEF Activity, Event
  <2>3. <<Activity(e)>> \in Seq(Event)
    BY <2>2, Singleton
  <2>4. QED BY <2>1, <2>3, QueueLengthens
<1>3. CASE TransitionActionsDone \/ ChangeState \/ EntryActionsDone
  <2> DEFINE acts == [i \in 1 .. Len(results) - n_before |-> Activity(results[n_before + i])]
  <2>1. acts \in Seq(Event)
    BY ActivitiesType DEF TypeOK, ContextOK, LocalsOK
  <2>2. Emit(acts)
    BY <1>3 DEF TransitionActionsDone, ChangeState, EntryActionsDone, EmitActivities
  <2> HIDE DEF acts
  <2>3. QED BY <2>1, <2>2, QueueLengthens
<1>4. CASE CloseStep
  BY <1>4, ClosingType, QueueLengthens DEF CloseStep
<1>5. CASE GuardFails \/ ActionFails
  <2>1. event_q' = event_q
    BY <1>5 DEF GuardFails, ActionFails
  <2>2. QED BY <1>0, <2>1 DEF IsStream
<1>6. CASE \/ AlwaysFails \/ NothingAlways \/ Return \/ IgnoreSignal \/ PassUnguarded
           \/ NoneFired \/ RunAction \/ CloseFails \/ Propagate \/ Done \/ UNCHANGED vars
  <2>1. event_q' = event_q
    BY <1>6
    DEF AlwaysFails, NothingAlways, Return, IgnoreSignal, PassUnguarded, NoneFired, RunAction,
        CloseFails, Propagate, Done, ctxVars, vars
  <2>2. QED BY <1>0, <2>1 DEF IsStream
<1>7. QED BY <1>1, <1>2, <1>3, <1>4, <1>5, <1>6 DEF Next

LEMMA ReadingInit == StreamInit => ReadingOK
<1> SUFFICES ASSUME StreamInit PROVE ReadingOK
  OBVIOUS
<1>1. IsStream /\ event_q = <<>> /\ yielded = 0
  BY DEF StreamInit, Init, IsStream
<1>2. QED BY <1>1 DEF ReadingOK

LEMMA ReadingStep ==
  ASSUME EngineOK, ReadingOK, [StreamNext]_<<vars, streamVars>>
  PROVE  ReadingOK'
<1>1. event_q \in Seq(Event) /\ Len(event_q) \in Nat
  <2>1. event_q \in Seq(Event)
    BY DEF ReadingOK, IsStream, EngineOK, TypeOK, ContextOK
  <2>2. QED BY <2>1, LenProperties
<1>2. CASE Drive
  <2>1. IsStream' /\ Len(event_q') >= Len(event_q) /\ yielded' = yielded
    BY <1>2, QueueStep DEF Drive, EngineOK, ReadingOK, streamVars
  <2>2. Len(event_q') \in Nat
    <3>1. event_q' \in Seq(Event)
      BY <1>2, <2>1, StepOK DEF Drive, EngineOK, IsStream, TypeOK, ContextOK
    <3>2. QED BY <3>1, LenProperties
  <2>3. QED BY <1>1, <2>1, <2>2 DEF ReadingOK
<1>3. CASE Get
  <2>1. event_q' = event_q /\ yielded' = yielded + 1 /\ yielded < Len(event_q)
    BY <1>3 DEF Get, Undelivered, vars, ctxVars
  <2>2. QED BY <1>1, <2>1 DEF ReadingOK, IsStream
<1>4. CASE \/ Start \/ CloseFresh \/ GetMarker \/ Resume \/ Close \/ Cancel \/ CancelEngine
           \/ Join \/ StreamDone \/ UNCHANGED <<vars, streamVars>>
  <2>1. UNCHANGED <<event_q, yielded>>
    BY <1>4
    DEF Start, CloseFresh, GetMarker, Resume, Close, Cancel, CancelEngine, Join, StreamDone,
        streamVars, vars, ctxVars
  <2>2. QED BY <2>1 DEF ReadingOK, IsStream
<1>5. QED BY <1>2, <1>3, <1>4 DEF StreamNext

(* A reader that stays to the end has got the whole queue, also when the    *)
(* call failed; a call that returned leaves it with the state the accessor  *)
(* reports, and with every result if nothing failed: what the engine keeps  *)
(* of its queue between rounds holds of what the reader has received.       *)
THEOREM ReadersSeeTheCall == StreamSpec => []ReaderSeesTheCall
<1>1. ASSUME EngineOK, StreamOK, ReadingOK, ClientInSync, ActivitiesReportResults
      PROVE  ReaderSeesTheCall
  <2> SUFFICES ASSUME stage = "ended", left = None
               PROVE  /\ Received = event_q
                      /\ pc = "returned" /\ ~CurrentStateDict.raises =>
                           HoldsNothingBut(Received, CurrentStateDict.view)
                      /\ pc = "returned" /\ NothingFailed => Reported(Received) = results
    BY DEF ReaderSeesTheCall
  <2>1. event_q \in Seq(Event) /\ Len(event_q) \in Nat
    <3>1. event_q \in Seq(Event)
      BY <1>1 DEF ReadingOK, IsStream, EngineOK, TypeOK, ContextOK
    <3>2. QED BY <3>1, LenProperties
  <2>2. yielded = Len(event_q)
    BY <1>1, <2>1 DEF StreamOK, ReadingOK, Undelivered
  <2>3. Received = event_q
    BY <2>1, <2>2, SubSeqFull DEF Received
  <2>4. IsStream /\ Queue = event_q
    BY <1>1 DEF ReadingOK, Queue
  <2>5. pc = "returned" => AtRest
    BY DEF AtRest
  <2>6. QED BY <1>1, <2>3, <2>4, <2>5 DEF ClientInSync, ActivitiesReportResults
<1>2. QED
  BY <1>1, ReadingInit, ReadingStep, StreamsSound, StreamedEventsFit, StreamsKeepPromises, PTL
  DEF StreamSpec

(* A stream implements the contract like a run: to it a cancellation is a   *)
(* callback that failed.                                                    *)
THEOREM StreamRefinement == StreamSpec => RefinesStatechart
<1>1. StreamInit => Contract!Init
  BY InitRefines DEF StreamInit
<1>2. EngineOK /\ [StreamNext]_<<vars, streamVars>> => [Contract!Next]_(Contract!vars)
  <2>1. ASSUME EngineOK, CancelEngine PROVE UNCHANGED Contract!vars
    <3>1. ~Terminated /\ ~Terminated' /\ pc # "dispatch" /\ pc' # "dispatch"
      BY <2>1, CancelThrows DEF Terminated
    <3>2. QED BY <2>1, <3>1, CancelThrows, InvisibleStep DEF argVars, ctxVars, locals
  <2>2. QED BY <2>1, EngineMoves, RefinementStep DEF EngineOK
<1>3. QED BY <1>1, <1>2, StreamsSound, PTL DEF StreamSpec, RefinesStatechart, Contract!Spec

(* ... and its consumer cannot make it hop for longer.                      *)
THEOREM StreamedHopsBounded == StreamSpec => []BoundedHops
BY StreamRefinement, ContractBounds, PTL

-----------------------------------------------------------------------------
(* A cancellation, too, only brings the call closer to its end. *)
LEMMA CancelDescends ==
  ASSUME EngineOK, EngineOK', CancelEngine
  PROVE  ComesCloser
<1>1. /\ UNCHANGED <<events, taken, hook, depth>>
      /\ pc \in {"guard", "actions", "exit", "entry"} /\ pc' \in {"close", "catch"}
  BY CancelThrows DEF argVars, locals
<1>2. Place' < Place
  BY <1>1, Placed DEF Place
<1>3. QED BY <1>1, <1>2, PlaceFalls, DescentFalls DEF EngineOK

(* No consumer, whatever it does and however often it cancels, can make a  *)
(* call longer than its rank.                                              *)
THEOREM StreamsDescend == StreamSpec => [][ComesCloser]_vars
<1>1. EngineOK /\ EngineOK' /\ [StreamNext]_<<vars, streamVars>> => [ComesCloser]_vars
  BY EngineMoves, CancelDescends, StepDescends DEF EngineOK
<1>2. QED BY <1>1, StreamsSound, PTL DEF StreamSpec
=============================================================================
