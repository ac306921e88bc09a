---------------------------- MODULE RsStreamProofs ----------------------------
(***************************************************************************)
(* The generator of StateMachine::stream: a stream read to its end has     *)
(* yielded exactly what the engine sent, and the context comes last, for   *)
(* every way engine, channel and consumer can take turns.  Then the events *)
(* themselves: the steps are bracketed, the deltas apply, the activities   *)
(* account for the results.                                                *)
(***************************************************************************)
EXTENDS RsStream, RsMachineProofs

(* What a consumer may be handed. *)
Wire == [ok : Event] \cup [err : Errors]

(* The items so far are the first events of the channel. *)
RelaysEvents ==
  \A i \in 1 .. Len(out) : out[i] = Item(event_tx[i])

(* The items are all events, then the error of the call. *)
RelayedWithError ==
  /\ error # None
  /\ Len(out) = Len(event_tx) + 1
  /\ \A i \in 1 .. Len(event_tx) : out[i] = Item(event_tx[i])
  /\ out[Len(out)] = Err(error)

RelayedAll == Len(out) = Len(event_tx) /\ RelaysEvents

(* The strengthening: how far the generator has come, by stage. *)
StreamOK ==
  /\ event_tx \in Seq(Event)
  /\ out \in Seq(Wire)
  /\ stage \in Stages /\ handed \in {"pending", "sent", "canceled"}
  /\ stage \in {"loop", "drain"} =>
       handed = "pending" /\ Len(out) <= Len(event_tx) /\ RelaysEvents
  /\ stage \in {"drain", "closing", "ended"} => Terminated
  /\ stage \in {"closing", "ended"} =>
       handed = "sent" /\ (RelayedAll \/ RelayedWithError)
  /\ stage = "ended" => error = None \/ RelayedWithError
  /\ handed = "sent" => Terminated /\ Len(event_tx) <= Len(out)
  /\ handed = "canceled" => stage = "dropped"

EngineOK == TypeOK /\ ControlOK /\ ErrorOK

----------------------------------------------------------------------------
(* The channel *)

(* What was sent stays sent. *)
Extended ==
  /\ event_tx' \in Seq(Event)
  /\ Len(event_tx) <= Len(event_tx')
  /\ \A i \in 1 .. Len(event_tx) : event_tx'[i] = event_tx[i]

LEMMA EmitExtends ==
  ASSUME event_tx \in Seq(Event), NEW e \in Seq(Event), Emit(e)
  PROVE  Extended
<1>1. Len(event_tx) \in Nat /\ Len(e) \in Nat
  BY LenProperties
<1>2. CASE IsStream
  <2>1. event_tx' = event_tx \o e
    BY <1>2 DEF Emit
  <2>2. QED BY <1>1, <2>1, ConcatProperties DEF Extended
<1>3. CASE ~IsStream
  BY <1>1, <1>3 DEF Emit, Extended
<1>4. QED BY <1>2, <1>3

LEMMA StillExtends ==
  ASSUME event_tx \in Seq(Event), event_tx' = event_tx
  PROVE  Extended
BY LenProperties DEF Extended

LEMMA ActivitiesExtend ==
  ASSUME TypeOK, event_tx \in Seq(Event), EmitActivities(n_before)
  PROVE  Extended
BY ActivitiesType, EmitExtends DEF EmitActivities, TypeOK, ContextOK, LocalsOK

LEMMA OpenStepExtends ==
  ASSUME TypeOK, event_tx \in Seq(Event), NEW name \in StepName, OpenStep(name)
  PROVE  Extended
BY OpeningType, EmitExtends DEF OpenStep

LEMMA StepExtends ==
  ASSUME TypeOK, ControlOK, event_tx \in Seq(Event), Step
  PROVE  Extended
<1>1. CASE AlwaysRound
  <2>1. AlwaysSignal.event \in StepName
    BY DEF StepName
  <2>2. QED BY <1>1, <2>1, OpenStepExtends DEF AlwaysRound, BeginRound
<1>2. CASE ReceiveSignal
  <2>1. NextEvent \in StepName
    BY <1>2, TakenType DEF ReceiveSignal
  <2>2. QED BY <1>2, <2>1, OpenStepExtends DEF ReceiveSignal, BeginRound
<1>3. CASE EmptyRow
  <2>1. NextEvent \in StepName
    BY <1>3, TakenType DEF EmptyRow
  <2>2. StepFinished(NextEvent) \in Event
    BY <2>1 DEF StepFinished, Event
  <2>3. OpeningEvents(NextEvent) \o <<StepFinished(NextEvent)>> \in Seq(Event)
    BY <2>1, <2>2, OpeningType, Singleton, ConcatProperties
  <2>4. QED BY <1>3, <2>3, EmitExtends DEF EmptyRow
<1>4. CASE EvalGuard
  <2>1. PICK passed \in GuardFns[Candidate.guard][<<session, Signal.data>>] :
          Emit(<<Activity(Entry("guard", Candidate.guard, passed))>>)
    BY <1>4 DEF EvalGuard
  <2>2. Signal.data \in Data
    BY <1>4, SignalType DEF EvalGuard, Busy
  <2>3. passed \in BOOLEAN /\ Candidate.guard \in STRING
    BY <1>4, <2>2, AnswerType DEF EvalGuard, TypeOK, ContextOK
  <2>4. Activity(Entry("guard", Candidate.guard, passed)) \in Event
    BY <1>4, <2>3, ResultType DEF EvalGuard, Activity, Event
  <2>5. QED BY <2>1, <2>4, Singleton, EmitExtends
<1>5. CASE TransitionActionsDone \/ ChangeState \/ EntryActionsDone
  BY <1>5, ActivitiesExtend DEF TransitionActionsDone, ChangeState, EntryActionsDone
<1>6. CASE CloseStep
  <2>1. Signal.event \in StepName
    BY <1>6, SignalType DEF CloseStep, Busy
  <2>2. QED BY <1>6, <2>1, ClosingType, EmitExtends DEF CloseStep
<1>7. CASE RouteToErrorState
  <2>1. Signal.event \in StepName
    BY <1>7, SignalType DEF RouteToErrorState, Busy
  <2>2. QED BY <1>7, <2>1, OpenStepExtends DEF RouteToErrorState
<1>8. CASE \/ AlwaysLoopExceeded \/ NothingAlways \/ Return \/ IgnoreSignal
           \/ PassUnguarded \/ UnknownGuard \/ NoneFired \/ RunAction \/ ActionFailed
           \/ UnknownAction \/ Propagate
  BY <1>8, StillExtends
  DEF AlwaysLoopExceeded, NothingAlways, Return, IgnoreSignal, PassUnguarded, UnknownGuard,
      NoneFired, RunAction, ActionFailed, UnknownAction, Propagate, ctxVars
<1>9. QED BY <1>1, <1>2, <1>3, <1>4, <1>5, <1>6, <1>7, <1>8 DEF Step

----------------------------------------------------------------------------
(* The generator *)

LEMMA EngineStepOK ==
  ASSUME EngineOK, [StreamNext]_<<vars, streamVars>>
  PROVE  EngineOK'
<1>1. [Next]_vars
  BY DEF StreamNext, Generator, Drive, Deliver, DriveEnds, Drain, HandBack, YieldError, End,
     Poll, Drop, StreamDone, Next
<1>2. QED BY <1>1, StepOK, ErrorStepOK DEF EngineOK

(* A call that is over has an error exactly when it raised one. *)
LEMMA OutcomeOK ==
  ASSUME EngineOK, Terminated
  PROVE  /\ pc = "raised" <=> error # None
         /\ error \in Errors \cup {None}
BY DEF EngineOK, ErrorOK, PassedOn, Terminated, TypeOK, LocalsOK

LEMMA YieldsEvent ==
  ASSUME StreamOK, Undelivered, stage \in {"loop", "drain"},
         Yield(Item(event_tx[Len(out) + 1])), UNCHANGED <<vars, stage, handed>>
  PROVE  StreamOK'
<1>1. Len(out) \in Nat /\ Len(event_tx) \in Nat /\ Len(out) + 1 \in 1 .. Len(event_tx)
  BY LenProperties DEF StreamOK, Undelivered
<1>2. Item(event_tx[Len(out) + 1]) \in Wire
  BY <1>1, ElementOfSeq DEF StreamOK, Wire, Item
<1>3. /\ out' \in Seq(Wire) /\ Len(out') = Len(out) + 1
      /\ \A i \in 1 .. Len(out) : out'[i] = out[i]
      /\ out'[Len(out) + 1] = Item(event_tx[Len(out) + 1])
  BY <1>2, AppendProperties DEF StreamOK, Yield
<1>4. event_tx' = event_tx /\ (Terminated' <=> Terminated)
  BY DEF vars, ctxVars, Terminated
<1>5. RelaysEvents'
  BY <1>1, <1>3, <1>4 DEF StreamOK, RelaysEvents
<1>6. QED BY <1>1, <1>3, <1>4, <1>5 DEF StreamOK

(* The last item tells whether the error was yielded. *)
LEMMA ErrorIsTold ==
  ASSUME StreamOK, stage = "closing"
  PROVE  ErrorYielded <=> ~RelayedAll
<1>1. Len(out) \in Nat /\ Len(event_tx) \in Nat /\ (out # <<>> => Len(out) > 0)
  BY LenProperties, EmptySeq DEF StreamOK
<1>2. CASE RelayedAll
  <2>1. out # <<>> => out[Len(out)] = Item(event_tx[Len(out)])
    BY <1>1, <1>2 DEF RelayedAll, RelaysEvents
  <2>2. QED BY <1>2, <2>1 DEF ErrorYielded, Item
<1>3. CASE RelayedWithError
  <2>1. Len(out) # 0 /\ out # <<>>
    BY <1>1, <1>3, EmptySeq DEF RelayedWithError
  <2>2. ~RelayedAll
    BY <1>1, <1>3 DEF RelayedWithError, RelayedAll
  <2>3. QED BY <1>3, <2>1, <2>2 DEF RelayedWithError, ErrorYielded, Err
<1>4. QED BY <1>2, <1>3 DEF StreamOK

LEMMA YieldErrorOK ==
  ASSUME EngineOK, StreamOK, YieldError
  PROVE  StreamOK'
<1>1. Len(out) \in Nat /\ Len(event_tx) \in Nat
  BY LenProperties DEF StreamOK
<1>2. Err(error) \in Wire
  BY DEF YieldError, EngineOK, TypeOK, LocalsOK, Wire, Err
<1>3. /\ out' \in Seq(Wire) /\ Len(out') = Len(out) + 1
      /\ \A i \in 1 .. Len(out) : out'[i] = out[i]
      /\ out'[Len(out) + 1] = Err(error)
  BY <1>2, AppendProperties DEF StreamOK, YieldError, Yield
<1>4. event_tx' = event_tx /\ error' = error /\ (Terminated' <=> Terminated)
  BY DEF YieldError, vars, ctxVars, Terminated
<1>5. RelayedAll
  BY ErrorIsTold DEF YieldError
<1>6. RelayedWithError'
  BY <1>1, <1>3, <1>4, <1>5 DEF YieldError, RelayedAll, RelaysEvents, RelayedWithError
<1>7. QED BY <1>1, <1>3, <1>4, <1>6 DEF YieldError, StreamOK

LEMMA DriveOK ==
  ASSUME EngineOK, StreamOK, Drive
  PROVE  StreamOK'
<1>1. Extended
  BY StepExtends DEF EngineOK, StreamOK, Drive
<1>2. Len(out) \in Nat /\ Len(event_tx) \in Nat /\ Len(event_tx') \in Nat
  BY <1>1, LenProperties DEF StreamOK, Extended
<1>3. UNCHANGED <<stage, polled, out, handed>> /\ stage = "loop"
  BY DEF Drive, streamVars
<1>4. Len(out') <= Len(event_tx') /\ RelaysEvents'
  BY <1>1, <1>2, <1>3 DEF StreamOK, RelaysEvents, Extended
<1>5. QED BY <1>1, <1>3, <1>4 DEF StreamOK, Extended

LEMMA GeneratorStepOK ==
  ASSUME EngineOK, StreamOK, [StreamNext]_<<vars, streamVars>>
  PROVE  StreamOK'
<1>0. UNCHANGED vars => UNCHANGED <<event_tx, error, pc>> /\ (Terminated' <=> Terminated)
  BY DEF vars, ctxVars, Terminated
<1>1. CASE Drive
  BY <1>1, DriveOK
<1>2. CASE Deliver \/ Drain
  BY <1>2, YieldsEvent DEF Deliver, Drain
<1>3. CASE YieldError
  BY <1>3, YieldErrorOK
<1>4. CASE Poll \/ DriveEnds
  BY <1>0, <1>4
  DEF Poll, DriveEnds, AfterDrive, StreamOK, RelaysEvents, RelayedAll, RelayedWithError, Stages
<1>5. CASE HandBack
  <2>1. Len(out) = Len(event_tx)
    BY <1>5, LenProperties DEF HandBack, Drained, Undelivered, StreamOK
  <2>2. RelayedAll'
    BY <1>0, <1>5, <2>1 DEF HandBack, StreamOK, RelayedAll, RelaysEvents
  <2>3. Len(event_tx) <= Len(out)
    BY <2>1, LenProperties DEF StreamOK
  <2>4. QED BY <1>0, <1>5, <2>2, <2>3 DEF HandBack, StreamOK, Stages
<1>6. CASE End
  <2>1. error = None \/ RelayedWithError
    BY <1>6, ErrorIsTold DEF End, StreamOK
  <2>2. QED
    BY <1>0, <1>6, <2>1 DEF End, StreamOK, RelayedAll, RelaysEvents, RelayedWithError, Stages
<1>7. CASE Drop
  BY <1>0, <1>7 DEF Drop, StreamOK, Stages
<1>8. CASE StreamDone \/ UNCHANGED <<vars, streamVars>>
  BY <1>0, <1>8
  DEF StreamDone, streamVars, StreamOK, RelayedAll, RelaysEvents, RelayedWithError
<1>9. QED BY <1>1, <1>2, <1>3, <1>4, <1>5, <1>6, <1>7, <1>8 DEF StreamNext, Generator

LEMMA StreamInitOK == StreamInit => EngineOK /\ StreamOK
<1> SUFFICES ASSUME StreamInit PROVE EngineOK /\ StreamOK
  OBVIOUS
<1>1. EngineOK
  BY InitOK, InitErrorOK DEF StreamInit, EngineOK
<1>2. event_tx = <<>> /\ out = <<>>
  BY DEF StreamInit, Init, IsStream
<1>3. QED BY <1>1, <1>2, EmptySeq DEF StreamInit, StreamOK, Stages, RelaysEvents

THEOREM StreamsSound == StreamSpec => [](EngineOK /\ StreamOK)
BY StreamInitOK, EngineStepOK, GeneratorStepOK, PTL DEF StreamSpec

----------------------------------------------------------------------------
LEMMA RelayedIsDelivered ==
  ASSUME EngineOK, StreamOK, stage = "ended"
  PROVE  EverythingDelivered
<1> DEFINE sent == [i \in 1 .. Len(event_tx) |-> Item(event_tx[i])]
<1>1. /\ Terminated /\ (pc = "raised" <=> error # None)
      /\ error \in Errors \cup {None}
  BY OutcomeOK DEF StreamOK
<1>2. Len(event_tx) \in Nat /\ DOMAIN event_tx = 1 .. Len(event_tx) /\ Len(out) \in Nat
  BY LenProperties DEF StreamOK
<1>3. sent \in Seq(Wire) /\ Len(sent) = Len(event_tx)
  <2>1. \A i \in 1 .. Len(event_tx) : Item(event_tx[i]) \in Wire
    BY ElementOfSeq DEF StreamOK, Wire, Item
  <2>2. sent \in [1 .. Len(event_tx) -> Wire]
    BY <2>1
  <2>3. QED BY <1>2, <2>2, FunctionIsSeq
<1>4. CASE error = None
  <2>1. RelayedAll
    BY <1>4 DEF StreamOK, RelayedWithError
  <2>2. out = sent
    BY <1>2, <1>3, <2>1, SeqEqual DEF StreamOK, RelayedAll, RelaysEvents
  <2>3. sent \o <<>> = sent
    BY <1>3, ConcatEmptySeq
  <2>4. QED BY <1>1, <1>2, <1>4, <2>2, <2>3 DEF EverythingDelivered
<1>5. CASE error # None
  <2>1. RelayedWithError
    BY <1>5 DEF StreamOK
  <2>2. <<Err(error)>> \in Seq(Wire) /\ Len(<<Err(error)>>) = 1 /\ <<Err(error)>>[1] = Err(error)
    BY <1>1, <1>5 DEF Wire, Err
  <2>3. /\ sent \o <<Err(error)>> \in Seq(Wire)
        /\ Len(sent \o <<Err(error)>>) = Len(event_tx) + 1
        /\ \A i \in 1 .. Len(event_tx) + 1 :
             (sent \o <<Err(error)>>)[i] =
                IF i <= Len(event_tx) THEN Item(event_tx[i]) ELSE Err(error)
    BY <1>2, <1>3, <2>2, ConcatProperties
  <2>4. \A i \in 1 .. Len(out) : out[i] = (sent \o <<Err(error)>>)[i]
    BY <1>2, <2>1, <2>3 DEF RelayedWithError
  <2>5. out = sent \o <<Err(error)>>
    BY <2>1, <2>3, <2>4, SeqEqual DEF StreamOK, RelayedWithError
  <2>6. QED BY <1>1, <1>2, <1>5, <2>5 DEF EverythingDelivered
<1>6. QED BY <1>4, <1>5

(* A stream that was read to its end has yielded every event, in order and *)
(* once, and then the error if there was one.                              *)
THEOREM NothingLost == StreamSpec => []EverythingDelivered
<1>1. EngineOK /\ StreamOK => EverythingDelivered
  BY RelayedIsDelivered DEF EverythingDelivered
<1>2. QED BY <1>1, StreamsSound, PTL

(* The context is sent after the last event, and lost only by dropping.    *)
THEOREM ContextComesLast == StreamSpec => []ContextAfterEvents
<1>1. StreamOK => ContextAfterEvents
  BY LenProperties DEF StreamOK, ContextAfterEvents, Undelivered
<1>2. QED BY <1>1, StreamsSound, PTL

----------------------------------------------------------------------------
(***************************************************************************)
(* Events                                                                  *)
(***************************************************************************)

InRound == pc \in {"guard", "actions", "exit", "entry", "close"}

(* The strengthening: within a round, the step of the signal is open and   *)
(* nothing but activities came since its snapshot ...                      *)
BracketsOK ==
  IsStream =>
    /\ WellBracketed(event_tx)
    /\ AtRest \/ pc = "failed" => AllClosed(event_tx)
    /\ InRound => InStep(event_tx, Signal.event)

(* ... and the base of the next delta is what the client holds.            *)
SyncOK ==
  IsStream =>
    /\ DeltasApply(event_tx)
    /\ InRound => InSync(event_tx, state_snapshot)
    /\ AtRest => \/ event_tx = <<>>
                 \/ /\ state_snapshot = CurrentStateDict
                    /\ InSync(event_tx, state_snapshot)

EventsOK == BracketsOK /\ SyncOK

ActivityEvent == [type : {"ACTIVITY_SNAPSHOT"}, entry : ResultEntry]

LEMMA Emitted ==
  ASSUME TypeOK, NEW evts, Emit(evts), IsStream'
  PROVE  IsStream /\ event_tx \in Seq(Event) /\ event_tx' = event_tx \o evts
BY DEF Emit, IsStream, TypeOK, ContextOK

(* A step is opened, between two others. *)
LEMMA Opens ==
  ASSUME TypeOK, NEW name \in StepName, event_tx \in Seq(Event),
         WellBracketed(event_tx), AllClosed(event_tx), DeltasApply(event_tx)
  PROVE  /\ InStep(event_tx \o OpeningEvents(name), name)
         /\ InSync(event_tx \o OpeningEvents(name), CurrentStateDict)
<1> DEFINE a == StepStarted(name)
           b == StateSnapshot(CurrentStateDict)
<1>1. /\ a \in Event /\ a.type = "STEP_STARTED" /\ a.step = name
      /\ b \in Event /\ b.type = "STATE_SNAPSHOT" /\ b.view = CurrentStateDict
  BY ViewType DEF StepStarted, StateSnapshot, Event
<1>2. OpeningEvents(name) = <<a, b>>
  BY DEF OpeningEvents
<1> HIDE DEF a, b
<1>3. InStep(event_tx \o <<a, b>>, name) /\ InSync(event_tx \o <<a, b>>, b.view)
  BY <1>1, StepOpens, SnapshotSyncs
<1>4. QED BY <1>1, <1>2, <1>3

LEMMA RestIsClosed ==
  ASSUME EventsOK, IsStream, AtRest \/ pc = "failed"
  PROVE  WellBracketed(event_tx) /\ AllClosed(event_tx) /\ DeltasApply(event_tx)
BY DEF EventsOK, BracketsOK, SyncOK

LEMMA RoundOpens ==
  ASSUME TypeOK, ControlOK, EventsOK, AlwaysRound \/ ReceiveSignal \/ RouteToErrorState
  PROVE  EventsOK'
<1> SUFFICES ASSUME IsStream' PROVE EventsOK'
  BY DEF EventsOK, BracketsOK, SyncOK
<1>1. PICK name \in StepName : OpenStep(name) /\ Signal'.event = name
  <2>1. CASE AlwaysRound
    <3>1. OpenStep(AlwaysSignal.event) /\ Signal'.event = AlwaysSignal.event
      BY <2>1, Zenon DEF AlwaysRound, BeginRound, Signal
    <3>2. QED BY <3>1 DEF StepName
  <2>2. CASE ReceiveSignal
    <3>1. taken' = taken + 1 /\ hook' = "on" /\ events' = events
      BY <2>2 DEF ReceiveSignal, Taken, BeginRound, argVars
    <3>2. NextEvent \in StepName
      BY <2>2, TakenType DEF ReceiveSignal
    <3>3. Signal'.event = NextEvent
      BY <3>1 DEF Signal, NextEvent
    <3>4. QED BY <2>2, <3>2, <3>3 DEF ReceiveSignal, BeginRound
  <2>3. CASE RouteToErrorState
    <3>1. hook = "on" /\ hook' = "error" /\ UNCHANGED <<events, taken>>
      BY <2>3 DEF RouteToErrorState, ControlOK, PendingControl, argVars
    <3>2. Signal'.event = Signal.event /\ Signal.event \in StepName
      BY <2>3, <3>1, SignalType DEF Signal, RouteToErrorState, Busy
    <3>3. QED BY <2>3, <3>2 DEF RouteToErrorState
  <2>4. QED BY <2>1, <2>2, <2>3
<1>2. /\ AtRest \/ pc = "failed"
      /\ pc' \in {"guard", "exit"}
  BY DEF AlwaysRound, ReceiveSignal, RouteToErrorState, BeginRound, StartBatch, AtRest
<1>3. /\ IsStream /\ event_tx \in Seq(Event)
      /\ event_tx' = event_tx \o OpeningEvents(name)
      /\ state_snapshot' = CurrentStateDict
  BY <1>1, Emitted DEF OpenStep, SnapshotTaken
<1>4. InStep(event_tx', Signal'.event) /\ InSync(event_tx', state_snapshot')
  BY <1>1, <1>2, <1>3, RestIsClosed, Opens
<1>5. QED
  BY <1>2, <1>4 DEF EventsOK, BracketsOK, SyncOK, InRound, AtRest, InStep, InSync

(* Activities are reported within the step. *)
LEMMA ReportIsActivities ==
  ASSUME NEW r \in Seq(ResultEntry), NEW n \in 0 .. Len(r)
  PROVE  [i \in 1 .. Len(r) - n |-> Activity(r[n + i])] \in Seq(ActivityEvent)
<1>1. Len(r) \in Nat
  BY LenProperties
<1>2. \A i \in 1 .. Len(r) - n : Activity(r[n + i]) \in ActivityEvent
  <2> TAKE i \in 1 .. Len(r) - n
  <2>1. n + i \in 1 .. Len(r)
    BY <1>1
  <2>2. r[n + i] \in ResultEntry
    BY <2>1, ElementOfSeq
  <2>3. QED BY <2>2 DEF Activity, ActivityEvent
<1>3. Len(r) - n \in Nat
  BY <1>1
<1>4. [i \in 1 .. Len(r) - n |-> Activity(r[n + i])] \in [1 .. Len(r) - n -> ActivityEvent]
  BY <1>2
<1>5. QED BY <1>3, <1>4, FunctionIsSeq

LEMMA RoundGoesOn ==
  ASSUME TypeOK, EventsOK, InRound, pc' \in {"guard", "actions", "exit", "entry", "close"},
         UNCHANGED <<events, taken, hook, state_snapshot>>,
         NEW acts \in Seq(ActivityEvent), Emit(acts)
  PROVE  EventsOK'
<1> SUFFICES ASSUME IsStream' PROVE EventsOK'
  BY DEF EventsOK, BracketsOK, SyncOK
<1>1. IsStream /\ event_tx \in Seq(Event) /\ event_tx' = event_tx \o acts
  BY Emitted
<1>2. InStep(event_tx, Signal.event) /\ InSync(event_tx, state_snapshot)
  BY <1>1 DEF EventsOK, BracketsOK, SyncOK
<1>3. ActivityEvent \subseteq Event /\ \A e \in ActivityEvent : e.type = "ACTIVITY_SNAPSHOT"
  BY DEF ActivityEvent, Event
<1>4. InStep(event_tx', Signal.event) /\ InSync(event_tx', state_snapshot)
  BY <1>1, <1>2, <1>3, ActivitiesInStep
<1>5. Signal' = Signal
  BY DEF Signal
<1>6. QED BY <1>4, <1>5 DEF EventsOK, BracketsOK, SyncOK, InRound, AtRest, InStep, InSync

LEMMA NothingEmitted ==
  ASSUME TypeOK, EventsOK, InRound, pc' \in {"guard", "actions", "exit", "entry", "close"},
         UNCHANGED <<events, taken, hook, state_snapshot, event_tx>>
  PROVE  EventsOK'
<1>1. Signal' = Signal
  BY DEF Signal
<1>2. QED BY <1>1 DEF EventsOK, BracketsOK, SyncOK, InRound, AtRest, IsStream

LEMMA ReportGoesOn ==
  ASSUME TypeOK, ControlOK, EventsOK, TransitionActionsDone \/ ChangeState \/ EntryActionsDone
  PROVE  EventsOK'
<1> DEFINE acts == [i \in 1 .. Len(results) - n_before |-> Activity(results[n_before + i])]
<1>1. acts \in Seq(ActivityEvent)
  BY ReportIsActivities DEF TypeOK, ContextOK, LocalsOK
<1>2. /\ Emit(acts) /\ InRound /\ pc' \in {"exit", "entry", "close"}
      /\ UNCHANGED <<events, taken, hook, state_snapshot>>
  BY DEF TransitionActionsDone, ChangeState, EntryActionsDone, EmitActivities, StartBatch,
     InRound, argVars, locals
<1> HIDE DEF acts
<1>3. QED BY <1>1, <1>2, RoundGoesOn

LEMMA GuardReported ==
  ASSUME TypeOK, ControlOK, EventsOK, EvalGuard
  PROVE  EventsOK'
<1>1. /\ InRound /\ pc' \in {"guard", "actions"}
      /\ UNCHANGED <<events, taken, hook, state_snapshot>>
  BY DEF EvalGuard, StartBatch, InRound, argVars
<1>2. PICK e \in ResultEntry : Emit(<<Activity(e)>>)
  BY GuardRecords
<1>3. <<Activity(e)>> \in Seq(ActivityEvent)
  <2>1. Activity(e) \in ActivityEvent
    BY DEF Activity, ActivityEvent
  <2>2. QED BY <2>1, Singleton
<1>4. QED BY <1>1, <1>2, <1>3, RoundGoesOn

(* The error of a callback leaves the step open for good, or for           *)
(* try_transitions to close.                                               *)
LEMMA ErrorInRound ==
  ASSUME TypeOK, ControlOK, EventsOK,
         AlwaysLoopExceeded \/ UnknownGuard \/ ActionFailed \/ UnknownAction
  PROVE  EventsOK'
<1>1. UNCHANGED <<events, taken, hook, state_snapshot, event_tx>>
  BY DEF AlwaysLoopExceeded, UnknownGuard, ActionFailed, UnknownAction, ctxVars, argVars, locals
<1>2. pc' = IF hook = "on" THEN "close" ELSE "raised"
  BY ErrorRaised, FailsType
<1>3. CASE hook = "on"
  <2>1. InRound
    BY <1>3
    DEF AlwaysLoopExceeded, UnknownGuard, ActionFailed, UnknownAction, InBatch, InRound, ControlOK
  <2>2. QED BY <1>1, <1>2, <1>3, <2>1, NothingEmitted
<1>4. CASE hook # "on"
  <2>1. IsStream => WellBracketed(event_tx) /\ DeltasApply(event_tx)
    BY DEF EventsOK, BracketsOK, SyncOK
  <2>2. QED
    BY <1>1, <1>2, <1>4, <2>1 DEF EventsOK, BracketsOK, SyncOK, InRound, AtRest, IsStream
<1>5. QED BY <1>3, <1>4

(* What the closing events are. *)
LEMMA ClosingIs ==
  ASSUME NEW name, NEW e \in Event, e = StepFinished(name),
         NEW d \in Event, d = StateDelta(state_snapshot, CurrentStateDict)
  PROVE  ClosingEvents(name) = IF state_snapshot = CurrentStateDict THEN <<e>> ELSE <<d, e>>
<1>1. ClosingEvents(name) = (IF state_snapshot = CurrentStateDict THEN <<>> ELSE <<d>>) \o <<e>>
  BY Zenon DEF ClosingEvents
<1>2. <<e>> \in Seq(Event) /\ <<d>> \in Seq(Event) /\ Append(<<d>>, e) = <<d, e>>
  BY PairAppended, Singleton
<1>3. <<>> \o <<e>> = <<e>> /\ <<d>> \o <<e>> = Append(<<d>>, e)
  BY <1>2, ConcatEmptySeq, AppendIsConcat
<1>4. QED BY <1>1, <1>2, <1>3

LEMMA StepCloseReported ==
  ASSUME TypeOK, ControlOK, EventsOK, CloseStep
  PROVE  EventsOK'
<1> SUFFICES ASSUME IsStream' PROVE EventsOK'
  BY DEF EventsOK, BracketsOK, SyncOK
<1>1. /\ pc = "close" /\ Emit(ClosingEvents(Signal.event))
      /\ pc' \in {"failed", "always", "dispatch"}
      /\ UNCHANGED <<state_accessor, current_state, session>>
      /\ state_snapshot' = IF IsStream THEN CurrentStateDict ELSE state_snapshot
  BY DEF CloseStep, SnapshotTaken, argVars
<1>2. /\ IsStream /\ event_tx \in Seq(Event)
      /\ event_tx' = event_tx \o ClosingEvents(Signal.event)
  BY <1>1, Emitted
<1> DEFINE e == StepFinished(Signal.event)
           d == StateDelta(state_snapshot, CurrentStateDict)
<1>3. /\ e \in Event /\ e.type = "STEP_FINISHED" /\ e.step = Signal.event
      /\ d \in Event /\ d.type = "STATE_DELTA" /\ d.old = state_snapshot
      /\ d.new = CurrentStateDict
  <2>1. Signal.event \in StepName
    BY <1>1, SignalType DEF Busy
  <2>2. QED BY <2>1, ViewType DEF StepFinished, StateDelta, Event, TypeOK, ContextOK
<1>4. ClosingEvents(Signal.event) = IF state_snapshot = CurrentStateDict THEN <<e>> ELSE <<d, e>>
  BY <1>3, ClosingIs
<1> HIDE DEF e, d
<1>5. InStep(event_tx, e.step) /\ InSync(event_tx, state_snapshot)
  BY <1>1, <1>2, <1>3 DEF EventsOK, BracketsOK, SyncOK, InRound
<1>6. /\ WellBracketed(event_tx \o <<e>>) /\ AllClosed(event_tx \o <<e>>)
      /\ WellBracketed(event_tx \o <<d, e>>) /\ AllClosed(event_tx \o <<d, e>>)
  BY <1>2, <1>3, <1>5, StepCloses
<1>7. /\ InSync(event_tx \o <<e>>, state_snapshot)
      /\ InSync(event_tx \o <<d, e>>, CurrentStateDict)
  <2>1. \A v : d.old = v /\ InSync(event_tx, v) => InSync(event_tx \o <<d, e>>, d.new)
    BY <1>2, <1>3, PatchSyncs
  <2>2. QED BY <1>2, <1>3, <1>5, <2>1, PatchSyncs
<1>8. /\ WellBracketed(event_tx') /\ AllClosed(event_tx')
      /\ InSync(event_tx', CurrentStateDict)
  BY <1>2, <1>4, <1>6, <1>7
<1>9. state_snapshot' = CurrentStateDict /\ CurrentStateDict' = CurrentStateDict
  BY <1>1, <1>2 DEF CurrentStateDict
<1>10. QED
  BY <1>1, <1>8, <1>9 DEF EventsOK, BracketsOK, SyncOK, InRound, AtRest, InSync

(* A row without candidates is a step of its own. *)
LEMMA EmptyRowReported ==
  ASSUME TypeOK, ControlOK, EventsOK, EmptyRow
  PROVE  EventsOK'
<1> SUFFICES ASSUME IsStream' PROVE EventsOK'
  BY DEF EventsOK, BracketsOK, SyncOK
<1> DEFINE e == StepFinished(NextEvent)
           opening == OpeningEvents(NextEvent)
           t == event_tx \o opening
<1>1. /\ NextEvent \in StepName /\ AtRest /\ pc' = "dispatch"
      /\ UNCHANGED <<state_accessor, current_state, session>>
  BY TakenType DEF EmptyRow, AtRest, argVars
<1>2. /\ e \in Event /\ e.type = "STEP_FINISHED" /\ e.step = NextEvent
      /\ opening \in Seq(Event)
  BY <1>1, OpeningType DEF StepFinished, Event
<1>3. Emit(opening \o <<e>>)
  BY DEF EmptyRow
<1>4. IsStream /\ event_tx \in Seq(Event) /\ event_tx' = event_tx \o (opening \o <<e>>)
  BY <1>3, Emitted
<1>5. InStep(t, NextEvent) /\ InSync(t, CurrentStateDict)
  BY <1>1, <1>4, RestIsClosed, Opens
<1> HIDE DEF e, opening
<1>6. t \in Seq(Event) /\ event_tx' = t \o <<e>>
  <2>1. <<e>> \in Seq(Event)
    BY <1>2, Singleton
  <2>2. \A p, q, r \in Seq(Event) : (p \o q) \o r = p \o (q \o r)
    BY ConcatAssociative
  <2>3. QED BY <1>2, <1>4, <2>1, <2>2, ConcatProperties
<1> HIDE DEF t
<1>7. /\ WellBracketed(t \o <<e>>) /\ AllClosed(t \o <<e>>)
      /\ InSync(t \o <<e>>, CurrentStateDict)
  BY <1>2, <1>5, <1>6, StepCloses, PatchSyncs
<1>8. state_snapshot' = CurrentStateDict /\ CurrentStateDict' = CurrentStateDict
  BY <1>1, <1>4 DEF EmptyRow, SnapshotTaken, CurrentStateDict
<1>9. QED
  BY <1>1, <1>6, <1>7, <1>8 DEF EventsOK, BracketsOK, SyncOK, InRound, AtRest, InSync

(* Steps that tell the consumer nothing. *)
LEMMA NothingTold ==
  ASSUME TypeOK, ControlOK, EventsOK,
         \/ NothingAlways \/ Return \/ IgnoreSignal \/ PassUnguarded
         \/ NoneFired \/ RunAction \/ Propagate \/ UNCHANGED vars
  PROVE  EventsOK'
<1>1. CASE Propagate
  <2>1. UNCHANGED event_tx /\ pc' = "raised"
    BY <1>1 DEF Propagate, ctxVars
  <2>2. QED
    BY <2>1 DEF EventsOK, BracketsOK, SyncOK, InRound, AtRest, IsStream
<1>2. CASE NothingAlways \/ Return \/ IgnoreSignal
  <2>1. /\ AtRest /\ pc' \in {"dispatch", "returned"}
        /\ UNCHANGED <<event_tx, state_accessor, current_state, session, state_snapshot>>
    BY <1>2 DEF NothingAlways, Return, IgnoreSignal, AtRest, argVars, ctxVars
  <2>2. CurrentStateDict' = CurrentStateDict
    BY <2>1 DEF CurrentStateDict
  <2>3. QED
    BY <2>1, <2>2 DEF EventsOK, BracketsOK, SyncOK, InRound, AtRest, IsStream
<1>3. CASE PassUnguarded \/ NoneFired \/ RunAction
  BY <1>3, NothingEmitted
  DEF PassUnguarded, NoneFired, RunAction, InBatch, StartBatch, InRound, argVars, ctxVars, locals
<1>4. CASE UNCHANGED vars
  <2>1. CurrentStateDict' = CurrentStateDict /\ Signal' = Signal
    BY <1>4 DEF vars, argVars, ctxVars, locals, CurrentStateDict, Signal
  <2>2. QED
    BY <1>4, <2>1
    DEF vars, argVars, ctxVars, locals, EventsOK, BracketsOK, SyncOK, InRound, AtRest, IsStream
<1>5. QED BY <1>1, <1>2, <1>3, <1>4

LEMMA EventsInit == Init => EventsOK
<1> SUFFICES ASSUME Init, IsStream PROVE EventsOK
  BY DEF EventsOK, BracketsOK, SyncOK
<1>1. event_tx = <<>> /\ pc = "always"
  BY DEF Init, IsStream
<1>2. WellBracketed(<<>>) /\ DeltasApply(<<>>) /\ AllClosed(<<>>)
  BY EmptySeq DEF WellBracketed, DeltasApply, AllClosed, TypeAt
<1>3. QED BY <1>1, <1>2 DEF EventsOK, BracketsOK, SyncOK, InRound, AtRest

LEMMA EventsStep ==
  ASSUME TypeOK, ControlOK, EventsOK, [Next]_vars
  PROVE  EventsOK'
BY RoundOpens, ReportGoesOn, GuardReported, ErrorInRound, StepCloseReported,
   EmptyRowReported, NothingTold
DEF Next, Step, Done

LEMMA EventsTell ==
  ASSUME EventsOK, TypeOK
  PROVE  StepsBracketed /\ ClientInSync
<1>0. CASE ~IsStream
  <2>1. Queue = <<>> /\ WellBracketed(<<>>) /\ DeltasApply(<<>>) /\ AllClosed(<<>>)
    BY <1>0, EmptySeq DEF Queue, WellBracketed, DeltasApply, AllClosed, TypeAt
  <2>2. HoldsNothingBut(<<>>, CurrentStateDict)
    BY DEF HoldsNothingBut
  <2>3. QED BY <2>1, <2>2 DEF StepsBracketed, ClientInSync
<1>1. CASE IsStream
  <2>1. Queue = event_tx /\ HoldsNothingBut(<<>>, CurrentStateDict)
    BY <1>1 DEF Queue, HoldsNothingBut
  <2>2. StepsBracketed
    BY <1>1, <2>1 DEF EventsOK, BracketsOK, StepsBracketed
  <2>3. AtRest => HoldsNothingBut(event_tx, CurrentStateDict)
    BY <1>1, <2>1 DEF EventsOK, SyncOK, InSync, HoldsNothingBut
  <2>4. QED BY <1>1, <2>1, <2>2, <2>3 DEF EventsOK, SyncOK, ClientInSync
<1>2. QED BY <1>0, <1>1

(***************************************************************************)
(* The events of a call are well formed and a client that applies them     *)
(* stays in step with the machine, for every graph, accessor and outcome.  *)
(***************************************************************************)
THEOREM EventsFit == Spec => [](StepsBracketed /\ ClientInSync)
BY EventsInit, EventsStep, EventsTell, TypeAndControl, PTL DEF Spec

(* Each of the two, for the runs that check it. *)
THEOREM BracketsFit == Spec => []StepsBracketed
BY EventsFit, PTL

THEOREM ClientsKeepUp == Spec => []ClientInSync
BY EventsFit, PTL

----------------------------------------------------------------------------
(***************************************************************************)
(* Activities                                                              *)
(***************************************************************************)

(* The strengthening: but for the results of the batch that runs, all are  *)
(* reported.                                                               *)
ActivityOK ==
  IsStream /\ NothingFailed =>
    Reported(event_tx) = IF InBatch THEN SubSeq(results, 1, n_before) ELSE results

LEMMA Tellable ==
  ASSUME TypeOK
  PROVE  Reporting(Event, ResultEntry)
<1>1. \A e \in Event : ReportedBy(e) \in Seq(ResultEntry)
  <2> SUFFICES ASSUME NEW e \in Event PROVE ReportedBy(e) \in Seq(ResultEntry)
    OBVIOUS
  <2>1. e.type = "ACTIVITY_SNAPSHOT" => e.entry \in ResultEntry
    BY DEF Event
  <2>2. \A x \in ResultEntry : <<x>> \in Seq(ResultEntry)
    BY Singleton
  <2>3. QED BY <2>1, <2>2, EmptySeq DEF ReportedBy
<1>2. QED BY <1>1 DEF Reporting

LEMMA ActivityTells ==
  Tells([x \in ResultEntry |-> Activity(x)], ResultEntry, Event)
<1>1. \A x \in ResultEntry : Activity(x) \in Event /\ ReportedBy(Activity(x)) = <<x>>
  BY DEF Activity, Event, ReportedBy
<1>2. QED BY <1>1 DEF Tells, Maps

(* The activities that end a batch bring the report up to date. *)
LEMMA BatchReported ==
  ASSUME TypeOK, ActivityOK, InBatch, IsStream', NothingFailed, EmitActivities(n_before)
  PROVE  Reported(event_tx') = results
<1> DEFINE f == [x \in ResultEntry |-> Activity(x)]
           acts == [i \in 1 .. Len(results) - n_before |-> Activity(results[n_before + i])]
<1>1. /\ results \in Seq(ResultEntry) /\ n_before \in 0 .. Len(results) /\ Len(results) \in Nat
  BY LenProperties DEF TypeOK, ContextOK, LocalsOK
<1>2. \A i \in 1 .. Len(results) - n_before : results[n_before + i] \in ResultEntry
  <2> TAKE i \in 1 .. Len(results) - n_before
  <2>1. n_before + i \in 1 .. Len(results)
    BY <1>1
  <2>2. QED BY <1>1, <2>1, ElementOfSeq
<1>3. acts = [i \in 1 .. Len(results) - n_before |-> f[results[n_before + i]]]
  BY <1>2
<1>4. Tells(f, ResultEntry, Event) /\ Reporting(Event, ResultEntry)
  BY Tellable, ActivityTells
<1>5. Emit(acts)
  BY DEF EmitActivities
<1> HIDE DEF f, acts
<1>6. IsStream /\ event_tx \in Seq(Event) /\ event_tx' = event_tx \o acts
  BY <1>5, Emitted
<1>7. Reported(event_tx) = SubSeq(results, 1, n_before)
       => Reported(event_tx \o [i \in 1 .. Len(results) - n_before |-> f[results[n_before + i]]])
            = results
  BY <1>1, <1>4, <1>6, RestReported
<1>8. QED BY <1>3, <1>6, <1>7 DEF ActivityOK

(* Whatever begins a batch begins it with nothing left to report. *)
LEMMA BatchBegins ==
  ASSUME TypeOK', Reported(event_tx') = results', n_before' = Len(results')
  PROVE  ActivityOK'
<1>1. SubSeq(results', 1, Len(results')) = results'
  BY SubSeqFull DEF TypeOK, ContextOK
<1>2. QED BY <1>1 DEF ActivityOK

(* The events of a step's opening and closing report nothing. *)
LEMMA OpeningUntold ==
  ASSUME TypeOK, NEW name \in StepName, event_tx \in Seq(Event)
  PROVE  Reported(event_tx \o OpeningEvents(name)) = Reported(event_tx)
<1> DEFINE a == StepStarted(name)
           b == StateSnapshot(CurrentStateDict)
<1>1. a \in Event /\ a.type = "STEP_STARTED" /\ b \in Event /\ b.type = "STATE_SNAPSHOT"
  BY ViewType DEF StepStarted, StateSnapshot, Event
<1>2. OpeningEvents(name) = <<a, b>>
  BY DEF OpeningEvents
<1> HIDE DEF a, b
<1>3. Reported(event_tx \o <<a, b>>) = Reported(event_tx)
  BY <1>1, Tellable, OthersReportNothing
<1>4. QED BY <1>2, <1>3

LEMMA ClosingUntold ==
  ASSUME TypeOK, ControlOK, IsStream', CloseStep
  PROVE  IsStream /\ Reported(event_tx') = Reported(event_tx)
<1>1. pc = "close" /\ Emit(ClosingEvents(Signal.event))
  BY DEF CloseStep
<1>2. IsStream /\ event_tx \in Seq(Event) /\ event_tx' = event_tx \o ClosingEvents(Signal.event)
  BY <1>1, Emitted
<1> DEFINE e == StepFinished(Signal.event)
           d == StateDelta(state_snapshot, CurrentStateDict)
<1>3. e \in Event /\ e.type = "STEP_FINISHED" /\ d \in Event /\ d.type = "STATE_DELTA"
  <2>1. Signal.event \in StepName
    BY <1>1, SignalType DEF Busy
  <2>2. QED BY <2>1, ViewType DEF StepFinished, StateDelta, Event, TypeOK, ContextOK
<1>4. ClosingEvents(Signal.event) = <<e>> \/ ClosingEvents(Signal.event) = <<d, e>>
  BY <1>3, ClosingIs
<1> HIDE DEF e, d
<1>5. /\ Reported(event_tx \o <<e>>) = Reported(event_tx)
      /\ Reported(event_tx \o <<d, e>>) = Reported(event_tx)
  BY <1>2, <1>3, Tellable, OthersReportNothing
<1>6. QED BY <1>2, <1>4, <1>5

LEMMA OpeningReports ==
  ASSUME TypeOK, ControlOK, ErrorOK, ActivityOK, AlwaysRound \/ ReceiveSignal \/ RouteToErrorState
  PROVE  ActivityOK'
<1> SUFFICES ASSUME IsStream', NothingFailed' PROVE ActivityOK'
  BY DEF ActivityOK
<1>1. NothingFailed
  BY SameLog DEF AlwaysRound, ReceiveSignal, RouteToErrorState
<1>2. ~RouteToErrorState
  BY <1>1, CleanRuns DEF RouteToErrorState
<1>3. PICK name \in StepName : OpenStep(name)
  <2>1. CASE AlwaysRound
    BY <2>1 DEF AlwaysRound, BeginRound, StepName
  <2>2. CASE ReceiveSignal
    <3>1. NextEvent \in StepName
      BY <2>2, TakenType DEF ReceiveSignal
    <3>2. QED BY <2>2, <3>1 DEF ReceiveSignal, BeginRound
  <2>3. QED BY <1>2, <2>1, <2>2
<1>4. IsStream /\ event_tx \in Seq(Event) /\ event_tx' = event_tx \o OpeningEvents(name)
  BY <1>3, Emitted DEF OpenStep
<1>5. Reported(event_tx') = Reported(event_tx)
  BY <1>4, OpeningUntold
<1>6. UNCHANGED results /\ ~InBatch /\ ~InBatch'
  BY <1>2 DEF AlwaysRound, ReceiveSignal, BeginRound, InBatch
<1>7. QED BY <1>1, <1>4, <1>5, <1>6 DEF ActivityOK

(* The step of an empty row reports nothing. *)
LEMMA EmptyRowUntold ==
  ASSUME TypeOK, ActivityOK, EmptyRow
  PROVE  ActivityOK'
<1> SUFFICES ASSUME IsStream', NothingFailed' PROVE ActivityOK'
  BY DEF ActivityOK
<1> DEFINE e == StepFinished(NextEvent)
           opening == OpeningEvents(NextEvent)
<1>1. /\ NextEvent \in StepName /\ ~InBatch /\ ~InBatch'
      /\ UNCHANGED <<results, log>>
  BY TakenType DEF EmptyRow, InBatch
<1>2. e \in Event /\ e.type = "STEP_FINISHED" /\ opening \in Seq(Event)
  BY <1>1, OpeningType DEF StepFinished, Event
<1>3. Emit(opening \o <<e>>)
  BY DEF EmptyRow
<1>4. IsStream /\ event_tx \in Seq(Event) /\ event_tx' = event_tx \o (opening \o <<e>>)
  BY <1>3, Emitted
<1>5. Reported(event_tx \o opening) = Reported(event_tx)
  BY <1>1, <1>4, OpeningUntold
<1> HIDE DEF e, opening
<1>6. event_tx \o opening \in Seq(Event) /\ event_tx' = (event_tx \o opening) \o <<e>>
  <2>1. <<e>> \in Seq(Event)
    BY <1>2, Singleton
  <2>2. \A p, q, r \in Seq(Event) : (p \o q) \o r = p \o (q \o r)
    BY ConcatAssociative
  <2>3. QED BY <1>2, <1>4, <2>1, <2>2, ConcatProperties
<1>7. Reported(event_tx') = Reported(event_tx \o opening)
  BY <1>2, <1>6, Tellable, OthersReportNothing
<1>8. QED BY <1>1, <1>4, <1>5, <1>7, SameLog DEF ActivityOK

LEMMA GuardTold ==
  ASSUME TypeOK, TypeOK', ControlOK, ActivityOK, EvalGuard
  PROVE  ActivityOK'
<1> SUFFICES ASSUME IsStream', NothingFailed' PROVE ActivityOK'
  BY DEF ActivityOK
<1>1. pc = "guard" /\ UNCHANGED log
  BY DEF EvalGuard
<1>2. PICK e \in ResultEntry : results' = Append(results, e) /\ Emit(<<Activity(e)>>)
  BY GuardRecords
<1>3. IsStream /\ event_tx \in Seq(Event) /\ event_tx' = event_tx \o <<Activity(e)>>
  BY <1>2, Emitted
<1>4. Activity(e) \in Event /\ ReportedBy(Activity(e)) = <<e>>
  BY DEF Activity, Event, ReportedBy
<1>5. Reported(event_tx \o <<Activity(e)>>) = Reported(event_tx) \o <<e>>
  <2>1. Reported(Append(event_tx, Activity(e))) = Reported(event_tx) \o ReportedBy(Activity(e))
    BY <1>3, <1>4, Tellable, ReportedGrows
  <2>2. event_tx \o <<Activity(e)>> = Append(event_tx, Activity(e))
    BY <1>3, <1>4, AppendIsConcat
  <2>3. QED BY <1>4, <2>1, <2>2
<1>6. Reported(event_tx) = results
  BY <1>1, <1>3, SameLog DEF ActivityOK, InBatch
<1>7. results \o <<e>> = Append(results, e)
  BY AppendIsConcat DEF TypeOK, ContextOK
<1>8. Reported(event_tx') = results'
  BY <1>2, <1>3, <1>5, <1>6, <1>7
<1>9. pc' = "guard" \/ n_before' = Len(results')
  BY <1>1 DEF EvalGuard, StartBatch
<1>10. QED BY <1>8, <1>9, BatchBegins DEF ActivityOK, InBatch

LEMMA BatchesTold ==
  ASSUME TypeOK, TypeOK', ControlOK, ActivityOK,
         TransitionActionsDone \/ ChangeState \/ EntryActionsDone
  PROVE  ActivityOK'
<1> SUFFICES ASSUME IsStream', NothingFailed' PROVE ActivityOK'
  BY DEF ActivityOK
<1>1. NothingFailed
  <2>1. CASE ChangeState
    BY <2>1, StateExited
  <2>2. CASE TransitionActionsDone \/ EntryActionsDone
    BY <2>2, SameLog DEF TransitionActionsDone, EntryActionsDone
  <2>3. QED BY <2>1, <2>2
<1>2. InBatch /\ EmitActivities(n_before) /\ UNCHANGED results
  BY DEF TransitionActionsDone, ChangeState, EntryActionsDone, InBatch
<1>3. Reported(event_tx') = results'
  BY <1>1, <1>2, BatchReported
<1>4. ~InBatch' \/ n_before' = Len(results')
  BY DEF TransitionActionsDone, ChangeState, EntryActionsDone, StartBatch, InBatch
<1>5. QED BY <1>3, <1>4, BatchBegins DEF ActivityOK

LEMMA ActionUntold ==
  ASSUME TypeOK, ControlOK, ActivityOK, RunAction
  PROVE  ActivityOK'
<1>1. UNCHANGED <<config, state_accessor, log, pc, event_tx, n_before>> /\ InBatch
  BY DEF RunAction, argVars
<1>2. PICK e \in ResultEntry : results' = Append(results, e)
  BY ActionRecords
<1>3. SubSeq(Append(results, e), 1, n_before) = SubSeq(results, 1, n_before)
  BY FirstOfAppend DEF TypeOK, ContextOK, LocalsOK
<1>4. IsStream' => IsStream
  BY <1>1 DEF IsStream
<1>5. QED BY <1>1, <1>2, <1>3, <1>4, SameLog DEF ActivityOK, InBatch

LEMMA RestUntold ==
  ASSUME TypeOK, TypeOK', ControlOK, ErrorOK, ActivityOK,
         \/ NothingAlways \/ Return \/ IgnoreSignal \/ PassUnguarded \/ NoneFired
         \/ CloseStep \/ Propagate \/ UNCHANGED vars
  PROVE  ActivityOK'
<1> SUFFICES ASSUME IsStream', NothingFailed' PROVE ActivityOK'
  BY DEF ActivityOK
<1>1. UNCHANGED <<log, results>>
  BY DEF NothingAlways, Return, IgnoreSignal, PassUnguarded, NoneFired, CloseStep, Propagate,
     vars, ctxVars, locals
<1>2. NothingFailed
  BY <1>1, SameLog
<1>3. IsStream /\ Reported(event_tx') = Reported(event_tx)
  <2>1. CASE CloseStep
    BY <2>1, ClosingUntold
  <2>2. CASE ~CloseStep
    <3>1. UNCHANGED event_tx
      BY <2>2 DEF NothingAlways, Return, IgnoreSignal, PassUnguarded, NoneFired, Propagate,
         vars, ctxVars, locals
    <3>2. QED BY <3>1 DEF IsStream
  <2>3. QED BY <2>1, <2>2
<1>4. CASE UNCHANGED vars
  BY <1>2, <1>3, <1>4 DEF ActivityOK, InBatch, vars, ctxVars, locals
<1>5. CASE PassUnguarded
  BY <1>1, <1>2, <1>3, <1>5, BatchBegins DEF ActivityOK, InBatch, PassUnguarded, StartBatch
<1>6. CASE NothingAlways \/ Return \/ IgnoreSignal \/ NoneFired \/ CloseStep \/ Propagate
  <2>1. ~InBatch /\ ~InBatch'
    BY <1>6 DEF NothingAlways, Return, IgnoreSignal, NoneFired, CloseStep, Propagate, InBatch
  <2>2. QED BY <1>1, <1>2, <1>3, <2>1 DEF ActivityOK
<1>7. QED BY <1>4, <1>5, <1>6

LEMMA ActivityInit == Init => ActivityOK
<1> SUFFICES ASSUME Init, IsStream PROVE ActivityOK
  BY DEF ActivityOK
<1>1. event_tx = <<>> /\ results = <<>> /\ pc = "always"
  BY DEF Init, IsStream
<1>2. QED BY <1>1, NothingReported DEF ActivityOK, InBatch

(***************************************************************************)
(* A stream in which nothing failed reports every result, once and in      *)
(* order: the batches cut the results into slices that meet.               *)
(***************************************************************************)
THEOREM ActivitiesAccounted == Spec => []ActivitiesReportResults
<1>1. /\ TypeOK /\ TypeOK' /\ ControlOK /\ ErrorOK /\ ActivityOK /\ [Next]_vars
      => ActivityOK'
  <2>1. ASSUME ~NothingFailed' PROVE ActivityOK'
    BY <2>1 DEF ActivityOK
  <2>2. QED
    BY <2>1, FailingSteps, OpeningReports, EmptyRowUntold, GuardTold, BatchesTold, ActionUntold, RestUntold
    DEF Next, Step, Done
<1>2. ActivityOK => ActivitiesReportResults
  BY DEF ActivityOK, ActivitiesReportResults, Queue, AtRest, InBatch
<1>3. QED
  BY <1>1, <1>2, ActivityInit, InitErrorOK, ErrorStepOK, TypeAndControl, PTL DEF Spec

----------------------------------------------------------------------------
(***************************************************************************)
(* A stream is a call.  Its consumer can stop the engine by not polling or *)
(* by dropping the stream, but every step the engine makes is a step of    *)
(* run, so what holds of a call at every moment holds of a stream.         *)
(***************************************************************************)
THEOREM StreamIsCall == StreamSpec => Spec
<1>1. StreamInit => Init
  BY DEF StreamInit
<1>2. [StreamNext]_<<vars, streamVars>> => [Next]_vars
  BY DEF StreamNext, Generator, Drive, Deliver, DriveEnds, Drain, HandBack, YieldError, End,
     Poll, Drop, StreamDone, Next
<1>3. QED BY <1>1, <1>2, PTL DEF StreamSpec, Spec

(* The events are well formed also while a consumer takes turns with the   *)
(* engine, or drops it in the middle of a step.                            *)
THEOREM StreamedEventsFit == StreamSpec => [](StepsBracketed /\ ClientInSync)
BY StreamIsCall, EventsFit, PTL

(* A stream keeps every other promise of a call: errors go where they      *)
(* should, the first candidate that passes is taken, signals find the      *)
(* machine settled, the lifecycle follows the path, the activities account *)
(* for the results.                                                        *)
THEOREM StreamsKeepPromises ==
  StreamSpec => [](/\ ErrorsRouted /\ FirstPassingCandidate /\ SettledBetweenSignals
                   /\ LifecycleFollowsHistory /\ ActivitiesReportResults)
BY StreamIsCall, ErrorsReachTheirPlace, FirstCandidateTaken, CallsSettle, LifecycleFollowed,
   ActivitiesAccounted, PTL

(* ... and implements the contract.                                        *)
THEOREM StreamRefinement == StreamSpec => RefinesStatechart
BY StreamIsCall, Refinement, PTL

(* ... and comes closer to its end with every step the engine is let make. *)
THEOREM StreamsDescend == StreamSpec => [][ComesCloser]_vars
BY StreamIsCall, CallsDescend, PTL
=============================================================================
