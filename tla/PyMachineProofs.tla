--------------------------- MODULE PyMachineProofs ---------------------------
(***************************************************************************)
(* What holds of every call of run and of stream, for every set of graphs, *)
(* every registry of callbacks whatever they do, every accessor and every  *)
(* cap.                                                                    *)
(*                                                                         *)
(* First types, the implementation of Statechart, and that the steps of a  *)
(* call cannot go on for ever.  Then where its failures go: none is        *)
(* swallowed, and every recoverable one reaches its error state.  Then     *)
(* what validate_registries promises: on a machine it accepts, no call     *)
(* asks a registry for a name it does not hold.  Then what a call leaves   *)
(* in its results: the first candidate that passes is taken, a call        *)
(* between two signals has settled, the exit and entry actions that ran    *)
(* are those of the path it took, and the report of show_transitions is    *)
(* read back as the results.  At last, that the path stays on the graph.   *)
(***************************************************************************)
EXTENDS PyMachineProperties, SchemaTheorems

----------------------------------------------------------------------------
(* The events put on the queue are events. *)

LEMMA QueueGrows ==
  ASSUME NEW q \in Seq(Event) \cup {None}, NEW e \in Seq(Event)
  PROVE  (IF q # None THEN q \o e ELSE q) \in Seq(Event) \cup {None}
<1>1. CASE q = None
  BY <1>1
<1>2. CASE q # None
  BY <1>2, ConcatProperties
<1>3. QED BY <1>1, <1>2

LEMMA ActivitiesType ==
  ASSUME NEW r \in Seq(ResultEntry), NEW n \in 0 .. Len(r)
  PROVE  [i \in 1 .. Len(r) - n |-> Activity(r[n + i])] \in Seq(Event)
<1>1. Len(r) \in Nat
  BY LenProperties
<1>2. \A i \in 1 .. Len(r) - n : Activity(r[n + i]) \in Event
  <2> TAKE i \in 1 .. Len(r) - n
  <2>1. n + i \in 1 .. Len(r)
    BY <1>1
  <2>2. r[n + i] \in ResultEntry
    BY <2>1, ElementOfSeq
  <2>3. QED BY <2>2 DEF Activity, Event
<1>3. Len(r) - n \in Nat
  BY <1>1
<1>4. [i \in 1 .. Len(r) - n |-> Activity(r[n + i])] \in [1 .. Len(r) - n -> Event]
  BY <1>2
<1>5. QED BY <1>3, <1>4, FunctionIsSeq

----------------------------------------------------------------------------
(* What the state accessor reads, and the signal callbacks are given. *)

LEMMA GraphType == TypeOK => IsConfig(config)
BY ConfigAssumption DEF TypeOK, ArgsOK

LEMMA ViewType == TypeOK => CurrentStateDict.view \in STRING
<1> SUFFICES ASSUME TypeOK PROVE CurrentStateDict.view \in STRING
  OBVIOUS
<1>1. CASE state_accessor = None
  BY <1>1 DEF CurrentStateDict, TypeOK, ContextOK
<1>2. CASE state_accessor # None
  <2>1. state_accessor \in [Sessions -> Reading]
    BY <1>2, CallAssumption DEF TypeOK, ArgsOK
  <2>2. state_accessor[session] \in Reading
    BY <2>1 DEF TypeOK, ContextOK
  <2>3. QED BY <1>2, <2>2 DEF CurrentStateDict, Reading
<1>3. QED BY <1>1, <1>2

LEMMA EventsType ==
  ASSUME TypeOK, NEW i \in 1 .. Len(events)
  PROVE  events[i].event \in STRING /\ events[i].data \in Data
<1>1. events \in Seq([event : STRING, data : Data])
  BY CallAssumption DEF TypeOK, ArgsOK
<1>2. events[i] \in [event : STRING, data : Data]
  BY <1>1, ElementOfSeq
<1>3. QED BY <1>2

LEMMA SignalType ==
  ASSUME TypeOK, ControlOK, Busy
  PROVE  Signal.event \in StepName /\ Signal.data \in Data
<1>1. CASE hook = "always"
  <2>1. Signal.event = AlwaysSignal.event /\ Signal.data = ""
    BY <1>1, Zenon DEF Signal, AlwaysSignal
  <2>2. QED BY <2>1, PayloadAssumption, Zenon DEF StepName
<1>2. CASE hook # "always"
  <2>1. taken \in 1 .. Len(events)
    <3>1. taken > 0 /\ taken \in 0 .. Len(events)
      BY <1>2 DEF TypeOK, LocalsOK, Hooks, ControlOK, OnControl, ErrorControl
    <3>2. Len(events) \in Nat
      BY CallAssumption, LenProperties DEF TypeOK, ArgsOK
    <3>3. QED BY <3>1, <3>2
  <2>2. QED BY <1>2, <2>1, EventsType DEF Signal, StepName
<1>3. QED BY <1>1, <1>2

LEMMA OutcomeType ==
  ASSUME NEW fns, IsRegistry(fns), NEW name \in DOMAIN fns, NEW s \in Sessions,
         NEW d \in Data, NEW o \in fns[name][<<s, d>>]
  PROVE  o \in Outcome /\ name \in STRING
<1>1. fns[name] \in [Sessions \X Data -> (SUBSET Outcome) \ {{}}] /\ name \in STRING
  BY DEF IsRegistry
<1>2. fns[name][<<s, d>>] \in (SUBSET Outcome) \ {{}}
  BY <1>1
<1>3. QED BY <1>1, <1>2

----------------------------------------------------------------------------
(* What a step that changes few variables leaves as it was. *)

LEMMA ArgsKept ==
  ASSUME TypeOK, UNCHANGED argVars
  PROVE  ArgsOK'
BY DEF TypeOK, ArgsOK, argVars

LEMMA ContextKept ==
  ASSUME TypeOK, UNCHANGED ctxVars
  PROVE  ContextOK'
BY DEF TypeOK, ContextOK, ctxVars

LEMMA LogGrows ==
  ASSUME NEW l \in Seq(LogEntry), NEW h \in Hooks, NEW e \in Exceptions,
         NEW phase \in {"step", "guard", "actions", "exit", "entry"}
  PROVE  Append(l, Failure(h, phase, e)) \in Seq(LogEntry)
<1>1. Failure(h, phase, e) \in LogEntry
  BY DEF Failure, LogEntry
<1>2. QED BY <1>1, SeqGrows

(***************************************************************************)
(* The cascade.                                                            *)
(***************************************************************************)
LEMMA AlwaysFailsOK ==
  ASSUME TypeOK, ControlOK, AlwaysFails
  PROVE  TypeOK' /\ ControlOK'
<1>1. ArgsOK' /\ ContextOK'
  BY ArgsKept, ContextKept DEF AlwaysFails
<1>2. PICK e \in {"RuntimeError", "KeyError"} : ThrowOutside("always", e)
  BY DEF AlwaysFails
<1>3. e \in Exceptions /\ "always" \in Hooks
  BY DEF Exceptions, Hooks
<1>4. log' \in Seq(LogEntry)
  BY <1>2, <1>3, LogGrows DEF ThrowOutside, TypeOK, LocalsOK
<1>5. LocalsOK'
  BY <1>2, <1>3, <1>4 DEF AlwaysFails, ThrowOutside, TypeOK, LocalsOK, ctxVars, argVars, locals
<1>6. ControlOK'
  BY <1>2 DEF AlwaysFails, ThrowOutside, ControlOK, OnControl, AlwaysControl,
     ErrorControl, CandidateControl, Busy, Terminated, ctxVars, argVars, locals
<1>7. QED BY <1>1, <1>5, <1>6 DEF TypeOK

LEMMA NothingAlwaysOK ==
  ASSUME TypeOK, ControlOK, NothingAlways
  PROVE  TypeOK' /\ ControlOK'
<1>1. ArgsOK' /\ ContextOK'
  BY ArgsKept, ContextKept DEF NothingAlways
<1>2. LocalsOK'
  BY DEF NothingAlways, TypeOK, LocalsOK, ctxVars, argVars, locals
<1>3. ControlOK'
  BY DEF NothingAlways, ControlOK, OnControl, AlwaysControl, ErrorControl,
     CandidateControl, Busy, Terminated, ctxVars, argVars, locals
<1>4. QED BY <1>1, <1>2, <1>3 DEF TypeOK

(* STEP_STARTED, with a snapshot unless the accessor fails. *)
LEMMA OpeningType ==
  ASSUME TypeOK, NEW name \in StepName
  PROVE  (IF CurrentStateDict.raises THEN <<StepStarted(name)>>
          ELSE <<StepStarted(name), StateSnapshot(CurrentStateDict.view)>>) \in Seq(Event)
<1>1. CurrentStateDict.view \in STRING
  BY ViewType
<1>2. /\ StepStarted(name) \in Event
      /\ StateSnapshot(CurrentStateDict.view) \in Event
  BY <1>1 DEF StepStarted, StateSnapshot, Event
<1>3. QED BY <1>2, Singleton, Couple

LEMMA AlwaysRoundOK ==
  ASSUME TypeOK, ControlOK, AlwaysRound
  PROVE  TypeOK' /\ ControlOK'
<1>0. BeginRound("always", AlwaysSignal.event, Always) /\ current_state \in DOMAIN config
  BY DEF AlwaysRound
<1>1. ArgsOK'
  BY ArgsKept DEF AlwaysRound
<1>2. event_q' \in Seq(Event) \cup {None}
  <2>1. AlwaysSignal.event \in StepName
    BY DEF StepName
  <2>2. QED
    BY <1>0, <2>1, OpeningType, QueueGrows
    DEF BeginRound, OpenStep, Emit, IsStream, TypeOK, ContextOK
<1>3. ContextOK'
  BY <1>0, <1>2, ViewType DEF BeginRound, OpenStep, TypeOK, ContextOK, AlwaysRound
<1>4. log' \in Seq(LogEntry) /\ exc' \in Exceptions \cup {None}
  <2>1. "Exception" \in Exceptions /\ "always" \in Hooks
    BY DEF Exceptions, Hooks
  <2>2. QED
    BY <1>0, <2>1, LogGrows DEF BeginRound, ThrowOutside, TypeOK, LocalsOK
<1>5. Always \in Seq(TransitionConfig)
  BY <1>0, GraphType, StateConfigType DEF Always
<1>6. LocalsOK'
  <2>1. ci' \in 1 .. Len(cands') + 1 /\ cands' \in Seq(TransitionConfig)
    BY <1>0, <1>5, LenProperties DEF BeginRound
  <2>2. QED
    BY <1>0, <1>4, <2>1
    DEF BeginRound, ThrowOutside, AlwaysRound, TypeOK, LocalsOK, Hooks, argVars
<1>7. ControlOK'
  <2>1. depth < MaxDepth
    BY DepthAssumption DEF AlwaysRound, Capped, TypeOK, LocalsOK
  <2>2. QED
    BY <1>0, <2>1
    DEF BeginRound, ThrowOutside, AlwaysRound, ControlOK, OnControl, AlwaysControl,
        ErrorControl, CandidateControl, Busy, Terminated, Always, Reachable, argVars
<1>8. QED BY <1>1, <1>3, <1>6, <1>7 DEF TypeOK

(***************************************************************************)
(* Dispatch.                                                               *)
(***************************************************************************)
LEMMA ReturnOK ==
  ASSUME TypeOK, ControlOK, Return
  PROVE  TypeOK' /\ ControlOK'
<1>1. ArgsOK' /\ ContextOK'
  BY ArgsKept, ContextKept DEF Return
<1>2. LocalsOK'
  BY DEF Return, TypeOK, LocalsOK, ctxVars, argVars, locals
<1>3. ControlOK'
  BY DEF Return, ControlOK, OnControl, AlwaysControl, ErrorControl,
     CandidateControl, Busy, Terminated, ctxVars, argVars, locals
<1>4. QED BY <1>1, <1>2, <1>3 DEF TypeOK

LEMMA TakenType ==
  ASSUME TypeOK, taken < Len(events)
  PROVE  /\ taken + 1 \in 1 .. Len(events)
         /\ events[taken + 1].event \in StepName
<1>1. taken \in 0 .. Len(events) /\ Len(events) \in Nat
  BY CallAssumption, LenProperties DEF TypeOK, LocalsOK, ArgsOK
<1>2. taken + 1 \in 1 .. Len(events)
  BY <1>1
<1>3. QED BY <1>2, EventsType DEF StepName

LEMMA IgnoreSignalOK ==
  ASSUME TypeOK, ControlOK, IgnoreSignal
  PROVE  TypeOK' /\ ControlOK'
<1>1. ArgsOK' /\ ContextOK'
  BY ArgsKept, ContextKept DEF IgnoreSignal
<1>2. LocalsOK'
  <2>1. taken' \in 0 .. Len(events)
    BY TakenType DEF IgnoreSignal, SignalsTaken
  <2>2. QED
    BY <2>1 DEF IgnoreSignal, TypeOK, LocalsOK, ctxVars, argVars
<1>3. ControlOK'
  BY DEF IgnoreSignal, ControlOK, OnControl, AlwaysControl, ErrorControl,
     CandidateControl, Busy, Terminated, ctxVars, argVars
<1>4. QED BY <1>1, <1>2, <1>3 DEF TypeOK

LEMMA ReceiveSignalOK ==
  ASSUME TypeOK, ControlOK, ReceiveSignal
  PROVE  TypeOK' /\ ControlOK'
<1>0. /\ BeginRound("on", events[taken + 1].event, Candidates)
      /\ dispatched' = current_state
  BY DEF ReceiveSignal
<1>1. ArgsOK'
  BY ArgsKept DEF ReceiveSignal
<1>2. taken + 1 \in 1 .. Len(events) /\ events[taken + 1].event \in StepName
  BY TakenType DEF ReceiveSignal
<1>3. event_q' \in Seq(Event) \cup {None}
  BY <1>0, <1>2, OpeningType, QueueGrows
  DEF BeginRound, OpenStep, Emit, IsStream, TypeOK, ContextOK
<1>4. ContextOK'
  BY <1>0, <1>3, ViewType DEF BeginRound, OpenStep, TypeOK, ContextOK, ReceiveSignal
<1>5. log' \in Seq(LogEntry) /\ exc' \in Exceptions \cup {None}
  <2>1. "Exception" \in Exceptions /\ "on" \in Hooks
    BY DEF Exceptions, Hooks
  <2>2. QED
    BY <1>0, <2>1, LogGrows DEF BeginRound, ThrowOutside, TypeOK, LocalsOK
<1>6. Candidates \in Seq(TransitionConfig) /\ current_state \in DOMAIN config
  BY GraphType, LookupType DEF Candidates, ReceiveSignal
<1>7. LocalsOK'
  <2>1. ci' \in 1 .. Len(cands') + 1 /\ cands' \in Seq(TransitionConfig)
    BY <1>0, <1>6, LenProperties DEF BeginRound
  <2>2. taken' \in 0 .. Len(events)
    BY <1>2 DEF ReceiveSignal, SignalsTaken
  <2>3. QED
    BY <1>0, <1>5, <2>1, <2>2
    DEF BeginRound, ThrowOutside, ReceiveSignal, TypeOK, LocalsOK, ContextOK, Hooks, argVars
<1>8. ControlOK'
  <2>1. taken' = taken + 1 /\ taken' > 0
    BY <1>2 DEF ReceiveSignal, SignalsTaken, TypeOK, LocalsOK
  <2>2. QED
    BY <1>0, <1>6, <2>1
    DEF BeginRound, ThrowOutside, ReceiveSignal, Candidates, ControlOK, OnControl,
        AlwaysControl, ErrorControl, CandidateControl, Busy, Terminated, Reachable, argVars
<1>9. QED BY <1>1, <1>4, <1>7, <1>8 DEF TypeOK

(***************************************************************************)
(* Guards.                                                                 *)
(***************************************************************************)
LEMMA CandidateType ==
  ASSUME TypeOK, ci <= Len(cands)
  PROVE  /\ ci \in 1 .. Len(cands)
         /\ ci \in 1 .. Len(cands) + 1
         /\ ci + 1 \in 1 .. Len(cands) + 1
         /\ Candidate.guard \in STRING \cup {None}
         /\ Candidate.actions \in Seq(STRING)
         /\ Candidate.target \in STRING
<1>1. cands \in Seq(TransitionConfig) /\ ci \in 1 .. Len(cands) + 1
  BY DEF TypeOK, LocalsOK
<1>2. Len(cands) \in Nat /\ DOMAIN cands = 1 .. Len(cands)
  BY <1>1, LenProperties
<1>3. ci \in 1 .. Len(cands) /\ ci + 1 \in 1 .. Len(cands) + 1
  BY <1>1, <1>2
<1>4. QED BY <1>1, <1>2, <1>3, TargetType DEF Candidate

LEMMA ResultType ==
  ASSUME TypeOK, ControlOK, Busy, pc \notin {"close", "catch"},
         NEW kind \in {"guard", "action"}, NEW name \in STRING,
         NEW value \in BOOLEAN \cup {None}, hook = "error" => pc \in {"exit", "entry"}
  PROVE  Entry(kind, name, value) \in ResultEntry
<1>1. Source \in {"on", "always", "entry", "exit"}
  BY DEF Source, TypeOK, LocalsOK, Hooks
<1>2. current_state \in STRING
  BY DEF TypeOK, ContextOK
<1>3. QED BY <1>1, <1>2 DEF Entry, ResultEntry, ResultSources

LEMMA PassUnguardedOK ==
  ASSUME TypeOK, ControlOK, PassUnguarded
  PROVE  TypeOK' /\ ControlOK'
<1>1. ArgsOK' /\ ContextOK'
  BY ArgsKept, ContextKept DEF PassUnguarded, ctxVars
<1>2. Candidate.actions \in Seq(STRING) /\ Len(results) \in 0 .. Len(results)
  BY CandidateType, LenProperties DEF PassUnguarded, TypeOK, ContextOK
<1>3. LocalsOK'
  BY <1>2 DEF PassUnguarded, StartBatch, TypeOK, LocalsOK, argVars
<1>4. ControlOK'
  BY DEF PassUnguarded, StartBatch, ControlOK, OnControl, AlwaysControl, ErrorControl,
     CandidateControl, Busy, Terminated, Always, argVars
<1>5. QED BY <1>1, <1>3, <1>4 DEF TypeOK

LEMMA EvalGuardOK ==
  ASSUME TypeOK, ControlOK, EvalGuard
  PROVE  TypeOK' /\ ControlOK'
<1>1. ArgsOK'
  BY ArgsKept DEF EvalGuard
<1>2. PICK o \in GuardFns[Candidate.guard][<<session, Signal.data>>] :
        /\ o.value # None
        /\ session' = o.session
        /\ results' = Append(results, Entry("guard", Candidate.guard, o.value))
        /\ Emit(<<Activity(Entry("guard", Candidate.guard, o.value))>>)
        /\ IF o.value
             THEN StartBatch("actions", Candidate.actions) /\ UNCHANGED ci
             ELSE ci' = ci + 1 /\ UNCHANGED <<pc, batch, n_before>>
  BY DEF EvalGuard
<1>3. o \in Outcome /\ Candidate.guard \in STRING
  <2>1. Signal.data \in Data
    BY SignalType DEF EvalGuard, Busy
  <2>2. QED
    BY <2>1, OutcomeType, CallAssumption DEF EvalGuard, TypeOK, ContextOK
<1>4. Entry("guard", Candidate.guard, o.value) \in ResultEntry
  BY <1>3, ResultType DEF EvalGuard, Busy, Outcome, ControlOK, ErrorControl
<1>5. /\ results' \in Seq(ResultEntry)
      /\ Len(results) \in Nat
      /\ Len(results') = Len(results) + 1
  BY <1>2, <1>4, SeqGrows, LenProperties DEF TypeOK, ContextOK
<1>6. event_q' \in Seq(Event) \cup {None}
  <2>1. Activity(Entry("guard", Candidate.guard, o.value)) \in Event
    BY <1>4 DEF Activity, Event
  <2>2. <<Activity(Entry("guard", Candidate.guard, o.value))>> \in Seq(Event)
    BY <2>1, Singleton
  <2>3. QED BY <1>2, <2>2, QueueGrows DEF Emit, IsStream, TypeOK, ContextOK
<1>7. ContextOK'
  BY <1>2, <1>3, <1>5, <1>6 DEF EvalGuard, TypeOK, ContextOK, Outcome
<1>8. /\ ci \in 1 .. Len(cands) /\ ci + 1 \in 1 .. Len(cands) + 1
      /\ Candidate.actions \in Seq(STRING)
  BY CandidateType DEF EvalGuard
<1>9. LocalsOK'
  BY <1>2, <1>5, <1>8 DEF EvalGuard, StartBatch, TypeOK, LocalsOK, argVars
<1>10. ControlOK'
  <2>1. Reachable(cands, ci) /\ cands[ci].guard # None
    BY CallAssumption, <1>3 DEF EvalGuard, ControlOK, CandidateControl, ErrorControl, Busy, Candidate
  <2>2. Reachable(cands, ci + 1)
    BY <2>1, <1>8 DEF Reachable
  <2>3. QED
    BY <1>2, <1>8, <2>1, <2>2
    DEF EvalGuard, StartBatch, ControlOK, OnControl, AlwaysControl, ErrorControl,
        CandidateControl, Busy, Terminated, Always, argVars
<1>11. QED BY <1>1, <1>7, <1>9, <1>10 DEF TypeOK

(* An exception of a callback, wrapped or not, is an exception.            *)
LEMMA WrappedType ==
  ASSUME NEW e \in Exceptions
  PROVE  Wrapped(e) \in Exceptions
BY DEF Wrapped, Exceptions

(* What a failing guard throws is an exception. *)
LEMMA GuardThrows ==
  ASSUME TypeOK, ControlOK, GuardFails
  PROVE  \E e \in Exceptions : Throw(e) /\ session' \in Sessions
<1>1. CASE Candidate.guard \notin DOMAIN GuardFns
  BY <1>1 DEF GuardFails, Exceptions, TypeOK, ContextOK
<1>2. CASE Candidate.guard \in DOMAIN GuardFns
  <2>1. PICK o \in GuardFns[Candidate.guard][<<session, Signal.data>>] :
          /\ o.raises # None \/ o.value = None
          /\ session' = o.session
          /\ Throw(IF o.raises # None THEN o.raises ELSE "GuardError")
    BY <1>2 DEF GuardFails
  <2>2. o \in Outcome
    <3>1. Signal.data \in Data
      BY SignalType DEF GuardFails, Busy
    <3>2. QED
      BY <1>2, <3>1, OutcomeType, CallAssumption DEF TypeOK, ContextOK
  <2>3. (IF o.raises # None THEN o.raises ELSE "GuardError") \in Exceptions
    BY <2>2 DEF Outcome, Exceptions
  <2>4. QED BY <2>1, <2>2, <2>3 DEF Outcome
<1>3. QED BY <1>1, <1>2

(* Whatever a callback throws, and wherever: into the try block of the     *)
(* on hop, or out of the round.                                            *)
LEMMA CallbackThrowsOK ==
  ASSUME TypeOK, ControlOK, pc \in {"guard", "actions", "exit", "entry"},
         NEW e \in Exceptions, Throw(e), session' \in Sessions,
         UNCHANGED <<argVars, current_state, history, results, event_q,
                     state_snapshot, locals>>
  PROVE  TypeOK' /\ ControlOK'
<1>1. ArgsOK'
  BY ArgsKept
<1>2. ContextOK'
  BY DEF TypeOK, ContextOK
<1>3. log' \in Seq(LogEntry) /\ exc' \in Exceptions
  BY LogGrows, WrappedType DEF Throw, TypeOK, LocalsOK
<1>4. LocalsOK'
  BY <1>3 DEF Throw, TypeOK, LocalsOK, locals, argVars
<1>5. ControlOK'
  <2>1. exc' # None
    BY <1>3, CallAssumption
  <2>2. /\ hook' = hook /\ ~Terminated'
        /\ pc' = IF hook = "on" THEN "close" ELSE "catch"
    BY DEF Throw, Terminated, locals
  <2>3. OnControl'
    <3>1. hook = "on" /\ exc' = "TransitionError" => current_state \in DOMAIN config
      BY DEF ControlOK, OnControl, Busy
    <3>2. QED BY <3>1 DEF Throw, ControlOK, OnControl, Busy, locals, argVars
  <2>4. AlwaysControl' /\ CandidateControl'
    BY <2>1, <2>2 DEF AlwaysControl, CandidateControl
  <2>5. ErrorControl'
    BY <2>2 DEF ControlOK, ErrorControl, Busy, RecoveryState, locals, argVars
  <2>6. QED BY <2>1, <2>2, <2>3, <2>4, <2>5 DEF ControlOK
<1>6. QED BY <1>1, <1>2, <1>4, <1>5 DEF TypeOK

LEMMA GuardFailsOK ==
  ASSUME TypeOK, ControlOK, GuardFails
  PROVE  TypeOK' /\ ControlOK'
BY GuardThrows, CallbackThrowsOK DEF GuardFails

LEMMA NoneFiredOK ==
  ASSUME TypeOK, ControlOK, NoneFired
  PROVE  TypeOK' /\ ControlOK'
<1>1. ArgsOK' /\ ContextOK'
  BY ArgsKept, ContextKept DEF NoneFired
<1>2. LocalsOK'
  BY DEF NoneFired, TypeOK, LocalsOK, ctxVars, argVars, locals
<1>3. AllRefusable(cands) /\ hook # "error"
  <2>1. ci = Len(cands) + 1
    <3>1. Len(cands) \in Nat /\ ci \in 1 .. Len(cands) + 1
      BY LenProperties DEF TypeOK, LocalsOK
    <3>2. QED BY <3>1 DEF NoneFired
  <2>2. QED
    BY <2>1 DEF NoneFired, ControlOK, CandidateControl, ErrorControl, Busy, AllRefusable
<1>4. ControlOK'
  BY <1>3 DEF NoneFired, ControlOK, OnControl, AlwaysControl, ErrorControl, CandidateControl,
     Busy, Terminated, Always, ctxVars, argVars, locals
<1>5. QED BY <1>1, <1>2, <1>4 DEF TypeOK

(***************************************************************************)
(* Actions.                                                                *)
(***************************************************************************)
LEMMA BatchType ==
  ASSUME TypeOK, batch # <<>>
  PROVE  Head(batch) \in STRING /\ Tail(batch) \in Seq(STRING)
BY HeadTailProperties DEF TypeOK, LocalsOK

LEMMA RunActionOK ==
  ASSUME TypeOK, ControlOK, RunAction
  PROVE  TypeOK' /\ ControlOK'
<1>1. ArgsOK'
  BY ArgsKept DEF RunAction
<1>2. PICK o \in ActionFns[Head(batch)][<<session, Signal.data>>] :
        /\ session' = o.session
        /\ results' = Append(results, Entry("action", Head(batch), o.value))
  BY DEF RunAction
<1>3. o \in Outcome
  <2>1. Signal.data \in Data
    BY SignalType DEF RunAction, InBatch, Busy
  <2>2. QED
    BY <2>1, OutcomeType, CallAssumption DEF RunAction, TypeOK, ContextOK
<1>4. Entry("action", Head(batch), o.value) \in ResultEntry
  <2>1. hook = "error" => pc \in {"exit", "entry"}
    BY DEF RunAction, InBatch, ControlOK, ErrorControl, Busy
  <2>2. QED
    BY <1>3, <2>1, BatchType, ResultType DEF RunAction, InBatch, Busy, Outcome
<1>5. /\ results' \in Seq(ResultEntry)
      /\ Len(results) \in Nat
      /\ Len(results') = Len(results) + 1
  BY <1>2, <1>4, SeqGrows, LenProperties DEF TypeOK, ContextOK
<1>6. ContextOK'
  BY <1>2, <1>3, <1>5 DEF RunAction, TypeOK, ContextOK, Outcome
<1>7. LocalsOK'
  BY <1>5, BatchType DEF RunAction, TypeOK, LocalsOK, argVars
<1>8. ControlOK'
  <2>1. OnControl'
    BY DEF RunAction, InBatch, ControlOK, OnControl, Busy, argVars
  <2>2. AlwaysControl'
    BY DEF RunAction, InBatch, ControlOK, AlwaysControl, Busy, Always, argVars
  <2>3. ErrorControl'
    BY DEF RunAction, InBatch, ControlOK, ErrorControl, Busy, RecoveryState, argVars
  <2>4. CandidateControl'
    BY DEF RunAction, InBatch, ControlOK, CandidateControl, Reachable
  <2>5. QED
    BY <2>1, <2>2, <2>3, <2>4 DEF RunAction, InBatch, ControlOK, Terminated, argVars
<1>9. QED BY <1>1, <1>6, <1>7, <1>8 DEF TypeOK

(* ... and a failing action. *)
LEMMA ActionThrows ==
  ASSUME TypeOK, ControlOK, ActionFails
  PROVE  \E e \in Exceptions : Throw(e) /\ session' \in Sessions
<1>1. CASE Head(batch) \notin DOMAIN ActionFns
  BY <1>1 DEF ActionFails, Exceptions, TypeOK, ContextOK
<1>2. CASE Head(batch) \in DOMAIN ActionFns
  <2>1. PICK o \in ActionFns[Head(batch)][<<session, Signal.data>>] :
          o.raises # None /\ session' = o.session /\ Throw(o.raises)
    BY <1>2 DEF ActionFails
  <2>2. o \in Outcome
    <3>1. Signal.data \in Data
      BY SignalType DEF ActionFails, InBatch, Busy
    <3>2. QED
      BY <1>2, <3>1, OutcomeType, CallAssumption DEF TypeOK, ContextOK
  <2>3. QED BY <2>1, <2>2 DEF Outcome
<1>3. QED BY <1>1, <1>2

LEMMA ActionFailsOK ==
  ASSUME TypeOK, ControlOK, ActionFails
  PROVE  TypeOK' /\ ControlOK'
BY ActionThrows, CallbackThrowsOK DEF ActionFails, InBatch

(* The activities of a batch, put on the queue. *)
LEMMA ReportType ==
  ASSUME TypeOK, EmitActivities(n_before)
  PROVE  event_q' \in Seq(Event) \cup {None}
BY ActivitiesType, QueueGrows DEF EmitActivities, Emit, IsStream, TypeOK, ContextOK, LocalsOK

LEMMA TransitionActionsDoneOK ==
  ASSUME TypeOK, ControlOK, TransitionActionsDone
  PROVE  TypeOK' /\ ControlOK'
<1>1. ArgsOK'
  BY ArgsKept DEF TransitionActionsDone
<1>2. event_q' \in Seq(Event) \cup {None}
  BY ReportType DEF TransitionActionsDone
<1>3. ContextOK'
  BY <1>2 DEF TransitionActionsDone, TypeOK, ContextOK
<1>4. current_state \in DOMAIN config
  BY DEF TransitionActionsDone, ControlOK, OnControl, AlwaysControl, ErrorControl, Busy,
     TypeOK, LocalsOK, Hooks
<1>5. ExitActions \in Seq(STRING) /\ Len(results) \in 0 .. Len(results)
  BY <1>4, GraphType, StateConfigType, LenProperties DEF ExitActions, TypeOK, ContextOK
<1>6. LocalsOK'
  BY <1>5 DEF TransitionActionsDone, StartBatch, TypeOK, LocalsOK, argVars
<1>7. ControlOK'
  <2>1. OnControl' /\ AlwaysControl'
    BY DEF TransitionActionsDone, StartBatch, ControlOK, OnControl, AlwaysControl, Busy,
       Always, argVars
  <2>2. hook # "error"
    BY DEF TransitionActionsDone, ControlOK, ErrorControl, Busy
  <2>3. QED
    BY <2>1, <2>2 DEF TransitionActionsDone, StartBatch, ControlOK, ErrorControl,
       CandidateControl, Terminated
<1>8. QED BY <1>1, <1>3, <1>6, <1>7 DEF TypeOK

(***************************************************************************)
(* The hop itself: the next state is a name, for a candidate's target is   *)
(* and an error hop is only made to an error state that is declared.       *)
(***************************************************************************)
LEMMA NextStateType ==
  ASSUME TypeOK, ControlOK, pc = "exit"
  PROVE  Target \in STRING
<1>1. CASE hook = "error"
  <2>1. dispatched \in DOMAIN config /\ RecoveryState # None
    BY <1>1 DEF ControlOK, ErrorControl, Busy
  <2>2. RecoveryState \in STRING \cup {None}
    BY <2>1, GraphType, StateConfigType DEF RecoveryState
  <2>3. QED BY <1>1, <2>1, <2>2 DEF Target
<1>2. CASE hook # "error"
  <2>1. ci <= Len(cands)
    BY <1>2 DEF ControlOK, CandidateControl
  <2>2. QED BY <1>2, <2>1, CandidateType DEF Target
<1>3. QED BY <1>1, <1>2

LEMMA ChangeStateOK ==
  ASSUME TypeOK, ControlOK, ChangeState
  PROVE  TypeOK' /\ ControlOK'
<1>1. ArgsOK'
  BY ArgsKept DEF ChangeState
<1>2. Target \in STRING
  BY NextStateType DEF ChangeState
<1>3. ContextOK'
  <2>1. event_q' \in Seq(Event) \cup {None}
    BY ReportType DEF ChangeState
  <2>2. /\ history' \in Seq(STRING) /\ Len(history') > 0
        /\ history'[Len(history')] = current_state'
    BY <1>2, SeqGrows DEF ChangeState, TypeOK, ContextOK
  <2>3. QED BY <1>2, <2>1, <2>2 DEF ChangeState, TypeOK, ContextOK
<1>4. /\ exc' \in Exceptions \cup {None}
      /\ exc' = exc \/ (exc' = "KeyError" /\ exc' # None)
  <2>1. "KeyError" \in Exceptions
    BY DEF Exceptions
  <2>2. "KeyError" # None
    BY <2>1, CallAssumption
  <2>3. QED BY <2>1, <2>2 DEF ChangeState, TypeOK, LocalsOK
<1>5. log' \in Seq(LogEntry)
  <2>1. Hop \in LogEntry
    BY <1>2 DEF Hop, LogEntry, TypeOK, LocalsOK, ContextOK
  <2>2. Failure(hook, "entry", "KeyError") \in LogEntry
    BY DEF Failure, LogEntry, Exceptions, TypeOK, LocalsOK
  <2>3. log \in Seq(LogEntry)
    BY DEF TypeOK, LocalsOK
  <2>4. Append(log, Hop) \in Seq(LogEntry)
    BY <2>1, <2>3, SeqGrows
  <2>5. log \o <<Hop, Failure(hook, "entry", "KeyError")>> \in Seq(LogEntry)
    BY <2>1, <2>2, <2>3, Couple, ConcatProperties
  <2>6. QED BY <2>4, <2>5 DEF ChangeState
<1>6. LocalsOK'
  <2>1. Target \in DOMAIN config => config[Target].entry \in Seq(STRING)
    BY GraphType, StateConfigType
  <2>2. Len(results) \in 0 .. Len(results)
    BY LenProperties DEF TypeOK, ContextOK
  <2>3. /\ pc' \in {"entry", "close", "catch"}
        /\ batch' \in Seq(STRING) /\ n_before' \in 0 .. Len(results')
    BY <2>1, <2>2 DEF ChangeState, StartBatch, TypeOK, LocalsOK
  <2>4. QED BY <1>4, <1>5, <2>3 DEF ChangeState, TypeOK, LocalsOK, argVars
<1>7. ControlOK'
  <2>1. OnControl'
    BY <1>4 DEF ChangeState, StartBatch, ControlOK, OnControl, Busy, argVars
  <2>2. AlwaysControl'
    BY DEF ChangeState, StartBatch, ControlOK, AlwaysControl, Busy
  <2>3. ErrorControl'
    BY DEF ChangeState, StartBatch, ControlOK, ErrorControl, Busy, RecoveryState, argVars
  <2>4. CandidateControl'
    BY DEF ChangeState, StartBatch, CandidateControl
  <2>5. QED
    BY <1>4, <2>1, <2>2, <2>3, <2>4 DEF ChangeState, StartBatch, ControlOK, Terminated, argVars
<1>8. QED BY <1>1, <1>3, <1>6, <1>7 DEF TypeOK

LEMMA EntryActionsDoneOK ==
  ASSUME TypeOK, ControlOK, EntryActionsDone
  PROVE  TypeOK' /\ ControlOK'
<1>1. ArgsOK'
  BY ArgsKept DEF EntryActionsDone
<1>2. event_q' \in Seq(Event) \cup {None}
  BY ReportType DEF EntryActionsDone
<1>3. ContextOK'
  BY <1>2 DEF EntryActionsDone, TypeOK, ContextOK
<1>4. LocalsOK'
  BY DEF EntryActionsDone, TypeOK, LocalsOK, locals, argVars
<1>5. ControlOK'
  <2>1. fired /\ exc # "TransitionError"
    <3>1. "TransitionError" \in Exceptions
      BY DEF Exceptions
    <3>2. QED BY <3>1, CallAssumption DEF EntryActionsDone, ControlOK, Terminated
  <2>2. OnControl' /\ AlwaysControl'
    BY <2>1 DEF EntryActionsDone, ControlOK, OnControl, AlwaysControl, Busy, locals, argVars
  <2>3. ErrorControl'
    BY DEF EntryActionsDone, ControlOK, ErrorControl, Busy, RecoveryState, locals, argVars
  <2>4. QED
    BY <2>1, <2>2, <2>3
    DEF EntryActionsDone, ControlOK, CandidateControl, Terminated, locals, argVars
<1>6. QED BY <1>1, <1>3, <1>4, <1>5 DEF TypeOK

(***************************************************************************)
(* The end of a round.                                                     *)
(***************************************************************************)
LEMMA ClosingType ==
  ASSUME TypeOK, ControlOK, pc = "close"
  PROVE  ClosingEvents \in Seq(Event)
<1>1. Signal.event \in StepName
  BY SignalType DEF Busy
<1>2. CurrentStateDict.view \in STRING /\ state_snapshot \in STRING \cup {None}
  BY ViewType DEF TypeOK, ContextOK
<1>3. Patch \in Seq(Event)
  <2>1. StateDelta(state_snapshot, CurrentStateDict.view) \in Event
    BY <1>2 DEF StateDelta, Event
  <2>2. <<StateDelta(state_snapshot, CurrentStateDict.view)>> \in Seq(Event)
    BY <2>1, Singleton
  <2>3. QED BY <2>2 DEF Patch
<1>4. <<StepFinished(Signal.event)>> \in Seq(Event)
  <2>1. StepFinished(Signal.event) \in Event
    BY <1>1 DEF StepFinished, Event
  <2>2. QED BY <2>1, Singleton
<1>5. QED BY <1>3, <1>4, ConcatProperties DEF ClosingEvents

LEMMA CloseStepOK ==
  ASSUME TypeOK, ControlOK, CloseStep
  PROVE  TypeOK' /\ ControlOK'
<1>1. ArgsOK'
  BY ArgsKept DEF CloseStep
<1>2. ContextOK'
  <2>1. event_q' \in Seq(Event) \cup {None}
    BY ClosingType, QueueGrows DEF CloseStep, Emit, IsStream, TypeOK, ContextOK
  <2>2. QED BY <2>1, ViewType DEF CloseStep, TypeOK, ContextOK
<1>3. LocalsOK'
  <2>1. NextDepth \in 0 .. MaxDepth
    BY DepthAssumption
    DEF NextDepth, CloseStep, ControlOK, AlwaysControl, Busy, TypeOK, LocalsOK
  <2>2. /\ depth' \in 0 .. MaxDepth /\ fired' \in BOOLEAN /\ hook' \in Hooks
        /\ pc' \in {"catch", "always", "dispatch"}
    BY <2>1 DEF CloseStep, TypeOK, LocalsOK, Hooks
  <2>3. QED BY <2>2 DEF CloseStep, TypeOK, LocalsOK, argVars
<1>4. ControlOK'
  <2>1. CASE exc # None
    <3>1. pc' = "catch" /\ UNCHANGED <<hook, depth, fired, exc>>
      BY <2>1 DEF CloseStep
    <3>2. OnControl' /\ AlwaysControl'
      BY <3>1 DEF CloseStep, ControlOK, OnControl, AlwaysControl, Busy, argVars
    <3>3. ErrorControl'
      BY <3>1 DEF CloseStep, ControlOK, ErrorControl, Busy, RecoveryState, argVars
    <3>4. QED BY <3>1, <3>2, <3>3 DEF ControlOK, CandidateControl, Terminated
  <2>2. CASE exc = None
    <3>1. /\ ~fired' /\ exc' = None
          /\ (pc' = "always" /\ hook' = "always") \/ pc' = "dispatch"
      BY <2>2 DEF CloseStep, Cascades
    <3>2. QED
      BY <3>1 DEF ControlOK, OnControl, AlwaysControl, ErrorControl, CandidateControl,
         Busy, Terminated
  <2>3. QED BY <2>1, <2>2
<1>5. QED BY <1>1, <1>2, <1>3, <1>4 DEF TypeOK

LEMMA CloseFailsOK ==
  ASSUME TypeOK, ControlOK, CloseFails
  PROVE  TypeOK' /\ ControlOK'
<1>1. ArgsOK' /\ ContextOK'
  BY ArgsKept, ContextKept DEF CloseFails
<1>2. "Exception" \in Exceptions
  BY DEF Exceptions
<1>3. log' \in Seq(LogEntry)
  BY <1>2, LogGrows DEF CloseFails, ThrowOutside, TypeOK, LocalsOK
<1>4. LocalsOK'
  BY <1>2, <1>3 DEF CloseFails, ThrowOutside, TypeOK, LocalsOK, locals, argVars, ctxVars
<1>5. ControlOK'
  <2>1. OnControl' /\ AlwaysControl'
    BY DEF CloseFails, ThrowOutside, ControlOK, OnControl, AlwaysControl, Busy, locals,
       argVars, ctxVars
  <2>2. ErrorControl'
    BY DEF CloseFails, ThrowOutside, ControlOK, ErrorControl, Busy, RecoveryState, locals,
       argVars, ctxVars
  <2>3. QED
    BY <2>1, <2>2
    DEF CloseFails, ThrowOutside, ControlOK, CandidateControl, Terminated, locals
<1>6. QED BY <1>1, <1>4, <1>5 DEF TypeOK

(***************************************************************************)
(* Failures.                                                               *)
(***************************************************************************)
LEMMA RouteToErrorStateOK ==
  ASSUME TypeOK, ControlOK, RouteToErrorState
  PROVE  TypeOK' /\ ControlOK'
<1>0. /\ hook = "on" /\ exc = "TransitionError" /\ RecoveryState # None
      /\ taken > 0 /\ dispatched \in DOMAIN config /\ current_state \in DOMAIN config
  BY DEF RouteToErrorState, Recovers, Caught, ControlOK, OnControl, Busy
<1>1. ArgsOK'
  BY ArgsKept DEF RouteToErrorState
<1>2. ContextOK'
  <2>1. Signal.event \in StepName
    BY SignalType DEF RouteToErrorState, Busy
  <2>2. event_q' \in Seq(Event) \cup {None}
    BY <2>1, OpeningType, QueueGrows
    DEF RouteToErrorState, OpenStep, Emit, IsStream, TypeOK, ContextOK
  <2>3. QED BY <2>2, ViewType DEF RouteToErrorState, OpenStep, TypeOK, ContextOK
<1>3. log' \in Seq(LogEntry) /\ exc' \in Exceptions \cup {None}
  <2>1. "Exception" \in Exceptions /\ "error" \in Hooks
    BY DEF Exceptions, Hooks
  <2>2. QED
    BY <2>1, LogGrows DEF RouteToErrorState, ThrowOutside, TypeOK, LocalsOK
<1>4. LocalsOK'
  <2>1. ExitActions \in Seq(STRING) /\ Len(results) \in 0 .. Len(results)
    BY <1>0, GraphType, StateConfigType, LenProperties DEF ExitActions, TypeOK, ContextOK
  <2>2. /\ pc' \in {"exit", "catch"} /\ hook' \in Hooks /\ fired' \in BOOLEAN
        /\ batch' \in Seq(STRING) /\ n_before' \in 0 .. Len(results')
    BY <2>1 DEF RouteToErrorState, ThrowOutside, StartBatch, TypeOK, LocalsOK, Hooks
  <2>3. QED BY <1>3, <2>2 DEF RouteToErrorState, TypeOK, LocalsOK, argVars
<1>5. ControlOK'
  <2>1. hook' = "error" /\ ~fired' /\ pc' \in {"exit", "catch"} /\ (pc' = "exit" => exc' = None)
    BY DEF RouteToErrorState, ThrowOutside, StartBatch
  <2>2. ErrorControl'
    BY <1>0, <2>1 DEF RouteToErrorState, ErrorControl, RecoveryState, argVars
  <2>3. QED
    BY <2>1, <2>2 DEF ControlOK, OnControl, AlwaysControl, CandidateControl, Terminated
<1>6. QED BY <1>1, <1>2, <1>4, <1>5 DEF TypeOK

LEMMA PropagateOK ==
  ASSUME TypeOK, ControlOK, Propagate
  PROVE  TypeOK' /\ ControlOK'
<1>1. ArgsOK' /\ ContextOK'
  BY ArgsKept, ContextKept DEF Propagate
<1>2. LocalsOK'
  BY DEF Propagate, TypeOK, LocalsOK, ctxVars, argVars, locals
<1>3. ControlOK'
  BY DEF Propagate, ControlOK, OnControl, AlwaysControl, ErrorControl,
     CandidateControl, Busy, Terminated
<1>4. QED BY <1>1, <1>2, <1>3 DEF TypeOK

LEMMA StutterOK ==
  ASSUME TypeOK, ControlOK, UNCHANGED vars
  PROVE  TypeOK' /\ ControlOK'
<1>1. ArgsOK' /\ ContextOK'
  BY ArgsKept, ContextKept DEF vars
<1>2. LocalsOK'
  BY DEF vars, argVars, ctxVars, locals, TypeOK, LocalsOK
<1>3. OnControl' /\ AlwaysControl'
  BY DEF vars, argVars, ctxVars, locals, ControlOK, OnControl, AlwaysControl, Always, Busy
<1>4. ErrorControl'
  BY DEF vars, argVars, ctxVars, locals, ControlOK, ErrorControl, RecoveryState, Busy
<1>5. ControlOK'
  BY <1>3, <1>4 DEF vars, argVars, ctxVars, locals, ControlOK, CandidateControl, Terminated
<1>6. QED BY <1>1, <1>2, <1>5 DEF TypeOK

(***************************************************************************)
(* What Init and the next call on the same session have in common: a call  *)
(* is about to begin, in some state, with some session and signals.        *)
(***************************************************************************)
Fresh ==
  /\ ArgsOK
  /\ current_state \in STRING
  /\ session \in Sessions
  /\ event_q \in Seq(Event) \cup {None}
  /\ state_snapshot \in STRING \cup {None}
  /\ history = <<current_state>> /\ results = <<>> /\ log = <<>>
  /\ pc = "always" /\ taken = 0
  /\ hook = "always" /\ dispatched = current_state
  /\ cands = <<>> /\ ci = 1 /\ batch = <<>> /\ n_before = 0
  /\ fired = FALSE /\ depth = 0
  /\ exc = None

LEMMA InitFresh == Init => Fresh
<1>1. /\ StartStates \subseteq STRING /\ Streaming \subseteq BOOLEAN
      /\ Accessors \subseteq [Sessions -> Reading] \cup {None}
  BY CallAssumption
<1>2. QED BY <1>1 DEF Init, Fresh, ArgsOK

(* Every call starts well typed, settling the state it starts in. *)
LEMMA FreshOK == Fresh => TypeOK /\ ControlOK
<1> SUFFICES ASSUME Fresh PROVE TypeOK /\ ControlOK
  OBVIOUS
<1>0. current_state \in STRING /\ events \in Seq([event : STRING, data : Data])
  BY CallAssumption DEF Fresh, ArgsOK
<1>1. ArgsOK
  BY DEF Fresh
<1>2. ContextOK
  <2>1. history \in Seq(STRING) /\ Len(history) = 1 /\ current_state = history[1]
    BY <1>0, Singleton DEF Fresh
  <2>2. QED BY <1>0, <2>1 DEF Fresh, ContextOK
<1>3. LocalsOK
  <2>1. Len(events) \in Nat /\ Len(results) = 0
    BY <1>0, LenProperties DEF Fresh
  <2>2. taken \in 0 .. Len(events) /\ n_before \in 0 .. Len(results) /\ depth \in 0 .. MaxDepth
    BY <2>1, DepthAssumption DEF Fresh
  <2>3. cands \in Seq(TransitionConfig) /\ ci \in 1 .. Len(cands) + 1
    BY DEF Fresh
  <2>4. batch \in Seq(STRING) /\ log \in Seq(LogEntry)
    BY DEF Fresh
  <2>5. QED BY <1>0, <2>2, <2>3, <2>4 DEF Fresh, LocalsOK, Hooks
<1>4. ControlOK
  BY DEF Fresh, ControlOK, OnControl, AlwaysControl, ErrorControl, CandidateControl, Busy
<1>5. QED BY <1>1, <1>2, <1>3, <1>4 DEF TypeOK

LEMMA InitOK == Init => TypeOK /\ ControlOK
BY InitFresh, FreshOK

(* Every step keeps both; PyStreamProofs needs it beside the stream's own. *)
LEMMA StepOK == TypeOK /\ ControlOK /\ [Next]_vars => TypeOK' /\ ControlOK'
BY AlwaysFailsOK, NothingAlwaysOK, AlwaysRoundOK, ReturnOK, IgnoreSignalOK,
   ReceiveSignalOK, PassUnguardedOK, EvalGuardOK, GuardFailsOK, NoneFiredOK,
   RunActionOK, ActionFailsOK, TransitionActionsDoneOK, ChangeStateOK,
   EntryActionsDoneOK, CloseStepOK, CloseFailsOK, RouteToErrorStateOK,
   PropagateOK, StutterOK
DEF Next, Done

(***************************************************************************)
(* TypeOK and ControlOK are invariants of every call: neither is inductive *)
(* on its own (the indices of TypeOK rest on ControlOK's account of which  *)
(* list is being tried), together they are.                                *)
(***************************************************************************)
THEOREM TypeAndControl == Spec => [](TypeOK /\ ControlOK)
BY StepOK, InitOK, PTL DEF Spec

(* Each of the two, for the runs that check it. *)
THEOREM TypeCorrect == Spec => []TypeOK
BY TypeAndControl, PTL

THEOREM ControlCorrect == Spec => []ControlOK
BY TypeAndControl, PTL

----------------------------------------------------------------------------
(***************************************************************************)
(* Implementation of Statechart.                                           *)
(***************************************************************************)

(* The contract and the engine look candidates up alike. *)
LEMMA SameLookups ==
  /\ \A c, s, e : Contract!Lookup(c, s, e) = Lookup(c, s, e)
  /\ \A list, i : Contract!Reachable(list, i) = Reachable(list, i)
  /\ \A list : Contract!AllRefusable(list) = AllRefusable(list)
BY DEF Contract!Lookup, Contract!TableRow, Contract!Wildcard, Contract!Reachable,
   Contract!AllRefusable, Lookup, TableRow, Wildcard, Reachable, AllRefusable

LEMMA SameCurrent == TypeOK => Contract!current = current_state
BY DEF TypeOK, ContextOK, Contract!current

LEMMA InitRefines == Init => Contract!Init
<1> SUFFICES ASSUME Init PROVE Contract!Init
  OBVIOUS
<1>1. Contract!current = current_state
  BY DEF Init, Contract!current
<1>2. Mode = "cascading" /\ Hops = 0
  BY DEF Init, Mode, Hops, Terminated
<1>3. QED BY <1>1, <1>2 DEF Init, Contract!Init

(* A step that leaves the graph, the path and the phase alone is invisible. *)
LEMMA InvisibleStep ==
  ASSUME UNCHANGED <<config, events, history, taken, dispatched>>,
         UNCHANGED <<hook, fired, depth>>,
         ~Terminated, ~Terminated', pc # "dispatch", pc' # "dispatch"
  PROVE  UNCHANGED Contract!vars
BY DEF Contract!vars, Mode, Hops

LEMMA SettleRefines ==
  ASSUME TypeOK, ControlOK, NothingAlways
  PROVE  Contract!Settle
<1>1. /\ Mode = "cascading" /\ Mode' = "idle" /\ Hops = depth /\ Hops' = depth
  BY DEF NothingAlways, ControlOK, Mode, Hops, Terminated, locals
<1>2. depth < MaxDepth
  BY DepthAssumption DEF NothingAlways, Capped, TypeOK, LocalsOK
<1>3. AllRefusable(config[current_state].always)
  BY DEF NothingAlways, Always, AllRefusable, Reachable
<1>4. QED
  BY <1>1, <1>2, <1>3, SameLookups, SameCurrent
  DEF NothingAlways, Contract!Settle, Contract!MayCascade, argVars, ctxVars, locals

LEMMA IgnoreRefines ==
  ASSUME TypeOK, ControlOK, IgnoreSignal
  PROVE  Contract!Ignore
<1>1. Mode = "idle" /\ Mode' = "idle" /\ Hops' = Hops
  BY DEF IgnoreSignal, Mode, Hops, Terminated
<1>2. QED
  BY <1>1, SameLookups, SameCurrent
  DEF IgnoreSignal, Candidates, SignalsTaken, Contract!Ignore, Contract!NoCandidate, Contract!NextTaken,
      argVars, ctxVars

LEMMA TakeRefines ==
  ASSUME TypeOK, ControlOK, ReceiveSignal
  PROVE  Contract!Take
<1>1. Mode = "idle" /\ Mode' = "reacting" /\ Hops' = Hops
  BY DEF ReceiveSignal, BeginRound, ThrowOutside, ControlOK, Mode, Hops, Terminated
<1>2. QED
  BY <1>1, SameLookups, SameCurrent
  DEF ReceiveSignal, Candidates, SignalsTaken, Contract!Take, Contract!NextTaken, argVars

(* The hop: which of the contract's hops it is depends on the round. *)
LEMMA ChangeStateRefines ==
  ASSUME TypeOK, ControlOK, ChangeState
  PROVE  Contract!AlwaysHop \/ Contract!React \/ Contract!Recover
<1>1. /\ UNCHANGED <<config, events, taken, dispatched, hook, depth>>
      /\ ~fired /\ fired' /\ history' = Append(history, Target)
      /\ pc' \in {"entry", "close", "catch"}
  BY DEF ChangeState, StartBatch, ControlOK, argVars
<1>2. CASE hook = "always"
  <2>1. Mode = "cascading" /\ Mode' = "cascading" /\ Hops = depth /\ Hops' = depth + 1
    BY <1>1, <1>2 DEF ChangeState, Mode, Hops, Terminated
  <2>2. /\ depth < MaxDepth /\ current_state \in DOMAIN config
        /\ cands = config[current_state].always /\ Reachable(cands, ci) /\ ci <= Len(cands)
    BY <1>1, <1>2
    DEF ChangeState, ControlOK, AlwaysControl, CandidateControl, Busy, Always
  <2>3. ci \in DOMAIN config[current_state].always
    BY <2>2, CandidateType, LenProperties DEF TypeOK, LocalsOK
  <2>4. Target = config[current_state].always[ci].target
    BY <1>2, <2>2 DEF Target, Candidate
  <2>5. QED
    BY <1>1, <2>1, <2>2, <2>3, <2>4, SameLookups, SameCurrent
    DEF Contract!AlwaysHop, Contract!MayCascade, Contract!HopsCounted, Contract!Goto
<1>3. CASE hook = "on"
  <2>1. Mode = "reacting" /\ Mode' = "entering" /\ Hops = depth /\ Hops' = depth
    BY <1>1, <1>3 DEF ChangeState, Mode, Hops, Terminated
  <2>2. /\ cands = Lookup(config, dispatched, events[taken].event)
        /\ Reachable(cands, ci) /\ ci <= Len(cands)
    BY <1>3 DEF ChangeState, ControlOK, OnControl, CandidateControl, Busy
  <2>3. Contract!Offered = cands
    BY <2>2, SameLookups DEF Contract!Offered
  <2>4. ci \in DOMAIN Contract!Offered
    BY <2>2, <2>3, CandidateType, LenProperties DEF TypeOK, LocalsOK
  <2>5. Target = Contract!Offered[ci].target
    BY <1>3, <2>3 DEF Target, Candidate
  <2>6. QED
    BY <1>1, <2>1, <2>2, <2>3, <2>4, <2>5, SameLookups DEF Contract!React, Contract!Goto
<1>4. CASE hook = "error"
  <2>1. Mode = "recovering" /\ Mode' = "cascading" /\ Hops' = 0
    BY <1>1, <1>4 DEF ChangeState, Mode, Hops, Terminated
  <2>2. QED
    BY <1>1, <1>4, <2>1 DEF Target, RecoveryState, Contract!Recover, Contract!Goto
<1>5. QED BY <1>2, <1>3, <1>4 DEF TypeOK, LocalsOK, Hooks

(* The end of a round that failed, moved, or was refused. *)
LEMMA CloseStepRefines ==
  ASSUME TypeOK, ControlOK, CloseStep
  PROVE  Contract!Enter \/ Contract!Refuse \/ Contract!Settle \/ UNCHANGED Contract!vars
<1>0. UNCHANGED <<config, events, taken, dispatched, history>> /\ pc = "close"
  BY DEF CloseStep, argVars
<1>1. CASE exc # None
  <2>1. UNCHANGED <<hook, fired, depth>> /\ pc' = "catch"
    BY <1>1 DEF CloseStep
  <2>2. QED BY <1>0, <2>1, InvisibleStep DEF Terminated
<1>2. CASE exc = None /\ fired
  <2>1. pc' = "always" /\ hook' = "always" /\ depth' = NextDepth /\ ~fired'
    BY <1>2 DEF CloseStep, Cascades
  <2>2. Mode' = "cascading" /\ Hops' = NextDepth
    BY <2>1 DEF Mode, Hops, Terminated
  <2>3. CASE hook = "on"
    <3>1. Mode = "entering" /\ NextDepth = 0
      BY <1>0, <1>2, <2>3 DEF Mode, NextDepth, Terminated
    <3>2. QED BY <1>0, <2>2, <3>1 DEF Contract!Enter
  <2>4. CASE hook # "on"
    <3>1. Mode = "cascading" /\ Hops = NextDepth
      BY <1>0, <1>2, <2>4 DEF Mode, Hops, NextDepth, Terminated
    <3>2. QED BY <1>0, <2>2, <3>1 DEF Contract!vars
  <2>5. QED BY <2>3, <2>4
<1>3. CASE exc = None /\ ~fired
  <2>1. pc' = "dispatch" /\ UNCHANGED <<hook, fired, depth>>
    BY <1>3 DEF CloseStep, Cascades
  <2>2. Mode' = "idle" /\ Hops' = Hops /\ Hops = depth
    BY <1>3, <2>1 DEF Mode, Hops, Terminated
  <2>3. hook # "error" /\ AllRefusable(cands)
    BY <1>0, <1>3 DEF ControlOK, CandidateControl
  <2>4. CASE hook = "on"
    <3>1. Mode = "reacting" /\ Contract!Offered = cands
      BY <1>0, <1>3, <2>4, SameLookups
      DEF Mode, Terminated, ControlOK, OnControl, Busy, Contract!Offered
    <3>2. QED BY <1>0, <2>2, <2>3, <3>1, SameLookups DEF Contract!Refuse
  <2>5. CASE hook = "always"
    <3>1. Mode = "cascading"
      BY <1>0, <2>5 DEF Mode, Terminated
    <3>2. /\ depth < MaxDepth /\ current_state \in DOMAIN config
          /\ cands = config[current_state].always
      BY <1>0, <1>3, <2>5 DEF ControlOK, AlwaysControl, Busy, Always
    <3>3. QED
      BY <1>0, <2>2, <2>3, <3>1, <3>2, SameLookups, SameCurrent
      DEF Contract!Settle, Contract!MayCascade
  <2>6. QED BY <2>3, <2>4, <2>5 DEF TypeOK, LocalsOK, Hooks
<1>4. QED BY <1>1, <1>2, <1>3 DEF TypeOK, LocalsOK

LEMMA TripRefines ==
  ASSUME TypeOK, ControlOK, RouteToErrorState
  PROVE  Contract!Trip
<1>1. hook = "on" /\ RecoveryState # None /\ pc = "catch"
  BY DEF RouteToErrorState, Recovers, Caught
<1>2. /\ Mode \in {"reacting", "entering"} /\ Mode' = "recovering"
      /\ Hops = depth /\ Hops' = depth
  BY <1>1 DEF RouteToErrorState, StartBatch, ThrowOutside, Mode, Hops, Terminated
<1>3. QED
  BY <1>1, <1>2 DEF RouteToErrorState, RecoveryState, Contract!Trip, Contract!Recoverable, argVars

LEMMA FailRefines ==
  ASSUME TypeOK, ControlOK, Propagate
  PROVE  Contract!Fail
<1>1. /\ Mode \in {"cascading", "reacting", "entering", "recovering"}
      /\ Mode' = "raised" /\ Hops' = Hops
  BY DEF Propagate, Mode, Hops, Terminated, locals
<1>2. QED BY <1>1 DEF Propagate, Contract!Fail, argVars, ctxVars, locals

LEMMA ReturnRefines ==
  ASSUME TypeOK, ControlOK, Return
  PROVE  Contract!Return
<1>1. Mode = "idle" /\ Mode' = "returned" /\ Hops' = Hops
  BY DEF Return, Mode, Hops, Terminated, locals
<1>2. QED BY <1>1 DEF Return, Contract!Return, argVars, ctxVars, locals

(***************************************************************************)
(* The other steps are invisible: a callback of a round runs, or fails.    *)
(***************************************************************************)
LEMMA CallbacksInvisible ==
  ASSUME TypeOK, ControlOK,
         \/ AlwaysFails \/ AlwaysRound \/ PassUnguarded \/ EvalGuard \/ GuardFails
         \/ NoneFired \/ RunAction \/ ActionFails \/ TransitionActionsDone
         \/ EntryActionsDone \/ CloseFails
  PROVE  UNCHANGED Contract!vars
<1> USE InvisibleStep
<1> USE DEF Terminated, StartBatch, Throw, ThrowOutside, InBatch, argVars, ctxVars, locals
<1>1. CASE AlwaysFails
  BY <1>1 DEF AlwaysFails
<1>2. CASE AlwaysRound
  <2>1. hook' = hook /\ fired' = fired
    BY <1>2 DEF AlwaysRound, BeginRound, ControlOK, TypeOK, LocalsOK
  <2>2. QED BY <1>2, <2>1 DEF AlwaysRound, BeginRound
<1>3. CASE PassUnguarded
  BY <1>3 DEF PassUnguarded
<1>4. CASE EvalGuard
  BY <1>4 DEF EvalGuard
<1>5. CASE GuardFails
  BY <1>5 DEF GuardFails
<1>6. CASE NoneFired
  BY <1>6 DEF NoneFired
<1>7. CASE RunAction
  BY <1>7 DEF RunAction
<1>8. CASE ActionFails
  BY <1>8 DEF ActionFails
<1>9. CASE TransitionActionsDone
  BY <1>9 DEF TransitionActionsDone
<1>10. CASE EntryActionsDone
  BY <1>10 DEF EntryActionsDone
<1>11. CASE CloseFails
  BY <1>11 DEF CloseFails
<1>12. QED
  BY <1>1, <1>2, <1>3, <1>4, <1>5, <1>6, <1>7, <1>8, <1>9, <1>10, <1>11

LEMMA RefinementStep == TypeOK /\ ControlOK /\ [Next]_vars => [Contract!Next]_(Contract!vars)
<1> SUFFICES ASSUME TypeOK, ControlOK, [Next]_vars
             PROVE  Contract!Next \/ UNCHANGED Contract!vars
  OBVIOUS
<1>1. UNCHANGED vars => UNCHANGED Contract!vars
  BY DEF vars, argVars, ctxVars, locals, Contract!vars, Mode, Hops, Terminated
<1>2. QED
  BY <1>1, SettleRefines, IgnoreRefines, TakeRefines, ChangeStateRefines,
     CloseStepRefines, TripRefines, FailRefines, ReturnRefines, CallbacksInvisible
  DEF Next, Done, Contract!Next

(***************************************************************************)
(* Every step of a call is a step of the contract or leaves it unchanged.  *)
(***************************************************************************)
THEOREM Refinement == Spec => RefinesStatechart
BY RefinementStep, InitRefines, TypeAndControl, PTL DEF Spec, RefinesStatechart, Contract!Spec

(***************************************************************************)
(* The bound on hops is proved once, of the contract, and inherited.       *)
(***************************************************************************)
Length == INSTANCE StatechartProofs
            WITH mode <- Mode, hops <- Hops, origin <- dispatched

(* Two instances of the contract under the same substitution are the same. *)
LEMMA SameContract ==
  /\ Contract!Init => Length!Init
  /\ [Contract!Next]_(Contract!vars) => [Length!Next]_(Length!vars)
  /\ Length!Bounded => Contract!Bounded
<1>1. Contract!Init => Length!Init
  BY DEF Contract!Init, Length!Init, Contract!current, Length!current
<1>2. [Contract!Next]_(Contract!vars) => [Length!Next]_(Length!vars)
  BY DEF Contract!Wildcard, Length!Wildcard, Contract!TableRow, Length!TableRow,
      Contract!Lookup, Length!Lookup, Contract!HasRow, Length!HasRow,
      Contract!NoCandidate, Length!NoCandidate, Contract!Reachable, Length!Reachable,
      Contract!AllRefusable, Length!AllRefusable, Contract!current, Length!current,
      Contract!Goto, Length!Goto, Contract!MayCascade, Length!MayCascade,
      Contract!HopsCounted, Length!HopsCounted, Contract!NextTaken,
      Length!NextTaken, Contract!Offered, Length!Offered, Contract!Recoverable,
      Length!Recoverable, Contract!vars, Length!vars, Contract!AlwaysHop,
      Length!AlwaysHop, Contract!Settle, Length!Settle, Contract!Ignore,
      Length!Ignore, Contract!Take, Length!Take, Contract!Refuse, Length!Refuse,
      Contract!React, Length!React, Contract!Enter, Length!Enter, Contract!Trip,
      Length!Trip, Contract!Recover, Length!Recover, Contract!Return,
      Length!Return, Contract!Fail, Length!Fail, Contract!Done, Length!Done,
      Contract!Next, Length!Next
<1>3. Length!Bounded => Contract!Bounded
  BY DEF Contract!Bounded, Length!Bounded, Contract!PerSignal, Length!PerSignal
<1>4. QED BY <1>1, <1>2, <1>3

LEMMA ContractBounds == RefinesStatechart => []BoundedHops
<1>1. /\ StartStates \subseteq STRING /\ MaxDepth \in Nat \ {0}
      /\ \A c \in Configs : Length!IsConfig(c)
  BY CallAssumption, DepthAssumption, ConfigAssumption
  DEF IsConfig, IsStateConfig, TransitionConfig, Length!IsConfig, Length!IsStateConfig,
      Length!TransitionConfig
<1>2. Length!Spec => []Length!Bounded
  BY <1>1, Length!BoundedCalls
<1>3. QED
  BY <1>2, SameContract, PTL
  DEF RefinesStatechart, BoundedHops, Contract!Spec, Length!Spec

(* However the callbacks behave and whatever fails, a call that has taken  *)
(* n signals has made at most MaxDepth + n * (MaxDepth + 2) hops.          *)
THEOREM HopsBounded == Spec => []BoundedHops
BY Refinement, ContractBounds, PTL

-----------------------------------------------------------------------------
(***************************************************************************)
(* Descent.  A signal leads from its own hop over the error hop to the     *)
(* cascade, and every hop from its guards to its end.                      *)
(***************************************************************************)
SignalsLeft == Len(events) - taken
HopKinds == [on |-> 2, error |-> 1, always |-> 0]
HopsToCome == HopKinds[hook]
CascadeLeft == MaxDepth - depth
Places ==
  [always |-> 8, guard |-> 7, actions |-> 6, exit |-> 5, entry |-> 4, close |-> 3,
   catch |-> 2, dispatch |-> 1, returned |-> 0, raised |-> 0]
Place == Places[pc]
Todo == IF pc = "guard" THEN Len(cands) + 1 - ci ELSE Len(batch)

(* How far the call is from its end. *)
Rank == <<SignalsLeft, HopsToCome, CascadeLeft, Place, Todo>>

ComesCloser == <<Rank', Rank>> \in RankOrder

LEMMA Placed ==
  /\ Places["always"] = 8 /\ Places["guard"] = 7 /\ Places["actions"] = 6
  /\ Places["exit"] = 5 /\ Places["entry"] = 4 /\ Places["close"] = 3
  /\ Places["catch"] = 2 /\ Places["dispatch"] = 1
  /\ Places["returned"] = 0 /\ Places["raised"] = 0
BY DEF Places

LEMMA PlaceType == TypeOK => Place \in Nat
<1> SUFFICES ASSUME TypeOK PROVE Place \in Nat
  OBVIOUS
<1>1. pc \in {"always", "dispatch", "guard", "actions", "exit", "entry", "close",
            "catch", "returned", "raised"}
  BY DEF TypeOK, LocalsOK
<1>2. QED BY <1>1, Placed DEF Place

LEMMA KindsOfHop == HopKinds["on"] = 2 /\ HopKinds["error"] = 1 /\ HopKinds["always"] = 0
BY DEF HopKinds

LEMMA HopsType == TypeOK => HopsToCome \in Nat /\ (hook # "always" => HopsToCome > 0)
<1> SUFFICES ASSUME TypeOK PROVE HopsToCome \in Nat /\ (hook # "always" => HopsToCome > 0)
  OBVIOUS
<1>1. hook \in {"always", "on", "error"}
  BY DEF TypeOK, LocalsOK, Hooks
<1>2. QED BY <1>1, KindsOfHop DEF HopsToCome

RankOK ==
  /\ SignalsLeft \in Nat /\ HopsToCome \in Nat /\ CascadeLeft \in Nat
  /\ Place \in Nat /\ Todo \in Nat

LEMMA RankIsNumbers == TypeOK => RankOK
<1> SUFFICES ASSUME TypeOK PROVE RankOK
  OBVIOUS
<1>1. Len(events) \in Nat /\ Len(cands) \in Nat /\ Len(batch) \in Nat
  BY CallAssumption, LenProperties DEF TypeOK, ArgsOK, LocalsOK
<1>2. SignalsLeft \in Nat /\ CascadeLeft \in Nat /\ Todo \in Nat
  BY <1>1, DepthAssumption DEF SignalsLeft, CascadeLeft, Todo, TypeOK, LocalsOK
<1>3. QED BY <1>2, PlaceType, HopsType DEF RankOK

(* What makes the rank fall. *)
Descent ==
  \/ SignalsLeft' < SignalsLeft
  \/ SignalsLeft' = SignalsLeft /\ HopsToCome' < HopsToCome
  \/ SignalsLeft' = SignalsLeft /\ HopsToCome' = HopsToCome /\ CascadeLeft' < CascadeLeft
  \/ /\ SignalsLeft' = SignalsLeft /\ HopsToCome' = HopsToCome /\ CascadeLeft' = CascadeLeft
     /\ Place' < Place
  \/ /\ SignalsLeft' = SignalsLeft /\ HopsToCome' = HopsToCome /\ CascadeLeft' = CascadeLeft
     /\ Place' = Place /\ Todo' < Todo

LEMMA DescentFalls ==
  ASSUME TypeOK, TypeOK', Descent
  PROVE  ComesCloser
<1>1. RankOK /\ RankOK'
  <2>1. TypeOK' => RankOK'
    BY RankIsNumbers, PTL
  <2>2. QED BY <2>1, RankIsNumbers
<1>2. QED BY <1>1, RankFalls DEF RankOK, Descent, Rank, ComesCloser

(* Within a round the call moves on to a later place. *)
LEMMA PlaceFalls ==
  ASSUME UNCHANGED <<events, taken, hook, depth>>, Place' < Place
  PROVE  Descent
BY DEF Descent, SignalsLeft, HopsToCome, CascadeLeft

(* ... or has one thing less to do at its place. *)
LEMMA TodoFalls ==
  ASSUME UNCHANGED <<events, taken, hook, depth, pc>>, Todo' < Todo
  PROVE  Descent
BY DEF Descent, SignalsLeft, HopsToCome, CascadeLeft, Place

LEMMA SignalsFall ==
  ASSUME TypeOK, IgnoreSignal \/ ReceiveSignal
  PROVE  Descent
<1>1. Len(events) \in Nat /\ taken \in Nat
  BY LenProperties, CallAssumption DEF TypeOK, ArgsOK, LocalsOK
<1>2. events' = events /\ taken' = taken + 1
  BY DEF IgnoreSignal, ReceiveSignal, SignalsTaken, argVars
<1>3. QED BY <1>1, <1>2 DEF Descent, SignalsLeft

LEMMA CascadeFalls ==
  ASSUME TypeOK, TypeOK', ControlOK, CloseStep
  PROVE  Descent
<1>0. UNCHANGED <<events, taken>> /\ pc = "close"
  BY DEF CloseStep, argVars
<1>1. CASE pc' \in {"catch", "dispatch"} /\ UNCHANGED <<hook, depth>>
  BY <1>0, <1>1, Placed, PlaceFalls DEF Place
<1>2. CASE hook' = "always" /\ depth' = NextDepth
  <2>1. CASE hook = "always"
    <3>1. depth' = depth + 1 /\ depth \in Nat /\ MaxDepth \in Nat
      BY <1>2, <2>1, DepthAssumption DEF NextDepth, TypeOK, LocalsOK
    <3>2. CascadeLeft' < CascadeLeft
      BY <3>1 DEF CascadeLeft
    <3>3. QED BY <1>0, <1>2, <2>1, <3>2 DEF Descent, SignalsLeft, HopsToCome
  <2>2. CASE hook # "always"
    <3>1. HopsToCome > 0 /\ HopsToCome' = 0
      BY <1>2, <2>2, HopsType, KindsOfHop DEF HopsToCome
    <3>2. QED BY <1>0, <3>1 DEF Descent, SignalsLeft
  <2>3. QED BY <2>1, <2>2
<1>3. QED BY <1>1, <1>2 DEF CloseStep

LEMMA RecoveryFalls ==
  ASSUME TypeOK, TypeOK', RouteToErrorState
  PROVE  Descent
<1>1. UNCHANGED <<events, taken>> /\ hook = "on" /\ hook' = "error"
  BY DEF RouteToErrorState, Recovers, Caught, argVars
<1>2. HopsToCome = 2 /\ HopsToCome' = 1
  BY <1>1, KindsOfHop DEF HopsToCome
<1>3. QED BY <1>1, <1>2 DEF Descent, SignalsLeft

(* A guard that refuses, an action that is done. *)
LEMMA CallbacksFall ==
  ASSUME TypeOK, TypeOK', EvalGuard \/ RunAction
  PROVE  Descent
<1>0. UNCHANGED <<events, taken, hook, depth>>
  BY DEF EvalGuard, RunAction, argVars
<1>1. CASE EvalGuard
  <2>1. pc = "guard" /\ cands' = cands
    BY <1>1 DEF EvalGuard
  <2>2. CASE pc' = "actions"
    BY <1>0, <2>1, <2>2, Placed, PlaceFalls DEF Place
  <2>3. CASE pc' = pc /\ ci' = ci + 1
    <3>1. Len(cands) \in Nat /\ ci \in Nat
      BY LenProperties DEF TypeOK, LocalsOK
    <3>2. Todo' < Todo
      BY <2>1, <2>3, <3>1 DEF Todo
    <3>3. QED BY <1>0, <2>3, <3>2, TodoFalls
  <2>4. QED BY <1>1, <2>2, <2>3 DEF EvalGuard, StartBatch
<1>2. CASE RunAction
  <2>1. /\ pc' = pc /\ pc # "guard" /\ batch \in Seq(STRING) /\ batch # <<>>
        /\ batch' = Tail(batch)
    BY <1>2 DEF RunAction, InBatch, TypeOK, LocalsOK
  <2>2. Len(batch) \in Nat /\ Len(batch') = Len(batch) - 1
    BY <2>1, HeadTailProperties, LenProperties
  <2>3. Todo' < Todo
    BY <2>1, <2>2 DEF Todo
  <2>4. QED BY <1>0, <2>1, <2>3, TodoFalls
<1>3. QED BY <1>1, <1>2

LEMMA RoundFalls ==
  ASSUME TypeOK, TypeOK', ControlOK,
         \/ AlwaysFails \/ NothingAlways \/ AlwaysRound \/ Return
         \/ PassUnguarded \/ GuardFails \/ NoneFired \/ ActionFails
         \/ TransitionActionsDone \/ ChangeState \/ EntryActionsDone
         \/ CloseFails \/ Propagate
  PROVE  Descent
<1>1. CASE AlwaysRound
  <2>1. /\ pc = "always" /\ hook = "always" /\ UNCHANGED <<events, taken, depth>>
        /\ hook' = "always" /\ pc' \in {"guard", "catch"}
    BY <1>1 DEF AlwaysRound, BeginRound, ThrowOutside, ControlOK, argVars
  <2>2. Place' < Place
    BY <2>1, Placed DEF Place
  <2>3. QED BY <2>1, <2>2, PlaceFalls
<1>2. CASE AlwaysFails \/ NothingAlways \/ Return
  <2>1. /\ UNCHANGED <<events, taken, hook, depth>>
        /\ \/ pc = "always" /\ pc' \in {"catch", "dispatch"}
           \/ pc = "dispatch" /\ pc' = "returned"
    BY <1>2 DEF AlwaysFails, NothingAlways, Return, ThrowOutside, argVars, locals
  <2>2. Place' < Place
    BY <2>1, Placed DEF Place
  <2>3. QED BY <2>1, <2>2, PlaceFalls
<1>3. CASE GuardFails \/ ActionFails
  <2>1. PICK e \in Exceptions : Throw(e)
    BY <1>3, GuardThrows, ActionThrows
  <2>2. UNCHANGED <<events, taken, hook, depth>> /\ pc \in {"guard", "actions", "exit", "entry"}
    BY <1>3 DEF GuardFails, ActionFails, InBatch, argVars, locals
  <2>3. pc' \in {"close", "catch"}
    BY <2>1 DEF Throw
  <2>4. Place' < Place
    BY <2>2, <2>3, Placed DEF Place
  <2>5. QED BY <2>2, <2>4, PlaceFalls
<1>4. CASE PassUnguarded \/ NoneFired \/ TransitionActionsDone \/ EntryActionsDone
  <2>1. /\ UNCHANGED <<events, taken, hook, depth>>
        /\ \/ pc = "guard" /\ pc' \in {"actions", "close"}
           \/ pc = "actions" /\ pc' = "exit"
           \/ pc = "entry" /\ pc' = "close"
    BY <1>4 DEF PassUnguarded, NoneFired, TransitionActionsDone, EntryActionsDone, StartBatch,
       argVars, locals
  <2>2. Place' < Place
    BY <2>1, Placed DEF Place
  <2>3. QED BY <2>1, <2>2, PlaceFalls
<1>5. CASE ChangeState
  <2>1. /\ UNCHANGED <<events, taken, hook, depth>>
        /\ pc = "exit" /\ pc' \in {"entry", "close", "catch"}
    BY <1>5 DEF ChangeState, StartBatch, argVars
  <2>2. Place' < Place
    BY <2>1, Placed DEF Place
  <2>3. QED BY <2>1, <2>2, PlaceFalls
<1>6. CASE CloseFails \/ Propagate
  <2>1. /\ UNCHANGED <<events, taken, hook, depth>>
        /\ \/ pc = "close" /\ pc' = "catch"
           \/ pc = "catch" /\ pc' = "raised"
    BY <1>6 DEF CloseFails, Propagate, ThrowOutside, argVars, locals
  <2>2. Place' < Place
    BY <2>1, Placed DEF Place
  <2>3. QED BY <2>1, <2>2, PlaceFalls
<1>7. QED BY <1>1, <1>2, <1>3, <1>4, <1>5, <1>6

LEMMA StepDescends ==
  ASSUME TypeOK, TypeOK', ControlOK, Next
  PROVE  UNCHANGED vars \/ ComesCloser
<1>1. UNCHANGED vars \/ Descent
  BY SignalsFall, CascadeFalls, RecoveryFalls, CallbacksFall, RoundFalls DEF Next, Done
<1>2. QED BY <1>1, DescentFalls

(***************************************************************************)
(* Every step of a call brings it closer to its end, by an order in which  *)
(* nothing falls for ever (RanksWellFounded): whatever the graph, the cap  *)
(* and the callbacks, a call has no infinite run of steps.  That it does   *)
(* take its steps is the fairness of the runs.                             *)
(***************************************************************************)
THEOREM CallsDescend == Spec => [][ComesCloser]_vars
<1>1. TypeOK /\ ControlOK /\ [Next]_vars => [ComesCloser]_vars
  BY StepOK, StepDescends
<1>2. QED BY <1>1, TypeAndControl, PTL DEF Spec

----------------------------------------------------------------------------
(* Failures: the strengthening *)

Failed(i) == log[i].what = "fail"

(* The failure that is propagating is the last thing that happened, in the *)
(* hop under way, and a TransitionError of an on hop is one to recover     *)
(* from, wrapped or not.                                                   *)
Pending ==
  LET last == log[Len(log)]
  IN /\ log # <<>> /\ Failed(Len(log))
     /\ last.hook = hook
     /\ exc = last.exc \/ (exc = "TransitionError" /\ Recoverable(last))
     /\ Recoverable(last) <=> Caught

(* Nothing propagates: the last thing that happened was a hop, or a        *)
(* failure whose error hop is under way.                                   *)
Quiet ==
  log # <<>> /\ Failed(Len(log)) =>
    hook = "error" /\ pc = "exit" /\ Recoverable(log[Len(log)])

(* A failing accessor has replaced the exception that was propagating.     *)
Overtaken == pc \in {"catch", "raised"} /\ ~Caught /\ AccessorFails

AllAnswered == \A i \in 1 .. Len(log) - 1 : Failed(i) => Answered(i)

(* The strengthening that makes the two properties of failures inductive,  *)
(* over TypeOK and ControlOK.                                              *)
FailureOK ==
  /\ pc = "returned" => exc = None
  /\ pc \in {"catch", "raised"} => exc # None
  /\ pc = "raised" => ~Recovers
  /\ exc # None => Pending
  /\ exc = None => Quiet
  /\ Overtaken \/ AllAnswered

----------------------------------------------------------------------------
(* The log *)

LEMMA LogAppended ==
  ASSUME TypeOK, NEW x \in LogEntry, log' = Append(log, x)
  PROVE  /\ Len(log) \in Nat /\ Len(log') = Len(log) + 1
         /\ log' # <<>>
         /\ \A i \in 1 .. Len(log) : log'[i] = log[i]
         /\ log'[Len(log) + 1] = x
<1>1. log \in Seq(LogEntry)
  BY DEF TypeOK, LocalsOK
<1>2. QED BY <1>1, AppendProperties, LenProperties

LEMMA LogNotEmpty == TypeOK => (log # <<>> <=> Len(log) > 0) /\ Len(log) \in Nat
BY LenProperties, EmptySeq DEF TypeOK, LocalsOK

LEMMA FailureIsEntry ==
  ASSUME NEW h \in Hooks, NEW e \in Exceptions,
         NEW phase \in {"step", "guard", "actions", "exit", "entry"}
  PROVE  Failure(h, phase, e) \in LogEntry
BY DEF Failure, LogEntry

(* What follows the last failure decides whether every failure of a longer *)
(* log was answered.                                                       *)
LEMMA AnswersKept ==
  ASSUME TypeOK, AllAnswered, config' = config,
         Len(log') \in Nat, Len(log') > Len(log),
         \A i \in 1 .. Len(log) : log'[i] = log[i],
         \A i \in Len(log) + 1 .. Len(log') - 1 : log'[i].what # "fail",
         log # <<>> /\ Failed(Len(log)) =>
           LET next == log'[Len(log) + 1]
           IN /\ Recoverable(log[Len(log)])
              /\ next.hook = "error"
              /\ next.what = "hop" => next.to = config[next.dispatched].error_state
  PROVE  AllAnswered'
<1> SUFFICES ASSUME NEW i \in 1 .. Len(log') - 1, log'[i].what = "fail"
             PROVE  Answered(i)'
  BY DEF AllAnswered, Failed
<1>1. Len(log) \in Nat /\ (log # <<>> <=> Len(log) > 0)
  BY LogNotEmpty
<1>2. i \in 1 .. Len(log) /\ i < Len(log')
  BY <1>1
<1>3. CASE i < Len(log)
  <2>0. i \in 1 .. Len(log) /\ i + 1 \in 1 .. Len(log) /\ i \in 1 .. Len(log) - 1
    BY <1>1, <1>2, <1>3
  <2>1. Failed(i) /\ log'[i] = log[i] /\ log'[i + 1] = log[i + 1] /\ i \in 1 .. Len(log) - 1
    <3>1. log'[i] = log[i] /\ log'[i + 1] = log[i + 1]
      BY <2>0
    <3>2. QED BY <2>0, <3>1 DEF Failed
  <2>2. Answered(i)
    BY <2>1 DEF AllAnswered
  <2>3. QED BY <1>2, <2>1, <2>2 DEF Answered, Recoverable
<1>4. CASE i = Len(log)
  BY <1>1, <1>2, <1>4 DEF Failed, Answered, Recoverable
<1>5. QED BY <1>1, <1>2, <1>3, <1>4

(* A failure that has just been raised is pending. *)
LEMMA JustRaised ==
  ASSUME TypeOK, NEW h \in Hooks, NEW e \in Exceptions,
         NEW phase \in {"step", "guard", "actions", "exit", "entry"},
         log' = Append(log, Failure(h, phase, e)), hook' = h,
         phase = "step" => e # "TransitionError",
         exc' = IF h = "on" /\ phase = "actions" /\ e # "CancelledError"
                  THEN "TransitionError" ELSE e
  PROVE  Pending'
<1>1. Failure(h, phase, e) \in LogEntry
  BY FailureIsEntry
<1>2. log' # <<>> /\ log'[Len(log')] = Failure(h, phase, e)
  BY <1>1, LogAppended
<1>3. /\ log'[Len(log')].what = "fail" /\ log'[Len(log')].hook = h
      /\ log'[Len(log')].phase = phase /\ log'[Len(log')].exc = e
  BY <1>2 DEF Failure
<1>4. QED BY <1>2, <1>3 DEF Pending, Failed, Recoverable, Caught

----------------------------------------------------------------------------
(* Steps at which nothing fails *)

LEMMA NothingFails ==
  ASSUME FailureOK, exc = None, UNCHANGED <<config, log, exc>>,
         ~Overtaken, pc' \notin {"catch", "raised"},
         (UNCHANGED <<pc, hook>>) \/ ~(hook = "error" /\ pc = "exit")
  PROVE  FailureOK'
BY DEF FailureOK, Quiet, Overtaken, AllAnswered, Answered, Recoverable, Failed

LEMMA BeforeCatch ==
  ASSUME ControlOK, FailureOK, pc \notin {"close", "catch", "returned", "raised"}
  PROVE  exc = None /\ ~Overtaken /\ AllAnswered /\ Quiet
BY DEF ControlOK, Terminated, FailureOK, Overtaken

LEMMA RoundStaysQuiet ==
  ASSUME TypeOK, ControlOK, FailureOK,
         \/ NothingAlways \/ Return \/ IgnoreSignal \/ PassUnguarded \/ EvalGuard
         \/ NoneFired \/ RunAction \/ TransitionActionsDone \/ EntryActionsDone
  PROVE  FailureOK'
<1> USE NothingFails, BeforeCatch
<1> USE DEF StartBatch, InBatch, argVars, ctxVars, locals
<1>1. CASE NothingAlways
  BY <1>1 DEF NothingAlways
<1>2. CASE Return
  BY <1>2 DEF Return
<1>3. CASE IgnoreSignal
  BY <1>3 DEF IgnoreSignal
<1>4. CASE PassUnguarded
  BY <1>4 DEF PassUnguarded
<1>5. CASE EvalGuard
  BY <1>5 DEF EvalGuard
<1>6. CASE NoneFired
  BY <1>6 DEF NoneFired
<1>7. CASE RunAction
  BY <1>7 DEF RunAction
<1>8. CASE TransitionActionsDone
  <2>1. hook # "error"
    BY <1>8 DEF TransitionActionsDone, ControlOK, ErrorControl, Busy
  <2>2. QED BY <1>8, <2>1 DEF TransitionActionsDone
<1>9. CASE EntryActionsDone
  BY <1>9 DEF EntryActionsDone
<1>10. QED BY <1>1, <1>2, <1>3, <1>4, <1>5, <1>6, <1>7, <1>8, <1>9

----------------------------------------------------------------------------
(* Steps that fail *)

(* An exception outside the callbacks: every failure before it was         *)
(* answered, if need be by the error hop it belongs to.                    *)
LEMMA FailsOutside ==
  ASSUME TypeOK, AllAnswered, config' = config,
         NEW h \in Hooks, NEW e \in Exceptions \ {"TransitionError"},
         ThrowOutside(h, e), hook' = h,
         log # <<>> /\ Failed(Len(log)) => Recoverable(log[Len(log)]) /\ h = "error"
  PROVE  FailureOK'
<1>1. Failure(h, "step", e) \in LogEntry
  BY FailureIsEntry
<1>2. log' = Append(log, Failure(h, "step", e)) /\ exc' = e /\ pc' = "catch"
  BY DEF ThrowOutside
<1>3. Pending'
  BY <1>2, JustRaised
<1>4. AllAnswered'
  <2>1. /\ Len(log) \in Nat /\ Len(log') = Len(log) + 1
        /\ \A i \in 1 .. Len(log) : log'[i] = log[i]
        /\ log'[Len(log) + 1] = Failure(h, "step", e)
    BY <1>1, <1>2, LogAppended
  <2>2. log'[Len(log) + 1].what = "fail" /\ log'[Len(log) + 1].hook = h
    BY <2>1 DEF Failure
  <2>3. QED BY <2>1, <2>2, AnswersKept
<1>5. exc' # None
  BY <1>2, CallAssumption
<1>6. QED BY <1>2, <1>3, <1>4, <1>5 DEF FailureOK

LEMMA AlwaysFailsLogged ==
  ASSUME TypeOK, ControlOK, FailureOK, AlwaysFails
  PROVE  FailureOK'
<1>1. PICK e \in {"RuntimeError", "KeyError"} : ThrowOutside("always", e)
  BY DEF AlwaysFails
<1>2. e \in Exceptions \ {"TransitionError"} /\ "always" \in Hooks
  BY DEF Exceptions, Hooks
<1>3. hook' = "always" /\ config' = config
  BY DEF AlwaysFails, ControlOK, locals, argVars
<1>4. AllAnswered /\ ~(log # <<>> /\ Failed(Len(log)))
  BY BeforeCatch DEF AlwaysFails, Quiet
<1>5. QED BY <1>1, <1>2, <1>3, <1>4, FailsOutside

(* A round that begins, or fails to. *)
LEMMA RoundBegins ==
  ASSUME TypeOK, ControlOK, FailureOK, AlwaysRound \/ ReceiveSignal
  PROVE  FailureOK'
<1>1. PICK h \in Hooks : \E name, list : BeginRound(h, name, list)
  BY DEF AlwaysRound, ReceiveSignal, Hooks
<1>2. /\ config' = config /\ pc \in {"always", "dispatch"}
  BY DEF AlwaysRound, ReceiveSignal, argVars
<1>3. /\ exc = None /\ ~Overtaken /\ AllAnswered
      /\ ~(log # <<>> /\ Failed(Len(log)))
  BY <1>2, BeforeCatch DEF Quiet
<1>4. CASE AccessorFails
  <2>1. ThrowOutside(h, "Exception") /\ hook' = h
    BY <1>1, <1>4 DEF BeginRound
  <2>2. "Exception" \in Exceptions \ {"TransitionError"}
    BY DEF Exceptions
  <2>3. QED BY <1>2, <1>3, <2>1, <2>2, FailsOutside
<1>5. CASE ~AccessorFails
  <2>1. pc' = "guard" /\ UNCHANGED <<exc, log>>
    BY <1>1, <1>5 DEF BeginRound
  <2>2. QED BY <1>2, <1>3, <2>1, NothingFails
<1>6. QED BY <1>4, <1>5

(* A callback fails: the failure is pending. *)
LEMMA CallbackThrows ==
  ASSUME TypeOK, ControlOK, FailureOK, NEW e \in Exceptions, Throw(e),
         pc \in {"guard", "actions", "exit", "entry"}, UNCHANGED <<config, hook>>
  PROVE  FailureOK'
<1>1. exc = None /\ AllAnswered /\ Quiet
  BY BeforeCatch
<1>2. hook \in Hooks /\ pc \in {"step", "guard", "actions", "exit", "entry"}
  BY DEF TypeOK, LocalsOK
<1>3. /\ log' = Append(log, Failure(hook, pc, e))
      /\ exc' = Wrapped(e) /\ pc' \in {"close", "catch"}
  BY DEF Throw
<1>4. Pending'
  <2>1. pc # "step"
    OBVIOUS
  <2>2. QED BY <1>2, <1>3, <2>1, JustRaised DEF Wrapped
<1>5. AllAnswered'
  <2>1. Failure(hook, pc, e) \in LogEntry
    BY <1>2, FailureIsEntry
  <2>2. /\ Len(log) \in Nat /\ Len(log') = Len(log) + 1
        /\ \A i \in 1 .. Len(log) : log'[i] = log[i]
        /\ log'[Len(log) + 1] = Failure(hook, pc, e)
    BY <1>3, <2>1, LogAppended
  <2>3. log'[Len(log) + 1].what = "fail" /\ log'[Len(log) + 1].hook = hook
    BY <2>2 DEF Failure
  <2>4. QED BY <1>1, <2>2, <2>3, AnswersKept DEF Quiet
<1>6. exc' # None
  BY <1>3, WrappedType, CallAssumption
<1>7. QED BY <1>3, <1>4, <1>5, <1>6 DEF FailureOK

LEMMA CallbackFails ==
  ASSUME TypeOK, ControlOK, FailureOK, GuardFails \/ ActionFails
  PROVE  FailureOK'
<1>1. PICK e \in Exceptions : Throw(e)
  BY GuardThrows, ActionThrows
<1>2. /\ pc \in {"guard", "actions", "exit", "entry"}
      /\ UNCHANGED <<config, hook>>
  BY DEF GuardFails, ActionFails, InBatch, argVars, locals
<1>3. QED BY <1>1, <1>2, CallbackThrows

(* The hop answers the failure that led to it; in a state unknown to the   *)
(* graph it is itself followed by a failure.                               *)
LEMMA HopAnswers ==
  ASSUME TypeOK, ControlOK, FailureOK, ChangeState
  PROVE  FailureOK'
<1>1. /\ config' = config /\ hook' = hook /\ pc = "exit"
  BY DEF ChangeState, argVars
<1>2. exc = None /\ AllAnswered /\ Quiet
  BY <1>1, BeforeCatch
<1>3. Hop \in LogEntry
  BY NextStateType DEF ChangeState, Hop, LogEntry, TypeOK, LocalsOK, ContextOK
<1>4. /\ Hop.what = "hop" /\ Hop.hook = hook
      /\ hook = "error" => Hop.to = config[Hop.dispatched].error_state
  BY DEF Hop, Target, RecoveryState
<1>5. Len(log) \in Nat
  BY LogNotEmpty
<1>6. CASE Target \in DOMAIN config
  <2>1. log' = Append(log, Hop) /\ exc' = None /\ pc' = "entry"
    BY <1>2, <1>6 DEF ChangeState, StartBatch
  <2>2. /\ Len(log') = Len(log) + 1
        /\ \A i \in 1 .. Len(log) : log'[i] = log[i]
        /\ log'[Len(log) + 1] = Hop
    BY <1>3, <2>1, LogAppended
  <2>3. AllAnswered'
    BY <1>1, <1>2, <1>4, <1>5, <2>2, AnswersKept DEF Quiet
  <2>4. Quiet'
    BY <1>4, <2>2 DEF Quiet, Failed
  <2>5. QED BY <2>1, <2>3, <2>4 DEF FailureOK
<1>7. CASE Target \notin DOMAIN config
  <2> DEFINE f == Failure(hook, "entry", "KeyError")
  <2>1. /\ log' = log \o <<Hop, f>> /\ exc' = "KeyError"
        /\ pc' = IF hook = "on" THEN "close" ELSE "catch"
    BY <1>7 DEF ChangeState
  <2>2. f \in LogEntry /\ f.what = "fail" /\ f.hook = hook /\ f.phase = "entry" /\ f.exc = "KeyError"
    BY FailureIsEntry DEF Failure, LogEntry, Exceptions, TypeOK, LocalsOK
  <2>3. /\ Len(log') = Len(log) + 2
        /\ \A i \in 1 .. Len(log) : log'[i] = log[i]
        /\ log'[Len(log) + 1] = Hop /\ log'[Len(log) + 2] = f
        /\ log' # <<>>
    <3>1. log \in Seq(LogEntry) /\ <<Hop, f>> \in Seq(LogEntry) /\ Len(<<Hop, f>>) = 2
      BY <1>3, <2>2, Couple DEF TypeOK, LocalsOK
    <3>2. QED BY <2>1, <3>1, ConcatProperties, LenProperties, EmptySeq
  <2> HIDE DEF f
  <2>4. AllAnswered'
    BY <1>1, <1>2, <1>4, <1>5, <2>3, AnswersKept DEF Quiet
  <2>5. Pending'
    BY <1>1, <2>1, <2>2, <2>3 DEF Pending, Failed, Recoverable, Caught
  <2>6. exc' # None
    BY <2>1, CallAssumption DEF Exceptions
  <2>7. QED BY <2>1, <2>4, <2>5, <2>6 DEF FailureOK
<1>8. QED BY <1>6, <1>7

----------------------------------------------------------------------------
(* The end of a round *)

LEMMA RoundCloses ==
  ASSUME TypeOK, ControlOK, FailureOK, CloseStep
  PROVE  FailureOK'
<1>1. pc = "close" /\ UNCHANGED <<config, log, exc>> /\ ~Overtaken
  BY DEF CloseStep, Overtaken, argVars
<1>2. CASE exc # None
  <2>1. pc' = "catch" /\ hook' = hook
    BY <1>2 DEF CloseStep
  <2>2. Pending' /\ AllAnswered'
    BY <1>1, <1>2, <2>1
    DEF FailureOK, Pending, AllAnswered, Failed, Answered, Recoverable, Caught
  <2>3. QED BY <1>1, <1>2, <2>1, <2>2 DEF FailureOK
<1>3. CASE exc = None
  <2>1. pc' \in {"always", "dispatch"}
    BY <1>3 DEF CloseStep
  <2>2. QED BY <1>1, <1>3, <2>1, NothingFails
<1>4. QED BY <1>2, <1>3

(* The accessor fails as the step is closed, and overtakes what was        *)
(* propagating, if anything was.                                           *)
LEMMA AccessorOvertakes ==
  ASSUME TypeOK, ControlOK, FailureOK, CloseFails
  PROVE  FailureOK'
<1>1. /\ pc = "close" /\ UNCHANGED <<config, hook>> /\ AccessorFails
      /\ hook \in Hooks /\ ThrowOutside(hook, "Exception")
      /\ "Exception" \in Exceptions \ {"TransitionError"}
  BY DEF CloseFails, argVars, locals, TypeOK, LocalsOK, Exceptions
<1>2. CASE exc = None
  <2>1. AllAnswered /\ ~(log # <<>> /\ Failed(Len(log)))
    BY <1>1, <1>2 DEF FailureOK, Overtaken, Quiet
  <2>2. QED BY <1>1, <2>1, FailsOutside
<1>3. CASE exc # None
  <2>1. /\ exc' = "Exception" /\ pc' = "catch"
        /\ log' = Append(log, Failure(hook, "step", "Exception"))
    BY <1>1 DEF ThrowOutside
  <2>2. Pending'
    BY <1>1, <2>1, JustRaised
  <2>3. Overtaken'
    BY <1>1, <2>1
    DEF CloseFails, Overtaken, Caught, AccessorFails, IsStream, CurrentStateDict,
        argVars, ctxVars
  <2>4. exc' # None
    BY <1>1, <2>1, CallAssumption
  <2>5. QED BY <2>1, <2>2, <2>3, <2>4 DEF FailureOK
<1>4. QED BY <1>2, <1>3

LEMMA ErrorHopBegins ==
  ASSUME TypeOK, ControlOK, FailureOK, RouteToErrorState
  PROVE  FailureOK'
<1>1. /\ exc # None /\ Caught /\ config' = config /\ hook' = "error"
  BY DEF RouteToErrorState, Recovers, FailureOK, argVars
<1>2. AllAnswered /\ Recoverable(log[Len(log)])
  BY <1>1 DEF FailureOK, Overtaken, Pending
<1>3. CASE AccessorFails
  <2>1. ThrowOutside("error", "Exception")
    BY <1>3 DEF RouteToErrorState
  <2>2. "error" \in Hooks /\ "Exception" \in Exceptions \ {"TransitionError"}
    BY DEF Hooks, Exceptions
  <2>3. QED BY <1>1, <1>2, <2>1, <2>2, FailsOutside
<1>4. CASE ~AccessorFails
  <2>1. exc' = None /\ log' = log /\ pc' = "exit"
    BY <1>4 DEF RouteToErrorState, StartBatch
  <2>2. Quiet' /\ AllAnswered'
    BY <1>1, <1>2, <2>1 DEF Quiet, AllAnswered, Failed, Answered, Recoverable
  <2>3. QED BY <2>1, <2>2 DEF FailureOK
<1>5. QED BY <1>3, <1>4

LEMMA CallerGetsIt ==
  ASSUME TypeOK, ControlOK, FailureOK, Propagate
  PROVE  FailureOK'
<1>1. /\ UNCHANGED <<config, log, exc, hook, dispatched>>
      /\ pc = "catch" /\ pc' = "raised" /\ ~Recovers /\ exc # None
  BY DEF Propagate, FailureOK, argVars, locals
<1>2. ~Recovers' /\ Pending'
  BY <1>1 DEF FailureOK, Recovers, Caught, RecoveryState, Pending, Failed, Recoverable
<1>3. AllAnswered => AllAnswered'
  BY <1>1 DEF AllAnswered, Failed, Answered, Recoverable
<1>4. Overtaken => Overtaken'
  BY <1>1
  DEF Propagate, Overtaken, Caught, AccessorFails, IsStream, CurrentStateDict, argVars, ctxVars
<1>5. QED BY <1>1, <1>2, <1>3, <1>4 DEF FailureOK

LEMMA FailureStutter ==
  ASSUME FailureOK, UNCHANGED vars
  PROVE  FailureOK'
<1>1. (Pending' <=> Pending) /\ (Quiet' <=> Quiet) /\ (AllAnswered' <=> AllAnswered)
  BY DEF vars, argVars, locals, Pending, Quiet, AllAnswered, Failed, Answered,
     Recoverable, Caught
<1>2. (Overtaken' <=> Overtaken) /\ (Recovers' <=> Recovers)
  BY DEF vars, argVars, ctxVars, locals, Overtaken, Recovers, RecoveryState, Caught,
     AccessorFails, IsStream, CurrentStateDict
<1>3. QED BY <1>1, <1>2 DEF FailureOK, vars

LEMMA FailureInit == Fresh => FailureOK
<1> SUFFICES ASSUME Fresh PROVE FailureOK
  OBVIOUS
<1>1. log = <<>> /\ Len(log) = 0 /\ exc = None /\ pc = "always"
  BY DEF Fresh
<1>2. Quiet /\ AllAnswered
  BY <1>1 DEF Quiet, AllAnswered
<1>3. QED BY <1>1, <1>2 DEF FailureOK

LEMMA FailureStep == TypeOK /\ ControlOK /\ FailureOK /\ [Next]_vars => FailureOK'
BY AlwaysFailsLogged, RoundBegins, RoundStaysQuiet, CallbackFails, HopAnswers,
   RoundCloses, AccessorOvertakes, ErrorHopBegins, CallerGetsIt, FailureStutter
DEF Next, Done

(***************************************************************************)
(* What a call knows of its failures, at every step of it.                 *)
(***************************************************************************)
THEOREM FailuresAccounted == Spec => [](TypeOK /\ ControlOK /\ FailureOK)
BY FailureStep, FailureInit, InitFresh, TypeAndControl, PTL DEF Spec

LEMMA FailuresTell == TypeOK /\ ControlOK /\ FailureOK => NoFailureSwallowed
<1> SUFFICES ASSUME TypeOK, ControlOK, FailureOK PROVE NoFailureSwallowed
  OBVIOUS
<1>1. ASSUME pc \in {"always", "dispatch", "guard", "returned"},
             NEW i \in DOMAIN log, log[i].what = "fail"
      PROVE  Answered(i)
  <2>1. exc = None /\ AllAnswered /\ ~(log # <<>> /\ Failed(Len(log)))
    BY <1>1 DEF FailureOK, Overtaken, Quiet, ControlOK, Terminated
  <2>2. log # <<>> /\ Len(log) \in Nat /\ i \in 1 .. Len(log)
    BY <1>1, LenProperties, LogNotEmpty DEF TypeOK, LocalsOK
  <2>3. QED BY <1>1, <2>1, <2>2 DEF AllAnswered, Failed
<1>2. ASSUME pc = "raised"
      PROVE  LET last == log[Len(log)]
             IN /\ log # <<>> /\ last.what = "fail"
                /\ exc = last.exc \/ (exc = "TransitionError" /\ Recoverable(last))
  BY <1>2 DEF FailureOK, Pending, Failed
<1>3. QED BY <1>1, <1>2 DEF NoFailureSwallowed

(* No failure is swallowed: a call that returns has answered each one at   *)
(* once by the error state of the state that took the signal; otherwise    *)
(* the caller gets what failed last, as it was or as a TransitionError.    *)
THEOREM FailuresSurface == Spec => []NoFailureSwallowed
BY FailuresTell, FailuresAccounted, PTL

(* Every accessor reads every session. *)
AccessorsRead == \A a \in Accessors \ {None}, s \in Sessions : ~a[s].raises

(* The converse, where no accessor fails (the run `masked` shows that it   *)
(* is needed): every failure the code can recover from leads at once to    *)
(* the error state, if there is one.                                       *)
THEOREM RecoveryReached ==
  ASSUME AccessorsRead
  PROVE  Spec => []ErrorStateHonoured
<1>1. TypeOK /\ ControlOK /\ FailureOK => ErrorStateHonoured
  <2> SUFFICES ASSUME TypeOK, ControlOK, FailureOK, pc = "raised",
                      NEW i \in DOMAIN log, log[i].what = "fail", Recoverable(log[i])
               PROVE  (i < Len(log) /\ log[i + 1].hook = "error") \/ RecoveryState = None
    BY DEF ErrorStateHonoured
  <2>1. ~AccessorFails
    BY AccessorsRead DEF AccessorsRead, AccessorFails, CurrentStateDict, TypeOK, ArgsOK, ContextOK
  <2>2. Pending /\ AllAnswered /\ ~Recovers
    BY <2>1 DEF FailureOK, Overtaken
  <2>3. i \in 1 .. Len(log) /\ Len(log) \in Nat
    BY LenProperties DEF TypeOK, LocalsOK
  <2>4. CASE i < Len(log)
    BY <2>2, <2>3, <2>4 DEF AllAnswered, Failed, Answered
  <2>5. CASE i = Len(log)
    BY <2>2, <2>5 DEF Pending, Recovers
  <2>6. QED BY <2>3, <2>4, <2>5
<1>2. QED BY <1>1, FailuresAccounted, PTL

----------------------------------------------------------------------------
(* Names *)

(* The strengthening: the names still to run are names of the graph.       *)
BatchOfGraph == InBatch => Elements(batch) \subseteq ActionNames(config)

----------------------------------------------------------------------------
(* Names of a graph *)

LEMMA CandidateNames ==
  ASSUME NEW c, NEW s \in DOMAIN c, NEW t \in AllCandidates(c, s)
  PROVE  Elements(t.actions) \subseteq ActionNames(c)
BY DEF ActionNames

LEMMA LifecycleNames ==
  ASSUME NEW c, NEW s \in DOMAIN c
  PROVE  /\ Elements(c[s].entry) \subseteq ActionNames(c)
         /\ Elements(c[s].exit) \subseteq ActionNames(c)
BY DEF ActionNames

LEMMA GuardIsNamed ==
  ASSUME NEW c, NEW s \in DOMAIN c, NEW t \in AllCandidates(c, s)
  PROVE  t.guard \in GuardNames(c) \cup {None, ""}
<1>1. t.guard \in UNION {{u.guard : u \in AllCandidates(c, r)} : r \in DOMAIN c}
  OBVIOUS
<1>2. \A A, B, x : x \in A => x \in (A \ B) \cup B
  OBVIOUS
<1>3. QED BY <1>1, <1>2, Zenon DEF GuardNames

LEMMA TailElements ==
  ASSUME NEW q \in Seq(STRING), q # <<>>
  PROVE  /\ Head(q) \in Elements(q)
         /\ Elements(Tail(q)) \subseteq Elements(q)
<1>1. /\ Len(q) \in Nat /\ Len(q) > 0 /\ DOMAIN q = 1 .. Len(q)
      /\ Head(q) = q[1]
      /\ DOMAIN Tail(q) = 1 .. Len(q) - 1
      /\ \A i \in 1 .. Len(q) - 1 : Tail(q)[i] = q[i + 1]
  BY HeadTailProperties, LenProperties, EmptySeq
<1>2. \A i \in 1 .. Len(q) - 1 : i + 1 \in DOMAIN q
  BY <1>1
<1>3. QED BY <1>1, <1>2 DEF Elements

(* The candidate under trial, or taken, is one of the graph's. *)
LEMMA CandidateOfGraph ==
  ASSUME TypeOK, ControlOK, ci <= Len(cands), pc = "guard" \/ (pc = "exit" /\ hook # "error")
  PROVE  \E s \in DOMAIN config : Candidate \in AllCandidates(config, s)
<1>1. ~fired /\ hook \in {"on", "always"} /\ ci \in DOMAIN cands
  BY CandidateType, LenProperties
  DEF ControlOK, ErrorControl, Busy, TypeOK, LocalsOK, Hooks
<1>2. cands # <<>>
  BY <1>1
<1>3. CASE hook = "on"
  <2>1. cands = Lookup(config, dispatched, events[taken].event)
    BY <1>3 DEF ControlOK, OnControl, Busy
  <2>2. QED BY <1>1, <1>2, <2>1, LookedUpIsCandidate DEF Candidate
<1>4. CASE hook = "always"
  <2>1. current_state \in DOMAIN config /\ cands = config[current_state].always
    BY <1>1, <1>4 DEF ControlOK, AlwaysControl, Busy, Always
  <2>2. QED BY <1>1, <2>1 DEF Candidate, AllCandidates, Elements
<1>5. QED BY <1>1, <1>3, <1>4

----------------------------------------------------------------------------
(* Every batch is taken from the graph, and only shrinks.                  *)
LEMMA BatchKept ==
  ASSUME TypeOK, ControlOK, BatchOfGraph, [Next]_vars
  PROVE  BatchOfGraph'
<1>0. config' = config
  BY DEF Next, vars, argVars, AlwaysFails, NothingAlways, AlwaysRound, Return,
     IgnoreSignal, ReceiveSignal, PassUnguarded, EvalGuard, GuardFails, NoneFired,
     RunAction, ActionFails, TransitionActionsDone, ChangeState, EntryActionsDone,
     CloseStep, CloseFails, RouteToErrorState, Propagate, Done
<1> USE <1>0
<1>1. CASE PassUnguarded \/ EvalGuard
  <2>1. \/ UNCHANGED <<pc, batch>>
        \/ batch' = Candidate.actions
    BY <1>1 DEF PassUnguarded, EvalGuard, StartBatch
  <2>2. Elements(Candidate.actions) \subseteq ActionNames(config)
    BY <1>1, CandidateOfGraph, CandidateNames DEF PassUnguarded, EvalGuard
  <2>3. QED BY <2>1, <2>2 DEF BatchOfGraph, InBatch
<1>2. CASE RunAction
  <2>1. Elements(Tail(batch)) \subseteq Elements(batch)
    BY <1>2, TailElements DEF RunAction, TypeOK, LocalsOK
  <2>2. QED BY <1>2, <2>1 DEF RunAction, BatchOfGraph, InBatch
<1>3. CASE TransitionActionsDone
  <2>1. current_state \in DOMAIN config
    BY <1>3 DEF TransitionActionsDone, ControlOK, OnControl, AlwaysControl, ErrorControl,
       Busy, TypeOK, LocalsOK, Hooks
  <2>2. QED
    BY <1>3, <2>1, LifecycleNames
    DEF TransitionActionsDone, StartBatch, ExitActions, BatchOfGraph
<1>4. CASE ChangeState
  <2>1. pc' = "entry" => Target \in DOMAIN config /\ batch' = config[Target].entry
    BY <1>4 DEF ChangeState, StartBatch
  <2>2. pc' \in {"entry", "close", "catch"}
    BY <1>4 DEF ChangeState, StartBatch
  <2>3. QED BY <2>1, <2>2, LifecycleNames DEF BatchOfGraph, InBatch
<1>5. CASE RouteToErrorState
  <2>1. current_state \in DOMAIN config
    BY <1>5 DEF RouteToErrorState, Recovers, Caught, ControlOK, OnControl, Busy
  <2>2. (pc' = "exit" /\ batch' = config[current_state].exit) \/ pc' = "catch"
    BY <1>5 DEF RouteToErrorState, StartBatch, ThrowOutside, ExitActions
  <2>3. QED BY <2>1, <2>2, LifecycleNames DEF BatchOfGraph, InBatch
<1>6. CASE \/ AlwaysFails \/ NothingAlways \/ AlwaysRound \/ Return \/ IgnoreSignal
           \/ ReceiveSignal \/ GuardFails \/ NoneFired \/ ActionFails
           \/ EntryActionsDone \/ CloseStep \/ CloseFails \/ Propagate
  <2>1. ~InBatch'
    BY <1>6
    DEF AlwaysFails, NothingAlways, AlwaysRound, Return, IgnoreSignal, ReceiveSignal,
        GuardFails, NoneFired, ActionFails, EntryActionsDone, CloseStep, CloseFails,
        Propagate, BeginRound, Throw, ThrowOutside, InBatch
  <2>2. QED BY <2>1 DEF BatchOfGraph
<1>7. CASE UNCHANGED vars
  BY <1>7 DEF vars, locals, BatchOfGraph, InBatch
<1>8. QED
  BY <1>1, <1>2, <1>3, <1>4, <1>5, <1>6, <1>7 DEF Next, Done

(* What the validation has seen is all a call asks for, unless it is a     *)
(* guard named "".                                                         *)
LEMMA NothingMissing ==
  ASSUME TypeOK, ControlOK, BatchOfGraph,
         MissingNames(config, DOMAIN GuardFns, DOMAIN ActionFns) = {}
  PROVE  /\ pc = "guard" /\ ci <= Len(cands) =>
              Candidate.guard \in DOMAIN GuardFns \cup {None, ""}
         /\ InBatch /\ batch # <<>> => Head(batch) \in DOMAIN ActionFns
<1>1. /\ GuardNames(config) \subseteq DOMAIN GuardFns
      /\ ActionNames(config) \subseteq DOMAIN ActionFns
  BY DEF MissingNames
<1>2. ASSUME pc = "guard", ci <= Len(cands)
      PROVE  Candidate.guard \in DOMAIN GuardFns \cup {None, ""}
  <2>1. PICK s \in DOMAIN config : Candidate \in AllCandidates(config, s)
    BY <1>2, CandidateOfGraph
  <2>2. Candidate.guard \in GuardNames(config) \cup {None, ""}
    BY <2>1, GuardIsNamed, Zenon
  <2>3. QED BY <1>1, <2>2, Zenon
<1>3. ASSUME InBatch, batch # <<>>
      PROVE  Head(batch) \in DOMAIN ActionFns
  <2>1. Head(batch) \in Elements(batch)
    BY <1>3, TailElements DEF TypeOK, LocalsOK
  <2>2. QED BY <1>1, <1>3, <2>1 DEF BatchOfGraph
<1>4. QED BY <1>2, <1>3, Zenon

LEMMA NoBatch == Fresh => BatchOfGraph
BY DEF Fresh, BatchOfGraph, InBatch

LEMMA NamesTell == TypeOK /\ ControlOK /\ BatchOfGraph => ValidatedNeverUnregistered
BY NothingMissing, Zenon DEF ValidatedNeverUnregistered

(***************************************************************************)
(* On a machine that validate_registries accepts, every name a call asks a *)
(* registry for is held there.                                             *)
(***************************************************************************)
THEOREM ValidationSuffices == Spec => []ValidatedNeverUnregistered
BY InitFresh, NoBatch, NamesTell, BatchKept, TypeAndControl, PTL DEF Spec

-----------------------------------------------------------------------------
(* What a callback leaves in the results *)

(* An answered guard leaves its result, tells it, and moves on. *)
LEMMA GuardRecords ==
  ASSUME TypeOK, ControlOK, EvalGuard
  PROVE  \E answer \in BOOLEAN, e \in ResultEntry :
           /\ e = GuardResult(current_state, hook, cands[ci].guard, answer)
           /\ results' = Append(results, e)
           /\ Emit(<<Activity(e)>>)
           /\ IF answer
                THEN StartBatch("actions", Candidate.actions) /\ UNCHANGED ci
                ELSE ci' = ci + 1 /\ UNCHANGED <<pc, batch, n_before>>
<1>1. PICK o \in GuardFns[Candidate.guard][<<session, Signal.data>>] :
        /\ o.value # None
        /\ results' = Append(results, Entry("guard", Candidate.guard, o.value))
        /\ Emit(<<Activity(Entry("guard", Candidate.guard, o.value))>>)
        /\ IF o.value
             THEN StartBatch("actions", Candidate.actions) /\ UNCHANGED ci
             ELSE ci' = ci + 1 /\ UNCHANGED <<pc, batch, n_before>>
  BY DEF EvalGuard
<1>2. pc = "guard" /\ hook # "error"
  BY DEF EvalGuard, ControlOK, ErrorControl, Busy
<1>3. o \in Outcome /\ Candidate.guard \in STRING
  <2>1. Signal.data \in Data
    BY <1>2, SignalType DEF Busy
  <2>2. QED
    BY <2>1, OutcomeType, CallAssumption DEF EvalGuard, TypeOK, ContextOK
<1> DEFINE e == Entry("guard", Candidate.guard, o.value)
<1>4. o.value \in BOOLEAN
  BY <1>1, <1>3 DEF Outcome
<1>5. e = GuardResult(current_state, hook, cands[ci].guard, o.value)
  BY <1>2 DEF Entry, Source, GuardResult, Candidate
<1>6. e \in ResultEntry
  BY <1>2, <1>3, <1>4, ResultType DEF Busy
<1>7. /\ results' = Append(results, e) /\ Emit(<<Activity(e)>>)
      /\ IF o.value
           THEN StartBatch("actions", Candidate.actions) /\ UNCHANGED ci
           ELSE ci' = ci + 1 /\ UNCHANGED <<pc, batch, n_before>>
  BY <1>1
<1> HIDE DEF e
<1>8. QED BY <1>4, <1>5, <1>6, <1>7

(* An action that ran leaves its result. *)
LEMMA ActionRecords ==
  ASSUME TypeOK, ControlOK, RunAction
  PROVE  \E e \in ResultEntry :
           /\ results' = Append(results, e)
           /\ e.kind = "action" /\ e.source = Source
           /\ e.state = current_state /\ e.name = Head(batch)
<1>1. PICK o \in ActionFns[Head(batch)][<<session, Signal.data>>] :
        results' = Append(results, Entry("action", Head(batch), o.value))
  BY DEF RunAction
<1>2. o \in Outcome
  <2>1. Signal.data \in Data
    BY SignalType DEF RunAction, InBatch, Busy
  <2>2. QED
    BY <2>1, OutcomeType, CallAssumption DEF RunAction, TypeOK, ContextOK
<1>3. InBatch /\ batch # <<>> /\ (hook = "error" => pc \in {"exit", "entry"})
  BY DEF RunAction, InBatch, ControlOK, ErrorControl, Busy
<1>4. Entry("action", Head(batch), o.value) \in ResultEntry
  BY <1>2, <1>3, BatchType, ResultType DEF InBatch, Busy, Outcome
<1>5. QED BY <1>1, <1>4 DEF Entry

-----------------------------------------------------------------------------
(***************************************************************************)
(* Rounds: the strengthening.  The answers a round has had so far stand at *)
(* the end of the results, one refusal for each candidate already tried.   *)
(***************************************************************************)

(* Candidates 1 .. ci - 1 were refused, the last thing recorded. *)
Asked == EndsWith(results, Refusals(cands, ci - 1, current_state, hook), {})

(* ... and candidate ci accepted; only actions of its hop ran since. *)
Accepted ==
  EndsWith(results, Acceptance(cands, ci, current_state, hook),
           {<<"action", hook>>, <<"action", "exit">>})

(* No always transition passes here, on the answers last given. *)
Settled ==
  /\ current_state \in DOMAIN config
  /\ \A i \in DOMAIN Always : Always[i].guard # None
  /\ EndsWith(results, Refusals(Always, Len(Always), current_state, "always"),
              {<<"guard", "on">>})

(* A round is about to close with no candidate accepted. *)
AllRefused == pc = "close" /\ exc = None /\ ~fired

Trying == pc = "guard" \/ AllRefused

(* What stands at the end of the results, at each point of a call. *)
RoundOK ==
  /\ hook # "error" /\ Trying => Asked
  /\ AllRefused => ci = Len(cands) + 1
  /\ hook # "error" /\ pc \in {"actions", "exit"} => Accepted
  /\ pc \in {"dispatch", "returned"} => Settled
  /\ hook = "on" /\ Trying => Settled

(* A round begins with nothing asked. *)
LEMMA NothingAsked ==
  ASSUME TypeOK, ci' = 1, UNCHANGED results
  PROVE  Asked'
<1>1. results' \in Seq(ResultEntry)
  BY DEF TypeOK, ContextOK
<1>2. Refusals(cands', 0, current_state', hook') = <<>>
  BY RefusalsGrow
<1>3. EndsWith(results', <<>>, {})
  BY <1>1, EndsEmpty
<1>4. ci' - 1 = 0
  OBVIOUS
<1>5. QED BY <1>2, <1>3, <1>4 DEF Asked

(* Settled depends on the state and the results only. *)
LEMMA StaysSettled ==
  ASSUME Settled, UNCHANGED <<config, current_state, results>>
  PROVE  Settled'
BY DEF Settled, Always

(* One step per action. *)
LEMMA AlwaysRoundTried ==
  ASSUME TypeOK, ControlOK, AlwaysRound
  PROVE  RoundOK'
<1>1. /\ hook' = "always" /\ ci' = 1 /\ UNCHANGED results
      /\ pc' = "guard" \/ pc' = "catch"
  BY DEF AlwaysRound, BeginRound, ThrowOutside
<1>2. QED BY <1>1, NothingAsked DEF RoundOK, AllRefused, Trying

LEMMA ReceiveSignalTried ==
  ASSUME TypeOK, ControlOK, RoundOK, ReceiveSignal
  PROVE  RoundOK'
<1>1. /\ hook' = "on" /\ ci' = 1 /\ UNCHANGED <<config, current_state, results>>
      /\ pc' = "guard" \/ pc' = "catch"
  BY DEF ReceiveSignal, BeginRound, ThrowOutside, argVars
<1>2. Settled
  BY DEF RoundOK, ReceiveSignal
<1>3. QED BY <1>1, <1>2, NothingAsked, StaysSettled DEF RoundOK, AllRefused, Trying

LEMMA NothingAlwaysTried ==
  ASSUME TypeOK, ControlOK, NothingAlways
  PROVE  RoundOK'
<1>1. /\ UNCHANGED <<config, current_state, results>> /\ pc' = "dispatch"
      /\ Always = <<>> /\ current_state \in DOMAIN config /\ hook' = "always"
  BY DEF NothingAlways, argVars, ctxVars, locals, ControlOK
<1>2. EndsWith(results, Refusals(Always, Len(Always), current_state, "always"), {<<"guard", "on">>})
  <2>1. results \in Seq(ResultEntry)
    BY DEF TypeOK, ContextOK
  <2>2. Len(Always) = 0
    BY <1>1
  <2>3. Refusals(Always, 0, current_state, "always") = <<>>
    BY RefusalsGrow
  <2>4. QED BY <2>1, <2>2, <2>3, EndsEmpty
<1>3. Settled
  BY <1>1, <1>2 DEF Settled
<1>4. QED BY <1>1, <1>3, StaysSettled DEF RoundOK, AllRefused, Trying

LEMMA PassUnguardedTried ==
  ASSUME TypeOK, ControlOK, RoundOK, PassUnguarded
  PROVE  RoundOK'
<1>1. /\ pc = "guard" /\ ci <= Len(cands) /\ cands[ci].guard = None
      /\ UNCHANGED <<results, cands, ci, current_state, hook, exc, fired>>
      /\ pc' = "actions"
  BY DEF PassUnguarded, StartBatch, Candidate
<1>2. hook # "error" /\ Asked
  BY <1>1 DEF RoundOK, ControlOK, ErrorControl, Busy, Trying
<1>3. ci - 1 \in Nat /\ (ci - 1) + 1 = ci
  BY <1>1, CandidateType
<1>4. results \in Seq(ResultEntry)
  BY DEF TypeOK, ContextOK
<1>5. EndsWith(results, Acceptance(cands, ci, current_state, hook), {})
  BY <1>1, <1>2, <1>3, <1>4, ThenAccepted DEF Asked
<1>6. Accepted
  BY <1>5, EndsWeaken DEF Accepted
<1>7. Accepted'
  BY <1>1, <1>6 DEF Accepted
<1>8. QED BY <1>1, <1>7 DEF RoundOK, AllRefused, Trying

LEMMA EvalGuardTried ==
  ASSUME TypeOK, ControlOK, RoundOK, EvalGuard, TypeOK'
  PROVE  RoundOK'
<1>1. PICK answer \in BOOLEAN, e \in ResultEntry :
        /\ e = GuardResult(current_state, hook, cands[ci].guard, answer)
        /\ results' = Append(results, e)
        /\ IF answer
             THEN StartBatch("actions", Candidate.actions) /\ UNCHANGED ci
             ELSE ci' = ci + 1 /\ UNCHANGED <<pc, batch, n_before>>
  BY GuardRecords
<1>2. /\ pc = "guard" /\ ci <= Len(cands)
      /\ UNCHANGED <<config, cands, current_state, hook, exc, fired>>
  BY DEF EvalGuard, argVars
<1>3. hook # "error" /\ Asked /\ (hook = "on" => Settled)
  BY <1>2 DEF RoundOK, ControlOK, ErrorControl, Busy, Trying
<1>4. ci - 1 \in Nat /\ (ci - 1) + 1 = ci /\ (ci + 1) - 1 = ci /\ ci \in Nat
  BY <1>2, CandidateType
<1>5. results \in Seq(ResultEntry) /\ <<e.kind, e.source>> = <<"guard", hook>>
  BY <1>1 DEF GuardResult, TypeOK, ContextOK
<1>6. cands[ci].guard # None
  <2>1. cands[ci].guard = e.name /\ e.name \in STRING
    BY <1>1 DEF GuardResult, ResultEntry, ResultSources
  <2>2. QED BY <2>1, CallAssumption
<1>7. CASE answer
  <2>1. pc' = "actions" /\ ci' = ci
    BY <1>1, <1>7 DEF StartBatch
  <2>2. e = GuardResult(current_state, hook, cands[ci].guard, TRUE)
    BY <1>1, <1>7
  <2>3. EndsWith(Append(results, e), Acceptance(cands, ci, current_state, hook), {})
    BY <1>3, <1>4, <1>5, <1>6, <2>2, ThenAccepted DEF Asked
  <2>4. Accepted'
    BY <1>2, <1>1, <2>1, <2>3, EndsWeaken DEF Accepted
  <2>5. QED BY <2>1, <2>4 DEF RoundOK, AllRefused, Trying
<1>8. CASE ~answer
  <2>1. pc' = "guard" /\ ci' = ci + 1
    BY <1>1, <1>2, <1>8
  <2>2. e = GuardResult(current_state, hook, cands[ci].guard, FALSE)
    BY <1>1, <1>8
  <2>3. EndsWith(Append(results, e), Refusals(cands, ci, current_state, hook), {})
    BY <1>3, <1>4, <1>5, <2>2, OneMoreRefusal DEF Asked
  <2>4. Asked'
    BY <1>2, <1>4, <1>1, <2>1, <2>3 DEF Asked
  <2>5. ASSUME hook = "on" PROVE Settled'
    <3>1. Settled /\ Len(Always) \in Nat /\ UNCHANGED Always
      <4>1. Settled /\ UNCHANGED Always
        BY <1>2, <1>3, <2>5 DEF Always
      <4>2. Always \in Seq(TransitionConfig)
        BY <4>1, GraphType, StateConfigType DEF Settled, Always
      <4>3. QED BY <4>1, <4>2, LenProperties
    <3>2. EndsWith(Append(results, e), Refusals(Always, Len(Always), current_state, "always"),
                   {<<"guard", "on">>})
      BY <1>5, <2>5, <3>1, RefusalsStay DEF Settled
    <3>3. QED BY <1>2, <1>1, <3>1, <3>2 DEF Settled
  <2>6. QED BY <1>2, <2>1, <2>4, <2>5 DEF RoundOK, AllRefused, Trying
<1>9. QED BY <1>7, <1>8

LEMMA NoneFiredTried ==
  ASSUME TypeOK, ControlOK, RoundOK, NoneFired
  PROVE  RoundOK'
<1>1. /\ pc = "guard" /\ ci > Len(cands) /\ pc' = "close"
      /\ UNCHANGED <<config, results, cands, ci, current_state, hook, exc, fired>>
  BY DEF NoneFired, argVars, ctxVars, locals
<1>2. hook # "error" /\ Asked /\ (hook = "on" => Settled)
  BY <1>1 DEF RoundOK, ControlOK, ErrorControl, Busy, Trying
<1>3. ci = Len(cands) + 1
  BY <1>1, LenProperties DEF TypeOK, LocalsOK
<1>4. Asked' /\ (hook = "on" => Settled')
  BY <1>1, <1>2, StaysSettled DEF Asked
<1>5. QED BY <1>1, <1>3, <1>4 DEF RoundOK, AllRefused, Trying

LEMMA RunActionTried ==
  ASSUME TypeOK, ControlOK, RoundOK, RunAction
  PROVE  RoundOK'
<1>1. PICK e \in ResultEntry :
        results' = Append(results, e) /\ e.kind = "action" /\ e.source = Source
  BY ActionRecords
<1>2. /\ InBatch /\ results \in Seq(ResultEntry)
      /\ UNCHANGED <<pc, config, cands, ci, current_state, hook, exc, fired>>
  BY DEF RunAction, argVars, TypeOK, ContextOK
<1>3. ASSUME hook # "error", pc \in {"actions", "exit"}
      PROVE  Accepted'
  <2>1. Accepted /\ ci \in Nat /\ ci > 0
    BY <1>3 DEF RoundOK, TypeOK, LocalsOK
  <2>2. <<e.kind, e.source>> \in {<<"action", hook>>, <<"action", "exit">>}
    BY <1>1, <1>3 DEF Source
  <2>3. EndsWith(Append(results, e), Acceptance(cands, ci, current_state, hook),
                 {<<"action", hook>>, <<"action", "exit">>})
    BY <1>2, <2>1, <2>2, AcceptanceStays DEF Accepted
  <2>4. QED BY <1>1, <1>2, <2>3 DEF Accepted
<1>4. QED BY <1>2, <1>3 DEF RoundOK, AllRefused, Trying, InBatch

LEMMA CloseStepTried ==
  ASSUME TypeOK, ControlOK, RoundOK, CloseStep
  PROVE  RoundOK'
<1>1. /\ pc = "close" /\ UNCHANGED <<config, current_state, results>>
      /\ pc' \in {"catch", "always", "dispatch"}
      /\ pc' = "dispatch" => exc = None /\ ~fired
  BY DEF CloseStep, Cascades, argVars
<1>2. ASSUME pc' = "dispatch" PROVE Settled
  <2>1. AllRefused /\ hook \in {"on", "always"}
    BY <1>1, <1>2 DEF AllRefused, ControlOK, CandidateControl, TypeOK, LocalsOK, Hooks
  <2>2. CASE hook = "on"
    BY <2>1, <2>2 DEF RoundOK, Trying
  <2>3. CASE hook = "always"
    <3>1. /\ cands = Always /\ current_state \in DOMAIN config
          /\ \A i \in 1 .. Len(cands) : cands[i].guard # None
      BY <1>1, <2>1, <2>3
      DEF AllRefused, ControlOK, AlwaysControl, CandidateControl, AllRefusable, Reachable, Busy
    <3>2. Asked /\ ci - 1 = Len(Always) /\ DOMAIN Always = 1 .. Len(Always)
      BY <2>1, <2>3, <3>1, LenProperties DEF RoundOK, Trying, TypeOK, LocalsOK
    <3>3. EndsWith(results, Refusals(Always, Len(Always), current_state, "always"), {})
      BY <2>3, <3>1, <3>2 DEF Asked
    <3>4. QED BY <3>1, <3>2, <3>3, EndsWeaken DEF Settled
  <2>4. QED BY <2>1, <2>2, <2>3
<1>3. QED BY <1>1, <1>2, StaysSettled DEF RoundOK, AllRefused, Trying

(* The other steps neither ask a guard nor close a round. *)
LEMMA OthersTried ==
  ASSUME TypeOK, ControlOK, RoundOK,
         \/ AlwaysFails \/ Return \/ IgnoreSignal \/ GuardFails \/ ActionFails
         \/ TransitionActionsDone \/ ChangeState \/ EntryActionsDone
         \/ CloseFails \/ RouteToErrorState \/ Propagate \/ UNCHANGED vars
  PROVE  RoundOK'
<1>1. CASE AlwaysFails \/ CloseFails \/ Propagate
  BY <1>1 DEF AlwaysFails, CloseFails, Propagate, ThrowOutside, RoundOK, AllRefused, Trying
<1>2. CASE Return \/ IgnoreSignal
  <2>1. /\ pc' \in {"dispatch", "returned"}
        /\ UNCHANGED <<config, current_state, results>>
    BY <1>2 DEF Return, IgnoreSignal, argVars, ctxVars
  <2>2. Settled
    BY <1>2 DEF Return, IgnoreSignal, RoundOK
  <2>3. QED BY <2>1, <2>2, StaysSettled DEF RoundOK, AllRefused, Trying
<1>3. CASE GuardFails \/ ActionFails
  <2>1. PICK e \in Exceptions : Throw(e)
    BY <1>3, GuardThrows, ActionThrows
  <2>2. exc' # None /\ pc' \in {"close", "catch"}
    BY <2>1, WrappedType, CallAssumption DEF Throw
  <2>3. QED BY <2>2 DEF RoundOK, AllRefused, Trying
<1>4. CASE TransitionActionsDone
  <2>1. /\ UNCHANGED <<results, cands, ci, current_state, hook>>
        /\ pc = "actions" /\ pc' = "exit"
    BY <1>4 DEF TransitionActionsDone, StartBatch
  <2>2. hook # "error" => Accepted'
    BY <2>1 DEF RoundOK, Accepted
  <2>3. QED BY <2>1, <2>2 DEF RoundOK, AllRefused, Trying
<1>5. CASE ChangeState \/ EntryActionsDone
  BY <1>5 DEF ChangeState, EntryActionsDone, StartBatch, ControlOK, RoundOK, AllRefused,
     Trying, locals
<1>6. CASE RouteToErrorState
  BY <1>6 DEF RouteToErrorState, StartBatch, ThrowOutside, RoundOK, AllRefused, Trying
<1>7. CASE UNCHANGED vars
  BY <1>7 DEF vars, argVars, ctxVars, locals, RoundOK, AllRefused, Trying, Asked, Accepted,
     Settled, Always
<1>8. QED BY <1>1, <1>2, <1>3, <1>4, <1>5, <1>6, <1>7

LEMMA RoundStep == TypeOK /\ ControlOK /\ RoundOK /\ TypeOK' /\ [Next]_vars => RoundOK'
BY AlwaysRoundTried, ReceiveSignalTried, NothingAlwaysTried, PassUnguardedTried,
   EvalGuardTried, NoneFiredTried, RunActionTried, CloseStepTried, OthersTried
DEF Next, Done

LEMMA RoundInit == Fresh => RoundOK
BY DEF Fresh, RoundOK, AllRefused, Trying

LEMMA RoundsTell ==
  TypeOK /\ ControlOK /\ RoundOK => FirstPassingCandidate /\ SettledBetweenSignals
<1> SUFFICES ASSUME TypeOK, ControlOK, RoundOK
             PROVE  FirstPassingCandidate /\ SettledBetweenSignals
  OBVIOUS
<1>1. ASSUME pc \in {"actions", "exit"}, hook # "error"
      PROVE  (\A i \in 1 .. ci - 1 : cands[i].guard # None) /\ Accepted
  BY <1>1 DEF RoundOK, ControlOK, CandidateControl, Reachable
<1>2. FirstPassingCandidate
  BY <1>1 DEF FirstPassingCandidate, Accepted
<1>3. SettledBetweenSignals
  BY DEF RoundOK, Settled, SettledBetweenSignals
<1>4. QED BY <1>2, <1>3

(***************************************************************************)
(* At each point of a call the end of the results holds the answers of the *)
(* round under way, in the order the candidates stand.                     *)
(***************************************************************************)
THEOREM RoundsTried == Spec => [](TypeOK /\ ControlOK /\ RoundOK)
BY RoundInit, RoundStep, InitFresh, TypeAndControl, PTL DEF Spec

(* The transition taken is the first of its list that passes: every        *)
(* candidate before it was asked, in order, and refused.                   *)
THEOREM FirstCandidateTaken == Spec => []FirstPassingCandidate
BY RoundsTell, RoundsTried, PTL

(* Between two signals, and at the end of a call, every always transition  *)
(* of the state was asked since the state was entered, and refused.        *)
THEOREM CallsSettle == Spec => []SettledBetweenSignals
BY RoundsTell, RoundsTried, PTL

-----------------------------------------------------------------------------
(***************************************************************************)
(* The lifecycle: the strengthening.  While nothing has failed, the exit   *)
(* and entry actions in the results are those of the path taken, up to     *)
(* what the batch under way has yet to run.                                *)
(***************************************************************************)

LifecycleOK ==
  NothingFailed =>
    LET done == LifecycleResults(results)
        path == LifecycleOfPath(config, history)
    IN /\ Walk(config, history)
       /\ pc \notin {"exit", "entry"} => done = path
       /\ pc = "exit" => done \o Ran(current_state, "exit", batch)
                           = path \o Ran(current_state, "exit", config[current_state].exit)
       /\ pc = "entry" => done \o Ran(current_state, "entry", batch) = path

(* A call without a failure in its log propagates nothing. *)
LEMMA CleanRuns ==
  ASSUME TypeOK, FailureOK, NothingFailed
  PROVE  exc = None /\ pc \notin {"catch", "raised"}
<1>1. log # <<>> => Len(log) \in DOMAIN log
  BY LogNotEmpty, LenProperties DEF TypeOK, LocalsOK
<1>2. QED BY <1>1 DEF FailureOK, Pending, Failed, NothingFailed

(* A log without a failure had none before, and grew by a hop. *)
LEMMA CleanBefore ==
  ASSUME TypeOK, NEW x \in LogEntry, log' = Append(log, x), NothingFailed'
  PROVE  NothingFailed /\ x.what = "hop"
<1>1. /\ Len(log) \in Nat /\ DOMAIN log = 1 .. Len(log)
      /\ DOMAIN log' = 1 .. Len(log) + 1
      /\ \A i \in 1 .. Len(log) : log'[i] = log[i]
      /\ log'[Len(log) + 1] = x
  <2>1. log \in Seq(LogEntry)
    BY DEF TypeOK, LocalsOK
  <2>2. QED BY <2>1, Grown
<1>2. QED BY <1>1 DEF NothingFailed

(* A failure that is logged shows. *)
LEMMA FailureShows ==
  ASSUME TypeOK, NEW h \in Hooks, NEW e \in Exceptions,
         NEW phase \in {"step", "guard", "actions", "exit", "entry"},
         log' = Append(log, Failure(h, phase, e))
  PROVE  ~NothingFailed'
<1>1. Failure(h, phase, e) \in LogEntry /\ Failure(h, phase, e).what = "fail"
  BY FailureIsEntry DEF Failure
<1>2. QED BY <1>1, CleanBefore

(* Steps that fail have nothing to say of a clean call. *)
LEMMA FailingSteps ==
  ASSUME TypeOK, ControlOK, AlwaysFails \/ GuardFails \/ ActionFails \/ CloseFails
  PROVE  ~NothingFailed'
<1>1. "always" \in Hooks /\ {"Exception", "RuntimeError", "KeyError"} \subseteq Exceptions /\ hook \in Hooks
  BY DEF Hooks, Exceptions, TypeOK, LocalsOK
<1>2. CASE AlwaysFails \/ CloseFails
  <2>1. \E h \in Hooks, e \in Exceptions : log' = Append(log, Failure(h, "step", e))
    BY <1>1, <1>2 DEF AlwaysFails, CloseFails, ThrowOutside
  <2>2. QED BY <2>1, FailureShows
<1>3. CASE GuardFails \/ ActionFails
  <2>1. PICK e \in Exceptions : Throw(e)
    BY <1>3, GuardThrows, ActionThrows
  <2>2. log' = Append(log, Failure(hook, pc, e)) /\ pc \in {"guard", "actions", "exit", "entry"}
    BY <1>3, <2>1 DEF Throw, GuardFails, ActionFails, InBatch
  <2>3. QED BY <1>1, <2>2, FailureShows
<1>4. QED BY <1>2, <1>3

(* What one more result says of the lifecycle. *)
LEMMA ResultsMarked ==
  ASSUME TypeOK, NEW e \in ResultEntry
  PROVE  /\ LifecycleOfResult(e) \in Seq(Mark)
         /\ LifecycleResults(results) \in Seq(Mark)
         /\ LifecycleResults(Append(results, e)) = LifecycleResults(results) \o LifecycleOfResult(e)
<1>1. \A r \in ResultEntry : LifecycleOfResult(r) \in Seq(Mark)
  <2> SUFFICES ASSUME NEW r \in ResultEntry PROVE LifecycleOfResult(r) \in Seq(Mark)
    OBVIOUS
  <2>1. r.source \in {"exit", "entry"} => <<r.state, r.source, r.name>> \in Mark
    BY DEF ResultEntry, ResultSources, Mark
  <2>2. r.source \in {"exit", "entry"} => <<<<r.state, r.source, r.name>>>> \in Seq(Mark)
    BY <2>1, Singleton
  <2>3. QED BY <2>2, EmptySeq DEF LifecycleOfResult
<1>2. QED BY <1>1, ResultsLifecycleGrows DEF TypeOK, ContextOK

(* What the results say of it are marks. *)
LEMMA NowMarked ==
  ASSUME TypeOK
  PROVE  LifecycleResults(results) \in Seq(Mark)
<1>1. CASE results = <<>>
  <2>1. [i \in DOMAIN <<>> |-> LifecycleOfResult(<<>>[i])] = <<>>
    OBVIOUS
  <2>2. LifecycleResults(<<>>) = <<>>
    BY <2>1, FlattenEmpty DEF LifecycleResults
  <2>3. QED BY <1>1, <2>2, EmptySeq
<1>2. CASE results # <<>>
  <2>1. results[1] \in ResultEntry
    BY <1>2, LenProperties, EmptySeq, ElementOfSeq DEF TypeOK, ContextOK
  <2>2. QED BY <2>1, ResultsMarked
<1>3. QED BY <1>1, <1>2

(* One more hop, one more exit and entry. *)
LEMMA PathMarked ==
  ASSUME TypeOK, Walk(config, history), current_state \in DOMAIN config, NEW to \in DOMAIN config
  PROVE  /\ Walk(config, Append(history, to))
         /\ LifecycleOfPath(config, history) \in Seq(Mark)
         /\ LifecycleOfPath(config, Append(history, to))
              = LifecycleOfPath(config, history) \o LifecycleOf(config, current_state, to)
BY GraphType, PathLifecycleGrows DEF TypeOK, ContextOK

(* Steps between the batches. *)
LEMMA LifecycleAside ==
  ASSUME LifecycleOK, NothingFailed' => NothingFailed,
         UNCHANGED <<config, history, results>>,
         pc \notin {"exit", "entry"}, pc' \notin {"exit", "entry"}
  PROVE  LifecycleOK'
BY DEF LifecycleOK

(* Without a new entry in the log, nothing new has failed. *)
LEMMA SameLog ==
  ASSUME UNCHANGED log
  PROVE  NothingFailed' <=> NothingFailed
BY DEF NothingFailed

(* Between the batches the results and the path stand still. *)
LEMMA RoundsAside ==
  ASSUME TypeOK, ControlOK, FailureOK, LifecycleOK,
         \/ NothingAlways \/ AlwaysRound \/ Return \/ IgnoreSignal \/ ReceiveSignal
         \/ PassUnguarded \/ NoneFired \/ CloseStep \/ RouteToErrorState \/ Propagate
  PROVE  LifecycleOK'
<1>1. CASE RouteToErrorState \/ Propagate
  <2>1. pc = "catch"
    BY <1>1 DEF RouteToErrorState, Propagate
  <2>2. ~NothingFailed
    BY <2>1, CleanRuns
  <2>3. NothingFailed' => NothingFailed
    <3>1. UNCHANGED log \/ \E h \in Hooks, e \in Exceptions : log' = Append(log, Failure(h, "step", e))
      BY <1>1 DEF RouteToErrorState, Propagate, ThrowOutside, Hooks, Exceptions
    <3>2. QED BY <3>1, SameLog, FailureShows
  <2>4. QED BY <2>2, <2>3 DEF LifecycleOK
<1>2. CASE AlwaysRound \/ ReceiveSignal
  <2>1. /\ UNCHANGED <<config, history, results>>
        /\ pc \notin {"exit", "entry"} /\ pc' \notin {"exit", "entry"}
        /\ UNCHANGED log \/ \E h \in Hooks, e \in Exceptions : log' = Append(log, Failure(h, "step", e))
    BY <1>2 DEF AlwaysRound, ReceiveSignal, BeginRound, ThrowOutside, argVars, Hooks, Exceptions
  <2>2. NothingFailed' => NothingFailed
    BY <2>1, SameLog, FailureShows
  <2>3. QED BY <2>1, <2>2, LifecycleAside
<1>3. CASE NothingAlways \/ Return \/ IgnoreSignal \/ PassUnguarded \/ NoneFired \/ CloseStep
  <2>1. /\ UNCHANGED <<config, history, results, log>>
        /\ pc \notin {"exit", "entry"} /\ pc' \notin {"exit", "entry"}
    BY <1>3
    DEF NothingAlways, Return, IgnoreSignal, PassUnguarded, NoneFired, CloseStep, StartBatch,
        argVars, ctxVars
  <2>2. QED BY <2>1, SameLog, LifecycleAside
<1>4. QED BY <1>1, <1>2, <1>3

(* A guard's answer is no lifecycle action. *)
LEMMA GuardAside ==
  ASSUME TypeOK, ControlOK, LifecycleOK, EvalGuard
  PROVE  LifecycleOK'
<1>1. /\ UNCHANGED <<config, history, log>>
      /\ pc \notin {"exit", "entry"} /\ pc' \notin {"exit", "entry"}
  BY DEF EvalGuard, StartBatch, argVars
<1>2. PICK e \in ResultEntry : results' = Append(results, e) /\ e.source = hook
  <2>1. PICK answer \in BOOLEAN, e \in ResultEntry :
          /\ e = GuardResult(current_state, hook, cands[ci].guard, answer)
          /\ results' = Append(results, e)
    BY GuardRecords
  <2>2. e.source = hook
    BY <2>1 DEF GuardResult
  <2>3. QED BY <2>1, <2>2
<1>3. hook \notin {"exit", "entry"}
  BY DEF TypeOK, LocalsOK, Hooks
<1>4. LifecycleOfResult(e) = <<>>
  BY <1>2, <1>3 DEF LifecycleOfResult
<1>5. LifecycleResults(results') = LifecycleResults(results)
  BY <1>2, <1>4, ResultsMarked, ConcatEmptySeq
<1>6. QED BY <1>1, <1>5, SameLog DEF LifecycleOK

(* An action moves from the batch to the results. *)
LEMMA ActionMarked ==
  ASSUME TypeOK, ControlOK, LifecycleOK, RunAction
  PROVE  LifecycleOK'
<1>1. /\ UNCHANGED <<config, history, log, pc, current_state>>
      /\ InBatch /\ batch # <<>> /\ batch' = Tail(batch)
  BY DEF RunAction, argVars
<1>2. PICK e \in ResultEntry : /\ results' = Append(results, e)
                               /\ e.source = Source /\ e.state = current_state
                               /\ e.name = Head(batch)
  BY ActionRecords
<1> DEFINE done == LifecycleResults(results)
           path == LifecycleOfPath(config, history)
<1>3. done \in Seq(Mark) /\ LifecycleResults(results') = done \o LifecycleOfResult(e)
  BY <1>2, ResultsMarked
<1> HIDE DEF done
<1>4. CASE pc = "actions"
  <2>1. hook \notin {"exit", "entry"} /\ Source = hook
    BY <1>4 DEF TypeOK, LocalsOK, Hooks, Source
  <2>2. LifecycleOfResult(e) = <<>>
    BY <1>2, <2>1 DEF LifecycleOfResult
  <2>3. LifecycleResults(results') = done
    BY <1>3, <2>2, ConcatEmptySeq
  <2>4. QED BY <1>1, <1>4, <2>3, SameLog DEF LifecycleOK, done
<1>5. CASE pc \in {"exit", "entry"}
  <2> DEFINE m == <<<<current_state, pc, Head(batch)>>>>
  <2>1. LifecycleOfResult(e) = m
    BY <1>2, <1>5 DEF LifecycleOfResult, Source
  <2>2. /\ Ran(current_state, pc, batch) = m \o Ran(current_state, pc, Tail(batch))
        /\ Ran(current_state, pc, Tail(batch)) \in Seq(Mark)
    BY <1>1, <1>5, BatchType, RanType DEF TypeOK, LocalsOK, ContextOK
  <2>3. m \in Seq(Mark)
    BY <1>2, <2>1, ResultsMarked
  <2> HIDE DEF m
  <2>4. \A a, b, c \in Seq(Mark) : (a \o b) \o c = a \o (b \o c)
    BY ConcatAssociative
  <2>5. LifecycleResults(results') \o Ran(current_state, pc, batch')
          = done \o Ran(current_state, pc, batch)
    BY <1>1, <1>3, <2>1, <2>2, <2>3, <2>4
  <2>6. ASSUME NothingFailed' PROVE NothingFailed
    BY <1>1, <2>6, SameLog
  <2>7. QED BY <1>1, <1>5, <2>5, <2>6 DEF LifecycleOK, done
<1>6. QED BY <1>1, <1>4, <1>5 DEF InBatch

(* The exit batch is all that the path has not seen yet. *)
LEMMA ExitBegins ==
  ASSUME TypeOK, ControlOK, LifecycleOK, TransitionActionsDone
  PROVE  LifecycleOK'
<1>1. /\ UNCHANGED <<config, history, results, log, current_state>>
      /\ pc = "actions" /\ pc' = "exit" /\ batch' = config[current_state].exit
  BY DEF TransitionActionsDone, StartBatch, ExitActions, argVars
<1>2. QED BY <1>1, SameLog DEF LifecycleOK

(* A hop that is not into an unknown state. *)
LEMMA StateExited ==
  ASSUME TypeOK, ControlOK, ChangeState, NothingFailed'
  PROVE  NothingFailed /\ Target \in DOMAIN config /\ current_state \in DOMAIN config
<1>1. Hop \in LogEntry
  BY NextStateType DEF ChangeState, Hop, LogEntry, TypeOK, LocalsOK, ContextOK
<1>2. CASE Target \in DOMAIN config
  <2>1. NothingFailed
    BY <1>1, <1>2, CleanBefore DEF ChangeState
  <2>2. current_state \in DOMAIN config
    BY DEF ChangeState, ControlOK, OnControl, AlwaysControl, ErrorControl, Busy, TypeOK,
       LocalsOK, Hooks
  <2>3. QED BY <1>2, <2>1, <2>2
<1>3. CASE Target \notin DOMAIN config
  <2> DEFINE f == Failure(hook, "entry", "KeyError")
  <2>1. log' = log \o <<Hop, f>>
    BY <1>3 DEF ChangeState
  <2>2. f \in LogEntry /\ f.what = "fail"
    BY FailureIsEntry DEF Failure, LogEntry, Exceptions, TypeOK, LocalsOK
  <2> HIDE DEF f
  <2>3. log \in Seq(LogEntry) /\ <<Hop, f>> \in Seq(LogEntry) /\ Len(<<Hop, f>>) = 2
    BY <1>1, <2>2, Couple DEF TypeOK, LocalsOK
  <2>4. Len(log) + 2 \in DOMAIN log' /\ log'[Len(log) + 2] = f
    BY <2>1, <2>3, ConcatProperties, LenProperties
  <2>5. QED BY <2>2, <2>4 DEF NothingFailed
<1>4. QED BY <1>2, <1>3

(* The path grows; the entry batch is what the results now lack. *)
LEMMA EntryBegins ==
  ASSUME TypeOK, ControlOK, LifecycleOK, ChangeState
  PROVE  LifecycleOK'
<1> SUFFICES ASSUME NothingFailed' PROVE LifecycleOK'
  BY DEF LifecycleOK
<1>1. /\ UNCHANGED <<config, results>> /\ history' = Append(history, Target)
      /\ current_state' = Target /\ pc = "exit" /\ batch = <<>>
  BY DEF ChangeState, argVars
<1>2. NothingFailed /\ Target \in DOMAIN config /\ current_state \in DOMAIN config
  BY StateExited
<1>3. pc' = "entry" /\ batch' = config[Target].entry
  BY <1>2 DEF ChangeState, StartBatch
<1> DEFINE done == LifecycleResults(results)
           path == LifecycleOfPath(config, history)
           out == Ran(current_state, "exit", config[current_state].exit)
           in == Ran(Target, "entry", config[Target].entry)
<1>4. Walk(config, history) /\ done \o Ran(current_state, "exit", <<>>) = path \o out
  BY <1>1, <1>2 DEF LifecycleOK
<1>5. out \in Seq(Mark) /\ in \in Seq(Mark) /\ Ran(current_state, "exit", <<>>) = <<>>
  BY <1>2, GraphType, StateConfigType, RanType
<1>6. done \in Seq(Mark)
  BY NowMarked
<1>7. /\ Walk(config, history') /\ path \in Seq(Mark)
      /\ LifecycleOfPath(config, history') = path \o (out \o in)
  BY <1>1, <1>2, <1>4, PathMarked DEF LifecycleOf
<1> HIDE DEF done, path, out, in
<1>8. done = path \o out
  BY <1>4, <1>5, <1>6, ConcatEmptySeq
<1>9. \A a, b, c \in Seq(Mark) : (a \o b) \o c = a \o (b \o c)
  BY ConcatAssociative
<1>10. done \o in = path \o (out \o in)
  BY <1>5, <1>7, <1>8, <1>9
<1>11. LifecycleResults(results') = done /\ Ran(current_state', "entry", batch') = in
  BY <1>1, <1>3 DEF done, in
<1>12. QED BY <1>1, <1>3, <1>7, <1>10, <1>11 DEF LifecycleOK

(* With the entry batch run, results and path agree. *)
LEMMA EntryEnds ==
  ASSUME TypeOK, ControlOK, LifecycleOK, EntryActionsDone
  PROVE  LifecycleOK'
<1>1. /\ UNCHANGED <<config, history, results, log, current_state>>
      /\ pc = "entry" /\ pc' = "close" /\ batch = <<>>
  BY DEF EntryActionsDone, argVars
<1>2. Ran(current_state, "entry", <<>>) = <<>> /\ LifecycleResults(results) \in Seq(Mark)
  BY NowMarked, RanType, EmptySeq DEF TypeOK, ContextOK
<1>3. LifecycleResults(results) \o <<>> = LifecycleResults(results)
  BY <1>2, ConcatEmptySeq
<1>4. QED BY <1>1, <1>2, <1>3, SameLog DEF LifecycleOK

LEMMA LifecycleStutter ==
  ASSUME LifecycleOK, UNCHANGED vars
  PROVE  LifecycleOK'
BY SameLog DEF LifecycleOK, vars, argVars, ctxVars, locals

LEMMA LifecycleInit == Fresh => LifecycleOK
<1> SUFFICES ASSUME Fresh PROVE LifecycleOK
  OBVIOUS
<1>1. history = <<current_state>> /\ results = <<>> /\ pc = "always"
  BY DEF Fresh
<1>2. LifecycleOfPath(config, history) = <<>> /\ Walk(config, history)
  BY <1>1, NoHopNoLifecycle
<1>3. LifecycleResults(results) = <<>>
  <2>1. [i \in DOMAIN <<>> |-> LifecycleOfResult(<<>>[i])] = <<>>
    OBVIOUS
  <2>2. QED BY <1>1, <2>1, FlattenEmpty DEF LifecycleResults
<1>4. QED BY <1>1, <1>2, <1>3 DEF LifecycleOK

LEMMA LifecycleStep ==
  TypeOK /\ ControlOK /\ FailureOK /\ LifecycleOK /\ [Next]_vars => LifecycleOK'
<1>1. ASSUME ~NothingFailed' PROVE LifecycleOK'
  BY <1>1 DEF LifecycleOK
<1>2. QED
  BY <1>1, FailingSteps, RoundsAside, GuardAside, ActionMarked, ExitBegins, EntryBegins,
     EntryEnds, LifecycleStutter
  DEF Next, Done

LEMMA LifecycleTells == LifecycleOK => LifecycleFollowsHistory
BY DEF LifecycleOK, LifecycleFollowsHistory

(***************************************************************************)
(* In a call in which nothing failed, the exit and entry actions that ran  *)
(* are exactly those of the path, hop by hop, each in its own state.       *)
(***************************************************************************)
THEOREM LifecycleFollowed == Spec => []LifecycleFollowsHistory
BY LifecycleStep, LifecycleTells, LifecycleInit, InitFresh, FailuresAccounted, PTL DEF Spec

-----------------------------------------------------------------------------
(***************************************************************************)
(* The report of show_transitions.  A section holds the results of one     *)
(* state; a new result lengthens the section of its state and no other.    *)
(***************************************************************************)

OfState(state) == {e \in ResultEntry : e.state = state}

LEMMA EntriesGrow ==
  ASSUME NEW r \in Seq(ResultEntry), NEW e \in ResultEntry, NEW s
  PROVE  /\ EntriesIn(r, s) \in Seq(OfState(s))
         /\ e.state = s => EntriesIn(Append(r, e), s) = Append(EntriesIn(r, s), e)
         /\ e.state # s => EntriesIn(Append(r, e), s) = EntriesIn(r, s)
<1> DEFINE f == [x \in ResultEntry |-> EntryIn(x, s)]
<1>1. \A x \in ResultEntry : EntryIn(x, s) \in Seq(OfState(s))
  <2> SUFFICES ASSUME NEW x \in ResultEntry PROVE EntryIn(x, s) \in Seq(OfState(s))
    OBVIOUS
  <2>1. x.state = s => <<x>> \in Seq(OfState(s))
    BY Singleton DEF OfState
  <2>2. QED BY <2>1, EmptySeq DEF EntryIn
<1>2. Maps(f, ResultEntry, Seq(OfState(s))) /\ \A x \in ResultEntry : f[x] = EntryIn(x, s)
  BY <1>1 DEF Maps
<1>3. /\ \A i \in DOMAIN r : r[i] \in ResultEntry
      /\ \A i \in DOMAIN Append(r, e) : Append(r, e)[i] \in ResultEntry
  BY Grown, ElementOfSeq, LenProperties
<1> HIDE DEF f
<1>4. EntriesIn(r, s) = FlattenSeq(Mapped(f, r)) /\ EntriesIn(Append(r, e), s) = FlattenSeq(Mapped(f, Append(r, e)))
  BY <1>2, <1>3 DEF EntriesIn, Mapped
<1>5. /\ FlattenSeq(Mapped(f, r)) \in Seq(OfState(s))
      /\ FlattenSeq(Mapped(f, Append(r, e))) = FlattenSeq(Mapped(f, r)) \o f[e]
  BY <1>2, FlattenMap
<1>6. EntriesIn(r, s) \in Seq(OfState(s)) /\ EntriesIn(Append(r, e), s) = EntriesIn(r, s) \o EntryIn(e, s)
  BY <1>2, <1>4, <1>5
<1>7. e.state = s => EntriesIn(r, s) \o <<e>> = Append(EntriesIn(r, s), e)
  BY <1>6, AppendIsConcat DEF OfState
<1>8. EntriesIn(r, s) \o <<>> = EntriesIn(r, s)
  BY <1>6, ConcatEmptySeq
<1>9. QED BY <1>6, <1>7, <1>8 DEF EntryIn

LEMMA NoEntries == \A s : EntriesIn(<<>>, s) = <<>>
<1> TAKE s
<1>1. [i \in DOMAIN <<>> |-> EntryIn(<<>>[i], s)] = <<>>
  OBVIOUS
<1>2. QED BY <1>1, FlattenEmpty DEF EntriesIn

LEMMA EntriesType ==
  ASSUME NEW r \in Seq(ResultEntry), NEW s
  PROVE  EntriesIn(r, s) \in Seq(OfState(s)) /\ OfState(s) \subseteq ResultEntry
<1>1. CASE r = <<>>
  BY <1>1, NoEntries, EmptySeq DEF OfState
<1>2. CASE r # <<>>
  <2>1. r[1] \in ResultEntry
    BY <1>2, LenProperties, EmptySeq, ElementOfSeq
  <2>2. QED BY <2>1, EntriesGrow DEF OfState
<1>3. QED BY <1>1, <1>2

(* A state no result was recorded in has an empty section. *)
LEMMA EntriesElsewhere ==
  ASSUME NEW r \in Seq(ResultEntry), NEW s, \A i \in DOMAIN r : r[i].state # s
  PROVE  EntriesIn(r, s) = <<>>
<1> DEFINE Other == {e \in ResultEntry : e.state # s}
           T == {q \in Seq(Other) : EntriesIn(q, s) = <<>>}
<1>1. <<>> \in T
  BY NoEntries, EmptySeq
<1>2. ASSUME NEW q \in Seq(Other), NEW e \in Other, q \in T
      PROVE  Append(q, e) \in T
  <2>1. q \in Seq(ResultEntry) /\ Append(q, e) \in Seq(Other)
    BY AppendProperties
  <2>2. EntriesIn(Append(q, e), s) = EntriesIn(q, s)
    BY <2>1, EntriesGrow
  <2>3. QED BY <1>2, <2>1, <2>2
<1>3. r \in Seq(Other)
  <2>1. /\ Len(r) \in Nat /\ DOMAIN r = 1 .. Len(r)
        /\ \A i \in 1 .. Len(r) : r[i] \in Other
    BY LenProperties, ElementOfSeq
  <2>2. r \in [1 .. Len(r) -> Other]
    BY <2>1
  <2>3. QED BY <2>1, <2>2, FunctionIsSeq
<1> HIDE DEF T
<1>4. Seq(Other) \subseteq T
  BY <1>1, <1>2, SeqInduct
<1>5. QED BY <1>3, <1>4 DEF T

(* The sections of a path, one after the other. *)
Sections(path, r) == FlattenSeq([i \in DOMAIN path |-> EntriesIn(r, path[i])])

LEMMA SectionsGrow ==
  ASSUME NEW r \in Seq(ResultEntry), NEW S, NEW path \in Seq(S), NEW s \in S
  PROVE  /\ Sections(path, r) \in Seq(ResultEntry)
         /\ Sections(Append(path, s), r) = Sections(path, r) \o EntriesIn(r, s)
<1> DEFINE f == [x \in S |-> EntriesIn(r, x)]
<1>1. \A x \in S : EntriesIn(r, x) \in Seq(ResultEntry)
  <2> TAKE x \in S
  <2>1. EntriesIn(r, x) \in Seq(OfState(x)) /\ OfState(x) \subseteq ResultEntry
    BY EntriesType
  <2>2. QED BY <2>1
<1>2. Maps(f, S, Seq(ResultEntry)) /\ \A x \in S : f[x] = EntriesIn(r, x)
  BY <1>1 DEF Maps
<1>3. /\ \A i \in DOMAIN path : path[i] \in S
      /\ \A i \in DOMAIN Append(path, s) : Append(path, s)[i] \in S
  BY Grown, ElementOfSeq, LenProperties
<1> HIDE DEF f
<1>4. /\ Sections(path, r) = FlattenSeq(Mapped(f, path))
      /\ Sections(Append(path, s), r) = FlattenSeq(Mapped(f, Append(path, s)))
  BY <1>2, <1>3 DEF Sections, Mapped
<1>5. /\ FlattenSeq(Mapped(f, path)) \in Seq(ResultEntry)
      /\ FlattenSeq(Mapped(f, Append(path, s))) = FlattenSeq(Mapped(f, path)) \o f[s]
  BY <1>2, FlattenMap
<1>6. QED BY <1>2, <1>4, <1>5

(* A result of the last state of the path lengthens the last section. *)
LEMMA SectionRecorded ==
  ASSUME NEW r \in Seq(ResultEntry), NEW e \in ResultEntry,
         NEW S, NEW path \in Seq(S), NEW s \in S, e.state = s,
         \A i \in DOMAIN path : path[i] # s
  PROVE  Sections(Append(path, s), Append(r, e)) = Append(Sections(Append(path, s), r), e)
<1>1. Append(r, e) \in Seq(ResultEntry)
  BY AppendProperties
<1>2. Sections(path, Append(r, e)) = Sections(path, r)
  <2>1. \A i \in DOMAIN path : EntriesIn(Append(r, e), path[i]) = EntriesIn(r, path[i])
    BY EntriesGrow
  <2>2. [i \in DOMAIN path |-> EntriesIn(Append(r, e), path[i])]
          = [i \in DOMAIN path |-> EntriesIn(r, path[i])]
    BY <2>1
  <2>3. QED BY <2>2 DEF Sections
<1>3. /\ Sections(Append(path, s), r) = Sections(path, r) \o EntriesIn(r, s)
      /\ Sections(Append(path, s), Append(r, e)) = Sections(path, Append(r, e)) \o EntriesIn(Append(r, e), s)
      /\ Sections(path, r) \in Seq(ResultEntry)
  BY <1>1, SectionsGrow
<1>4. EntriesIn(Append(r, e), s) = Append(EntriesIn(r, s), e)
  BY EntriesGrow
<1>5. EntriesIn(r, s) \in Seq(ResultEntry)
  <2>1. EntriesIn(r, s) \in Seq(OfState(s)) /\ OfState(s) \subseteq ResultEntry
    BY EntriesType
  <2>2. QED BY <2>1
<1>6. Sections(path, r) \o Append(EntriesIn(r, s), e) = Append(Sections(path, r) \o EntriesIn(r, s), e)
  BY <1>3, <1>5, ConcatAppend
<1>7. QED BY <1>2, <1>3, <1>4, <1>6

(* Each of the first n rows carries its hook where the hook changes.       *)
Labelled(rows, src, n) ==
  \A k \in 1 .. n :
    /\ src[k] # None
    /\ rows[k].label = IF k = 1 \/ src[k] # src[k - 1] THEN src[k] ELSE None

(* The hook printed last is the hook of the row. *)
LEMMA LabelsTell ==
  ASSUME NEW n \in Nat, NEW src, NEW rows, Labelled(rows, src, n), NEW k \in 1 .. n
  PROVE  SourceRead(rows, k) = src[k]
<1> USE DEF Labelled
<1> DEFINE Final(j, m) == rows[j].label # None /\ \A i \in j + 1 .. m : rows[i].label = None
           T == {m \in Nat : m \in 1 .. n =>
                   /\ \E j \in 1 .. m : Final(j, m)
                   /\ \A j \in 1 .. m : Final(j, m) => src[j] = src[m]}
<1>1. 0 \in T
  OBVIOUS
<1>2. ASSUME NEW m \in Nat, m \in T PROVE m + 1 \in T
  <2> SUFFICES ASSUME m + 1 \in 1 .. n
               PROVE  /\ \E j \in 1 .. m + 1 : Final(j, m + 1)
                      /\ \A j \in 1 .. m + 1 : Final(j, m + 1) => src[j] = src[m + 1]
    OBVIOUS
  <2>1. CASE rows[m + 1].label # None
    <3>1. Final(m + 1, m + 1)
      BY <2>1
    <3>2. ASSUME NEW j \in 1 .. m + 1, Final(j, m + 1) PROVE j = m + 1
      <4>1. CASE j = m + 1
        BY <4>1
      <4>2. CASE j # m + 1
        <5>1. m + 1 \in j + 1 .. m + 1
          BY <4>2
        <5>2. QED BY <2>1, <3>2, <5>1
      <4>3. QED BY <4>1, <4>2
    <3>3. m + 1 \in 1 .. m + 1
      OBVIOUS
    <3> HIDE DEF Final
    <3>4. QED BY <3>1, <3>2, <3>3
  <2>2. CASE rows[m + 1].label = None
    <3>1. m # 0 /\ src[m + 1] = src[m]
      <4>1. ~(m + 1 = 1 \/ src[m + 1] # src[(m + 1) - 1])
        BY <2>2
      <4>2. (m + 1) - 1 = m
        OBVIOUS
      <4>3. QED BY <4>1, <4>2
    <3>2. m \in 1 .. n
      BY <3>1
    <3>3. /\ \E j \in 1 .. m : Final(j, m)
          /\ \A j \in 1 .. m : Final(j, m) => src[j] = src[m]
      BY <1>2, <3>2
    <3>4. \A j \in 1 .. m : Final(j, m) <=> Final(j, m + 1)
      BY <2>2
    <3>5. \A j \in 1 .. m + 1 : Final(j, m + 1) => j \in 1 .. m
      BY <2>2
    <3>6. \A j \in 1 .. m : j \in 1 .. m + 1
      OBVIOUS
    <3> HIDE DEF Final
    <3>7. QED BY <3>1, <3>3, <3>4, <3>5, <3>6
  <2>3. QED BY <2>1, <2>2
<1> HIDE DEF T
<1>3. k \in T
  BY <1>1, <1>2, Induct
<1>4. /\ \E j \in 1 .. k : Final(j, k)
      /\ \A j \in 1 .. k : Final(j, k) => src[j] = src[k]
  BY <1>3 DEF T
<1> DEFINE c == CHOOSE j \in 1 .. k : Final(j, k)
<1>5. c \in 1 .. k /\ Final(c, k)
  <2> HIDE DEF Final
  <2>1. QED BY <1>4
<1>6. src[c] = src[k] /\ rows[c].label # None
  BY <1>4, <1>5
<1>7. rows[c].label = src[c]
  <2> HIDE DEF c, Final
  <2>1. c \in 1 .. n
    BY <1>5
  <2>2. QED BY <1>6, <2>1
<1>8. SourceRead(rows, k) = rows[c].label
  BY DEF SourceRead
<1> HIDE DEF c
<1>9. QED BY <1>6, <1>7, <1>8

(* A section is read back as the results of its state. *)
LEMMA SectionRead ==
  ASSUME NEW r \in Seq(ResultEntry), NEW s, NEW to
  PROVE  ReadSection([state |-> s, to |-> to, rows |-> StateSection(s, r)]) = EntriesIn(r, s)
<1> DEFINE q    == EntriesIn(r, s)
           n    == Len(q)
           rows == StateSection(s, r)
           src  == [k \in 1 .. n |-> q[k].source]
<1>1. q \in Seq(OfState(s)) /\ OfState(s) \subseteq ResultEntry
  BY EntriesType
<1>2. n \in Nat /\ DOMAIN q = 1 .. n /\ q = [k \in 1 .. n |-> q[k]]
  <2> HIDE DEF q
  <2>1. QED BY <1>1, LenProperties
<1>3. \A k \in 1 .. n : q[k] \in ResultEntry /\ q[k].state = s
  <2> HIDE DEF q
  <2>1. QED BY <1>1, <1>2, ElementOfSeq DEF OfState
<1>4. /\ DOMAIN rows = 1 .. n
      /\ \A k \in 1 .. n :
           rows[k] = Row(IF k = 1 \/ q[k].source # q[k - 1].source THEN q[k].source ELSE None, q[k])
  BY <1>2 DEF StateSection
<1> HIDE DEF q, n, rows
<1>5. \A k \in 1 .. n : src[k] = q[k].source /\ src[k] # None
  <2> TAKE k \in 1 .. n
  <2>1. q[k].source \in ResultSources
    BY <1>3 DEF ResultEntry
  <2>2. QED BY <2>1, CallAssumption
<1>6. \A k \in 1 .. n :
        rows[k].label = IF k = 1 \/ src[k] # src[k - 1] THEN src[k] ELSE None
  <2> SUFFICES ASSUME NEW k \in 1 .. n
               PROVE  rows[k].label = IF k = 1 \/ src[k] # src[k - 1] THEN src[k] ELSE None
    OBVIOUS
  <2>1. k # 1 => k - 1 \in 1 .. n
    BY <1>2
  <2>2. rows[k].label = IF k = 1 \/ q[k].source # q[k - 1].source THEN q[k].source ELSE None
    BY <1>4 DEF Row
  <2>3. QED BY <1>5, <2>1, <2>2
<1>7. \A k \in 1 .. n : SourceRead(rows, k) = src[k]
  <2> HIDE DEF src
  <2>1. n \in Nat /\ Labelled(rows, src, n)
    BY <1>2, <1>5, <1>6 DEF Labelled
  <2>2. QED BY <2>1, LabelsTell
<1>8. \A k \in 1 .. n :
        [state |-> s, source |-> SourceRead(rows, k), kind |-> rows[k].kind,
         name |-> rows[k].name, value |-> rows[k].value] = q[k]
  BY <1>3, <1>4, <1>5, <1>7 DEF Row, ResultEntry
<1>9. ReadSection([state |-> s, to |-> to, rows |-> rows])
        = [k \in 1 .. n |-> [state |-> s, source |-> SourceRead(rows, k), kind |-> rows[k].kind,
                             name |-> rows[k].name, value |-> rows[k].value]]
  BY <1>4 DEF ReadSection
<1>10. ReadSection([state |-> s, to |-> to, rows |-> rows]) = [k \in 1 .. n |-> q[k]]
  BY <1>8, <1>9
<1>11. QED BY <1>2, <1>10 DEF q, rows

LEMMA ReportRead ==
  ASSUME NEW r \in Seq(ResultEntry), NEW path
  PROVE  ReadReport(Report(path, r)) = Sections(path, r)
<1> DEFINE Follows(i) == IF i < Len(path) THEN path[i + 1] ELSE None
           report == Report(path, r)
<1>1. DOMAIN report = DOMAIN path
  BY DEF Report
<1>2. \A i \in DOMAIN path : ReadSection(report[i]) = EntriesIn(r, path[i])
  <2> TAKE i \in DOMAIN path
  <2>1. report[i] = [state |-> path[i], to |-> Follows(i), rows |-> StateSection(path[i], r)]
    BY DEF Report
  <2> HIDE DEF Follows, report
  <2>2. QED BY <2>1, SectionRead
<1> HIDE DEF report
<1>3. [i \in DOMAIN report |-> ReadSection(report[i])] = [i \in DOMAIN path |-> EntriesIn(r, path[i])]
  BY <1>1, <1>2
<1>4. QED BY <1>3 DEF ReadReport, Sections, report

-----------------------------------------------------------------------------
(* What the report tells is kept at every step: a result belongs to a state *)
(* of the path, and until the path returns to a state its sections, one     *)
(* after the other, are the results.  TraceTellsTheCall alone speaks of     *)
(* calls that have ended.                                                   *)
TraceOK ==
  /\ \A i \in DOMAIN results : \E j \in DOMAIN history : results[i].state = history[j]
  /\ IsInjective(history) => Sections(history, results) = results

(* The path is that of the states before the current one, and the current. *)
LEMMA PathEnds ==
  ASSUME TypeOK
  PROVE  \E path \in Seq(STRING) :
           /\ history = Append(path, current_state)
           /\ IsInjective(history) => \A i \in DOMAIN path : path[i] # current_state
<1>1. history \in Seq(STRING) /\ Len(history) > 0 /\ current_state = history[Len(history)]
  BY DEF TypeOK, ContextOK
<1>2. history # <<>>
  BY <1>1
<1>3. PICK path \in Seq(STRING), last \in STRING : history = Append(path, last)
  BY <1>1, <1>2, SequenceEmptyOrAppend
<1>4. /\ Len(path) \in Nat /\ DOMAIN path = 1 .. Len(path)
      /\ Len(history) = Len(path) + 1 /\ DOMAIN history = 1 .. Len(path) + 1
      /\ \A i \in 1 .. Len(path) : history[i] = path[i]
      /\ history[Len(path) + 1] = last
  BY <1>3, AppendProperties, LenProperties
<1>5. last = current_state
  BY <1>1, <1>4
<1>6. ASSUME IsInjective(history), NEW i \in DOMAIN path PROVE path[i] # current_state
  <2>1. /\ i \in DOMAIN history /\ Len(path) + 1 \in DOMAIN history
        /\ i # Len(path) + 1 /\ history[i] = path[i]
    BY <1>4
  <2>2. QED BY <1>1, <1>4, <1>6, <2>1 DEF IsInjective
<1>7. QED BY <1>3, <1>5, <1>6

(* A result is recorded in the current state. *)
LEMMA ResultTold ==
  ASSUME TypeOK, TraceOK, NEW e \in ResultEntry, e.state = current_state,
         results' = Append(results, e), history' = history
  PROVE  TraceOK'
<1>1. PICK path \in Seq(STRING) :
        /\ history = Append(path, current_state)
        /\ IsInjective(history) => \A i \in DOMAIN path : path[i] # current_state
  BY PathEnds
<1>2. /\ results \in Seq(ResultEntry) /\ current_state \in STRING
      /\ Len(history) \in DOMAIN history /\ current_state = history[Len(history)]
  BY LenProperties DEF TypeOK, ContextOK
<1>3. \A i \in DOMAIN results' : \E j \in DOMAIN history' : results'[i].state = history'[j]
  <2> TAKE i \in DOMAIN results'
  <2>1. /\ Len(results) \in Nat /\ DOMAIN results = 1 .. Len(results)
        /\ DOMAIN results' = 1 .. Len(results) + 1
        /\ \A k \in 1 .. Len(results) : results'[k] = results[k]
        /\ results'[Len(results) + 1] = e
    BY <1>2, Grown
  <2>2. CASE i = Len(results) + 1
    BY <1>2, <2>1, <2>2
  <2>3. CASE i # Len(results) + 1
    <3>1. i \in DOMAIN results /\ results'[i] = results[i]
      BY <2>1, <2>3
    <3>2. QED BY <3>1 DEF TraceOK
  <2>4. QED BY <2>2, <2>3
<1>4. ASSUME IsInjective(history) PROVE Sections(history, results') = results'
  <2>1. Sections(Append(path, current_state), Append(results, e))
          = Append(Sections(Append(path, current_state), results), e)
    BY <1>1, <1>2, <1>4, SectionRecorded
  <2>2. Sections(history, results) = results
    BY <1>4 DEF TraceOK
  <2>3. QED BY <1>1, <2>1, <2>2
<1>5. QED BY <1>3, <1>4 DEF TraceOK

(* A longer path keeps the states of a shorter one, and is without a return *)
(* only if the shorter one is and the state they differ by is new.          *)
Lengthens(longer, path, to) ==
  /\ \A i \in DOMAIN path : \E j \in DOMAIN longer : longer[j] = path[i]
  /\ IsInjective(longer) => IsInjective(path) /\ \A i \in DOMAIN path : path[i] # to

LEMMA LongerPath ==
  ASSUME NEW S, NEW path \in Seq(S), NEW to \in S
  PROVE  Lengthens(Append(path, to), path, to)
<1>1. /\ Len(path) \in Nat /\ DOMAIN path = 1 .. Len(path)
      /\ DOMAIN Append(path, to) = 1 .. Len(path) + 1
      /\ \A i \in 1 .. Len(path) : Append(path, to)[i] = path[i]
      /\ Append(path, to)[Len(path) + 1] = to
  BY Grown
<1>2. /\ \A i \in DOMAIN path : /\ i \in DOMAIN Append(path, to)
                               /\ Append(path, to)[i] = path[i]
                               /\ i # Len(path) + 1
      /\ Len(path) + 1 \in DOMAIN Append(path, to)
  BY <1>1
<1>3. QED BY <1>1, <1>2 DEF IsInjective, Lengthens

(* The path goes on, to a state no result was recorded in. *)
LEMMA StateTold ==
  ASSUME TypeOK, TraceOK, NEW to \in STRING,
         history' = Append(history, to), results' = results
  PROVE  TraceOK'
<1>1. history \in Seq(STRING) /\ results \in Seq(ResultEntry)
  BY DEF TypeOK, ContextOK
<1>2. Lengthens(Append(history, to), history, to)
  BY <1>1, LongerPath
<1>3. \A i \in DOMAIN results' : \E j \in DOMAIN history' : results'[i].state = history'[j]
  BY <1>2 DEF TraceOK, Lengthens
<1>4. ASSUME IsInjective(history') PROVE Sections(history', results') = results'
  <2>1. IsInjective(history) /\ \A i \in DOMAIN history : history[i] # to
    BY <1>2, <1>4 DEF Lengthens
  <2>2. \A i \in DOMAIN results : results[i].state # to
    BY <2>1 DEF TraceOK
  <2>3. EntriesIn(results, to) = <<>>
    BY <1>1, <2>2, EntriesElsewhere
  <2>4. Sections(history, results) = results
    BY <2>1 DEF TraceOK
  <2>5. Sections(Append(history, to), results) = Sections(history, results) \o EntriesIn(results, to)
    BY <1>1, SectionsGrow
  <2>6. results \o <<>> = results
    BY <1>1, ConcatEmptySeq
  <2>7. QED BY <2>3, <2>4, <2>5, <2>6
<1>5. QED BY <1>3, <1>4 DEF TraceOK

LEMMA TraceInit == Fresh => TraceOK
<1> SUFFICES ASSUME Fresh PROVE TraceOK
  OBVIOUS
<1>1. results = <<>> /\ history = <<current_state>>
  BY DEF Fresh
<1>2. results \in Seq(ResultEntry) /\ DOMAIN results = {}
  BY <1>1, EmptySeq
<1>3. [i \in DOMAIN history |-> EntriesIn(results, history[i])] = <<<<>>>>
  BY <1>1, NoEntries
<1>4. FlattenSeq(<<<<>>>>) = <<>>
  <2>1. <<>> \in Seq(ResultEntry) /\ <<<<>>>> = Append(<<>>, <<>>) /\ <<>> \in Seq(Seq(ResultEntry))
    BY EmptySeq
  <2>2. FlattenSeq(Append(<<>>, <<>>)) = FlattenSeq(<<>>) \o <<>>
    BY <2>1, FlattenAppend
  <2>3. QED BY <2>1, <2>2, FlattenEmpty
<1>5. QED BY <1>1, <1>2, <1>3, <1>4 DEF TraceOK, Sections

LEMMA TraceStep ==
  ASSUME TypeOK, ControlOK, TraceOK, [Next]_vars
  PROVE  TraceOK'
<1>1. ASSUME UNCHANGED <<results, history>> PROVE TraceOK'
  BY <1>1 DEF TraceOK
<1>2. CASE EvalGuard
  <2>1. PICK answer \in BOOLEAN, e \in ResultEntry :
          /\ e = GuardResult(current_state, hook, cands[ci].guard, answer)
          /\ results' = Append(results, e)
    BY <1>2, GuardRecords
  <2>2. e.state = current_state
    BY <2>1 DEF GuardResult
  <2>3. history' = history
    BY <1>2 DEF EvalGuard
  <2>4. QED BY <2>1, <2>2, <2>3, ResultTold
<1>3. CASE RunAction
  <2>1. PICK e \in ResultEntry : results' = Append(results, e) /\ e.state = current_state
    BY <1>3, ActionRecords
  <2>2. history' = history
    BY <1>3 DEF RunAction
  <2>3. QED BY <2>1, <2>2, ResultTold
<1>4. CASE ChangeState
  <2>1. Target \in STRING
    BY <1>4, NextStateType DEF ChangeState
  <2>2. history' = Append(history, Target) /\ results' = results
    BY <1>4 DEF ChangeState
  <2>3. QED BY <2>1, <2>2, StateTold
<1>5. CASE AlwaysFails \/ NothingAlways \/ AlwaysRound \/ Return \/ IgnoreSignal \/ ReceiveSignal
  BY <1>1, <1>5 DEF AlwaysFails, NothingAlways, AlwaysRound, Return, IgnoreSignal, ReceiveSignal, ctxVars
<1>6. CASE PassUnguarded \/ GuardFails \/ NoneFired \/ ActionFails
  BY <1>1, <1>6 DEF PassUnguarded, GuardFails, NoneFired, ActionFails, ctxVars
<1>7. CASE TransitionActionsDone \/ EntryActionsDone \/ CloseStep \/ CloseFails
  BY <1>1, <1>7 DEF TransitionActionsDone, EntryActionsDone, CloseStep, CloseFails, ctxVars
<1>8. CASE RouteToErrorState \/ Propagate \/ Done \/ UNCHANGED vars
  BY <1>1, <1>8 DEF RouteToErrorState, Propagate, Done, vars, ctxVars
<1>9. QED BY <1>2, <1>3, <1>4, <1>5, <1>6, <1>7, <1>8 DEF Next

LEMMA ReportTells == TraceOK /\ TypeOK => TraceTellsTheCall
<1> SUFFICES ASSUME TraceOK, TypeOK, IsInjective(history)
             PROVE  ReadReport(Report(history, results)) = results
  BY DEF TraceTellsTheCall
<1>1. results \in Seq(ResultEntry)
  BY DEF TypeOK, ContextOK
<1>2. ReadReport(Report(history, results)) = Sections(history, results)
  BY <1>1, ReportRead
<1>3. QED BY <1>2 DEF TraceOK

(* The report of a call is read back as its results: for every graph and   *)
(* every callback, the sections of show_transitions lose, invent and       *)
(* reorder nothing as long as the path does not come back to a state.      *)
THEOREM TraceTells == Spec => []TraceTellsTheCall
BY ReportTells, TraceInit, TraceStep, InitFresh, TypeAndControl, PTL DEF Spec

-----------------------------------------------------------------------------
(***************************************************************************)
(* The path.                                                               *)
(***************************************************************************)

(* The validator takes an error state named "" for none, the engine for a  *)
(* state.                                                                  *)
ErrorStatesNamed == \A s \in DOMAIN config : config[s].error_state # ""

(* No step of a call changes the graph it was made on. *)
LEMMA StepKeepsGraph == Next => config' = config
<1> SUFFICES ASSUME Next PROVE config' = config
  OBVIOUS
<1>1. UNCHANGED argVars
  BY DEF Next, AlwaysFails, NothingAlways, AlwaysRound, Return, IgnoreSignal,
         ReceiveSignal, PassUnguarded, EvalGuard, GuardFails, NoneFired, RunAction,
         ActionFails, TransitionActionsDone, ChangeState, EntryActionsDone, CloseStep,
         CloseFails, RouteToErrorState, Propagate, Done, BeginRound, Throw,
         ThrowOutside, StartBatch, vars
<1>2. QED BY <1>1 DEF argVars

(* A call that starts in a state of its graph never leaves the graph:      *)
(* every state it passes through, recoveries included, is one of those     *)
(* _validate_machine knew.                                                 *)
PathOnGraph ==
  ErrorStatesNamed /\ history[1] \in DOMAIN config =>
    \A i \in DOMAIN history : history[i] \in DOMAIN config

LEMMA TargetOnGraph ==
  ASSUME TypeOK, ControlOK, ErrorStatesNamed, pc = "exit"
  PROVE  Target \in DOMAIN config
<1>0. BadTargets(config) = {}
  BY ConfigAssumption DEF TypeOK, ArgsOK
<1>1. CASE hook = "error"
  <2>1. dispatched \in DOMAIN config /\ RecoveryState # None
    BY <1>1 DEF ControlOK, ErrorControl, Busy
  <2>2. config[dispatched].error_state \in DOMAIN config
    BY <1>0, <2>1, CheckedErrorStates DEF ErrorStatesNamed, RecoveryState
  <2>3. QED BY <1>1, <2>2 DEF Target, RecoveryState
<1>2. CASE hook # "error"
  <2>1. ci <= Len(cands)
    BY <1>2 DEF ControlOK, CandidateControl
  <2>2. PICK s \in DOMAIN config : Candidate \in AllCandidates(config, s)
    BY <1>2, <2>1, CandidateOfGraph
  <2>3. Candidate.target \in DOMAIN config
    BY <1>0, <2>2, CheckedTargets
  <2>4. QED BY <1>2, <2>3 DEF Target
<1>3. QED BY <1>1, <1>2

LEMMA PathBegins == Fresh => PathOnGraph
<1> SUFFICES ASSUME Fresh PROVE PathOnGraph
  OBVIOUS
<1>1. DOMAIN history = {1}
  BY DEF Fresh
<1>2. QED BY <1>1 DEF PathOnGraph

(* The path only grows, by the target of a hop. *)
LEMMA PathGrows ==
  ASSUME TypeOK, ControlOK, [Next]_vars
  PROVE  \/ history' = history
         \/ /\ pc = "exit" /\ history' = Append(history, Target)
            /\ history \in Seq(STRING) /\ Len(history) > 0 /\ Target \in STRING
<1>1. CASE ChangeState
  BY <1>1, NextStateType DEF ChangeState, TypeOK, ContextOK
<1>2. CASE AlwaysFails \/ NothingAlways \/ AlwaysRound \/ Return \/ IgnoreSignal \/ ReceiveSignal
  BY <1>2 DEF AlwaysFails, NothingAlways, AlwaysRound, Return, IgnoreSignal, ReceiveSignal, ctxVars
<1>3. CASE PassUnguarded \/ EvalGuard \/ GuardFails \/ NoneFired \/ RunAction \/ ActionFails
  BY <1>3 DEF PassUnguarded, EvalGuard, GuardFails, NoneFired, RunAction, ActionFails, ctxVars
<1>4. CASE TransitionActionsDone \/ EntryActionsDone \/ CloseStep \/ CloseFails
  BY <1>4 DEF TransitionActionsDone, EntryActionsDone, CloseStep, CloseFails, ctxVars
<1>5. CASE RouteToErrorState \/ Propagate \/ Done \/ UNCHANGED vars
  BY <1>5 DEF RouteToErrorState, Propagate, Done, vars, ctxVars
<1>6. QED BY <1>1, <1>2, <1>3, <1>4, <1>5 DEF Next

LEMMA PathStarts == TypeOK /\ ControlOK /\ [Next]_vars => history'[1] = history[1]
BY PathGrows, PathLengthens

LEMMA PathStep == TypeOK /\ ControlOK /\ PathOnGraph /\ [Next]_vars => PathOnGraph'
<1> SUFFICES ASSUME TypeOK, ControlOK, PathOnGraph, [Next]_vars PROVE PathOnGraph'
  OBVIOUS
<1>1. config' = config
  BY StepKeepsGraph DEF vars, argVars
<1>2. CASE history' = history
  BY <1>1, <1>2 DEF PathOnGraph, ErrorStatesNamed
<1>3. CASE history' # history
  <2>1. /\ pc = "exit" /\ history' = Append(history, Target)
        /\ history \in Seq(STRING) /\ Len(history) > 0 /\ Target \in STRING
    BY <1>3, PathGrows
  <2>2. ErrorStatesNamed => Target \in DOMAIN config
    BY <2>1, TargetOnGraph
  <2>3. /\ history'[1] = history[1]
        /\ Target \in DOMAIN config /\ (\A i \in DOMAIN history : history[i] \in DOMAIN config) =>
             \A i \in DOMAIN history' : history'[i] \in DOMAIN config
    BY <2>1, PathLengthens
  <2>4. ErrorStatesNamed' <=> ErrorStatesNamed
    BY <1>1 DEF ErrorStatesNamed
  <2>5. QED BY <1>1, <2>2, <2>3, <2>4 DEF PathOnGraph
<1>4. QED BY <1>2, <1>3

(* For every graph the validator accepts, whatever the callbacks do.       *)
THEOREM PathStaysOnGraph == Spec => []PathOnGraph
BY TypeAndControl, InitFresh, PathBegins, PathStep, PTL DEF Spec
=============================================================================
