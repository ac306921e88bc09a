-------------------------- MODULE PyMachineProperties --------------------------
(***************************************************************************)
(* What a call of StateMachine.run/stream must never get wrong.  Each      *)
(* property relates the record the call leaves behind (history, results,   *)
(* AG-UI events, the log of hops and failures) to the graph and to each    *)
(* other.                                                                  *)
(***************************************************************************)
EXTENDS PyMachine, CallRecords, Tracing

NothingFailed == \A i \in DOMAIN log : log[i].what = "hop"

(***************************************************************************)
(* The order of a hop's callbacks.                                         *)
(***************************************************************************)

(* While a transition is being carried out, it is the first of its round's *)
(* candidates that was not refused: every earlier one has a guard, each of *)
(* those guards was asked in declaration order and said no in the state    *)
(* the round began in, and its own guard, if any, said yes                 *)
(* (_try_transitions and _check_always try the candidates in list order).  *)
FirstPassingCandidate ==
  pc \in {"actions", "exit"} /\ hook # "error" =>
    /\ \A i \in 1 .. ci - 1 : cands[i].guard # None
    /\ EndsWith(results, Acceptance(cands, ci, current_state, hook),
                {<<"action", hook>>, <<"action", "exit">>})

(* Between signals, and when the call returns, the machine is settled: the *)
(* always guards of the state it is in were all asked since it was         *)
(* entered, and all refused.  Each entry, by a signal, by an always hop or *)
(* by a failure, is followed by _check_always before the next signal.      *)
SettledBetweenSignals ==
  pc \in {"dispatch", "returned"} =>
    /\ current_state \in DOMAIN config
    /\ \A i \in DOMAIN Always : Always[i].guard # None
    /\ EndsWith(results, Refusals(Always, Len(Always), current_state, "always"),
                {<<"guard", "on">>})

(* If nothing failed, the exit and entry actions that ran are exactly      *)
(* those of the states in history, hop by hop, each exit before the entry  *)
(* of the next state and each recorded in the state it belongs to: _enter  *)
(* changes current_state between the two batches.  The initial state's     *)
(* entry actions never run.                                                *)
LifecycleFollowsHistory ==
  pc \in {"always", "dispatch", "returned"} /\ NothingFailed =>
    LifecycleResults(results) = LifecycleOfPath(config, history)

(***************************************************************************)
(* Failures.                                                               *)
(***************************************************************************)

(* The only failures the engine recovers from: an ordinary exception in an *)
(* on transition's action, or a TransitionError of a nested machine coming *)
(* out of any callback of an on hop.                                       *)
Recoverable(f) ==
  /\ f.hook = "on" /\ f.phase # "step"
  /\ \/ f.phase = "actions" /\ f.exc # "CancelledError"
     \/ f.exc = "TransitionError"

(* The i-th failure of the log was answered by a hop towards the error     *)
(* state of the state that took the signal, and was one to recover from.   *)
Answered(i) ==
  /\ i < Len(log)
  /\ Recoverable(log[i])
  /\ log[i + 1].hook = "error"
  /\ log[i + 1].what = "hop" =>
       log[i + 1].to = config[log[i + 1].dispatched].error_state

(* No failure is swallowed.  A call that returns has answered each one, at *)
(* once, by its error state; any other (cancellation, a guard's error, a   *)
(* failure in an always or an error hop) ends the call, and what the call  *)
(* raises is what failed last, wrapped or as it was.                       *)
NoFailureSwallowed ==
  /\ pc \in {"always", "dispatch", "guard", "returned"} =>
       \A i \in DOMAIN log : log[i].what = "fail" => Answered(i)
  /\ pc = "raised" =>
       LET last == log[Len(log)]
       IN /\ log # <<>> /\ last.what = "fail"
          /\ exc = last.exc \/ (exc = "TransitionError" /\ Recoverable(last))

(* The converse: every failure the code can recover from leads at once to  *)
(* the error state of the state that took the signal, if it declares one;  *)
(* a call that raises has not passed one over.                             *)
ErrorStateHonoured ==
  pc = "raised" =>
    \A i \in DOMAIN log :
      log[i].what = "fail" /\ Recoverable(log[i]) =>
        \/ i < Len(log) /\ log[i + 1].hook = "error"
        \/ RecoveryState = None

(***************************************************************************)
(* Names.                                                                  *)
(***************************************************************************)

(* On a machine that validate_registries accepts, no call ever asks a      *)
(* registry for a name it does not hold, in whatever hop: the names the    *)
(* validation collects are all those a run can reach.  The exception is a  *)
(* guard named "", which the validation does not see.                      *)
ValidatedNeverUnregistered ==
  MissingNames(config, DOMAIN GuardFns, DOMAIN ActionFns) = {} =>
    /\ pc = "guard" /\ ci <= Len(cands) =>
         Candidate.guard \in DOMAIN GuardFns \cup {None, ""}
    /\ InBatch /\ batch # <<>> => Head(batch) \in DOMAIN ActionFns

(***************************************************************************)
(* The report of show_transitions.                                         *)
(***************************************************************************)

(* A call that visits no state twice can be read back from its report: the *)
(* sections, top to bottom, are the results in the order they were         *)
(* recorded, each in its hook, and they follow the path.                   *)
TraceTellsTheCall ==
  Terminated /\ IsInjective(history) => ReadReport(Report(history, results)) = results

(***************************************************************************)
(* The AG-UI events of a stream.                                           *)
(***************************************************************************)

Queue == IF IsStream THEN event_q ELSE <<>>

AtRest == pc \in {"always", "dispatch", "returned"}

(* The events read as a sequence of steps, never nested and each closed    *)
(* under the name it was opened with, and no step is open while the engine *)
(* is between rounds.  The activities of a step lie inside it, also those  *)
(* of refused guards: _try_transitions and _check_always open it first     *)
(* (machine.py:404, 431).  The docstring of stream puts a refused guard    *)
(* before its step opens (machine.py:214-216); that is not what the code   *)
(* does, nor what is checked here.                                         *)
StepsBracketed == WellBracketed(Queue) /\ (AtRest => AllClosed(Queue))

(* A client that keeps the last snapshot and applies each delta to it      *)
(* holds, whenever the engine is between rounds, the state the accessor    *)
(* would report then; and every delta is made against what that client     *)
(* holds.                                                                  *)
ClientInSync ==
  /\ DeltasApply(Queue)
  /\ AtRest /\ ~CurrentStateDict.raises => HoldsNothingBut(Queue, CurrentStateDict.view)

(* Between rounds, a stream in which nothing failed has reported every     *)
(* result of the run, once and in the order it was recorded.               *)
ActivitiesReportResults ==
  AtRest /\ IsStream /\ NothingFailed => Reported(Queue) = results

(***************************************************************************)
(* How long a call can take.                                               *)
(***************************************************************************)

(* A call whose callbacks all end comes to an end itself, by returning or  *)
(* by raising: _ALWAYS_MAX_DEPTH cuts every always cycle.                  *)
Termination == <>Terminated

(***************************************************************************)
(* What the documentation says and the code does not do.                   *)
(***************************************************************************)

(* "Each step is fully self-contained, emitted in this order: ...          *)
(* STEP_FINISHED" (machine.py:206): a stream that ends has no step open.   *)
StepsSelfContained ==
  Terminated => AllClosed(Queue)

(* "ACTIVITY_SNAPSHOT for every guard and action result as it fires"       *)
(* (machine.py:213): a stream that returns has reported every result.      *)
EveryResultReported ==
  pc = "returned" /\ IsStream => Reported(Queue) = results

(* "Return a human-readable summary of every transition in execution       *)
(* order" (tracing.py:21): the report has each result once, in the order   *)
(* it was recorded, also when the call comes back to a state.              *)
TraceInExecutionOrder ==
  Terminated => ReadReport(Report(history, results)) = results
=============================================================================
