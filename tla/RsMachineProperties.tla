------------------------- MODULE RsMachineProperties -------------------------
(***************************************************************************)
(* What a call of statem-rs must never get wrong: results, history, events *)
(* and errors related to the graph and to each other.                      *)
(***************************************************************************)
EXTENDS RsMachine, CallRecords

NothingFailed == \A i \in DOMAIN log : log[i].what = "hop"

(***************************************************************************)
(* The order of a hop's callbacks.                                         *)
(***************************************************************************)

(* The candidate being carried out is the first that was not refused:      *)
(* every earlier one has a guard that was asked, in order, and said no in  *)
(* the state the round began in, and its own guard, if any, said yes (the  *)
(* loops of try_transitions_inner and check_always).                       *)
FirstPassingCandidate ==
  pc \in {"actions", "exit"} /\ hook # "error" =>
    /\ \A i \in 1 .. ci - 1 : cands[i].guard # None
    /\ EndsWith(results, Acceptance(cands, ci, current_state, hook),
                {<<"action", hook>>, <<"action", "exit">>})

(* Between signals, and when run returns Ok, every always guard of the     *)
(* state the machine is in was asked since it was entered, and refused:    *)
(* push_signal calls check_always after a hop and after a recovery.        *)
SettledBetweenSignals ==
  pc \in {"dispatch", "returned"} =>
    /\ \A i \in DOMAIN Always : Always[i].guard # None
    /\ EndsWith(results, Refusals(Always, Len(Always), current_state, "always"),
                {<<"guard", "on">>})

(* While no call to an action has failed, the exit and entry actions that  *)
(* ran are those of the path, in order, each recorded in its own state     *)
(* (enter changes current_state between the two batches).                  *)
LifecycleFollowsHistory ==
  pc \in {"always", "dispatch", "returned"} /\ NothingFailed =>
    LifecycleResults(results) = LifecycleOfPath(config, history)

(***************************************************************************)
(* Errors.                                                                 *)
(***************************************************************************)

(* The errors push_signal has an answer to (RunError's documentation): a   *)
(* failed action of the signal's own hop, exit and entry actions included, *)
(* when the state that took the signal declares an error_state.            *)
Answered(i) ==
  /\ log[i].hook = "on" /\ log[i].error.kind = "ActionFailed"
  /\ \/ i = Len(log) /\ pc \in {"close", "failed", "exit"} /\ RecoveryState # None
     \/ i < Len(log) /\ log[i + 1].hook = "error"

(* Each error is either answered, at once, by a hop into the error state   *)
(* of the state that took the signal, or it is the last thing that happens *)
(* and exactly what the caller gets.  A call that returns Ok has answered  *)
(* all of them, and one that returns Err has passed no answerable one on.  *)
ErrorsRouted ==
  \A i \in DOMAIN log :
    log[i].what = "fail" =>
      \/ /\ Answered(i)
         /\ i < Len(log) /\ log[i + 1].what = "hop" =>
              log[i + 1].to = config[log[i + 1].dispatched].error_state
      \/ /\ i = Len(log) /\ error = log[i].error
         /\ pc \in {"close", "failed", "raised"}
         /\ log[i].hook = "on" /\ error.kind = "ActionFailed" => RecoveryState = None

(***************************************************************************)
(* The AG-UI events of a stream.                                           *)
(***************************************************************************)

Queue == IF IsStream THEN event_tx ELSE <<>>

AtRest == pc \in {"always", "dispatch", "returned"}

(* The events are a sequence of steps, never nested, and none is open      *)
(* while the engine is between rounds (open_step, close_step).  Activities *)
(* lie inside their step, also those of refused guards: try_transitions    *)
(* and check_always open it before they ask (machine.rs:307, 344), and not *)
(* after, as the docstring of stream has it (machine.rs:415-417).          *)
StepsBracketed == WellBracketed(Queue) /\ (AtRest => AllClosed(Queue))

(* Every delta applies to what a client holds, and between rounds the      *)
(* client holds what the accessor would report, after rounds that failed   *)
(* or refused everything too.                                              *)
ClientInSync ==
  DeltasApply(Queue) /\ (AtRest => HoldsNothingBut(Queue, CurrentStateDict))

(* Between rounds, a stream in which nothing failed has reported every     *)
(* result, once and in order (the slices &results[n_before..]).            *)
ActivitiesReportResults ==
  AtRest /\ IsStream /\ NothingFailed =>
    Reported(Queue) = results

(***************************************************************************)
(* How long a call can take.                                               *)
(***************************************************************************)

(* A call whose callbacks all end comes to an end: ALWAYS_MAX_DEPTH cuts   *)
(* every always cycle.                                                     *)
Termination == <>Terminated
=============================================================================
