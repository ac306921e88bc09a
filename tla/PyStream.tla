------------------------------- MODULE PyStream -------------------------------
(***************************************************************************)
(* The generator of StateMachine.stream and its consumer, beside the       *)
(* engine of PyMachine, which runs as a task of its own: it goes on        *)
(* whenever the callback it awaits ends, whether or not the consumer asks  *)
(* for more.  The consumer may close the generator at any item; the task   *)
(* that iterates it may be cancelled, more than once.                      *)
(***************************************************************************)
EXTENDS PyMachineProperties

VARIABLES
  stage,    \* where the generator is suspended, see Stages
  yielded,  \* events taken off the queue and yielded
  left,     \* what made it leave its loop early, or None
  seen      \* exception the consumer gets in the end, or None

streamVars == <<stage, yielded, left, seen>>

(* The exceptions that reach the generator from outside. *)
Departures == {"GeneratorExit", "CancelledError"}

ASSUME DepartureAssumption == None \notin Departures

(* A queue is not the absence of one. *)
ASSUME QueueAssumption == None \notin Seq(Event)

Stages == {"fresh",      \* not yet iterated: no queue, no task
           "waiting",    \* await queue.get()
           "suspended",  \* at `yield item`
           "joining",    \* the finally: await task
           "ended",
           "unused"}    \* closed before it was ever iterated

StreamInit ==
  /\ Init /\ IsStream
  /\ stage = "fresh" /\ yielded = 0 /\ left = None /\ seen = None

(* The engine awaits a callback, and others may run. *)
Awaiting ==
  \/ pc = "guard" /\ ci <= Len(cands) /\ Candidate.guard \in DOMAIN GuardFns
  \/ InBatch /\ batch # <<>> /\ Head(batch) \in DOMAIN ActionFns

(* One thread: the generator moves only while the engine does not. *)
EngineAside == Awaiting \/ Terminated

Undelivered == yielded < Len(event_q)

(* The engine's task. *)
Drive ==
  /\ stage \notin {"fresh", "unused"} /\ ~Terminated
  /\ Next
  /\ UNCHANGED streamVars

(* The first __anext__ creates the queue and the task. *)
Start ==
  /\ stage = "fresh"
  /\ stage' = "waiting"
  /\ UNCHANGED <<vars, yielded, left, seen>>

(* A generator that was never iterated is closed without running. *)
CloseFresh ==
  /\ stage = "fresh"
  /\ stage' = "unused"
  /\ UNCHANGED <<vars, yielded, left, seen>>

Get ==
  /\ stage = "waiting" /\ EngineAside
  /\ Undelivered
  /\ yielded' = yielded + 1
  /\ stage' = "suspended"
  /\ UNCHANGED <<vars, left, seen>>

(* Mutant: the loop ends with the task, not with the end marker. *)
AtMarkerEarly == Terminated

(* Mutant: a failure of the task is raised before the queue is drained. *)
AtMarkerOrFailure == Terminated /\ (exc # None \/ ~Undelivered)

(* Mutant: the marker is put after the loop, not in a finally. *)
AtMarkerOnReturn == pc = "returned" /\ ~Undelivered

(* _drive's finally puts None behind the last event. *)
AtMarker == Terminated /\ ~Undelivered

GetMarker ==
  /\ stage = "waiting"
  /\ AtMarker
  /\ stage' = "joining"
  /\ UNCHANGED <<vars, yielded, left, seen>>

(* The consumer asks for the next item. *)
Resume ==
  /\ stage = "suspended" /\ EngineAside
  /\ stage' = "waiting"
  /\ UNCHANGED <<vars, yielded, left, seen>>

(* aclose(): GeneratorExit is raised at the yield. *)
Close ==
  /\ stage = "suspended" /\ EngineAside
  /\ left' = "GeneratorExit"
  /\ stage' = "joining"
  /\ UNCHANGED <<vars, yielded, seen>>

(* The consumer's task is cancelled while it awaits the next item. *)
Cancel ==
  /\ stage = "waiting" /\ EngineAside
  /\ left' = "CancelledError"
  /\ stage' = "joining"
  /\ UNCHANGED <<vars, yielded, seen>>

(* Cancelled again, in the finally: `await task` passes it on to the       *)
(* engine's task, where the callback being awaited raises it.              *)
CancelEngine ==
  /\ stage = "joining"
  /\ Awaiting
  /\ Throw("CancelledError")
  /\ left' = "CancelledError"
  /\ UNCHANGED <<argVars, ctxVars, locals, stage, yielded, seen>>

(* Mutant: the finally does not wait for the task. *)
JoinableAlways == TRUE

Joinable == Terminated

(* The task's exception, if any, replaces what was propagating. *)
Propagating == IF exc # None THEN exc ELSE left

(* `await task` is over. *)
Join ==
  /\ stage = "joining" /\ EngineAside
  /\ Joinable
  /\ seen' = Propagating
  /\ stage' = "ended"
  /\ UNCHANGED <<vars, yielded, left>>

StreamDone == stage \in {"ended", "unused"} /\ UNCHANGED <<vars, streamVars>>

StreamNext ==
  \/ Drive
  \/ Start \/ CloseFresh \/ Get \/ GetMarker \/ Resume
  \/ Close \/ Cancel \/ CancelEngine \/ Join
  \/ StreamDone

StreamSpec == StreamInit /\ [][StreamNext]_<<vars, streamVars>>

(* The event loop runs what is ready: the task, whatever the consumer does, *)
(* and the generator when it has something to do.  Nothing makes the        *)
(* consumer ask again.                                                      *)
FairStreamSpec ==
  /\ StreamSpec
  /\ WF_<<vars, streamVars>>(Drive)
  /\ WF_<<vars, streamVars>>(Get \/ GetMarker \/ Join)

----------------------------------------------------------------------------
Received == SubSeq(event_q, 1, yielded)

(* A reader that did not turn away has seen the call.  It has got every    *)
(* event, those before a failure included, and the failure comes after     *)
(* them.  If the call returned, a client that applied what it received     *)
(* holds the view the accessor gives of the session in the end, and if     *)
(* nothing failed on the way it was told every result: a stream is an      *)
(* "alternate way to observe a run" (machine.py:203).                      *)
ReaderSeesTheCall ==
  stage = "ended" /\ left = None =>
    /\ Received = event_q
    /\ pc = "returned" /\ ~CurrentStateDict.raises =>
         HoldsNothingBut(Received, CurrentStateDict.view)
    /\ pc = "returned" /\ NothingFailed => Reported(Received) = results

(* A consumer that is told of nothing has got every event of a call that   *)
(* returned: the end marker is behind the last event, and a failure of the *)
(* engine is not taken for the end.                                        *)
SilenceMeansWhole ==
  stage = "ended" /\ seen = None => pc = "returned" /\ ~Undelivered

(* What the engine raised reaches the consumer, also when it had already   *)
(* turned away and the call failed only afterwards: the finally waits for  *)
(* the task, and its exception replaces the one in flight ("propagates to  *)
(* the caller from the generator itself", machine.py:224).                 *)
FailureReachesConsumer ==
  stage = "ended" /\ pc = "raised" => seen = exc

(* Once a stream was started the call runs to its end, even if nobody asks *)
(* for its events any more: a stream has the effect of a run.              *)
EngineOutlivesConsumer == (stage = "waiting") ~> Terminated

(* A consumer that asks for the next item gets it, or the end.             *)
ConsumerAnswered == (stage \in {"waiting", "joining"}) ~> (stage \in {"suspended", "ended"})
=============================================================================
