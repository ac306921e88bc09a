------------------------------- MODULE RsStream -------------------------------
(***************************************************************************)
(* StateMachine::stream of statem-rs: the generator that polls the engine  *)
(* of RsMachine and hands its events to a consumer.  Nothing moves unless  *)
(* the consumer polls, and it may drop the stream whenever it has control. *)
(***************************************************************************)
EXTENDS RsMachine

VARIABLES
  stage,     \* where the generator is suspended or running, see Stages
  polled,    \* has the consumer polled, and not yet been answered with an item?
  out,       \* items yielded so far
  handed     \* the oneshot: "pending", "sent" or "canceled"

streamVars == <<stage, polled, out, handed>>

Stages == {"loop",      \* select! between the engine and its channel
           "drain",     \* the engine is done; what is left in the channel
           "closing",   \* the context is sent; the error, if any, is left
           "ended", "dropped"}

Item(ev) == [ok |-> ev]
Err(e)   == [err |-> e]

StreamInit ==
  /\ Init /\ IsStream
  /\ stage = "loop" /\ polled = FALSE /\ out = <<>> /\ handed = "pending"

Undelivered == Len(out) < Len(event_tx)

(* The engine awaits a callback; its future may answer Pending here. *)
Awaiting ==
  \/ pc = "guard" /\ ci <= Len(cands) /\ Candidate.guard \in DOMAIN GuardFns
  \/ InBatch /\ batch # <<>> /\ Head(batch) \in DOMAIN ActionFns

(* The consumer asks for the next item. *)
Poll ==
  /\ stage \notin {"ended", "dropped"} /\ ~polled
  /\ polled' = TRUE
  /\ UNCHANGED <<vars, stage, out, handed>>

(* select! polls the engine. *)
Drive ==
  /\ stage = "loop" /\ polled
  /\ Step
  /\ UNCHANGED streamVars

Yield(item) ==
  /\ out' = Append(out, item)
  /\ polled' = FALSE

(* select! finds the engine pending, or looks at the channel first. *)
Deliver ==
  /\ stage = "loop" /\ polled
  /\ Awaiting /\ Undelivered
  /\ Yield(Item(event_tx[Len(out) + 1]))
  /\ UNCHANGED <<vars, stage, handed>>

(* Mutant: an error leaves the generator without draining the channel. *)
AfterDriveQuick == IF error = None THEN "drain" ELSE "closing"

AfterDrive == "drain"

(* `result = drive => break result.err()` *)
DriveEnds ==
  /\ stage = "loop" /\ polled
  /\ Terminated
  /\ stage' = AfterDrive
  /\ UNCHANGED <<vars, polled, out, handed>>

(* `while let Ok(ev) = rx.try_recv()` *)
Drain ==
  /\ stage = "drain" /\ polled
  /\ Undelivered
  /\ Yield(Item(event_tx[Len(out) + 1]))
  /\ UNCHANGED <<vars, stage, handed>>

(* Mutant: the context is sent as soon as the engine is done. *)
DrainedAlways == TRUE

Drained == ~Undelivered

(* `ctx_tx.send(ctx)`, in success and in failure. *)
HandBack ==
  /\ stage = "drain" /\ polled
  /\ Drained
  /\ handed' = "sent"
  /\ stage' = "closing"
  /\ UNCHANGED <<vars, polled, out>>

ErrorYielded == out # <<>> /\ "err" \in DOMAIN out[Len(out)]

YieldError ==
  /\ stage = "closing" /\ polled
  /\ error # None /\ ~ErrorYielded
  /\ Yield(Err(error))
  /\ UNCHANGED <<vars, stage, handed>>

(* The generator's body is done: the consumer gets None. *)
End ==
  /\ stage = "closing" /\ polled
  /\ error = None \/ ErrorYielded
  /\ stage' = "ended"
  /\ polled' = FALSE
  /\ UNCHANGED <<vars, out, handed>>

(* The consumer drops the stream, at an item or while the engine is        *)
(* pending; the engine's future, the context and the sender go with it.    *)
Drop ==
  /\ stage \notin {"ended", "dropped"}
  /\ polled => stage = "loop" /\ Awaiting /\ ~Undelivered
  /\ stage' = "dropped"
  /\ polled' = FALSE
  /\ handed' = IF handed = "pending" THEN "canceled" ELSE handed
  /\ UNCHANGED <<vars, out>>

StreamDone == stage \in {"ended", "dropped"} /\ UNCHANGED <<vars, streamVars>>

Generator == Drive \/ Deliver \/ DriveEnds \/ Drain \/ HandBack \/ YieldError \/ End

StreamNext == Generator \/ Poll \/ Drop \/ StreamDone

StreamSpec == StreamInit /\ [][StreamNext]_<<vars, streamVars>>

(* The generator runs when it is polled, and the consumer keeps polling or *)
(* drops the stream.                                                       *)
FairStreamSpec ==
  StreamSpec /\ WF_<<vars, streamVars>>(Generator) /\ WF_<<vars, streamVars>>(Poll)

----------------------------------------------------------------------------
(* What a consumer has got when the stream has ended is all there was: each *)
(* event of the call, in the order the engine sent them, then its error.    *)
EverythingDelivered ==
  stage = "ended" =>
    out = [i \in DOMAIN event_tx |-> Item(event_tx[i])]
            \o IF pc = "raised" THEN <<Err(error)>> ELSE <<>>

(* The receiver resolves to the context of a call that has ended, and not  *)
(* before its last event was taken ("once the stream is fully drained",    *)
(* machine.rs:401); it is canceled only if the stream was dropped first.   *)
ContextAfterEvents ==
  /\ handed = "sent" => Terminated /\ ~Undelivered
  /\ handed = "canceled" => stage = "dropped"
  /\ stage = "ended" => handed = "sent"

(* A consumer that keeps polling is not left waiting: the stream ends, or  *)
(* was dropped.  With the events unbounded in the channel, an engine that  *)
(* is always ready must not starve the channel nor the reverse.            *)
StreamEnds == <>(stage \in {"ended", "dropped"})
=============================================================================
