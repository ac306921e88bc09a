------------------------------ MODULE Conversation ------------------------------
(***************************************************************************)
(* A caller's conversation with a machine, as the three examples hold it:  *)
(* one call of run at a time, one signal a call, the state name kept by    *)
(* the caller between calls and one session object for all of them.        *)
(*                                                                         *)
(* The caller assigns the state name when run returns.  A call that raises *)
(* or is cancelled leaves the old name beside a session that its callbacks *)
(* may have changed; the caller may then send any signal, the same one     *)
(* included.                                                               *)
(***************************************************************************)
EXTENDS PyMachine, GraphNotation

CONSTANTS
  Talks,     \* [config, start, session, turns]: an example and its signals
  Payload    \* Signal.data by name: a function from field names to values

ASSUME TalkAssumption ==
  \A t \in Talks : \A turn \in t.turns : <<turn>> \in Inputs

VARIABLE state_name    \* the caller's `state`

Talk == CHOOSE t \in Talks : t.config = config

ConversationInit ==
  /\ \E t \in Talks :
       /\ config = t.config
       /\ current_state = t.start
       /\ session = t.session
       /\ \E turn \in t.turns : events = <<turn>>
  /\ Init
  /\ state_name = current_state

(* Within a call. *)
Step ==
  /\ ~Terminated
  /\ Next
  /\ UNCHANGED state_name

(* `state = await machine.run(...)` assigns only if the call returned. *)
Kept == IF pc = "returned" THEN current_state ELSE state_name

(* The next call: a fresh Context around the same session. *)
NextCall ==
  /\ Terminated
  /\ state_name' = Kept
  /\ \E turn \in Talk.turns : events' = <<turn>>
  /\ current_state' = Kept /\ dispatched' = Kept
  /\ history' = <<Kept>>
  /\ results' = <<>> /\ log' = <<>>
  /\ pc' = "always" /\ hook' = "always"
  /\ taken' = 0 /\ depth' = 0 /\ n_before' = 0
  /\ cands' = <<>> /\ ci' = 1 /\ batch' = <<>>
  /\ fired' = FALSE
  /\ exc' = None
  /\ UNCHANGED <<config, state_accessor, session, event_q, state_snapshot>>

ConversationNext == Step \/ NextCall

ConversationSpec == ConversationInit /\ [][ConversationNext]_<<vars, state_name>>

----------------------------------------------------------------------------
(* Callbacks: what they do to the session, given the data of the signal    *)

Has(d, field) == field \in DOMAIN Payload[d]

DataOr(d, field, default) == IF Has(d, field) THEN Payload[d][field] ELSE default

(* for k, v in data.items(): setattr(session, k, v) *)
SetAttrs(s, d) == [field \in DOMAIN s |-> DataOr(d, field, s[field])]

(* A function of an example, given the sessions that example has. *)
Answers(own, out(_, _)) ==
  [x \in Sessions \X Data |-> IF x[1] \in own THEN out(x[1], x[2]) ELSE {Ok(None, x[1])}]

Guard(own, holds(_, _)) == Answers(own, LAMBDA s, d : {Ok(holds(s, d), s)})

(* A function that only adds to a log, for somebody to read. *)
Message == [x \in Sessions \X Data |-> {Ok(None, x[1])}]

Action(own, after(_, _)) == Answers(own, LAMBDA s, d : {Ok(None, after(s, d))})

(* The registry of a machine holds these functions, among others. *)
Registers(fns, own) == \A name \in DOMAIN own : name \in DOMAIN fns /\ fns[name] = own[name]

(* Every talk with a machine built from c starts like this. *)
Starts(c, start, s) == \A t \in Talks : t.config = c => t.start = start /\ t.session = s

(* asyncio.sleep(0) comes first in every coroutine of the examples: a call *)
(* cancelled there has changed nothing.                                    *)
Cancelled(s) == {Raise("CancelledError", s)}
=============================================================================
