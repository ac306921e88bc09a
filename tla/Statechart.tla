----------------------------- MODULE Statechart -----------------------------
(***************************************************************************)
(* What a call of StateMachine.run promises its caller, whatever the       *)
(* callbacks do: the states it goes through.  Guards are free choices and  *)
(* actions invisible; what is left is which hops the graph allows, in      *)
(* which order always transitions, signals and error states have their     *)
(* turn, and when the call may end.                                        *)
(*                                                                         *)
(* The engines of statem-py and statem-rs both refine it.                  *)
(***************************************************************************)
EXTENDS Schema

CONSTANTS Configs, StartStates, Inputs,
          MaxDepth   \* always hops in one cascade

ASSUME StatechartAssumption ==
  /\ MaxDepth \in Nat \ {0}
  /\ \A c \in Configs : IsConfig(c)
  /\ StartStates \subseteq STRING

VARIABLES
  config, events,   \* the machine and the signals it is given
  history,          \* states entered; the last is the current one
  mode,             \* whose turn it is, see Modes
  taken,            \* signals consumed
  hops,             \* always hops since the cascade began
  origin            \* the state the last signal was taken in

vars == <<config, events, history, mode, taken, hops, origin>>

Modes == {
  "cascading",      \* always transitions are being followed
  "idle",           \* settled; the next signal may be taken
  "reacting",       \* a signal was taken; its candidates are being tried
  "entering",       \* a signal's hop was made, its entry actions may still fail
  "recovering",     \* a signal's handling failed; the error state is next
  "returned", "raised"}

current == history[Len(history)]

Init ==
  /\ config \in Configs
  /\ events \in Inputs
  /\ history \in {<<s>> : s \in StartStates}
  /\ mode = "cascading"
  /\ taken = 0
  /\ hops = 0
  /\ origin = current

Goto(s) == history' = Append(history, s)

(* The cascade has not reached its cap. *)
MayCascade == hops < MaxDepth

HopsCounted == hops + 1

AlwaysHop ==
  /\ mode = "cascading"
  /\ MayCascade
  /\ current \in DOMAIN config
  /\ \E i \in DOMAIN config[current].always :
       /\ Reachable(config[current].always, i)
       /\ Goto(config[current].always[i].target)
  /\ hops' = HopsCounted
  /\ UNCHANGED <<config, events, mode, taken, origin>>

(* The cascade ends in a state all of whose always guards refuse.  A call  *)
(* that starts in a state unknown to the graph may fail or settle there.   *)
Settle ==
  /\ mode = "cascading"
  /\ MayCascade
  /\ current \in DOMAIN config => AllRefusable(config[current].always)
  /\ mode' = "idle"
  /\ UNCHANGED <<config, events, history, taken, hops, origin>>

NextTaken == taken + 1

(* A signal that the current state has no candidate for is dropped; a row  *)
(* without candidates may count as a match, and hide the wildcard's.       *)
NoCandidate(e) ==
  \/ Lookup(config, current, e) = <<>>
  \/ HasRow(config, current, e) /\ TableRow(config, current, e) = <<>>

Ignore ==
  /\ mode = "idle"
  /\ taken < Len(events)
  /\ NoCandidate(events[taken + 1].event)
  /\ taken' = NextTaken
  /\ UNCHANGED <<config, events, history, mode, hops, origin>>

Take ==
  /\ mode = "idle"
  /\ taken < Len(events)
  /\ Lookup(config, current, events[taken + 1].event) # <<>>
  /\ taken' = NextTaken
  /\ origin' = current
  /\ mode' = "reacting"
  /\ UNCHANGED <<config, events, history, hops>>

Offered == Lookup(config, origin, events[taken].event)

(* All candidates are refused: the machine stays where it was. *)
Refuse ==
  /\ mode = "reacting"
  /\ AllRefusable(Offered)
  /\ mode' = "idle"
  /\ UNCHANGED <<config, events, history, taken, hops, origin>>

React ==
  /\ mode = "reacting"
  /\ \E i \in DOMAIN Offered :
       /\ Reachable(Offered, i)
       /\ Goto(Offered[i].target)
  /\ mode' = "entering"
  /\ UNCHANGED <<config, events, taken, hops, origin>>

Enter ==
  /\ mode = "entering"
  /\ mode' = "cascading"
  /\ hops' = 0
  /\ UNCHANGED <<config, events, history, taken, origin>>

(* Mutant: a failed cascade is recovered from as well. *)
RecoverableAnywhere == {"reacting", "entering", "cascading"}

Recoverable == {"reacting", "entering"}

(* Handling the signal failed, before its hop or in the state it led to. *)
Trip ==
  /\ mode \in Recoverable
  /\ config[origin].error_state # None
  /\ mode' = "recovering"
  /\ UNCHANGED <<config, events, history, taken, hops, origin>>

(* The error state is that of the state the signal was taken in. *)
Recover ==
  /\ mode = "recovering"
  /\ Goto(config[origin].error_state)
  /\ mode' = "cascading"
  /\ hops' = 0
  /\ UNCHANGED <<config, events, taken, origin>>

Return ==
  /\ mode = "idle"
  /\ taken = Len(events)
  /\ mode' = "returned"
  /\ UNCHANGED <<config, events, history, taken, hops, origin>>

(* An exception reaches the caller; a settled machine has none to raise. *)
Fail ==
  /\ mode \in {"cascading", "reacting", "entering", "recovering"}
  /\ mode' = "raised"
  /\ UNCHANGED <<config, events, history, taken, hops, origin>>

Done == mode \in {"returned", "raised"} /\ UNCHANGED vars

Next ==
  \/ AlwaysHop \/ Settle
  \/ Ignore \/ Take \/ Refuse \/ React \/ Enter
  \/ Trip \/ Recover
  \/ Return \/ Fail \/ Done

Spec == Init /\ [][Next]_vars

--------------------------------------------------------------------------------------------
TypeOK ==
  /\ config \in Configs
  /\ history \in Seq(STRING) /\ Len(history) > 0
  /\ mode \in Modes
  /\ taken \in Nat
  /\ hops \in 0 .. MaxDepth
  /\ mode \in {"reacting", "entering", "recovering"} => origin \in DOMAIN config
  /\ mode = "recovering" => config[origin].error_state # None

(* The length of a call: each cascade makes at most MaxDepth hops, and     *)
(* each signal adds at most its own hop and one to an error state.         *)
PerSignal == MaxDepth + 2

Bounded == Len(history) <= 1 + MaxDepth + taken * PerSignal

(***************************************************************************)
(* Bounded, made inductive: while a cascade runs, what it may still add is *)
(* MaxDepth - hops; while a signal is handled, what remains of its budget  *)
(* is its own hop, the hop to an error state and a whole cascade.          *)
(***************************************************************************)
Spare == IF mode = "cascading" THEN hops
         ELSE IF mode = "reacting" THEN -2
         ELSE IF mode \in {"entering", "recovering"} THEN -1
         ELSE MaxDepth

Budget == 1 + taken * PerSignal + Spare

WithinBudget == Len(history) <= Budget
=============================================================================
