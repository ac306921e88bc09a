----------------------------- MODULE CallRecords -----------------------------
(***************************************************************************)
(* How the properties read what a call leaves behind: the results it       *)
(* records, the path it takes, the events it emits.                        *)
(***************************************************************************)
EXTENDS Schema, SequencesExt

GuardResult(s, source, guard, answer) ==
  [state |-> s, source |-> source, kind |-> "guard", name |-> guard, value |-> answer]

(* The results a round leaves when it refuses the first n candidates in s, *)
(* all of them guarded.                                                    *)
Refusals(list, n, s, source) ==
  [i \in 1 .. n |-> GuardResult(s, source, list[i].guard, FALSE)]

(* ... and when it then accepts the next one. *)
Acceptance(list, n, s, source) ==
  Refusals(list, n - 1, s, source)
    \o IF list[n].guard = None THEN <<>>
       ELSE <<GuardResult(s, source, list[n].guard, TRUE)>>

(* The results of part stand in a row, and those after them are only of    *)
(* the given kinds and sources.                                            *)
EndsWith(results, part, later) ==
  \E n \in 0 .. Len(results) - Len(part) :
    /\ \A i \in 1 .. Len(part) : results[n + i] = part[i]
    /\ \A i \in n + Len(part) + 1 .. Len(results) :
         <<results[i].kind, results[i].source>> \in later

(* Actions that ran in a state, as an exit or as an entry batch. *)
Ran(s, batch, names) == [i \in DOMAIN names |-> <<s, batch, names[i]>>]

(* The exit and entry actions of a hop, each with the state it belongs to. *)
LifecycleOf(c, from, to) ==
  Ran(from, "exit", c[from].exit) \o Ran(to, "entry", c[to].entry)

LifecycleOfPath(c, path) ==
  FlattenSeq([i \in 1 .. Len(path) - 1 |-> LifecycleOf(c, path[i], path[i + 1])])

(* What a result says of the exit and entry actions that ran. *)
LifecycleOfResult(r) ==
  IF r.source \in {"exit", "entry"} THEN <<<<r.state, r.source, r.name>>>> ELSE <<>>

LifecycleResults(results) ==
  FlattenSeq([i \in DOMAIN results |-> LifecycleOfResult(results[i])])

----------------------------------------------------------------------------
(* Sequences of AG-UI events *)

Brackets == {"STEP_STARTED", "STEP_FINISHED"}

Updates == {"STATE_SNAPSHOT", "STATE_DELTA"}

(* Of the first n events, the last one of the given types is the j-th. *)
Latest(q, n, types, j) ==
  /\ j \in 1 .. n
  /\ q[j].type \in types
  /\ \A k \in j + 1 .. n : q[k].type \notin types

(* After n events, a step of that name is open. *)
OpenAfter(q, n, name) ==
  \E j \in 1 .. n :
    Latest(q, n, Brackets, j) /\ q[j].type = "STEP_STARTED" /\ q[j].step = name

(* The type of the n-th event, and of the end of an empty queue. *)
TypeAt(q, n) == IF n = 0 THEN "" ELSE q[n].type

(* What may stand right before an event. *)
Preceding(type) ==
  IF type = "STEP_STARTED" THEN {"", "STEP_FINISHED"}
  ELSE IF type = "STATE_SNAPSHOT" THEN {"STEP_STARTED"}
  ELSE {"STATE_SNAPSHOT", "ACTIVITY_SNAPSHOT"}
         \cup IF type = "STEP_FINISHED" THEN {"STATE_DELTA"} ELSE {}

(* A sequence of steps, never nested: STEP_STARTED with its STATE_SNAPSHOT, *)
(* then activities, those of refused guards too, then at most one           *)
(* STATE_DELTA, then STEP_FINISHED under the same name.                     *)
WellBracketed(q) ==
  \A i \in DOMAIN q :
    /\ TypeAt(q, i - 1) \in Preceding(q[i].type)
    /\ q[i].type = "STEP_FINISHED" => OpenAfter(q, i - 1, q[i].step)

AllClosed(q) == TypeAt(q, Len(q)) \in {"", "STEP_FINISHED"}

(* The view an update leaves a client with that keeps the last snapshot    *)
(* and applies each delta to what it holds.                                *)
Held(update) == IF update.type = "STATE_DELTA" THEN update.new ELSE update.view

(* The view that client holds after n events. *)
HoldsAfter(q, n, view) ==
  \E j \in 1 .. n : Latest(q, n, Updates, j) /\ Held(q[j]) = view

(* Every delta is made against what that client holds. *)
DeltasApply(q) ==
  \A i \in DOMAIN q : q[i].type = "STATE_DELTA" => HoldsAfter(q, i - 1, q[i].old)

(* A client that has been told anything holds that view. *)
HoldsNothingBut(q, view) ==
  (\E i \in DOMAIN q : q[i].type \in Updates) => HoldsAfter(q, Len(q), view)

ReportedBy(event) == IF event.type = "ACTIVITY_SNAPSHOT" THEN <<event.entry>> ELSE <<>>

Reported(q) == FlattenSeq([i \in DOMAIN q |-> ReportedBy(q[i])])
=============================================================================
