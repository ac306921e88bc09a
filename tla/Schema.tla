------------------------------- MODULE Schema -------------------------------
(***************************************************************************)
(* The vocabulary of a state graph: what schema.py calls StateConfig and   *)
(* TransitionConfig, the look-ups machine.py makes in it, and the checks   *)
(* StateMachine makes of it before anything runs.                          *)
(*                                                                         *)
(* A config is a function from state names to records                      *)
(*    [on, always, entry, exit, error_state]                               *)
(* where on is a function from event names to sequences of candidates      *)
(*    [target, guard, actions].                                            *)
(* Names are strings; an absent guard or error_state is None.              *)
(***************************************************************************)
EXTENDS Integers, Sequences

CONSTANT None      \* Python's None

Wildcard == "*"

(***************************************************************************)
(* What StateConfig.model_validate lets through.                           *)
(***************************************************************************)
TransitionConfig ==
  [target : STRING, guard : STRING \cup {None}, actions : Seq(STRING)]

IsStateConfig(sc) ==
  /\ \A e \in DOMAIN sc.on : sc.on[e] \in Seq(TransitionConfig)
  /\ sc.always \in Seq(TransitionConfig)
  /\ sc.entry \in Seq(STRING)
  /\ sc.exit \in Seq(STRING)
  /\ sc.error_state \in STRING \cup {None}

IsConfig(c) == \A s \in DOMAIN c : s \in STRING /\ IsStateConfig(c[s])

Elements(seq) == {seq[i] : i \in DOMAIN seq}

OnCandidates(c, s) == UNION {Elements(c[s].on[e]) : e \in DOMAIN c[s].on}

AllCandidates(c, s) == OnCandidates(c, s) \cup Elements(c[s].always)

(***************************************************************************)
(* _validate_machine: every target names a state. The empty string is      *)
(* falsy, so an error_state of "" passes the check.                        *)
(***************************************************************************)
BadTargets(c) ==
  (UNION {   {t.target : t \in AllCandidates(c, s)}
       \cup ({c[s].error_state} \ {None, ""}) : s \in DOMAIN c}) \ DOMAIN c

(***************************************************************************)
(* validate_registries: the names a graph refers to and nobody registered. *)
(* A guard named "" is falsy and is not looked for.                        *)
(***************************************************************************)
GuardNames(c) ==
  (UNION {{t.guard : t \in AllCandidates(c, s)} : s \in DOMAIN c}) \ {None, ""}

(* Mutant: exit actions are forgotten. *)
ActionNamesButExit(c) ==
  UNION {   Elements(c[s].entry)
      \cup UNION {Elements(t.actions) : t \in AllCandidates(c, s)} : s \in DOMAIN c}

ActionNames(c) ==
  UNION {   Elements(c[s].entry) \cup Elements(c[s].exit)
      \cup UNION {Elements(t.actions) : t \in AllCandidates(c, s)} : s \in DOMAIN c}

MissingNames(c, guards, actions) ==
  (GuardNames(c) \ guards) \cup (ActionNames(c) \ actions)

(***************************************************************************)
(* _transition_table.get((s, e)), with <<>> for "no such row": the engine  *)
(* only asks whether the list it gets is empty.                            *)
(***************************************************************************)
TableRow(c, s, e) ==
  IF s \in DOMAIN c /\ e \in DOMAIN c[s].on THEN c[s].on[e] ELSE <<>>

(***************************************************************************)
(* `get((s, e)) or get((s, "*"))`: an exact row that is present but empty  *)
(* is falsy, so it falls through to the wildcard row.                      *)
(***************************************************************************)
Lookup(c, s, e) ==
  IF TableRow(c, s, e) # <<>> THEN TableRow(c, s, e)
                              ELSE TableRow(c, s, Wildcard)

HasRow(c, s, e) == s \in DOMAIN c /\ e \in DOMAIN c[s].on

(***************************************************************************)
(* A guard can only refuse a candidate that has one, and the first that is *)
(* not refused is taken: the i-th candidate may be reached when all those  *)
(* before it are guarded.                                                  *)
(***************************************************************************)
Reachable(list, i) == \A j \in 1 .. i - 1 : list[j].guard # None

AllRefusable(list) == Reachable(list, Len(list) + 1)

=============================================================================
