--------------------------------- MODULE Build ---------------------------------
(***************************************************************************)
(* How a StateMachine comes to be: StateMachine.from_dict parses a plain   *)
(* dict, checks its targets, registers the callbacks it is given and       *)
(* checks their names; the owner of the machine may register more later,   *)
(* and ask for the check again (machine.py:55-145, schema.py).             *)
(*                                                                         *)
(* A source is a function from state names to what the user wrote: a       *)
(* function with some of the fields of StateConfig.  An event's value may  *)
(* be written as a target, a dict, or a list of both:                      *)
(*    [is |-> "str", target |-> "b"]                                       *)
(*    [is |-> "dict", fields |-> [target |-> "b", guard |-> "g"]]          *)
(*    [is |-> "list", items |-> <<...>>]                                   *)
(*    [is |-> "other"]            a number, a set, None                    *)
(***************************************************************************)
EXTENDS Schema, FiniteSets

CONSTANTS
  Sources,      \* dicts a user may pass to from_dict
  ActionDicts,  \* sets of names: the keys of action_dict
  GuardDicts,   \* and of guard_dict; {} when left out
  LateNames     \* names registered after the machine was built

FieldOr(fields, name, default) ==
  IF name \in DOMAIN fields THEN fields[name] ELSE default

(***************************************************************************)
(* The sources are finite and differ in their shape; where a name is       *)
(* expected there is a string, and a list of strings where actions are     *)
(* (pydantic refuses anything else, and that is left out).                 *)
(***************************************************************************)
IsItem(item) ==
  /\ item.is = "str" => item.target \in STRING
  /\ item.is = "dict" =>
       /\ "target" \in DOMAIN item.fields => item.fields.target \in STRING
       /\ FieldOr(item.fields, "guard", None) \in STRING \cup {None}
       /\ FieldOr(item.fields, "actions", <<>>) \in Seq(STRING)

Items(spec) == IF spec.is = "list" THEN spec.items ELSE <<spec>>

IsSpec(spec) ==
  /\ Len(Items(spec)) \in Nat /\ DOMAIN Items(spec) = 1 .. Len(Items(spec))
  /\ \A i \in DOMAIN Items(spec) : IsItem(Items(spec)[i])

IsSource(src) ==
  /\ IsFiniteSet(DOMAIN src)
  /\ \A s \in DOMAIN src :
    /\ s \in STRING
    /\ "on" \in DOMAIN src[s] => \A e \in DOMAIN src[s].on : IsSpec(src[s].on[e])
    /\ "always" \in DOMAIN src[s] => IsSpec(src[s].always)
    /\ FieldOr(src[s], "entry", <<>>) \in Seq(STRING)
    /\ FieldOr(src[s], "exit", <<>>) \in Seq(STRING)
    /\ FieldOr(src[s], "error_state", None) \in STRING \cup {None}

ASSUME SourceAssumption == \A src \in Sources : IsSource(src)

VARIABLES
  source,       \* what the machine was built from, or None
  config,       \* StateMachine.config, or None before from_dict succeeds
  actions,      \* names in actions._fns
  guards,       \* names in guards._fns
  checked,      \* has the owner been told that every name is registered?
  answer        \* how the last operation ended: None or the exception

vars == <<source, config, actions, guards, checked, answer>>

----------------------------------------------------------------------------
(* StateConfig.model_validate *)

Dict(fields) == [is |-> "dict", fields |-> fields]

(* A bare target stands for a candidate with nothing but a target. *)
AsDict(item) ==
  IF item.is = "str" THEN Dict([target |-> item.target]) ELSE item

(* Mutant: a list is taken for the dicts it holds. *)
NormalizeOnBareListItems(spec) ==
  CASE spec.is \in {"str", "dict"} -> <<AsDict(spec)>>
    [] spec.is = "list" -> SelectSeq(spec.items, LAMBDA item : item.is = "dict")
    [] OTHER -> spec

(* _normalize_on, for one event; what it does not know it leaves as it is. *)
NormalizeOn(spec) ==
  CASE spec.is \in {"str", "dict"} -> <<AsDict(spec)>>
    [] spec.is = "list" -> [i \in DOMAIN spec.items |-> AsDict(spec.items[i])]
    [] OTHER -> spec

(* _normalize_always: only a list may be written. *)
NormalizeAlways(spec) ==
  IF spec.is = "list" THEN [i \in DOMAIN spec.items |-> AsDict(spec.items[i])]
                      ELSE spec

(* pydantic: a candidate is a dict with a target. *)
ItemOK(item) == item.is = "dict" /\ "target" \in DOMAIN item.fields

SpecOK(spec) == spec.is \in {"str", "dict", "list"} /\
  \A i \in DOMAIN NormalizeOn(spec) : ItemOK(NormalizeOn(spec)[i])

AlwaysOK(spec) == spec.is = "list" /\ SpecOK(spec)

Parses(src) ==
  \A s \in DOMAIN src :
    /\ "on" \in DOMAIN src[s] =>
         \A e \in DOMAIN src[s].on : SpecOK(src[s].on[e])
    /\ "always" \in DOMAIN src[s] => AlwaysOK(src[s].always)

(* TransitionConfig, with its defaults. *)
ParsedItem(item) ==
  [target  |-> item.fields.target,
   guard   |-> FieldOr(item.fields, "guard", None),
   actions |-> FieldOr(item.fields, "actions", <<>>)]

ParsedList(items) == [i \in DOMAIN items |-> ParsedItem(items[i])]

(* StateConfig, with its defaults; fields it does not have are ignored. *)
ParsedState(fields) ==
  LET on == FieldOr(fields, "on", <<>>)
  IN [on          |-> [e \in DOMAIN on |-> ParsedList(NormalizeOn(on[e]))],
      always      |-> IF "always" \in DOMAIN fields
                        THEN ParsedList(NormalizeAlways(fields.always)) ELSE <<>>,
      entry       |-> FieldOr(fields, "entry", <<>>),
      exit        |-> FieldOr(fields, "exit", <<>>),
      error_state |-> FieldOr(fields, "error_state", None)]

Parsed(src) == [s \in DOMAIN src |-> ParsedState(src[s])]

----------------------------------------------------------------------------
Init ==
  /\ source = None /\ config = None
  /\ actions = {} /\ guards = {}
  /\ checked = FALSE
  /\ answer = None

(* Mutant: the check needs both dicts. *)
ChecksWhenBoth(acts, grds) == acts # {} /\ grds # {}

(* An empty dict counts as one that was left out. *)
Checks(acts, grds) == acts # {} \/ grds # {}

(* A constructor that raises leaves no machine behind. *)
Rejects(exception) ==
  /\ answer' = exception
  /\ UNCHANGED <<source, config, actions, guards, checked>>

(* from_dict: parse, check the targets, register, check the names. *)
FromDict(src, acts, grds) ==
  /\ config = None
  /\ \/ /\ ~Parses(src)
        /\ Rejects("ValidationError")
     \/ /\ Parses(src)
        /\ BadTargets(Parsed(src)) # {}
        /\ Rejects("ValidationError")
     \/ /\ Parses(src)
        /\ BadTargets(Parsed(src)) = {}
        /\ Checks(acts, grds) /\ MissingNames(Parsed(src), grds, acts) # {}
        /\ Rejects("ValueError")
     \/ /\ Parses(src)
        /\ BadTargets(Parsed(src)) = {}
        /\ Checks(acts, grds) => MissingNames(Parsed(src), grds, acts) = {}
        /\ source' = src
        /\ config' = Parsed(src)
        /\ actions' = acts /\ guards' = grds
        /\ checked' = (acts \cup grds # {})
        /\ answer' = None

(* machine.actions.register, and register_many one by one: a name that is  *)
(* known gets a new function.                                              *)
RegisterAction(name) ==
  /\ config # None
  /\ actions' = actions \cup {name}
  /\ answer' = None
  /\ UNCHANGED <<source, config, guards, checked>>

RegisterGuard(name) ==
  /\ config # None
  /\ guards' = guards \cup {name}
  /\ answer' = None
  /\ UNCHANGED <<source, config, actions, checked>>

(* validate_registries, called by the owner. *)
ValidateRegistries ==
  /\ config # None
  /\ IF MissingNames(config, guards, actions) = {}
       THEN checked' = TRUE /\ answer' = None
       ELSE answer' = "ValueError" /\ UNCHANGED checked
  /\ UNCHANGED <<source, config, actions, guards>>

Next ==
  \/ \E src \in Sources, acts \in ActionDicts, grds \in GuardDicts :
       FromDict(src, acts, grds)
  \/ \E name \in LateNames : RegisterAction(name) \/ RegisterGuard(name)
  \/ ValidateRegistries

Spec == Init /\ [][Next]_vars

----------------------------------------------------------------------------
(* Whoever was told that the machine is complete, by a from_dict that was  *)
(* given callbacks or by validate_registries, has a machine that finds     *)
(* every name of its graph, whatever is registered afterwards.             *)
CheckedMeansComplete ==
  checked => MissingNames(config, guards, actions) = {}

(* What the user wrote for a candidate, in whatever spelling. *)
Written(item) ==
  IF item.is = "str" THEN [target |-> item.target] ELSE item.fields

AgreesOn(t, fields) ==
  /\ \A f \in DOMAIN fields \cap {"target", "guard", "actions"} : t[f] = fields[f]
  /\ "guard" \notin DOMAIN fields => t.guard = None
  /\ "actions" \notin DOMAIN fields => t.actions = <<>>

Agrees(list, spec) ==
  /\ Len(list) = Len(Items(spec))
  /\ \A i \in DOMAIN list : AgreesOn(list[i], Written(Items(spec)[i]))

(* The machine offers, in every state and for every event, the candidates  *)
(* the user wrote, in that order and in whichever spelling, and all lead   *)
(* to states it has: what from_dict accepts is what the engine looks up    *)
(* (an event with an empty list is left to the wildcard).                  *)
GraphAsWritten ==
  config # None =>
    /\ DOMAIN config = DOMAIN source
    /\ \A s \in DOMAIN config :
         LET on == FieldOr(source[s], "on", <<>>)
         IN /\ \A e \in DOMAIN on :
                 Items(on[e]) # <<>> => Agrees(Lookup(config, s, e), on[e])
            /\ DOMAIN config[s].on = DOMAIN on
            /\ "always" \in DOMAIN source[s] => Agrees(config[s].always, source[s].always)
            /\ \A t \in AllCandidates(config, s) : t.target \in DOMAIN config
=============================================================================
