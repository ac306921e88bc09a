-------------------------------- MODULE MCBuild --------------------------------
(***************************************************************************)
(* What users write, well and badly, for Build and Diagram.                *)
(***************************************************************************)
EXTENDS Diagram

Str(target) == [is |-> "str", target |-> target]
List(items) == [is |-> "list", items |-> items]
Other == [is |-> "other"]

Guarded == Dict([target |-> "b", guard |-> "g"])
Acting == Dict([target |-> "a", actions |-> <<"act", "late">>])
Full == Dict([target |-> "b", guard |-> "late", actions |-> <<"act">>])
NoTarget == Dict([guard |-> "g"])
Unasked == Dict([target |-> "a", guard |-> ""])

(* The spellings of an event's value, and of always. *)
MCSpecs == {Str("b"), Str("nowhere"), Guarded, Acting, NoTarget, Other, List(<<>>),
            List(<<Str("b")>>), List(<<Guarded, Str("a")>>), List(<<Str("a"), Full, Acting>>),
            List(<<Guarded, NoTarget>>), List(<<Other>>), List(<<Unasked, Str("b")>>)}
MCAlways == {Str("b"), Guarded, Other, List(<<>>), List(<<Str("b"), Acting>>),
             List(<<Guarded, Str("nowhere")>>), List(<<Full>>)}

(* Two states; a has an event, perhaps always transitions, and perhaps      *)
(* actions of its own and an error state.                                   *)
Extras == {<<>>,
           [error_state |-> "b", entry |-> <<"act">>],
           [error_state |-> "nowhere"], [error_state |-> ""],
           [exit |-> <<"late">>, error_state |-> None]}

Pair(fields) == [a |-> fields, b |-> <<>>]

SmallSources ==
       {Pair([on |-> "GO" :> spec] @@ extra) : spec \in MCSpecs, extra \in Extras}
  \cup {Pair([on |-> ("GO" :> spec) @@ ("*" :> Str("a")), always |-> always]) :
            spec \in MCSpecs, always \in MCAlways}
  \cup {Pair([always |-> always] @@ extra) : always \in MCAlways, extra \in Extras}

(* Names that sanitise alike, one of them like another with a suffix, and  *)
(* one that is all unsafe.                                                  *)
Alike ==
  ("a b"   :> [on |-> ("GO" :> Str("a-b")) @@ ("NO" :> Str("a_b_2"))]) @@
  ("a-b"   :> [on |-> "GO" :> List(<<Str("a_b"), Str("a-b")>>), error_state |-> "a b"]) @@
  ("a_b"   :> [always |-> List(<<Guarded>>)]) @@
  ("a_b_2" :> [on |-> "GO" :> Str("a b")]) @@
  ("b"     :> <<>>)

MCSources == SmallSources \cup {Alike}

MCSanitised ==
  [name \in {"a", "b"} |-> name] @@
  ("a b" :> "a_b") @@ ("a-b" :> "a_b") @@ ("a_b" :> "a_b") @@ ("a_b_2" :> "a_b_2")

MCActionDicts == {{}, {"act"}, {"act", "late"}}
MCGuardDicts == {{}, {"g"}, {"g", "late"}}
MCLateNames == {"g", "act", "late"}
=============================================================================
