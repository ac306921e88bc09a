---------------------------- MODULE MCStatechart ----------------------------
(***************************************************************************)
(* Small graphs for Statechart: cascades with and without an end, a signal *)
(* refused or accepted, error states reached before and after a hop.       *)
(***************************************************************************)
EXTENDS Statechart, TLC

On(target, guard) == [target |-> target, guard |-> guard, actions |-> <<>>]

State(on, always, error_state) ==
  [on |-> on, always |-> always, entry |-> <<>>, exit |-> <<>>,
   error_state |-> error_state]

MCStarts == {"a", "b", "elsewhere"}
MCInputs == { [i \in 1 .. n |-> [event |-> e[i], data |-> ""]] :
                n \in 0 .. 2, e \in [1 .. 2 -> {"GO", "NO"}] }

Lists == {<<On("b", None)>>, <<On("a", "g"), On("b", "g")>>, <<On("b", "g"), On("a", None)>>}

MCConfigs ==
  { [a |-> State("GO" :> on, always, err),
     b |-> State("*" :> <<On("a", "g")>>, onward, "a")] :
      on \in Lists, always \in {<<>>} \cup Lists,
      onward \in {<<>>, <<On("a", None)>>}, err \in {None, "b"} }
=============================================================================
