------------------------------- MODULE MCGraphs -------------------------------
(***************************************************************************)
(* Small state graphs both engines accept, and calls of them.              *)
(***************************************************************************)
EXTENDS GraphNotation

(* An order desk: guarded alternatives, an action that can fail, an error  *)
(* state that always goes back to the start.                               *)
Desk ==
  [idle |-> State(("GO" :> <<On("busy", "g", <<"act", "work">>), On("idle", "g", <<>>)>>),
                  <<>>, <<"act">>, <<"work">>, "fault"),
   busy |-> State(("GO" :> <<To("idle")>>) @@ ("NO" :> <<On("busy", "data", <<"work">>)>>),
                  <<On("idle", "g", <<"work">>)>>, <<"work">>, <<"act">>, None),
   fault |-> State(<<>>, <<To("idle")>>, <<>>, <<"act">>, None)]

(* A cascade with a guarded exit from each state, and a wildcard. *)
Cascade ==
  [a |-> State(("*" :> <<On("b", None, <<"act">>)>>) @@ ("GO" :> <<>>),
               <<>>, <<>>, <<"act">>, None),
   b |-> State(<<>>, <<On("c", "g", <<>>), On("a", "g", <<"act">>)>>,
               <<"act">>, <<>>, "a"),
   c |-> State(("GO" :> <<On("c", "g", <<>>)>>), <<On("b", "g", <<>>)>>,
               <<>>, <<>>, "b")]

(* Nested machines: entry and exit actions that raise TransitionError, with *)
(* different error states along the way.                                    *)
Nested ==
  [outer |-> State(("GO" :> <<On("inner", None, <<>>)>>) @@ ("NO" :> <<On("inner", "sub", <<>>)>>),
                   <<>>, <<>>, <<"nest">>, "outer"),
   inner |-> State(("GO" :> <<To("outer")>>), <<>>, <<"nest">>, <<"nest">>, "lost"),
   lost  |-> State(<<>>, <<On("lost", "g", <<>>)>>, <<"act">>, <<>>, None)]

(* A chain of always hops as long as the cap, ending in a leaf. *)
Chain ==
  [a |-> State(<<>>, <<To("b")>>, <<>>, <<>>, None),
   b |-> State(<<>>, <<To("c")>>, <<"act">>, <<>>, None),
   c |-> Leaf]

(* All graphs over two states that combine these pieces: a leaves by one of *)
(* five candidate lists, cascades in one of four ways, runs what callbacks  *)
(* it has on entry and exit, and recovers, or not, in a or in b.            *)
SmallOn == {<<To("b")>>, <<On("b", "g", <<"act", "work">>)>>, <<On("a", None, <<"work">>)>>,
            <<On("a", "sub", <<>>), On("b", None, <<"nest">>)>>,
            <<On("b", "g", <<>>), On("a", "g", <<"act">>)>>}
SmallAlways == {<<>>, <<On("b", "g", <<>>)>>, <<On("b", "data", <<>>), On("a", "g", <<>>)>>,
                <<To("b")>>}

SmallConfigs ==
  { [a |-> State("GO" :> on, always, hooks[1], hooks[2], err), b |-> b] :
      on \in SmallOn, always \in SmallAlways,
      hooks \in {<< <<>>, <<>> >>, << <<"nest">>, <<"act">> >>}, err \in {None, "a", "b"},
      b \in {State("GO" :> <<To("a")>>, <<>>, <<"work">>, <<>>, None),
             State("*" :> <<On("a", "data", <<>>)>>, <<On("a", "g", <<>>)>>, <<>>, <<"act">>, "a")} }

(* What a callback can be given. *)
MCSessions == {"s0", "s1"}
MCData == {"", "d"}

(* Stored state names, one of them from an older graph. *)
MCStartStates == {"idle", "a", "outer", "elsewhere"}

Go == [event |-> "GO", data |-> ""]
No == [event |-> "NO", data |-> "d"]
MCInputs == {<<>>, <<No, Go>>, <<Go, Go, No>>}
MCOneSignal == {<<Go>>, <<No>>}
=============================================================================
