----------------------------- MODULE MCRsMachine -----------------------------
(***************************************************************************)
(* Small state graphs and callbacks for RsMachine.                         *)
(***************************************************************************)
EXTENDS RsMachineProperties, MCGraphs

(* Names that were never registered: validate_registries is up to the      *)
(* caller.                                                                 *)
Unchecked ==
  [a |-> State(("GO" :> <<On("b", "gone", <<>>)>>) @@ ("NO" :> <<On("b", None, <<"work", "late">>)>>),
               <<>>, <<>>, <<>>, "b"),
   b |-> Leaf]

MCNamed == {Desk, Cascade, Nested, Unchecked, Chain}
MCConfigs == MCNamed \cup SmallConfigs

(* A guard reads the session and the data; an action changes the session   *)
(* whether it then fails or not.                                           *)
Answer(a(_, _)) == [x \in MCSessions \X MCData |-> a(x[1], x[2])]

MCGuardFns ==
     "g" :> Answer(LAMBDA s, d : BOOLEAN)
  @@ "data" :> Answer(LAMBDA s, d : {d = "d"})
  @@ "sub" :> Answer(LAMBDA s, d : {s = "s1"})

Ends(ok, s) == [ok |-> ok, session |-> s]

MCActionFns ==
     "act" :> Answer(LAMBDA s, d : {Ends(TRUE, "s1")})
  @@ "work" :> Answer(LAMBDA s, d : {Ends(TRUE, "s0"), Ends(FALSE, "s0")})
  @@ "nest" :> Answer(LAMBDA s, d : {Ends(TRUE, s), Ends(FALSE, "s1")})

Rendered == [s \in MCSessions |-> s]
MCAccessors == {None, Rendered}

MCRun == {FALSE}
MCStream == {TRUE}
MCRunOrStream == BOOLEAN
=============================================================================
