----------------------------- MODULE MCPyMachine -----------------------------
(***************************************************************************)
(* Small state graphs and callbacks for PyMachine.                         *)
(***************************************************************************)
EXTENDS PyMachineProperties, MCGraphs

(* Names that the validators let through because they are falsy, and an     *)
(* action that was never registered: without action_dict and guard_dict,    *)
(* from_dict does not look.                                                 *)
Falsy ==
  [a |-> State(("GO" :> <<On("a", "", <<>>)>>) @@ ("NO" :> <<On("a", None, <<"work", "late">>)>>),
               <<>>, <<>>, <<>>, "")]

(* A graph whose exit action was never registered. *)
Late == [a |-> State("GO" :> <<To("a")>>, <<>>, <<>>, <<"late">>, None)]

MCNamed == {Late, Desk, Cascade, Nested, Falsy, Chain}
MCConfigs == MCNamed \cup SmallConfigs

(* What callbacks do. *)
Fn(out(_)) == [x \in MCSessions \X MCData |-> out(x[1])]

(* A guard of the signal's data refuses the empty payload of always. *)
ByData == [x \in MCSessions \X MCData |-> {Ok(x[2] = "d", x[1])}]

MCGuardFns ==
     "g" :> Fn(LAMBDA s : {Ok(TRUE, s), Ok(FALSE, s)})
  @@ "data" :> ByData
  @@ "sub" :> Fn(LAMBDA s : {Ok(TRUE, s), Ok(FALSE, "s1"), Ok(None, s),
                             Raise("TransitionError", s)})

MCActionFns ==
     "act" :> Fn(LAMBDA s : {Ok(None, "s1")})
  @@ "work" :> Fn(LAMBDA s : {Ok(None, "s0"), Raise("Exception", "s0"),
                              Raise("CancelledError", s)})
  @@ "nest" :> Fn(LAMBDA s : {Ok(None, s), Raise("TransitionError", "s1")})

(* The default view, and an accessor that returns a fresh dict. *)
Fresh == [s \in MCSessions |-> [raises |-> FALSE, view |-> s]]
MCAccessors == {None, Fresh}

(* An accessor that cannot read the session in one of its states. *)
Partial == [s \in MCSessions |-> [raises |-> s = "s1", view |-> s]]
MCFailingAccessors == {Partial}
MCAnyAccessors == {None, Fresh, Partial}

MCRun == {FALSE}
MCStream == {TRUE}
MCRunOrStream == BOOLEAN
=============================================================================
