----------------------------- MODULE GraphNotation -----------------------------
(***************************************************************************)
(* Short forms for writing state graphs and callbacks, after the dicts     *)
(* from_dict takes.                                                        *)
(***************************************************************************)
EXTENDS Schema, TLC

On(target, guard, actions) == [target |-> target, guard |-> guard, actions |-> actions]

To(target) == On(target, None, <<>>)

State(on, always, entry, exit, error_state) ==
  [on |-> on, always |-> always, entry |-> entry, exit |-> exit,
   error_state |-> error_state]

Leaf == State(<<>>, <<>>, <<>>, <<>>, None)

(* How a callback ends, and the session it leaves. *)
Ok(v, s) == [raises |-> None, value |-> v, session |-> s]
Raise(e, s) == [raises |-> e, value |-> None, session |-> s]
=============================================================================
