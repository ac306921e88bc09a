---------------------------------- MODULE Bread ----------------------------------
(***************************************************************************)
(* examples/bread.py: a cake from its ingredients to the plate.  The oven  *)
(* has the temperatures the example gives it; the log is the number of     *)
(* times a cake was plated.                                                *)
(***************************************************************************)
EXTENDS Conversation

BakingSessions ==
  [oven_temp_c : {0, 25, 180}, ingredients_checked : BOOLEAN, plated : 0 .. 2]

NewBakingSession == [oven_temp_c |-> 0, ingredients_checked |-> FALSE, plated |-> 0]

check_ingredients(s, d) == [s EXCEPT !.ingredients_checked = TRUE]
preheat_oven(s, d) == [s EXCEPT !.oven_temp_c = 180]
start_cooling(s, d) == [s EXCEPT !.oven_temp_c = 25]
plate_cake(s, d) == [s EXCEPT !.plated = IF @ < 2 THEN @ + 1 ELSE @]

ingredients_ready(s, d) == s.ingredients_checked
oven_is_cool(s, d) == s.oven_temp_c <= 30

BreadActionFns ==
  [check_ingredients |-> Action(BakingSessions, check_ingredients),
   preheat_oven |-> Action(BakingSessions, preheat_oven),
   start_cooling |-> Action(BakingSessions, start_cooling),
   plate_cake |-> Action(BakingSessions, plate_cake)]

BreadGuardFns ==
  [ingredients_ready |-> Guard(BakingSessions, ingredients_ready),
   oven_is_cool |-> Guard(BakingSessions, oven_is_cool)]

BreadConfig ==
  [idle |-> State([START |-> <<On("mixing", None, <<"check_ingredients">>)>>],
                  <<>>, <<>>, <<>>, None),
   mixing |-> State([MIXED |-> <<On("baking", "ingredients_ready", <<"preheat_oven">>)>>],
                    <<>>, <<>>, <<>>, "failed"),
   baking |-> State([TIMER_DONE |-> <<On("cooling", None, <<"start_cooling">>)>>],
                    <<>>, <<>>, <<>>, None),
   cooling |-> State(<<>>, <<On("done", "oven_is_cool", <<>>)>>, <<>>, <<>>, None),
   done |-> State(<<>>, <<>>, <<"plate_cake">>, <<>>, None),
   failed |-> Leaf]

ASSUME BreadAssumption ==
  /\ BakingSessions \subseteq Sessions
  /\ Registers(GuardFns, BreadGuardFns) /\ Registers(ActionFns, BreadActionFns)
  /\ Starts(BreadConfig, "idle", NewBakingSession)
=============================================================================
