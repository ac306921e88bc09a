---------------------------------- MODULE Pizza ----------------------------------
(***************************************************************************)
(* examples/pizza.py: an order from its confirmation to the door, with a   *)
(* payment that may be declined, a quality check that sends the pizza back *)
(* and a delivery that may fail.  Notes, names and the order id only feed  *)
(* messages and are left out.                                              *)
(***************************************************************************)
EXTENDS Conversation

QUALITY_PASS_THRESHOLD == 7

(* charges counts the notes "gateway: ... charged"; it and                 *)
(* quality_attempts stop at 2: more than once.                             *)
PizzaSessions ==
  [payment_method : {"", "card", "cash"}, payment_result : {None, "approved", "declined"},
   prep_status : {None, "done"}, quality_score : {0, 5, 9}, quality_attempts : 0 .. 2,
   driver_id : {None, "DRV"}, delivery_result : {None, "delivered", "failed"},
   charges : 0 .. 2]

NewPizzaSession ==
  [payment_method |-> "", payment_result |-> None, prep_status |-> None,
   quality_score |-> 0, quality_attempts |-> 0, driver_id |-> None,
   delivery_result |-> None, charges |-> 0]

OneMore(n) == IF n < 2 THEN n + 1 ELSE n

(* The gateway's answer, once it is there. *)
Charged(s) ==
  IF s.payment_method = "cash"
    THEN [s EXCEPT !.payment_result = "declined"]
    ELSE [s EXCEPT !.payment_result = "approved", !.charges = OneMore(@)]

(* Mutant: the card is charged before the await. *)
ChargeThenAwait(s, d) == {Ok(None, Charged(s)), Raise("CancelledError", Charged(s))}

charge_card(s, d) == {Ok(None, Charged(s))} \cup Cancelled(s)

create_order(s, d) == SetAttrs(s, d)

reset_payment(s, d) ==
  [s EXCEPT !.payment_result = None,
            !.payment_method = DataOr(d, "payment_method", @)]

start_preparation(s, d) == [s EXCEPT !.prep_status = "done"]

(* The first attempt is underbaked, the others are perfect. *)
run_quality_check(s, d) ==
  LET attempts == OneMore(s.quality_attempts)
  IN [s EXCEPT !.quality_attempts = attempts,
               !.quality_score = IF attempts > 1 THEN 9 ELSE 5]

reset_for_remake(s, d) == [s EXCEPT !.prep_status = None, !.quality_score = 0]

find_driver(s, d) == {Ok(None, [s EXCEPT !.driver_id = "DRV"])} \cup Cancelled(s)

complete_delivery(s, d) == [s EXCEPT !.delivery_result = "delivered"]

(* Mutant: an order that came back keeps its driver. *)
KeepsTheDriver(s, d) == [s EXCEPT !.delivery_result = "failed"]

handle_delivery_failure(s, d) ==
  [s EXCEPT !.delivery_result = "failed", !.driver_id = None]

reset_driver(s, d) == [s EXCEPT !.driver_id = None, !.delivery_result = None]

PizzaActionFns ==
  [notify_received |-> Message, notify_payment_success |-> Message,
   notify_payment_failure |-> Message, log_prep_complete |-> Message,
   start_baking |-> Message, log_quality_fail |-> Message, notify_ready |-> Message,
   notify_dispatch |-> Message, notify_cancellation |-> Message,
   create_order |-> Action(PizzaSessions, create_order),
   charge_card |-> Answers(PizzaSessions, charge_card),
   reset_payment |-> Action(PizzaSessions, reset_payment),
   start_preparation |-> Action(PizzaSessions, start_preparation),
   run_quality_check |-> Action(PizzaSessions, run_quality_check),
   reset_for_remake |-> Action(PizzaSessions, reset_for_remake),
   find_driver |-> Answers(PizzaSessions, find_driver),
   complete_delivery |-> Action(PizzaSessions, complete_delivery),
   handle_delivery_failure |-> Action(PizzaSessions, handle_delivery_failure),
   reset_driver |-> Action(PizzaSessions, reset_driver)]

quality_passed(s, d) == s.quality_score >= QUALITY_PASS_THRESHOLD
quality_failed(s, d) == 0 < s.quality_score /\ s.quality_score < QUALITY_PASS_THRESHOLD

payment_approved(s, d) == s.payment_result = "approved"
payment_declined(s, d) == s.payment_result = "declined"
prep_complete(s, d) == s.prep_status = "done"
driver_found(s, d) == s.driver_id # None

PizzaGuardFns ==
  [payment_approved |-> Guard(PizzaSessions, payment_approved),
   payment_declined |-> Guard(PizzaSessions, payment_declined),
   prep_complete |-> Guard(PizzaSessions, prep_complete),
   quality_passed |-> Guard(PizzaSessions, quality_passed),
   quality_failed |-> Guard(PizzaSessions, quality_failed),
   driver_found |-> Guard(PizzaSessions, driver_found)]

PizzaConfig ==
  [order_received |->
     State([CONFIRM |->
              <<On("payment_processing", None, <<"create_order", "notify_received">>)>>],
           <<>>, <<>>, <<>>, None),
   payment_processing |->
     State(<<>>, <<On("preparing", "payment_approved", <<"notify_payment_success">>),
                   On("payment_failed", "payment_declined", <<"notify_payment_failure">>)>>,
           <<"charge_card">>, <<>>, "payment_failed"),
   payment_failed |->
     State([RETRY_PAYMENT |-> <<On("payment_processing", None, <<"reset_payment">>)>>,
            CANCEL |-> <<On("cancelled", None, <<"notify_cancellation">>)>>],
           <<>>, <<>>, <<>>, None),
   preparing |-> State(<<>>, <<On("baking", "prep_complete", <<"log_prep_complete">>)>>,
                       <<"start_preparation">>, <<>>, None),
   baking |-> State([BAKING_DONE |-> <<To("quality_check")>>],
                    <<>>, <<"start_baking">>, <<>>, None),
   quality_check |->
     State(<<>>, <<On("ready", "quality_passed", <<>>),
                   On("remaking", "quality_failed", <<"log_quality_fail">>)>>,
           <<"run_quality_check">>, <<>>, None),
   remaking |-> State(<<>>, <<To("preparing")>>, <<"reset_for_remake">>, <<>>, None),
   cancelled |-> Leaf,
   ready |-> State([DISPATCH |-> <<To("assigning_driver")>>],
                   <<>>, <<"notify_ready">>, <<>>, None),
   assigning_driver |->
     State(<<>>, <<On("out_for_delivery", "driver_found", <<"notify_dispatch">>)>>,
           <<"find_driver">>, <<>>, None),
   out_for_delivery |->
     State([DELIVERED |-> <<On("delivered", None, <<"complete_delivery">>)>>,
            FAILED |-> <<On("delivery_failed", None, <<"handle_delivery_failure">>)>>],
           <<>>, <<>>, <<>>, "delivery_failed"),
   delivered |-> Leaf,
   delivery_failed |->
     State([RETRY_DELIVERY |-> <<On("assigning_driver", None, <<"reset_driver">>)>>,
            CANCEL |-> <<On("cancelled", None, <<"notify_cancellation">>)>>],
           <<>>, <<>>, <<>>, None)]

(* The data of a signal names a way to pay, and nothing else of an order;  *)
(* a driver and a delivery are not None.                                   *)
ASSUME PizzaAssumption ==
  /\ None \notin {"DRV", "delivered"}
  /\ PizzaSessions \subseteq Sessions
  /\ Registers(GuardFns, PizzaGuardFns) /\ Registers(ActionFns, PizzaActionFns)
  /\ Starts(PizzaConfig, "order_received", NewPizzaSession)
  /\ \A s \in PizzaSessions, d \in Data :
       SetAttrs(s, d) \in {[s EXCEPT !.payment_method = m] : m \in {"", "card", "cash"}}

----------------------------------------------------------------------------
(* The states of an order that has left the kitchen. *)
Delivery == {"ready", "assigning_driver", "out_for_delivery", "delivered", "delivery_failed"}

(* What the caller may take an order's state for, though a cancelled call  *)
(* may have left its marks on the session: a pizza that is ready has been  *)
(* paid for and has passed the check, one that leaves has a driver, and a  *)
(* cancelled order has nobody on the way and was not delivered.            *)
StateTellsTheOrder ==
  config = PizzaConfig /\ Terminated =>
    LET kept == Kept IN
    /\ kept \in {"baking"} \cup Delivery =>
         session.payment_result = "approved" /\ session.prep_status = "done"
    /\ kept \in Delivery => session.quality_score >= QUALITY_PASS_THRESHOLD
    /\ kept \in {"out_for_delivery", "delivered"} => session.driver_id # None
    /\ (kept = "delivered") <=> (session.delivery_result = "delivered")
    /\ kept = "cancelled" => session.driver_id = None
=============================================================================
