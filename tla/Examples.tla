-------------------------------- MODULE Examples --------------------------------
(***************************************************************************)
(* The three examples side by side, and what holds of all of them.         *)
(***************************************************************************)
EXTENDS Bank, Pizza, Bread

(* The three of them are all there is, and no cascade of theirs is cut off. *)
ASSUME ExamplesAssumption ==
  /\ \A t \in Talks : t.config \in {BankConfig, PizzaConfig, BreadConfig}
  /\ MaxDepth > 3

(* Nothing is done twice that cannot be undone: at most one receipt, one   *)
(* charge and one cake, though a call that was cancelled or failed is      *)
(* repeated from the state it started in.                                  *)
NothingTwice ==
  /\ session \in BankSessions => session.receipts <= 1
  /\ session \in PizzaSessions => session.charges <= 1
  /\ session \in BakingSessions => session.plated <= 1
=============================================================================
