-------------------------- MODULE StatechartProofs --------------------------
(***************************************************************************)
(* How long a call can be, proved for every set of graphs, every input and *)
(* every cap.                                                              *)
(***************************************************************************)
EXTENDS Statechart, SchemaTheorems

(***************************************************************************)
(* Types: the state a signal was taken in belongs to the graph as long as  *)
(* its error state may be needed.                                          *)
(***************************************************************************)
THEOREM TypeCorrect == Spec => []TypeOK
<1>1. Init => TypeOK
  <2> SUFFICES ASSUME Init PROVE TypeOK
    OBVIOUS
  <2>1. PICK s \in StartStates : history = <<s>>
    BY DEF Init
  <2>2. history \in Seq(STRING) /\ Len(history) = 1
    <3>1. s \in STRING
      BY StatechartAssumption
    <3>2. <<s>> \in Seq(STRING) /\ Len(<<s>>) = 1
      BY <3>1, Singleton
    <3>3. QED BY <2>1, <3>2
  <2>3. QED BY <2>2, StatechartAssumption DEF Init, TypeOK, Modes
<1>2. TypeOK /\ [Next]_vars => TypeOK'
  <2> SUFFICES ASSUME TypeOK, [Next]_vars PROVE TypeOK'
    OBVIOUS
  <2> USE DEF TypeOK, Modes
  <2>0. IsConfig(config)
    BY StatechartAssumption
  <2>1. CASE AlwaysHop
    <3>1. PICK i \in DOMAIN config[current].always :
                 Goto(config[current].always[i].target)
      BY <2>1 DEF AlwaysHop
    <3>2. config[current].always[i].target \in STRING
      BY <2>0, <2>1, StateConfigType, TargetType DEF AlwaysHop
    <3>3. history' \in Seq(STRING) /\ Len(history') > 0
      BY <3>1, <3>2, SeqGrows DEF Goto
    <3>4. hops' \in 0 .. MaxDepth
      BY <2>1, StatechartAssumption DEF AlwaysHop, MayCascade, HopsCounted
    <3>5. QED BY <2>1, <3>3, <3>4 DEF AlwaysHop
  <2>2. CASE Settle
    BY <2>2 DEF Settle
  <2>3. CASE Ignore
    BY <2>3 DEF Ignore, NextTaken
  <2>4. CASE Take
    <3>1. current \in DOMAIN config
      BY <2>0, <2>4, LookupType DEF Take
    <3>2. QED BY <2>4, <3>1 DEF Take, NextTaken
  <2>5. CASE Refuse
    BY <2>5 DEF Refuse
  <2>6. CASE React
    <3>1. PICK i \in DOMAIN Offered : Goto(Offered[i].target)
      BY <2>6 DEF React
    <3>2. Offered[i].target \in STRING
      BY <2>0, LookupType, TargetType DEF Offered
    <3>3. history' \in Seq(STRING) /\ Len(history') > 0
      BY <3>1, <3>2, SeqGrows DEF Goto
    <3>4. QED BY <2>6, <3>3 DEF React
  <2>7. CASE Enter
    BY <2>7, StatechartAssumption DEF Enter
  <2>8. CASE Trip
    BY <2>8 DEF Trip, Recoverable
  <2>9. CASE Recover
    <3>1. config[origin].error_state \in STRING
      BY <2>0, <2>9, StateConfigType DEF Recover
    <3>2. history' \in Seq(STRING) /\ Len(history') > 0
      BY <2>9, <3>1, SeqGrows DEF Recover, Goto
    <3>3. QED BY <2>9, <3>2, StatechartAssumption DEF Recover
  <2>10. CASE Return
    BY <2>10 DEF Return
  <2>11. CASE Fail
    BY <2>11 DEF Fail
  <2>12. CASE UNCHANGED vars
    BY <2>12 DEF vars
  <2>13. QED
    BY <2>1, <2>2, <2>3, <2>4, <2>5, <2>6, <2>7, <2>8, <2>9, <2>10, <2>11,
       <2>12 DEF Next, Done
<1>3. QED BY <1>1, <1>2, PTL DEF Spec

(***************************************************************************)
(* What taking one more signal adds to the budget.                         *)
(***************************************************************************)
LEMMA PerSignalProduct ==
  ASSUME NEW n \in Nat
  PROVE  /\ PerSignal \in Nat
         /\ n * PerSignal \in Nat
         /\ (n + 1) * PerSignal = n * PerSignal + MaxDepth + 2
BY StatechartAssumption DEF PerSignal

(***************************************************************************)
(* The inductive form of the bound: history never exceeds the budget of    *)
(* the mode the call is in.                                                *)
(***************************************************************************)
THEOREM BudgetKept == Spec => []WithinBudget
<1>1. Init => WithinBudget
  <2> SUFFICES ASSUME Init PROVE WithinBudget
    OBVIOUS
  <2>1. Len(history) = 1
    BY DEF Init
  <2>2. taken * PerSignal = 0
    BY StatechartAssumption DEF Init, PerSignal
  <2>3. QED BY <2>1, <2>2 DEF Init, WithinBudget, Budget, Spare
<1>2. TypeOK /\ TypeOK' /\ WithinBudget /\ [Next]_vars => WithinBudget'
  <2> SUFFICES ASSUME TypeOK, TypeOK', WithinBudget, [Next]_vars
               PROVE  WithinBudget'
    OBVIOUS
  <2> DEFINE spent == taken * PerSignal
  <2>0. /\ MaxDepth \in Nat \ {0} /\ hops \in 0 .. MaxDepth
        /\ spent \in Nat /\ Len(history) \in Nat
        /\ Len(history) <= Budget
        /\ PerSignal' = PerSignal
    BY StatechartAssumption, PerSignalProduct DEF TypeOK, WithinBudget, PerSignal
  <2>1. CASE AlwaysHop
    <3>1. Len(history') = Len(history) + 1
      BY <2>1 DEF AlwaysHop, Goto, TypeOK
    <3>2. QED
      BY <2>0, <2>1, <3>1 DEF AlwaysHop, HopsCounted, WithinBudget, Budget, Spare
  <2>2. CASE Settle
    BY <2>0, <2>2 DEF Settle, WithinBudget, Budget, Spare
  <2>3. CASE Ignore
    <3>1. taken' * PerSignal = spent + MaxDepth + 2
      BY <2>3, PerSignalProduct DEF Ignore, NextTaken, TypeOK
    <3>2. Budget = 1 + spent + MaxDepth /\ Budget' = 1 + (spent + MaxDepth + 2) + MaxDepth
      BY <2>0, <2>3, <3>1 DEF Ignore, Budget, Spare
    <3> HIDE DEF spent
    <3>3. QED BY <2>0, <2>3, <3>2 DEF Ignore, WithinBudget
  <2>4. CASE Take
    <3>1. taken' * PerSignal = spent + MaxDepth + 2
      BY <2>4, PerSignalProduct DEF Take, NextTaken, TypeOK
    <3>2. Budget = 1 + MaxDepth + spent /\ Budget' = 1 + (spent + MaxDepth + 2) - 2
      BY <2>0, <2>4, <3>1 DEF Take, Budget, Spare
    <3> HIDE DEF spent
    <3>3. QED BY <2>0, <2>4, <3>2 DEF Take, WithinBudget
  <2>5. CASE Refuse
    BY <2>0, <2>5 DEF Refuse, WithinBudget, Budget, Spare
  <2>6. CASE React
    <3>1. Len(history') = Len(history) + 1
      BY <2>6 DEF React, Goto, TypeOK
    <3>2. QED BY <2>0, <2>6, <3>1 DEF React, WithinBudget, Budget, Spare
  <2>7. CASE Enter
    BY <2>0, <2>7 DEF Enter, WithinBudget, Budget, Spare
  <2>8. CASE Trip
    BY <2>0, <2>8 DEF Trip, Recoverable, WithinBudget, Budget, Spare
  <2>9. CASE Recover
    <3>1. Len(history') = Len(history) + 1
      BY <2>9 DEF Recover, Goto, TypeOK
    <3>2. QED BY <2>0, <2>9, <3>1 DEF Recover, WithinBudget, Budget, Spare
  <2>10. CASE Return
    BY <2>0, <2>10 DEF Return, WithinBudget, Budget, Spare
  <2>11. CASE Fail
    BY <2>0, <2>11 DEF Fail, WithinBudget, Budget, Spare
  <2>12. CASE UNCHANGED vars
    BY <2>0, <2>12 DEF vars, WithinBudget, Budget, Spare
  <2>13. QED
    BY <2>1, <2>2, <2>3, <2>4, <2>5, <2>6, <2>7, <2>8, <2>9, <2>10, <2>11,
       <2>12 DEF Next, Done
<1>3. QED BY <1>1, <1>2, TypeCorrect, PTL DEF Spec

(***************************************************************************)
(* A call that has taken n signals has made at most                        *)
(* MaxDepth + n * (MaxDepth + 2) hops.                                     *)
(***************************************************************************)
THEOREM BoundedCalls == Spec => []Bounded
<1>1. TypeOK /\ WithinBudget => Bounded
  <2> SUFFICES ASSUME TypeOK, WithinBudget PROVE Bounded
    OBVIOUS
  <2>0. Len(history) \in Nat
    BY LenProperties DEF TypeOK
  <2>1. /\ MaxDepth \in Nat /\ hops \in 0 .. MaxDepth
        /\ taken * PerSignal \in Nat
    BY StatechartAssumption, PerSignalProduct DEF TypeOK
  <2>2. Budget <= 1 + MaxDepth + taken * PerSignal
    BY <2>1 DEF Budget, Spare
  <2>3. Budget \in Int
    BY <2>1 DEF Budget, Spare
  <2>4. QED BY <2>0, <2>1, <2>2, <2>3 DEF WithinBudget, Bounded
<1>2. QED BY <1>1, TypeCorrect, BudgetKept, PTL
=============================================================================
