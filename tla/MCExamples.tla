------------------------------- MODULE MCExamples -------------------------------
(***************************************************************************)
(* The three examples, each with its own machine, session and signals: all *)
(* the events of its graph in any order, with the data its demo sends and  *)
(* data that is incomplete, unsupported or taken back.                     *)
(***************************************************************************)
EXTENDS Examples

MCPayload ==
     "" :> <<>>
  @@ "transfer" :> [txn_type |-> "TRANSFER", from_account |-> "ACC-1001"]
  @@ "loan" :> [txn_type |-> "LOAN", from_account |-> "ACC-1001"]
  @@ "partial" :> [txn_type |-> "TRANSFER"]
  @@ "frozen" :> [amount |-> "small", to_account |-> "ACC-2002"]
  @@ "open" :> [to_account |-> "ACC-3003"]
  @@ "large" :> [amount |-> "large"]
  @@ "unset" :> [amount |-> None]
  @@ "card" :> [payment_method |-> "card"]
  @@ "cash" :> [payment_method |-> "cash"]

MCData == DOMAIN MCPayload

Turn(event, data) == [event |-> event, data |-> data]

BankTurns ==
       {Turn("START_TXN", ""), Turn("POST", "")}
  \cup {Turn("IDENTIFY", d) : d \in {"", "transfer", "loan", "partial"}}
  \cup {Turn(e, d) : e \in {"PROVIDE_DATA", "CORRECT"},
                     d \in {"transfer", "frozen", "open", "large", "unset"}}

PizzaTurns ==
       {Turn(e, d) : e \in {"CONFIRM", "RETRY_PAYMENT"}, d \in {"card", "cash"}}
  \cup {Turn(e, "") : e \in {"RETRY_PAYMENT", "CANCEL", "BAKING_DONE", "DISPATCH",
                             "DELIVERED", "FAILED", "RETRY_DELIVERY"}}

BreadTurns == {Turn(e, "") : e \in {"START", "MIXED", "TIMER_DONE"}}

MCTalks ==
  {[config |-> BankConfig, start |-> "idle", session |-> NewBankSession, turns |-> BankTurns],
   [config |-> PizzaConfig, start |-> "order_received", session |-> NewPizzaSession,
    turns |-> PizzaTurns],
   [config |-> BreadConfig, start |-> "idle", session |-> NewBakingSession,
    turns |-> BreadTurns]}

MCConfigs == {t.config : t \in MCTalks}
MCStartStates == {t.start : t \in MCTalks}
MCInputs == {<<turn>> : turn \in UNION {t.turns : t \in MCTalks}}
MCSessions == BankSessions \cup PizzaSessions \cup BakingSessions
MCGuardFns == BankGuardFns @@ PizzaGuardFns @@ BreadGuardFns
MCActionFns == BankActionFns @@ PizzaActionFns @@ BreadActionFns
MCRun == {FALSE}
MCAccessors == {None}
=============================================================================
