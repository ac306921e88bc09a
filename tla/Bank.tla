---------------------------------- MODULE Bank ----------------------------------
(***************************************************************************)
(* examples/bank.py: a teller's bot that resolves the fields of a transfer *)
(* and posts it.  Amounts are abstract: "small" is within DAILY_LIMIT and  *)
(* "large" above it.  The session's log, last_error and txn_id only feed   *)
(* messages and are left out.                                              *)
(***************************************************************************)
EXTENDS Conversation

SUPPORTED_TXN_TYPES == {"TRANSFER", "WITHDRAWAL", "DEPOSIT"}
REQUIRED_FIELDS == {"txn_type", "from_account", "to_account", "amount"}
FROZEN_ACCOUNTS == {"ACC-2002"}

(* receipts counts what call_ledger_api posted; receipt_id is None at 0.   *)
(* It stops at 2: more than once.                                          *)
BankSessions ==
  [txn_type : {None, "TRANSFER", "LOAN"}, from_account : {None, "ACC-1001"},
   to_account : {None, "ACC-2002", "ACC-3003"}, amount : {None, "small", "large"},
   missing_fields : SUBSET REQUIRED_FIELDS, receipts : 0 .. 2]

NewBankSession ==
  [txn_type |-> None, from_account |-> None, to_account |-> None, amount |-> None,
   missing_fields |-> {}, receipts |-> 0]

(* A KeyError leaves what was assigned before it. *)
capture_identify_fields(s, d) ==
  LET typed == [s EXCEPT !.txn_type = DataOr(d, "txn_type", None)]
  IN IF ~Has(d, "txn_type") THEN {Raise("KeyError", s)}
     ELSE IF ~Has(d, "from_account") THEN {Raise("KeyError", typed)}
     ELSE {Ok(None, [typed EXCEPT !.from_account = DataOr(d, "from_account", None)])}

run_field_resolution(s, d) ==
  [s EXCEPT !.missing_fields = {field \in REQUIRED_FIELDS : s[field] = None}]

apply_teller_data(s, d) == SetAttrs(s, d)

exceeds_daily_limit(s, d) == s.amount = "large"

call_ledger_api(s, d) ==
  LET posted == [s EXCEPT !.receipts = IF @ < 2 THEN @ + 1 ELSE @]
  IN Cancelled(s) \cup
     IF s.to_account \in FROZEN_ACCOUNTS THEN {Raise("Exception", s)} ELSE {Ok(None, posted)}

BankActionFns ==
  [create_txn |-> Message, log_unsupported_type |-> Message,
   log_missing_fields |-> Message, ask_teller_for_missing_fields |-> Message,
   prompt_confirm_post |-> Message, reject_over_limit |-> Message,
   notify_failure |-> Message, print_receipt |-> Message,
   capture_identify_fields |-> Answers(BankSessions, capture_identify_fields),
   run_field_resolution |-> Action(BankSessions, run_field_resolution),
   apply_teller_data |-> Action(BankSessions, apply_teller_data),
   call_ledger_api |-> Answers(BankSessions, call_ledger_api)]

txn_type_supported(s, d) == DataOr(d, "txn_type", None) \in SUPPORTED_TXN_TYPES

txn_type_unsupported(s, d) == ~txn_type_supported(s, d)

all_fields_resolved(s, d) == s.missing_fields = {}
has_missing_fields(s, d) == s.missing_fields # {}

within_daily_limit(s, d) == {Ok(~exceeds_daily_limit(s, d), s)} \cup Cancelled(s)

BankGuardFns ==
  [txn_type_supported |-> Guard(BankSessions, txn_type_supported),
   txn_type_unsupported |-> Guard(BankSessions, txn_type_unsupported),
   all_fields_resolved |-> Guard(BankSessions, all_fields_resolved),
   has_missing_fields |-> Guard(BankSessions, has_missing_fields),
   exceeds_daily_limit |-> Guard(BankSessions, exceeds_daily_limit),
   within_daily_limit |-> Answers(BankSessions, within_daily_limit)]

(* The two ways on from the resolution of the fields. *)
Resolution ==
  <<On("posting", "all_fields_resolved", <<>>),
    On("resolution_failed", "has_missing_fields", <<"log_missing_fields">>)>>

(* Mutant: the fields are resolved once, when the type is identified. *)
ResolvedOnce == State(<<>>, Resolution, <<>>, <<>>, None)

resolve_fields == State(<<>>, Resolution, <<"run_field_resolution">>, <<>>, None)

posting ==
  State([POST |-> <<On("posting_failed", "exceeds_daily_limit", <<"reject_over_limit">>),
                    On("posting_pass", "within_daily_limit", <<"call_ledger_api">>)>>],
        <<>>, <<"prompt_confirm_post">>, <<>>, "posting_failed")

BankConfig ==
  [idle |-> State([START_TXN |-> <<On("txn_identify", None, <<"create_txn">>)>>],
                  <<>>, <<>>, <<>>, None),
   txn_identify |->
     State([IDENTIFY |->
              <<On("resolve_fields", "txn_type_supported", <<"capture_identify_fields">>),
                On("resolution_failed", "txn_type_unsupported", <<"log_unsupported_type">>)>>],
           <<>>, <<>>, <<>>, None),
   resolve_fields |-> resolve_fields,
   resolution_failed |->
     State([PROVIDE_DATA |-> <<On("collect_data", None, <<"apply_teller_data">>)>>],
           <<>>, <<"ask_teller_for_missing_fields">>, <<>>, None),
   collect_data |-> State(<<>>, <<To("resolve_fields")>>, <<>>, <<>>, None),
   posting |-> posting,
   posting_failed |->
     State([CORRECT |-> <<On("collect_data", None, <<"apply_teller_data">>)>>],
           <<>>, <<"notify_failure">>, <<>>, None),
   posting_pass |-> State(<<>>, <<>>, <<"print_receipt">>, <<>>, None)]

(* The data of a signal gives the fields of a transfer values of their     *)
(* types, and no receipt.                                                  *)
ASSUME BankAssumption ==
  /\ BankSessions \subseteq Sessions
  /\ Registers(GuardFns, BankGuardFns) /\ Registers(ActionFns, BankActionFns)
  /\ Starts(BankConfig, "idle", NewBankSession)
  /\ \A s \in BankSessions, d \in Data : SetAttrs(s, d) \in BankSessions
  /\ \A d \in Data : ~Has(d, "receipts")

----------------------------------------------------------------------------
(* What was posted had every field, was within the limit and did not go to *)
(* a frozen account, whatever the teller provided, corrected or left out,  *)
(* in any order, and whichever calls were cancelled on the way.            *)
PostedWasAllowed ==
  config = BankConfig /\ session.receipts > 0 =>
    /\ \A field \in REQUIRED_FIELDS : session[field] # None
    /\ ~exceeds_daily_limit(session, "")
    /\ session.to_account \notin FROZEN_ACCOUNTS
=============================================================================
