---------------------------- MODULE PaymentLedger ----------------------------
(***************************************************************************)
(* What billing promises about money, without handlers, webhooks, rows or  *)
(* crashes: a payment is settled only after the customer was charged for   *)
(* it or an operator granted it, a settlement stays on record, and every   *)
(* charge is settled in the end.                                           *)
(***************************************************************************)
CONSTANT Payments

VARIABLES
    charges,    \* payments the provider charged the customer for
    grants,     \* payments settled by hand
    settled     \* payments on record as settled

ledger == <<charges, grants, settled>>

LedgerInit == charges = {} /\ grants = {} /\ settled = {}

ChargeCustomer(p) ==
    /\ charges' = charges \cup {p}
    /\ UNCHANGED <<grants, settled>>

Grant(p) ==
    /\ grants' = grants \cup {p}
    /\ UNCHANGED <<charges, settled>>

\* A settlement needs a charge or a grant.
Settle(p) ==
    /\ p \in charges \cup grants
    /\ settled' = settled \cup {p}
    /\ UNCHANGED <<charges, grants>>

\* The administrator grants and settles several payments in one transaction.
Forgive(S) ==
    /\ grants' = grants \cup S
    /\ settled' = settled \cup S
    /\ UNCHANGED charges

LedgerNext ==
    \/ \E p \in Payments : ChargeCustomer(p) \/ Grant(p) \/ Settle(p)
    \/ \E S \in SUBSET Payments : Forgive(S)

LedgerSafety == LedgerInit /\ [][LedgerNext]_ledger

\* A charge that is not settled yet does not stay so.
LedgerFairness == \A p \in Payments : WF_ledger(p \in charges /\ Settle(p))

LedgerSpec == LedgerSafety /\ LedgerFairness

=============================================================================
