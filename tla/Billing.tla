------------------------------- MODULE Billing -------------------------------
(***************************************************************************)
(* The billing service as a whole: payments and life cycle steps over the  *)
(* shared rows, the reader that fills the entitlements cache, the clock,   *)
(* and the crash of the Node process; then what must hold of it.           *)
(***************************************************************************)
EXTENDS BillingPayments, BillingLifecycle

-----------------------------------------------------------------------------
(* EntitlementsGuard: a miss reads the workspace, counts, and sets the     *)
(* entry; the time to live removes it.                                     *)

EntitlementsRead(i, w) ==
    /\ "entitlements" \in Ops
    /\ cache[w] = None
    /\ h[i] = Idle
    /\ h' = [h EXCEPT ![i] = [Idle EXCEPT !.op = "entitlements", !.at = "fill", !.w = w,
                                          !.seen = ws[w]]]
    /\ UNCHANGED <<now, rows, cache, paystack, ghosts, faults>>

EntitlementsFill(i) ==
    /\ Running(i, "entitlements", "fill")
    /\ cache' = [cache EXCEPT ![h[i].w] = h[i].seen.plan]
    /\ Finish(i)
    /\ UNCHANGED <<now, rows, paystack, ghosts, faults>>

CacheExpire(w) ==
    /\ cache[w] # None
    /\ Bust(w)
    /\ UNCHANGED <<now, rows, paystack, ghosts, faults, h>>

-----------------------------------------------------------------------------
(* The environment *)

Tick ==
    /\ now < MaxDay
    /\ now' = now + 1
    /\ UNCHANGED <<rows, cache, paystack, ghosts, faults, h>>

\* The process dies: requests, timers and the in-memory cache are gone.
Crash ==
    /\ faults < MaxFaults
    /\ faults' = faults + 1
    /\ h' = [i \in Handlers |-> Idle]
    /\ cache' = [w \in Workspaces |-> None]
    /\ UNCHANGED <<now, rows, paystack, ghosts>>

-----------------------------------------------------------------------------
(* The specification *)

Init ==
    /\ now = 0
    /\ ws = [w \in Workspaces |-> NewWorkspace]
    /\ pay = [p \in PaymentIds |-> NoPaymentRow]
    /\ sub = [w \in Workspaces |-> NoSubscription]
    /\ event = [p \in PaymentIds |-> "absent"]
    /\ cache = [w \in Workspaces |-> None]
    /\ open = {}
    /\ charged = [p \in PaymentIds |-> NoDate]
    /\ acked = {}
    /\ granted = {}
    /\ vouched = {}
    /\ faults = 0
    /\ h = [i \in Handlers |-> Idle]

\* A request arrives, or a timer fires.
Arrive(i) ==
    \/ \E w \in Workspaces :
          \/ OtpRead(i, w) \/ CheckoutRead(i, w) \/ MockInitRead(i, w)
          \/ RetryRead(i, w) \/ GuardRead(i, w) \/ ReconcileRead(i, w)
          \/ EntitlementsRead(i, w)
          \/ \E to \in BillingStatus : SetRead(i, w, to)
          \/ \E op \in {"activate", "fix"} : AdminRead(i, op, w)
    \/ \E p \in PaymentIds :
          WebhookStore(i, p) \/ ReplayRead(i, p) \/ VerifyRead(i, p) \/ MockConfirmRead(i, p)
    \/ DunningRead(i)
    \/ ExpiryRead(i)

\* A handler in flight takes its next stretch.
Continue(i) ==
    \/ \E p \in PaymentIds, plan \in Plans : CreatePayment(i, p, plan)
    \/ InitTransaction(i) \/ InitTransactionFails(i)
    \/ FinalizeRead(i) \/ FinalizeBust(i) \/ FinalizeCommit(i) \/ FinalizeFails(i)
    \/ RecordProcessed(i) \/ RecordFailed(i)
    \/ VerifyConfirmed(i) \/ VerifyRejected(i)
    \/ OtpWrite(i) \/ SetWrite(i)
    \/ RetryLatest(i) \/ RetryReset(i) \/ RetryWrite(i)
    \/ DunningNext(i) \/ DunningSetRead(i) \/ DunningDone(i)
    \/ GuardDemote(i)
    \/ ReconcilePayment(i) \/ ReconcileSubscription(i) \/ ReconcileWrite(i)
    \/ \E w \in Workspaces : ExpiryMark(i, w)
    \/ ActivateWrite(i) \/ FixWrite(i)
    \/ EntitlementsFill(i)

\* Single writes, the customer, the clock and the crash.
Environment ==
    \/ \E w \in Workspaces : CancelSubscription(w) \/ SuspendWorkspace(w) \/ CacheExpire(w)
    \/ \E p \in PaymentIds : Charge(p)
    \/ Tick
    \/ Crash

Next == (\E i \in Handlers : Arrive(i) \/ Continue(i)) \/ Environment

Spec == Init /\ [][Next]_vars

\* Node resumes every request, and Paystack redelivers until it gets a 200.
Fairness ==
    /\ \A i \in Handlers : WF_vars(Continue(i))
    /\ \A p \in PaymentIds :
          SF_vars(p \notin acked /\ \E i \in Handlers : WebhookStore(i, p))

FairSpec == Spec /\ Fairness

-----------------------------------------------------------------------------
(* Properties *)

\* Every variable has its type.
TypeOK ==
    /\ now \in Nat
    /\ ws \in [Workspaces -> WorkspaceRow]
    /\ pay \in [PaymentIds -> PaymentRow]
    /\ sub \in [Workspaces -> SubscriptionRow]
    /\ event \in [PaymentIds -> EventState]
    /\ cache \in [Workspaces -> Plans \cup {None}]
    /\ open \subseteq PaymentIds
    /\ charged \in [PaymentIds -> Dates]
    /\ acked \subseteq PaymentIds
    /\ granted \subseteq PaymentIds
    /\ vouched \subseteq Workspaces
    /\ faults \in Nat
    /\ h \in [Handlers -> HandlerRecord]

\* The pairs of status and billing status the program can leave in a row.
\* Beyond workspaceStatusFor: before verification billing is the schema's
\* ACTIVE, reconciliation of a row read then can leave PAST_DUE, and a
\* CANCELLED workspace reconciled after its renewal date is PENDING_PAYMENT.
Pairs ==
    {<<WorkspaceStatusFor(b), b>> : b \in BillingStatus}
        \cup {<<"PENDING_OTP", "ACTIVE">>, <<"PENDING_OTP", "PAST_DUE">>,
              <<"PENDING_PAYMENT", "CANCELLED">>}

\* However the writers of the two statuses interleave, each acting on rows
\* read earlier, the two stay paired: no workspace is open (ACTIVE) with a
\* billing status that is not, nor the other way round once verified.
StatusesPaired == \A w \in Workspaces : <<ws[w].status, ws[w].billing>> \in Pairs

Settled(p) == pay[p].paidAt # NoDate

\* A payment is settled only if Paystack charged for it, or it was granted by
\* the mock flow or the administrator, whatever is redelivered, replayed or
\* verified at the same time.
SettledWasCharged ==
    \A p \in PaymentIds : Settled(p) => charged[p] # NoDate \/ p \in granted

\* A webhook event marked processed, and so no longer listed as failed nor
\* redelivered, belongs to a payment that was settled.
ProcessedWasSettled ==
    \A p \in PaymentIds : event[p] = "processed" \/ p \in acked => Settled(p)

\* A workspace is ACTIVE only if one of its payments was settled or an operator
\* set it so: no stale read opens a workspace that never paid.
ActiveWasPaidFor ==
    \A w \in Workspaces : ws[w].status = "ACTIVE" =>
        w \in vouched \/ \E p \in PaymentsOf(w) : Settled(p)

\* Access that nobody vouched for ends: an ACTIVE workspace has a renewal date,
\* or the access guard could never demote it.
PaidAccessEnds ==
    \A w \in Workspaces : ws[w].status = "ACTIVE" =>
        w \in vouched \/ ws[w].renewal # NoDate

\* The plan a workspace is on, and the one the cache serves for it however
\* stale, is the Starter plan or one that a settled payment bought.
PlanWasPaidFor ==
    \A w \in Workspaces : \A plan \in {ws[w].plan, cache[w]} \ {StarterPlan, None} :
        \E p \in PaymentsOf(w) : Settled(p) /\ pay[p].plan = plan

Ledger == INSTANCE PaymentLedger WITH
    Payments <- PaymentIds,
    charges  <- {p \in PaymentIds : charged[p] # NoDate},
    grants   <- granted,
    settled  <- {p \in PaymentIds : Settled(p)}

\* The billing service implements the ledger: no settlement without a charge
\* or a grant, none erased, and every charge settled in the end although
\* webhooks are lost to crashes and database failures.
ImplementsLedger == Ledger!LedgerSpec

-----------------------------------------------------------------------------
(* What the code says of itself *)

\* assertBillingTransition: once the owner is verified, the billing status
\* moves along the table only.
BillingTransitions ==
    [][\A w \in Workspaces :
          ws[w].status # "PENDING_OTP" /\ ws'[w].billing # ws[w].billing
              => Allowed(ws[w].billing, ws'[w].billing)]_ws

\* finalizeSuccessfulPayment calls itself idempotent: a renewal date moves on
\* only with a payment that this very step settles for the first time.
SettlementIsIdempotent ==
    [][\A w \in Workspaces :
          ws[w].renewal # NoDate /\ ws'[w].renewal > ws[w].renewal
              => \E p \in PaymentsOf(w) : ~Settled(p) /\ Settled(p)']_<<ws, pay>>

\* The notice to a suspended workspace says "Reactivate after payment": there
\* is a payment it can still make, or it may start a checkout.
SuspendedCanPay ==
    \A w \in Workspaces : ws[w].billing = "SUSPENDED" =>
        \/ ws[w].status \in {"PENDING_PAYMENT", "ACTIVE"}
        \/ \E p \in PaymentsOf(w) \cap open : pay[p].state = "PENDING"

=============================================================================
