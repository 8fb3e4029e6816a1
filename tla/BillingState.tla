---------------------------- MODULE BillingState ----------------------------
(***************************************************************************)
(* The state the billing code shares: the rows of the tables Workspace,    *)
(* Payment, Subscription and WebhookEvent, the entitlements cache of the   *)
(* Node process, what Paystack knows, and the requests and timers that are *)
(* between two awaits.                                                     *)
(*                                                                         *)
(* A handler is one HTTP request or one timer callback.  Node runs it      *)
(* without interruption from one await to the next, so each action of the  *)
(* billing modules is one such stretch with the database call that ends or *)
(* begins it, and other handlers run in between.  What a handler has read  *)
(* and still remembers is its record h[i].                                 *)
(*                                                                         *)
(* Days stand for timestamps: MonthDays, YearDays, GraceDays, OverdueDays  *)
(* and SuspendDays are 30, 365, 5, 3 and 7 in the code.                    *)
(***************************************************************************)
EXTENDS Integers, FiniteSets

CONSTANTS
    Workspaces,     \* workspace ids
    Handlers,       \* slots for requests and timers in flight
    Plans,          \* rows of Plan
    YearlyPlans,    \* the rows with interval YEARLY
    StarterPlan,    \* the schema's default planName
    None,           \* no workspace, no plan
    Ops,            \* the operations that are called in this instance
    MaxPayments,    \* bound on the payments created
    MaxDay,         \* bound on the clock
    SweepLimit,     \* payments a dunning sweep takes (500 in the code)
    MaxFaults,      \* bound on process crashes and database failures
    MonthDays, YearDays, GraceDays, OverdueDays, SuspendDays

WorkspaceStatus == {"PENDING_OTP", "PENDING_PAYMENT", "ACTIVE", "SUSPENDED"}
BillingStatus == {"PENDING_PAYMENT", "ACTIVE", "PAST_DUE", "SUSPENDED", "CANCELLED"}

AllOps == {"otp", "checkout", "mockInit", "mockConfirm", "webhook", "replay",
           "verify", "retry", "set", "dunning", "guard", "reconcile", "cancel",
           "expiry", "activate", "suspend", "fix", "entitlements"}

ASSUME ParametersAssumption ==
    /\ StarterPlan \in Plans
    /\ None \notin Workspaces \cup Plans
    /\ YearlyPlans \subseteq Plans
    /\ Ops \subseteq AllOps
    /\ MaxPayments \in Nat /\ MaxDay \in Nat /\ MaxFaults \in Nat
    /\ SweepLimit \in Nat

ASSUME PeriodsAssumption ==
    /\ MonthDays \in Nat \ {0} /\ YearDays \in Nat \ {0}
    /\ GraceDays \in Nat
    /\ OverdueDays \in Nat /\ SuspendDays \in Nat /\ OverdueDays <= SuspendDays

VARIABLES
    now,        \* the current day
    ws,         \* Workspace rows
    pay,        \* Payment rows, numbered in the order of createdAt
    sub,        \* Subscription rows (workspaceId is unique)
    event,      \* WebhookEvent rows, one per charge (eventId is unique)
    cache,      \* planName held by the entitlements cache
    open,       \* payments Paystack has a checkout page for
    charged,    \* the day Paystack charged the customer, or NoDate
    acked,      \* payments whose webhook was answered with 200
    granted,    \* history: payments settled without a charge (mock or admin)
    vouched,    \* history: workspaces an operator set ACTIVE without a payment
    faults,     \* crashes and failures so far
    h           \* the handlers in flight

rows == <<ws, pay, sub, event>>
paystack == <<open, charged, acked>>
ghosts == <<granted, vouched>>
vars == <<now, rows, cache, paystack, ghosts, faults, h>>

-----------------------------------------------------------------------------
(* Row types *)

NoDate == -1
Dates == Nat \cup {NoDate}
PaymentIds == 1..MaxPayments
NoPayment == 0

WorkspaceRow == [status: WorkspaceStatus, billing: BillingStatus,
                 renewal: Dates, plan: Plans]

\* FAILED and REFUNDED are in the schema and no code writes them.
PaymentRow == [state: {"ABSENT", "PENDING", "PAID"}, ws: Workspaces \cup {None},
               plan: Plans \cup {None}, created: Dates, paidAt: Dates]

\* TRIAL is the schema's default, and the code creates rows as ACTIVE only.
SubscriptionRow == [status: {"ABSENT", "ACTIVE", "PAST_DUE", "CANCELED"},
                    plan: Plans \cup {None}, end: Dates]

EventState == {"absent", "unprocessed", "processed"}

NewWorkspace == [status |-> "PENDING_OTP", billing |-> "ACTIVE",
                 renewal |-> NoDate, plan |-> StarterPlan]
NoPaymentRow == [state |-> "ABSENT", ws |-> None, plan |-> None,
                 created |-> NoDate, paidAt |-> NoDate]
NoSubscription == [status |-> "ABSENT", plan |-> None, end |-> NoDate]

\* Where a handler waits, or what it does next.
Awaits == {"start", "create", "init", "ask", "finalize", "tx", "commit", "record",
           "failed", "latest", "reset", "next", "set", "write", "reads", "fill"}

(* What a handler remembers across its awaits *)
HandlerRecord ==
    [op: AllOps \cup {"idle"},                   \* the operation
     at: Awaits,
     w: Workspaces \cup {None},                  \* the workspace it is about
     p: PaymentIds \cup {NoPayment},             \* the payment it is about
     seen: WorkspaceRow,                         \* the workspace row it read
     latest: {"unread", "none", "PENDING", "PAID"}, \* status of the payment it read
     subRead: BOOLEAN, seenSub: SubscriptionRow, \* the subscription row it read
     todo: SUBSET PaymentIds,                    \* payments left in its loop
     due: SUBSET Workspaces,                     \* subscriptions left in its loop
     t: Dates,                                   \* its own "const now"
     to: BillingStatus \cup {None}]              \* the status it will set

Idle == [op |-> "idle", at |-> "start", w |-> None, p |-> NoPayment,
         seen |-> NewWorkspace, latest |-> "unread",
         subRead |-> FALSE, seenSub |-> NoSubscription,
         todo |-> {}, due |-> {}, t |-> NoDate, to |-> None]

-----------------------------------------------------------------------------
(* The tables and small functions of billing.service.ts *)

\* The transition table that assertBillingTransition throws on.
Allowed(from, to) ==
    to \in CASE from = "ACTIVE"          -> {"PAST_DUE", "CANCELLED"}
             [] from = "PAST_DUE"        -> {"ACTIVE", "SUSPENDED", "CANCELLED"}
             [] from = "SUSPENDED"       -> {"ACTIVE", "CANCELLED"}
             [] from = "CANCELLED"       -> {"ACTIVE"}
             [] from = "PENDING_PAYMENT" -> {"ACTIVE", "CANCELLED"}

\* workspaceStatusFor: the workspace status that belongs to a billing status.
WorkspaceStatusFor(b) ==
    CASE b \in {"SUSPENDED", "CANCELLED"}      -> "SUSPENDED"
      [] b \in {"PAST_DUE", "PENDING_PAYMENT"} -> "PENDING_PAYMENT"
      [] b = "ACTIVE"                          -> "ACTIVE"

PeriodOf(plan) == IF plan \in YearlyPlans THEN YearDays ELSE MonthDays

PaymentsOf(w) == {p \in PaymentIds : pay[p].state # "ABSENT" /\ pay[p].ws = w}

-----------------------------------------------------------------------------
(* Handlers *)

\* The bound MaxPayments: a checkout starts only if its row will fit.
RoomForPayment ==
    Cardinality({j \in Handlers : h[j].at = "create"})
        < Cardinality({p \in PaymentIds : pay[p].state = "ABSENT"})

Running(i, op, at) == h[i].op = op /\ h[i].at = at

\* A new request or timer callback takes a free slot.
Start(i, op, at, w, p) ==
    /\ op \in Ops
    /\ h[i] = Idle
    /\ h' = [h EXCEPT ![i] = [Idle EXCEPT !.op = op, !.at = at, !.w = w, !.p = p]]

Goto(i, at) == h' = [h EXCEPT ![i].at = at]

Finish(i) == h' = [h EXCEPT ![i] = Idle]

(***************************************************************************)
(* The settlement transaction holds the row locks of its payment, and of   *)
(* the workspace it activates, until it commits; any other write to them   *)
(* waits.  Reads never wait (READ COMMITTED).                              *)
(***************************************************************************)
WorkspaceRowFree(w) == \A j \in Handlers : h[j].at = "commit" => h[j].w # w
PaymentRowFree(p) == \A j \in Handlers : h[j].at = "commit" => h[j].p # p

\* workspace.update of the two statuses, by id.
WriteStatuses(w, status, billing) ==
    ws' = [ws EXCEPT ![w] = [@ EXCEPT !.status = status, !.billing = billing]]

\* cacheBust of the entitlements key.
Bust(w) == cache' = [cache EXCEPT ![w] = None]

=============================================================================
