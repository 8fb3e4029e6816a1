---------------------------- MODULE BillingProofs ----------------------------
(***************************************************************************)
(* Theorems about Billing, for every set of workspaces, handlers, plans    *)
(* and operations and for every bound.                                     *)
(***************************************************************************)
EXTENDS Billing, WellFoundedInduction, TLAPS

-----------------------------------------------------------------------------
(* The newest, oldest and latest-paid payments that the queries ask for.   *)

\* A set of natural numbers has a least element.
LEMMA LeastNatural ==
    ASSUME NEW S \in SUBSET Nat, S # {}
    PROVE  \E m \in S : \A k \in S : m <= k
<1>1. PICK m \in S : \A k \in S : ~ (<<k, m>> \in OpToRel(<, Nat))
  BY NatLessThanWellFounded, WFMin
<1>2. ASSUME NEW k \in S, k < m PROVE FALSE
  <2>1. <<k, m>> \in Nat \X Nat /\ <<k, m>>[1] < <<k, m>>[2]
    BY <1>2
  <2>2. <<k, m>> \in {ss \in Nat \X Nat : ss[1] < ss[2]}
    BY <2>1
  <2> QED  BY <1>1, <2>2 DEF OpToRel
<1> QED  BY <1>2

\* Among the payments 1..N, those of a set that is not empty include one with
\* the largest value of f: the least counterexample in N has no element below.
LEMMA LargestValue ==
    ASSUME NEW N \in Nat, NEW f \in [1..N -> Int], NEW S \in SUBSET (1..N), S # {}
    PROVE  \E p \in S : \A q \in S : f[q] <= f[p]
<1> DEFINE HasLargest(T) == \E p \in T : \A q \in T : f[q] <= f[p]
           Bad == {n \in 0..N : \E T \in SUBSET (1..n) : T # {} /\ ~HasLargest(T)}
<1>1. SUFFICES ASSUME Bad # {} PROVE FALSE
  <2> N \notin Bad => HasLargest(S)  OBVIOUS
  <2> QED  BY <1>1
<1>2. PICK n \in Bad : \A k \in Bad : n <= k
  <2>1. Bad \in SUBSET Nat  OBVIOUS
  <2> HIDE DEF Bad
  <2> QED  BY <1>1, <2>1, LeastNatural
<1>3. PICK T \in SUBSET (1..n) : T # {} /\ ~HasLargest(T)
  OBVIOUS
<1>4. n \in 0..N /\ n # 0
  <2>1. n \in 0..N  OBVIOUS
  <2>2. ASSUME n = 0 PROVE FALSE
    <3>1. T \in SUBSET (1..0)  BY <1>3, <2>2
    <3>2. 1..0 = {}  OBVIOUS
    <3> QED  BY <1>3, <3>1, <3>2
  <2> QED  BY <2>1, <2>2
<1>5. T \ {n} \in SUBSET (1..(n - 1)) /\ n - 1 \in 0..N /\ n - 1 \notin Bad
  <2>1. T \ {n} \in SUBSET (1..(n - 1)) /\ n - 1 \in 0..N
    BY <1>3, <1>4
  <2>2. n - 1 \notin Bad
    <3> HIDE DEF Bad
    <3> QED  BY <1>2, <1>4
  <2> QED  BY <2>1, <2>2
<1>6. T \ {n} = {} \/ HasLargest(T \ {n})
  BY <1>5
<1>7. CASE T \ {n} = {}
  <2> T = {n}  BY <1>3, <1>7
  <2> HasLargest(T)  BY <1>4
  <2> QED  BY <1>3
<1>8. CASE HasLargest(T \ {n})
  <2>1. PICK p \in T \ {n} : \A q \in T \ {n} : f[q] <= f[p]
    BY <1>8
  <2>2. f[p] \in Int /\ (n \in T => f[n] \in Int) /\ \A q \in T : f[q] \in Int
    BY <1>4
  <2>3. CASE n \in T /\ f[n] > f[p]
    <3> \A q \in T : f[q] <= f[n]  BY <2>1, <2>2, <2>3
    <3> QED  BY <1>3, <2>3
  <2>4. CASE ~(n \in T /\ f[n] > f[p])
    <3> \A q \in T : f[q] <= f[p]  BY <2>1, <2>2, <2>4
    <3> QED  BY <1>3, <2>1
  <2> QED  BY <2>3, <2>4
<1> QED  BY <1>6, <1>7, <1>8

\* The payment created last, of a set of payments.
LEMMA NewestIsOne ==
    ASSUME NEW S \in SUBSET PaymentIds, S # {}
    PROVE  Newest(S) \in S
<1> DEFINE f == [p \in 1..MaxPayments |-> p]
<1>1. \E p \in S : \A q \in S : f[q] <= f[p]
  <2>1. f \in [1..MaxPayments -> Int] /\ S \in SUBSET (1..MaxPayments)
    BY DEF PaymentIds
  <2> HIDE DEF f
  <2> QED  BY <2>1, LargestValue, ParametersAssumption
<1>2. \E p \in S : \A q \in S : q <= p
  BY <1>1 DEF PaymentIds
<1> QED  BY <1>2 DEF Newest

\* The payment a dunning sweep looks at next.
LEMMA OldestIsOne ==
    ASSUME NEW S \in SUBSET PaymentIds, S # {}
    PROVE  Oldest(S) \in S
<1>1. S \in SUBSET Nat
  BY DEF PaymentIds
<1> QED  BY <1>1, LeastNatural DEF Oldest

\* The payment reconciliation looks at exists, whichever have been paid.
LEMMA LatestByPaidAtIsOne ==
    ASSUME NEW S \in SUBSET PaymentIds, S # {}, pay \in [PaymentIds -> PaymentRow]
    PROVE  LatestByPaidAt(S) \in S
<1> DEFINE unpaid == {p \in S : pay[p].paidAt = NoDate}
           last   == {p \in S : \A q \in S : pay[q].paidAt <= pay[p].paidAt}
           f      == [p \in 1..MaxPayments |-> pay[p].paidAt]
<1>1. f \in [1..MaxPayments -> Int]
  BY DEF PaymentIds, PaymentRow, Dates, NoDate
<1>2. \E p \in S : \A q \in S : f[q] <= f[p]
  BY <1>1, LargestValue, ParametersAssumption DEF PaymentIds
<1>3. last # {}
  BY <1>2 DEF PaymentIds
<1>4. unpaid \in SUBSET PaymentIds /\ last \in SUBSET PaymentIds
  OBVIOUS
<1>5. (unpaid # {} => Newest(unpaid) \in S) /\ Newest(last) \in S
  BY <1>3, <1>4, NewestIsOne
<1> QED  BY <1>5 DEF LatestByPaidAt

-----------------------------------------------------------------------------
(* The inductive invariant of the types: what the rows refer to, and what   *)
(* a handler remembers at each of its awaits.                               *)

HasPayment(p) == pay[p].state # "ABSENT"
HasSubscription(w) == sub[w].status # "ABSENT"

RowTypes ==
    /\ now \in Nat
    /\ ws \in [Workspaces -> WorkspaceRow]
    /\ pay \in [PaymentIds -> PaymentRow]
    /\ sub \in [Workspaces -> SubscriptionRow]
    /\ event \in [PaymentIds -> EventState]
    /\ cache \in [Workspaces -> Plans \cup {None}]
    /\ open \subseteq PaymentIds
    /\ charged \in [PaymentIds -> Dates]
    /\ acked \subseteq PaymentIds
    /\ granted \subseteq PaymentIds
    /\ vouched \subseteq Workspaces
    /\ faults \in Nat

\* Rows that exist belong to a workspace and name a plan.
RowsInUse ==
    /\ \A p \in PaymentIds :
          HasPayment(p) => pay[p].ws \in Workspaces /\ pay[p].plan \in Plans
    /\ \A w \in Workspaces : HasSubscription(w) => sub[w].plan \in Plans

\* A handler about to write knows which row, and the row is still there.
Remembered(r) ==
    /\ r.at \in {"create", "init", "tx", "commit", "set", "write", "latest",
                 "reset", "reads", "fill"} => r.w \in Workspaces
    /\ r.at \in {"init", "ask", "finalize", "tx", "commit", "record", "failed", "reset"}
          => r.p \in PaymentIds
    /\ r.at \in {"ask", "finalize", "tx", "commit", "record", "failed"}
          => r.op \in {"webhook", "replay", "verify", "mockConfirm"}
    /\ r.at \in {"tx", "commit", "reset"} => HasPayment(r.p)
    /\ r.op \in {"set", "dunning"} /\ r.at \in {"set", "write"} => r.to \in BillingStatus
    /\ \A p \in r.todo : HasPayment(p)
    /\ \A w \in r.due : HasSubscription(w)
    /\ r.op \in {"reconcile", "activate", "fix"} /\ r.seenSub.status # "ABSENT" =>
          r.seenSub.plan \in Plans /\ r.w \in Workspaces /\ HasSubscription(r.w)

HandlersOK ==
    /\ h \in [Handlers -> HandlerRecord]
    /\ \A i \in Handlers : Remembered(h[i])

TypeInv == RowTypes /\ RowsInUse /\ HandlersOK

\* No step deletes a row.
RowsGrow ==
    /\ \A p \in PaymentIds : HasPayment(p) => HasPayment(p)'
    /\ \A w \in Workspaces : HasSubscription(w) => HasSubscription(w)'

-----------------------------------------------------------------------------
(* How a step changes the handlers: all but one remember what they did.     *)

LEMMA IdleRemembers == Idle \in HandlerRecord /\ Remembered(Idle)
<1>1. Idle \in HandlerRecord
  BY ParametersAssumption
  DEF HandlerRecord, Idle, NewWorkspace, WorkspaceRow, SubscriptionRow, NoSubscription,
      WorkspaceStatus, BillingStatus, Dates, NoDate, Awaits
<1>2. Remembered(Idle)
  BY DEF Remembered, Idle, NoSubscription
<1> QED  BY <1>1, <1>2

\* Updates of the record of a handler, as the actions make them, keep its type.
LEMMA FitsTo ==
    ASSUME NEW r \in HandlerRecord, NEW op \in AllOps, NEW at \in Awaits, NEW w \in Workspaces,
           NEW to \in BillingStatus \cup {None}
    PROVE  [r EXCEPT !.op = op, !.at = at, !.w = w, !.to = to] \in HandlerRecord
  BY Zenon DEF HandlerRecord

LEMMA FitsAdmin ==
    ASSUME NEW r \in HandlerRecord, NEW op \in AllOps, NEW at \in Awaits, NEW w \in Workspaces,
           NEW s \in SubscriptionRow, NEW t \in Dates
    PROVE  [r EXCEPT !.op = op, !.at = at, !.w = w, !.seenSub = s, !.t = t] \in HandlerRecord
  BY Zenon DEF HandlerRecord

LEMMA FitsSeen ==
    ASSUME NEW r \in HandlerRecord, NEW op \in AllOps, NEW at \in Awaits, NEW w \in Workspaces,
           NEW seen \in WorkspaceRow
    PROVE  [r EXCEPT !.op = op, !.at = at, !.w = w, !.seen = seen] \in HandlerRecord
  BY Zenon DEF HandlerRecord

LEMMA FitsSweep ==
    ASSUME NEW r \in HandlerRecord, NEW op \in AllOps, NEW at \in Awaits, NEW S \in SUBSET PaymentIds,
           NEW t \in Dates
    PROVE  [r EXCEPT !.op = op, !.at = at, !.todo = S, !.t = t] \in HandlerRecord
  BY Zenon DEF HandlerRecord

LEMMA FitsExpiry ==
    ASSUME NEW r \in HandlerRecord, NEW op \in AllOps, NEW at \in Awaits, NEW S \in SUBSET Workspaces
    PROVE  [r EXCEPT !.op = op, !.at = at, !.due = S] \in HandlerRecord
  BY Zenon DEF HandlerRecord

LEMMA FitsTurn ==
    ASSUME NEW r \in HandlerRecord, NEW S \in SUBSET PaymentIds, NEW w \in Workspaces,
           NEW to \in BillingStatus \cup {None}, NEW at \in Awaits
    PROVE  [r EXCEPT !.todo = S, !.w = w, !.to = to, !.at = at] \in HandlerRecord
  BY Zenon DEF HandlerRecord

LEMMA FitsPayment ==
    ASSUME NEW r \in HandlerRecord, NEW at \in Awaits, NEW p \in PaymentIds
    PROVE  [r EXCEPT !.at = at, !.p = p] \in HandlerRecord
  BY Zenon DEF HandlerRecord

LEMMA FitsSettlement ==
    ASSUME NEW r \in HandlerRecord, NEW at \in Awaits, NEW w \in Workspaces \cup {None}
    PROVE  [r EXCEPT !.at = at, !.w = w] \in HandlerRecord
  BY Zenon DEF HandlerRecord

LEMMA FitsSubscription ==
    ASSUME NEW r \in HandlerRecord, NEW s \in SubscriptionRow
    PROVE  [r EXCEPT !.subRead = TRUE, !.seenSub = s] \in HandlerRecord
  BY Zenon DEF HandlerRecord

LEMMA HandlerStep ==
    ASSUME HandlersOK, RowsGrow,
           NEW i \in Handlers, NEW r \in HandlerRecord, Remembered(r),
           h' = [h EXCEPT ![i] = r]
    PROVE  HandlersOK'
<1>1. /\ h' \in [Handlers -> HandlerRecord]
      /\ h'[i] = r
      /\ \A j \in Handlers : j # i => h'[j] = h[j]
  BY DEF HandlersOK
<1>2. ASSUME NEW q \in HandlerRecord, Remembered(q) PROVE Remembered(q)'
  <2>1. q.todo \subseteq PaymentIds /\ q.due \subseteq Workspaces
    BY DEF HandlerRecord
  <2> QED  BY <1>2, <2>1 DEF Remembered, RowsGrow
<1>3. ASSUME NEW j \in Handlers PROVE Remembered(h[j])'
  <2>1. PICK q \in HandlerRecord : q = h'[j]
    BY <1>1
  <2>2. Remembered(q)
    BY <1>1, <2>1 DEF HandlersOK
  <2>3. Remembered(q)'
    BY <1>2, <2>2
  <2> QED  BY <2>1, <2>3 DEF Remembered
<1> QED  BY <1>1, <1>3 DEF HandlersOK

LEMMA FinishStep ==
    ASSUME HandlersOK, RowsGrow, NEW i \in Handlers, Finish(i)
    PROVE  HandlersOK'
  BY HandlerStep, IdleRemembers DEF Finish

\* A request that starts with a workspace or with a payment.
LEMMA StartStep ==
    ASSUME HandlersOK, RowsGrow, NEW i \in Handlers,
           NEW op \in AllOps, NEW at, NEW w, NEW p, Start(i, op, at, w, p),
           \/ /\ at \in {"create", "write"} /\ w \in Workspaces /\ p = NoPayment
              /\ op \notin {"set", "dunning"}
           \/ /\ at \in {"ask", "finalize"} /\ w = None /\ p \in PaymentIds
              /\ op \in {"webhook", "replay", "verify", "mockConfirm"}
    PROVE  HandlersOK'
<1> DEFINE r == [Idle EXCEPT !.op = op, !.at = at, !.w = w, !.p = p]
<1>1. r \in HandlerRecord
  BY ParametersAssumption
  DEF HandlerRecord, Idle, NewWorkspace, WorkspaceRow, SubscriptionRow, NoSubscription,
      WorkspaceStatus, BillingStatus, Dates, NoDate, Awaits
<1>2. Remembered(r)
  BY DEF Remembered, Idle, NoSubscription
<1> QED  BY <1>1, <1>2, HandlerStep DEF Start

\* Nothing but one handler changes.
LEMMA OnlyHandlerStep ==
    ASSUME TypeInv, UNCHANGED <<now, rows, cache, paystack, ghosts, faults>>,
           HandlersOK'
    PROVE  TypeInv'
  BY DEF TypeInv, RowTypes, RowsInUse, HasPayment, HasSubscription, rows, paystack, ghosts

LEMMA ReadsGrow == UNCHANGED rows => RowsGrow
  BY DEF RowsGrow, HasPayment, HasSubscription, rows

-----------------------------------------------------------------------------
(* The steps that change no row                                             *)

LEMMA StartsKeepTypes ==
    ASSUME TypeInv, NEW i \in Handlers,
           \/ \E w \in Workspaces : CheckoutRead(i, w) \/ MockInitRead(i, w) \/ OtpRead(i, w)
           \/ \E p \in PaymentIds : ReplayRead(i, p) \/ VerifyRead(i, p)
    PROVE  TypeInv'
<1> USE DEF AllOps
<1>1. UNCHANGED <<now, rows, cache, paystack, ghosts, faults>>
  BY DEF CheckoutRead, MockInitRead, OtpRead, ReplayRead, VerifyRead
<1>2. HandlersOK /\ RowsGrow
  BY <1>1, ReadsGrow DEF TypeInv
<1>3. ASSUME NEW w \in Workspaces, CheckoutRead(i, w) \/ MockInitRead(i, w) \/ OtpRead(i, w)
      PROVE  HandlersOK'
  BY <1>2, <1>3, StartStep DEF CheckoutRead, MockInitRead, OtpRead
<1>4. ASSUME NEW p \in PaymentIds, ReplayRead(i, p) \/ VerifyRead(i, p)
      PROVE  HandlersOK'
  BY <1>2, <1>4, StartStep DEF ReplayRead, VerifyRead
<1> QED  BY <1>1, <1>3, <1>4, OnlyHandlerStep

\* The rows a request or timer remembers when it arrives.
LEMMA ArrivalsKeepTypes ==
    ASSUME TypeInv, NEW i \in Handlers,
           \/ \E w \in Workspaces :
                 \/ \E to \in BillingStatus : SetRead(i, w, to)
                 \/ \E op \in {"activate", "fix"} : AdminRead(i, op, w)
                 \/ RetryRead(i, w) \/ GuardRead(i, w) \/ ReconcileRead(i, w)
                 \/ EntitlementsRead(i, w)
           \/ DunningRead(i)
           \/ ExpiryRead(i)
    PROVE  TypeInv'
<1>1. UNCHANGED <<now, rows, cache, paystack, ghosts, faults>>
  BY DEF SetRead, AdminRead, RetryRead, GuardRead, ReconcileRead, EntitlementsRead,
         DunningRead, ExpiryRead
<1>2. HandlersOK /\ RowsGrow /\ RowTypes /\ RowsInUse
  BY <1>1, ReadsGrow DEF TypeInv
<1>3. /\ Idle \in HandlerRecord
      /\ Remembered(Idle)
      /\ now \in Dates
      /\ \A w \in Workspaces : ws[w] \in WorkspaceRow /\ sub[w] \in SubscriptionRow
  BY <1>2, IdleRemembers DEF RowTypes, Dates
<1>4. ASSUME NEW r, h' = [h EXCEPT ![i] = r], r \in HandlerRecord /\ Remembered(r)
      PROVE  TypeInv'
  BY <1>1, <1>2, <1>4, HandlerStep, OnlyHandlerStep
<1>5. ASSUME NEW w \in Workspaces, NEW to \in BillingStatus, SetRead(i, w, to)
      PROVE  TypeInv'
  <2> DEFINE r == [Idle EXCEPT !.op = "set", !.at = "write", !.w = w, !.to = to]
  <2>1. h' = [h EXCEPT ![i] = r]  BY <1>5 DEF SetRead
  <2>2. r \in HandlerRecord  BY <1>3, FitsTo DEF AllOps, Awaits
  <2>3. Remembered(r)            BY DEF Remembered, Idle, NoSubscription
  <2> QED  BY <1>4, <2>1, <2>2, <2>3
<1>6. ASSUME NEW w \in Workspaces, NEW op \in {"activate", "fix"}, AdminRead(i, op, w)
      PROVE  TypeInv'
  <2> DEFINE r == [Idle EXCEPT !.op = op, !.at = "write", !.w = w,
                               !.seenSub = sub[w], !.t = now]
  <2>1. h' = [h EXCEPT ![i] = r]  BY <1>6 DEF AdminRead
  <2>2. r \in HandlerRecord
    <3> op \in AllOps /\ "write" \in Awaits  BY DEF AllOps, Awaits
    <3> sub[w] \in SubscriptionRow  BY <1>3
    <3> QED  BY <1>3, FitsAdmin
  <2>3. Remembered(r)
    BY <1>2, <1>3 DEF Remembered, Idle, RowsInUse, HasSubscription
  <2> QED  BY <1>4, <2>1, <2>2, <2>3
<1>7. ASSUME NEW w \in Workspaces,
             NEW op \in {"retry", "guard", "reconcile", "entitlements"},
             NEW at \in {"latest", "write", "reads", "fill"},
             h' = [h EXCEPT ![i] = [Idle EXCEPT !.op = op, !.at = at, !.w = w,
                                                !.seen = ws[w]]]
      PROVE  TypeInv'
  <2> DEFINE r == [Idle EXCEPT !.op = op, !.at = at, !.w = w, !.seen = ws[w]]
  <2>1. r \in HandlerRecord
    <3> op \in AllOps /\ at \in Awaits  BY DEF AllOps, Awaits
    <3> ws[w] \in WorkspaceRow  BY <1>3
    <3> QED  BY <1>3, FitsSeen
  <2>2. Remembered(r)            BY DEF Remembered, Idle, NoSubscription
  <2> QED  BY <1>4, <1>7, <2>1, <2>2
<1>8. ASSUME NEW w \in Workspaces,
             RetryRead(i, w) \/ GuardRead(i, w) \/ ReconcileRead(i, w) \/ EntitlementsRead(i, w)
      PROVE  TypeInv'
  BY <1>7, <1>8 DEF RetryRead, GuardRead, ReconcileRead, EntitlementsRead
<1>9. ASSUME DunningRead(i) PROVE TypeInv'
  <2>1. PICK taken \in SUBSET {p \in PaymentIds : pay[p].state = "PENDING"} :
           h' = [h EXCEPT ![i] = [Idle EXCEPT !.op = "dunning", !.at = "next",
                                              !.todo = taken, !.t = now]]
    BY <1>9 DEF DunningRead
  <2> DEFINE r == [Idle EXCEPT !.op = "dunning", !.at = "next", !.todo = taken, !.t = now]
  <2>2. r \in HandlerRecord  BY <1>3, FitsSweep DEF AllOps, Awaits
  <2>3. Remembered(r)        BY DEF Remembered, Idle, NoSubscription, HasPayment
  <2> QED  BY <1>4, <2>1, <2>2, <2>3
<1>10. ASSUME ExpiryRead(i) PROVE TypeInv'
  <2>1. PICK due \in SUBSET {w \in Workspaces : sub[w].status = "ACTIVE"} :
           h' = [h EXCEPT ![i] = [Idle EXCEPT !.op = "expiry", !.at = "next", !.due = due]]
    BY <1>10 DEF ExpiryRead
  <2> DEFINE r == [Idle EXCEPT !.op = "expiry", !.at = "next", !.due = due]
  <2>2. r \in HandlerRecord  BY <1>3, FitsExpiry DEF AllOps, Awaits
  <2>3. Remembered(r)        BY DEF Remembered, Idle, NoSubscription, HasSubscription
  <2> QED  BY <1>4, <2>1, <2>2, <2>3
<1> QED  BY <1>5, <1>6, <1>8, <1>9, <1>10

\* The stretches that only read, and change what the handler knows.
LEMMA StretchesKeepTypes ==
    ASSUME TypeInv, NEW i \in Handlers,
           \/ InitTransactionFails(i) \/ FinalizeRead(i)
           \/ VerifyConfirmed(i) \/ VerifyRejected(i)
           \/ RetryLatest(i)
           \/ DunningNext(i) \/ DunningSetRead(i) \/ DunningDone(i)
           \/ ReconcilePayment(i) \/ ReconcileSubscription(i)
    PROVE  TypeInv'
<1>1. UNCHANGED <<now, rows, cache, paystack, ghosts, faults>>
  BY DEF InitTransactionFails, FinalizeRead, VerifyConfirmed, VerifyRejected, RetryLatest,
         DunningNext, DunningSetRead, DunningDone, ReconcilePayment, ReconcileSubscription
<1>2. HandlersOK /\ RowsGrow /\ RowTypes /\ RowsInUse
  BY <1>1, ReadsGrow DEF TypeInv
<1>3. h[i] \in HandlerRecord /\ Remembered(h[i])
  BY <1>2 DEF HandlersOK
<1>4. ASSUME NEW r, h' = [h EXCEPT ![i] = r], r \in HandlerRecord /\ Remembered(r)
      PROVE  TypeInv'
  BY <1>1, <1>2, <1>4, HandlerStep, OnlyHandlerStep
<1>5. ASSUME Finish(i) PROVE TypeInv'
  BY <1>1, <1>2, <1>5, FinishStep, OnlyHandlerStep
<1>6. ASSUME NEW at \in {"finalize", "next"}, Goto(i, at),
             \/ at = "next"
             \/ h[i].p \in PaymentIds /\ h[i].op \in {"webhook", "replay", "verify", "mockConfirm"}
      PROVE  TypeInv'
  <2> DEFINE r == [h[i] EXCEPT !.at = at]
  <2>1. r \in HandlerRecord  BY <1>3 DEF HandlerRecord, Awaits
  <2>2. Remembered(r)        BY <1>3, <1>6 DEF Remembered, HandlerRecord
  <2> QED  BY <1>4, <1>6, <2>1, <2>2 DEF Goto
<1>7. ASSUME InitTransactionFails(i) \/ VerifyRejected(i) \/ DunningDone(i) PROVE TypeInv'
  BY <1>5, <1>7 DEF InitTransactionFails, VerifyRejected, DunningDone
<1>8. ASSUME FinalizeRead(i) PROVE TypeInv'
  <2>1. h[i].p \in PaymentIds /\ h[i].at = "finalize"
    BY <1>3, <1>8 DEF FinalizeRead, Remembered
  <2>2. CASE pay[h[i].p].state = "PENDING"
    <3> DEFINE w == pay[h[i].p].ws
               r == [h[i] EXCEPT !.at = "tx", !.w = w]
    <3>1. w \in Workspaces /\ HasPayment(h[i].p)
      BY <1>2, <2>1, <2>2 DEF RowsInUse, HasPayment
    <3>2. r \in HandlerRecord
      BY <1>3, <3>1, FitsSettlement DEF Awaits
    <3>3. Remembered(r)
      BY <1>3, <2>1, <3>1 DEF Remembered, HandlerRecord
    <3>4. h' = [h EXCEPT ![i] = r]
      BY <1>8, <2>2 DEF FinalizeRead
    <3> QED  BY <1>4, <3>2, <3>3, <3>4
  <2>3. CASE pay[h[i].p].state # "PENDING" /\ h[i].op \in {"webhook", "replay"}
    <3> DEFINE r == [h[i] EXCEPT !.at = "record"]
    <3>1. r \in HandlerRecord  BY <1>3 DEF HandlerRecord, Awaits
    <3>2. Remembered(r)        BY <1>3, <2>1 DEF Remembered, HandlerRecord
    <3>3. h' = [h EXCEPT ![i] = r]  BY <1>8, <2>3 DEF FinalizeRead, Returned
    <3> QED  BY <1>4, <3>1, <3>2, <3>3
  <2>4. CASE pay[h[i].p].state # "PENDING" /\ h[i].op \notin {"webhook", "replay"}
    <3> Finish(i)  BY <1>8, <2>4 DEF FinalizeRead, Returned, Finish
    <3> QED  BY <1>5
  <2> QED  BY <2>2, <2>3, <2>4
<1>9. ASSUME VerifyConfirmed(i) PROVE TypeInv'
  BY <1>3, <1>6, <1>9 DEF VerifyConfirmed, Remembered
<1>10. ASSUME RetryLatest(i) PROVE TypeInv'
  <2> DEFINE mine == PaymentsOf(h[i].w)
  <2>1. CASE mine # {} /\ pay[Newest(mine)].state = "PENDING"
    <3> DEFINE q == Newest(mine)
               r == [h[i] EXCEPT !.at = "reset", !.p = q]
    <3>1. q \in PaymentIds /\ HasPayment(q) /\ h[i].w \in Workspaces
      <4> mine \in SUBSET PaymentIds  BY DEF PaymentsOf
      <4> q \in mine  BY <2>1, NewestIsOne
      <4> QED  BY <1>3, <1>10 DEF PaymentsOf, HasPayment, RetryLatest, Running, Remembered
    <3>2. r \in HandlerRecord  BY <1>3, <3>1, FitsPayment DEF Awaits
    <3>3. Remembered(r)        BY <1>3, <3>1 DEF Remembered, HandlerRecord
    <3>4. h' = [h EXCEPT ![i] = r]  BY <1>10, <2>1 DEF RetryLatest
    <3> QED  BY <1>4, <3>2, <3>3, <3>4
  <2>2. CASE ~(mine # {} /\ pay[Newest(mine)].state = "PENDING")
    BY <1>5, <1>10, <2>2 DEF RetryLatest
  <2> QED  BY <2>1, <2>2
<1>11. ASSUME DunningNext(i) PROVE TypeInv'
  <2> DEFINE q  == Oldest(h[i].todo)
             to == DunningTarget(q, h[i].t, ws[pay[q].ws].billing)
             at == IF to = None THEN "next" ELSE "set"
             S  == h[i].todo \ {q}
             r  == [h[i] EXCEPT !.todo = S, !.w = pay[q].ws, !.to = to, !.at = at]
  <2>1. q \in h[i].todo /\ h[i].todo \in SUBSET PaymentIds
    BY <1>3, <1>11, OldestIsOne DEF DunningNext, HandlerRecord
  <2>2. pay[q].ws \in Workspaces
    BY <1>2, <1>3, <2>1 DEF Remembered, RowsInUse
  <2>3. to \in BillingStatus \cup {None} /\ (to # None => to \in BillingStatus)
    BY DEF DunningTarget, BillingStatus
  <2>4. at \in {"next", "set"} /\ (at = "set" => to \in BillingStatus)
    BY <2>3
  <2>5. h' = [h EXCEPT ![i] = r]
    BY <1>11 DEF DunningNext
  <2>6. S \in SUBSET PaymentIds /\ at \in Awaits /\ S \subseteq h[i].todo
    BY <2>1, <2>4 DEF Awaits
  <2>7. h[i].op = "dunning" /\ h[i].at = "next"
    BY <1>11 DEF DunningNext, Running
  <2> HIDE DEF q, to, at, S
  <2>8. r \in HandlerRecord
    BY <1>3, <2>2, <2>3, <2>6, FitsTurn
  <2>9. /\ r.op = "dunning" /\ r.at = at /\ r.w = pay[q].ws /\ r.todo = S /\ r.to = to
        /\ r.due = h[i].due /\ r.seenSub = h[i].seenSub /\ r.p = h[i].p
    BY <1>3, <2>7 DEF HandlerRecord
  <2> HIDE DEF r
  <2>10. Remembered(r)
    BY <1>3, <2>2, <2>4, <2>6, <2>9 DEF Remembered
  <2> QED  BY <1>4, <2>5, <2>8, <2>10
<1>12. ASSUME DunningSetRead(i) PROVE TypeInv'
  <2> DEFINE at == IF Allowed(ws[h[i].w].billing, h[i].to) THEN "write" ELSE "next"
             r  == [h[i] EXCEPT !.at = at]
  <2>1. at \in {"write", "next"}  OBVIOUS
  <2>2. h' = [h EXCEPT ![i] = r]
    BY <1>12 DEF DunningSetRead, Goto
  <2> HIDE DEF at
  <2>3. r \in HandlerRecord  BY <1>3, <2>1 DEF HandlerRecord, Awaits
  <2>4. Remembered(r)
    BY <1>3, <1>12, <2>1 DEF Remembered, HandlerRecord, DunningSetRead, Running
  <2> QED  BY <1>4, <2>2, <2>3, <2>4
<1>13. ASSUME ReconcilePayment(i) PROVE TypeInv'
  <2> DEFINE mine == PaymentsOf(h[i].w)
             v == IF mine = {} THEN "none" ELSE pay[LatestByPaidAt(mine)].state
             r == [h[i] EXCEPT !.latest = v]
  <2>1. v \in {"none", "PENDING", "PAID"}
    <3>1. CASE mine = {}  BY <3>1
    <3>2. CASE mine # {}
      <4>1. mine \in SUBSET PaymentIds  BY DEF PaymentsOf
      <4>2. LatestByPaidAt(mine) \in mine
        BY <1>2, <3>2, <4>1, LatestByPaidAtIsOne DEF RowTypes
      <4> QED  BY <1>2, <3>2, <4>2 DEF PaymentsOf, RowTypes, PaymentRow
    <3> QED  BY <3>1, <3>2
  <2>2. h' = [h EXCEPT ![i] = r]
    BY <1>13 DEF ReconcilePayment
  <2> HIDE DEF v
  <2>3. r \in HandlerRecord  BY <1>3, <2>1 DEF HandlerRecord
  <2>4. Remembered(r)        BY <1>3 DEF Remembered, HandlerRecord
  <2> QED  BY <1>4, <2>2, <2>3, <2>4
<1>14. ASSUME ReconcileSubscription(i) PROVE TypeInv'
  <2> DEFINE w == h[i].w
             r == [h[i] EXCEPT !.subRead = TRUE, !.seenSub = sub[w]]
  <2>1. w \in Workspaces
    BY <1>3, <1>14 DEF ReconcileSubscription, Running, Remembered
  <2>2. h' = [h EXCEPT ![i] = r]
    BY <1>14 DEF ReconcileSubscription
  <2>3. r \in HandlerRecord
    <3> sub[w] \in SubscriptionRow  BY <1>2, <2>1 DEF RowTypes
    <3> QED  BY <1>3, FitsSubscription
  <2>4. Remembered(r)
    BY <1>2, <1>3, <2>1 DEF Remembered, HandlerRecord, RowsInUse, HasSubscription
  <2> QED  BY <1>4, <2>2, <2>3, <2>4
<1> QED  BY <1>7, <1>8, <1>9, <1>10, <1>11, <1>12, <1>13, <1>14

-----------------------------------------------------------------------------
(* The steps that write a row                                               *)

LEMMA GotoStep ==
    ASSUME HandlersOK, RowsGrow, NEW i \in Handlers, NEW at \in Awaits, Goto(i, at),
           Remembered([h[i] EXCEPT !.at = at])
    PROVE  HandlersOK'
<1>1. [h[i] EXCEPT !.at = at] \in HandlerRecord
  BY DEF HandlersOK, HandlerRecord
<1> QED  BY <1>1, HandlerStep DEF Goto

LEMMA ReturnedStep ==
    ASSUME HandlersOK, RowsGrow, NEW i \in Handlers, h[i].p \in PaymentIds,
           h[i].op \in {"webhook", "replay", "verify", "mockConfirm"},
           h' = [h EXCEPT ![i] = Returned(h[i])]
    PROVE  HandlersOK'
<1>1. h[i] \in HandlerRecord /\ Remembered(h[i])
  BY DEF HandlersOK
<1>2. CASE h[i].op \in {"webhook", "replay"}
  <2>1. Remembered([h[i] EXCEPT !.at = "record"])
    BY <1>1, <1>2 DEF Remembered, HandlerRecord
  <2>2. Goto(i, "record")
    BY <1>2 DEF Returned, Goto
  <2> QED  BY <2>1, <2>2, GotoStep DEF Awaits
<1>3. CASE h[i].op \notin {"webhook", "replay"}
  <2> Finish(i)  BY <1>3 DEF Returned, Finish
  <2> QED  BY FinishStep
<1> QED  BY <1>2, <1>3

LEMMA BustTypes ==
    ASSUME RowTypes, NEW w \in Workspaces, Bust(w)
    PROVE  cache' \in [Workspaces -> Plans \cup {None}]
  BY DEF RowTypes, Bust

LEMMA WriteStatusesTypes ==
    ASSUME RowTypes, NEW w \in Workspaces, NEW s \in WorkspaceStatus, NEW b \in BillingStatus,
           WriteStatuses(w, s, b)
    PROVE  ws' \in [Workspaces -> WorkspaceRow]
  BY DEF RowTypes, WriteStatuses, WorkspaceRow

\* A write to the workspaces only.
LEMMA WorkspaceStep ==
    ASSUME TypeInv, UNCHANGED <<now, pay, sub, event, paystack, granted, faults>>,
           ws' \in [Workspaces -> WorkspaceRow],
           cache' \in [Workspaces -> Plans \cup {None}],
           vouched' \subseteq Workspaces,
           RowsGrow => HandlersOK'
    PROVE  TypeInv'
<1>1. RowsGrow
  BY DEF RowsGrow, HasPayment, HasSubscription
<1> QED
  BY <1>1 DEF TypeInv, RowTypes, RowsInUse, HasPayment, HasSubscription, paystack

LEMMA PaymentsKeepTypes ==
    ASSUME TypeInv, NEW i \in Handlers,
           \/ \E p \in PaymentIds, plan \in Plans : CreatePayment(i, p, plan)
           \/ InitTransaction(i)
           \/ FinalizeBust(i) \/ FinalizeCommit(i) \/ FinalizeFails(i)
           \/ \E p \in PaymentIds : WebhookStore(i, p) \/ MockConfirmRead(i, p)
           \/ RecordProcessed(i) \/ RecordFailed(i)
    PROVE  TypeInv'
<1>1. HandlersOK /\ RowTypes /\ RowsInUse /\ h[i] \in HandlerRecord /\ Remembered(h[i])
  BY DEF TypeInv, HandlersOK
<1>2. ASSUME NEW p \in PaymentIds, NEW plan \in Plans, CreatePayment(i, p, plan) PROVE TypeInv'
  <2> DEFINE w == h[i].w
             row == [state |-> "PENDING", ws |-> w, plan |-> plan,
                     created |-> now, paidAt |-> NoDate]
  <2>1. w \in Workspaces
    BY <1>1, <1>2 DEF CreatePayment, Remembered
  <2>2. row \in PaymentRow
    BY <1>1, <2>1 DEF PaymentRow, RowTypes, Dates
  <2>3. pay' = [pay EXCEPT ![p] = row]
    BY <1>2 DEF CreatePayment
  <2>4. RowTypes'
    BY <1>1, <1>2, <2>2, <2>3 DEF RowTypes, CreatePayment, paystack, ghosts
  <2>5. RowsInUse' /\ RowsGrow
    BY <1>1, <1>2, <2>1, <2>3
    DEF RowsInUse, RowsGrow, HasPayment, HasSubscription, CreatePayment, RowTypes
  <2>6. CASE h[i].op = "checkout"
    <3> DEFINE r == [h[i] EXCEPT !.at = "init", !.p = p]
    <3>1. r \in HandlerRecord  BY <1>1, FitsPayment DEF Awaits
    <3>2. Remembered(r)
      BY <1>1, <2>1, <2>6 DEF Remembered, HandlerRecord
    <3>3. h' = [h EXCEPT ![i] = r]  BY <1>2, <2>6 DEF CreatePayment
    <3> QED  BY <1>1, <2>4, <2>5, <3>1, <3>2, <3>3, HandlerStep DEF TypeInv
  <2>7. CASE h[i].op # "checkout"
    <3> Finish(i)  BY <1>2, <2>7 DEF CreatePayment
    <3> QED  BY <1>1, <2>4, <2>5, FinishStep DEF TypeInv
  <2> QED  BY <2>6, <2>7
<1>3. ASSUME InitTransaction(i) PROVE TypeInv'
  <2>1. h[i].p \in PaymentIds
    BY <1>1, <1>3 DEF InitTransaction, Running, Remembered
  <2>2. RowTypes' /\ RowsInUse' /\ RowsGrow
    BY <1>1, <1>3, <2>1
    DEF InitTransaction, RowTypes, RowsInUse, RowsGrow, HasPayment, HasSubscription, rows, ghosts
  <2>3. Finish(i)  BY <1>3 DEF InitTransaction
  <2> QED  BY <1>1, <2>2, <2>3, FinishStep DEF TypeInv
<1>4. ASSUME FinalizeBust(i) PROVE TypeInv'
  <2>1. h[i].w \in Workspaces
    BY <1>1, <1>4 DEF FinalizeBust, Remembered
  <2>2. RowTypes' /\ RowsInUse' /\ RowsGrow
    BY <1>1, <1>4, <2>1, BustTypes
    DEF FinalizeBust, RowTypes, RowsInUse, RowsGrow, HasPayment, HasSubscription, rows,
        paystack, ghosts
  <2>3. Remembered([h[i] EXCEPT !.at = "commit"]) /\ Goto(i, "commit")
    BY <1>1, <1>4 DEF FinalizeBust, Remembered, HandlerRecord
  <2> QED  BY <1>1, <2>2, <2>3, GotoStep DEF TypeInv, Awaits
<1>5. ASSUME FinalizeCommit(i) PROVE TypeInv'
  <2> DEFINE p == h[i].p
             w == h[i].w
             d == IF h[i].op = "mockConfirm" \/ charged[p] = NoDate THEN now ELSE charged[p]
  <2>1. /\ w \in Workspaces /\ p \in PaymentIds /\ HasPayment(p)
        /\ h[i].op \in {"webhook", "replay", "verify", "mockConfirm"}
    BY <1>1, <1>5 DEF FinalizeCommit, Remembered
  <2>2. now + PeriodOf(pay[p].plan) \in Nat /\ pay[p].plan \in Plans
    BY <1>1, <2>1, PeriodsAssumption DEF RowsInUse, RowTypes, PeriodOf
  <2>3. d \in Dates
    BY <1>1, <2>1 DEF RowTypes, Dates
  <2>4. pay' = [pay EXCEPT ![p] = [@ EXCEPT !.state = "PAID", !.paidAt = d]]
    BY <1>5 DEF FinalizeCommit
  <2>5. ws' \in [Workspaces -> WorkspaceRow]
    BY <1>1, <1>5, <2>1, <2>2
    DEF RowTypes, FinalizeCommit, WorkspaceRow, WorkspaceStatus, BillingStatus, Dates
  <2>6. sub' \in [Workspaces -> SubscriptionRow]
    BY <1>1, <1>5, <2>1, <2>2 DEF RowTypes, FinalizeCommit, SubscriptionRow, Dates
  <2>7. pay' \in [PaymentIds -> PaymentRow]
    <3> HIDE DEF d, p
    <3> QED  BY <1>1, <2>1, <2>3, <2>4 DEF RowTypes, PaymentRow
  <2>8. RowTypes'
    BY <1>1, <1>5, <2>5, <2>6, <2>7 DEF RowTypes, FinalizeCommit, ghosts, paystack
  <2>9. /\ pay'[p].ws = pay[p].ws /\ pay'[p].plan = pay[p].plan /\ pay'[p].state = "PAID"
        /\ \A q \in PaymentIds : q # p => pay'[q] = pay[q]
    <3> HIDE DEF d, p
    <3> QED  BY <1>1, <2>1, <2>4 DEF RowTypes, PaymentRow
  <2>10. /\ sub'[w].plan = pay[p].plan /\ sub'[w].status = "ACTIVE"
         /\ \A v \in Workspaces : v # w => sub'[v] = sub[v]
    BY <1>1, <1>5, <2>1 DEF FinalizeCommit, RowTypes, SubscriptionRow
  <2>11. RowsInUse' /\ RowsGrow
    <3> HIDE DEF d, p, w
    <3> QED  BY <1>1, <2>1, <2>2, <2>9, <2>10 DEF RowsInUse, RowsGrow, HasPayment, HasSubscription
  <2>12. h' = [h EXCEPT ![i] = Returned(h[i])]
    BY <1>5 DEF FinalizeCommit
  <2> QED  BY <1>1, <2>1, <2>8, <2>11, <2>12, ReturnedStep DEF TypeInv
<1>6. ASSUME FinalizeFails(i) PROVE TypeInv'
  <2>1. RowTypes' /\ RowsInUse' /\ RowsGrow
    BY <1>1, <1>6
    DEF FinalizeFails, RowTypes, RowsInUse, RowsGrow, HasPayment, HasSubscription, rows,
        paystack, ghosts
  <2>2. CASE h[i].op = "webhook" /\ h[i].at # "failed"
    <3>1. Remembered([h[i] EXCEPT !.at = "failed"]) /\ Goto(i, "failed")
      BY <1>1, <1>6, <2>2 DEF FinalizeFails, Remembered, HandlerRecord, Goto
    <3> QED  BY <1>1, <2>1, <3>1, GotoStep DEF TypeInv, Awaits
  <2>3. CASE ~(h[i].op = "webhook" /\ h[i].at # "failed")
    <3> Finish(i)  BY <1>6, <2>3 DEF FinalizeFails, Finish
    <3> QED  BY <1>1, <2>1, FinishStep DEF TypeInv
  <2> QED  BY <2>2, <2>3
<1>7. ASSUME NEW p \in PaymentIds, WebhookStore(i, p) \/ MockConfirmRead(i, p) PROVE TypeInv'
  <2>1. RowTypes' /\ RowsInUse' /\ RowsGrow
    BY <1>1, <1>7
    DEF WebhookStore, MockConfirmRead, RowTypes, EventState, RowsInUse, RowsGrow, HasPayment,
        HasSubscription, rows, paystack, ghosts
  <2>2. HandlersOK'
    BY <1>1, <1>7, <2>1, StartStep DEF WebhookStore, MockConfirmRead, AllOps
  <2> QED  BY <2>1, <2>2 DEF TypeInv
<1>8. ASSUME RecordProcessed(i) \/ RecordFailed(i) PROVE TypeInv'
  <2>1. h[i].p \in PaymentIds
    BY <1>1, <1>8 DEF RecordProcessed, RecordFailed, Remembered
  <2>2. RowTypes' /\ RowsInUse' /\ RowsGrow
    BY <1>1, <1>8, <2>1
    DEF RecordProcessed, RecordFailed, RowTypes, EventState, RowsInUse, RowsGrow, HasPayment,
        HasSubscription, paystack, ghosts
  <2>3. Finish(i)  BY <1>8 DEF RecordProcessed, RecordFailed
  <2> QED  BY <1>1, <2>2, <2>3, FinishStep DEF TypeInv
<1> QED  BY <1>2, <1>3, <1>4, <1>5, <1>6, <1>7, <1>8

LEMMA WorkspaceForStatus ==
    ASSUME NEW b \in BillingStatus
    PROVE  WorkspaceStatusFor(b) \in WorkspaceStatus
  BY DEF BillingStatus, WorkspaceStatus, WorkspaceStatusFor

\* What reconciliation computes is a workspace row.
LEMMA ReconciledTypes ==
    ASSUME now \in Nat, NEW r \in HandlerRecord,
           r.seenSub.status # "ABSENT" => r.seenSub.plan \in Plans
    PROVE  Reconciled(r) \in WorkspaceRow
<1>1. r.seen \in WorkspaceRow /\ r.seenSub \in SubscriptionRow
  BY DEF HandlerRecord
<1>2. /\ r.seen.status \in WorkspaceStatus /\ r.seen.billing \in BillingStatus
      /\ r.seen.renewal \in Dates /\ r.seen.plan \in Plans
      /\ r.seenSub.end \in Dates
  BY <1>1 DEF WorkspaceRow, SubscriptionRow
<1> DEFINE s == r.seenSub
           renewal == CASE s.end # NoDate -> s.end
                        [] r.seen.renewal = NoDate /\ r.latest = "PAID" ->
                               now + (IF s.status = "ABSENT" THEN MonthDays
                                                             ELSE PeriodOf(s.plan))
                        [] OTHER -> r.seen.renewal
           plan == IF s.status = "ABSENT" THEN r.seen.plan ELSE s.plan
           billing == CASE r.latest = "PAID" -> "ACTIVE"
                        [] r.latest = "PENDING" /\ r.seen.billing = "ACTIVE" -> "PAST_DUE"
                        [] OTHER -> r.seen.billing
           status == CASE r.latest = "PAID" -> "ACTIVE"
                       [] r.latest = "PENDING" /\ r.seen.status = "ACTIVE" ->
                               "PENDING_PAYMENT"
                       [] OTHER -> r.seen.status
           expired == renewal # NoDate /\ renewal <= now
<1>3. renewal \in Dates
  BY <1>2, PeriodsAssumption DEF Dates, PeriodOf
<1>4. plan \in Plans
  BY <1>2
<1>5. billing \in BillingStatus
  BY <1>2 DEF BillingStatus
<1>6. status \in WorkspaceStatus
  BY <1>2 DEF WorkspaceStatus
<1>7. Reconciled(r) =
        [status  |-> IF expired THEN "PENDING_PAYMENT" ELSE status,
         billing |-> IF expired /\ billing # "CANCELLED" THEN "PAST_DUE" ELSE billing,
         renewal |-> renewal,
         plan    |-> plan]
  BY DEF Reconciled
<1> HIDE DEF s, renewal, plan, billing, status, expired
<1> QED
  BY <1>3, <1>4, <1>5, <1>6, <1>7 DEF WorkspaceRow, WorkspaceStatus, BillingStatus

LEMMA WorkspaceWritesKeepTypes ==
    ASSUME TypeInv, NEW i \in Handlers,
           \/ OtpWrite(i) \/ SetWrite(i) \/ RetryWrite(i) \/ GuardDemote(i)
           \/ ReconcileWrite(i) \/ ActivateWrite(i)
    PROVE  TypeInv'
<1>1. HandlersOK /\ RowTypes /\ RowsInUse /\ h[i] \in HandlerRecord /\ Remembered(h[i])
  BY DEF TypeInv, HandlersOK
<1> DEFINE w == h[i].w
<1>2. w \in Workspaces
  BY <1>1
  DEF OtpWrite, SetWrite, RetryWrite, GuardDemote, ReconcileWrite, ActivateWrite, Running,
      Remembered
<1>3. UNCHANGED <<now, pay, sub, event, paystack, granted, faults>>
  BY DEF OtpWrite, SetWrite, RetryWrite, GuardDemote, ReconcileWrite, ActivateWrite, ghosts
<1>4. cache' \in [Workspaces -> Plans \cup {None}]
  BY <1>1, <1>2, BustTypes
  DEF OtpWrite, SetWrite, RetryWrite, GuardDemote, ReconcileWrite, ActivateWrite, RowTypes
<1>5. vouched' \subseteq Workspaces
  BY <1>1, <1>2
  DEF OtpWrite, SetWrite, RetryWrite, GuardDemote, ReconcileWrite, ActivateWrite, RowTypes,
      ghosts
<1>6. ASSUME RowsGrow PROVE HandlersOK'
  <2>1. CASE Finish(i)
    BY <1>1, <1>6, <2>1, FinishStep
  <2>2. CASE SetWrite(i) /\ Goto(i, "next")
    <3> Remembered([h[i] EXCEPT !.at = "next"])
      BY <1>1, <2>2 DEF SetWrite, Remembered, HandlerRecord
    <3> QED  BY <1>1, <1>6, <2>2, GotoStep DEF Awaits
  <2> QED
    BY <2>1, <2>2
    DEF OtpWrite, SetWrite, RetryWrite, GuardDemote, ReconcileWrite, ActivateWrite
<1>7. ws' \in [Workspaces -> WorkspaceRow]
  <2>1. CASE OtpWrite(i)
    BY <1>1, <1>2, <2>1, WriteStatusesTypes DEF OtpWrite, WorkspaceStatus, BillingStatus
  <2>2. CASE SetWrite(i)
    <3>1. h[i].to \in BillingStatus  BY <1>1, <2>2 DEF SetWrite, Remembered
    <3>2. WorkspaceStatusFor(h[i].to) \in WorkspaceStatus  BY <3>1, WorkspaceForStatus
    <3> QED  BY <1>1, <1>2, <2>2, <3>1, <3>2, WriteStatusesTypes DEF SetWrite
  <2>3. CASE RetryWrite(i)
    <3> WorkspaceStatusFor("PAST_DUE") \in WorkspaceStatus /\ "PAST_DUE" \in BillingStatus
      BY WorkspaceForStatus DEF BillingStatus
    <3> QED  BY <1>1, <1>2, <2>3, WriteStatusesTypes DEF RetryWrite
  <2>4. CASE GuardDemote(i)
    <3> DEFINE b == IF h[i].seen.billing = "CANCELLED" THEN "CANCELLED" ELSE "PAST_DUE"
    <3> b \in BillingStatus /\ "PENDING_PAYMENT" \in WorkspaceStatus
      BY DEF BillingStatus, WorkspaceStatus
    <3> QED  BY <1>1, <1>2, <2>4, WriteStatusesTypes DEF GuardDemote
  <2>5. CASE ReconcileWrite(i)
    <3>1. h[i].seenSub.status # "ABSENT" => h[i].seenSub.plan \in Plans
      BY <1>1, <2>5 DEF ReconcileWrite, Running, Remembered
    <3>2. Reconciled(h[i]) \in WorkspaceRow
      BY <1>1, <3>1, ReconciledTypes DEF RowTypes
    <3> QED  BY <1>1, <1>2, <2>5, <3>2 DEF ReconcileWrite, RowTypes
  <2>6. CASE ActivateWrite(i)
    <3> DEFINE n == IF h[i].seenSub.status = "ACTIVE" /\ h[i].seenSub.end > h[i].t
                      THEN h[i].seenSub.end ELSE NoDate
    <3>1. n \in Dates
      BY <1>1 DEF HandlerRecord, SubscriptionRow, Dates
    <3>2. ws' = [ws EXCEPT ![w] = [@ EXCEPT !.status = "ACTIVE", !.billing = "ACTIVE",
                                            !.renewal = n]]
      BY <2>6 DEF ActivateWrite
    <3> HIDE DEF n
    <3> QED
      BY <1>1, <1>2, <3>1, <3>2 DEF RowTypes, WorkspaceRow, WorkspaceStatus, BillingStatus
  <2> QED  BY <2>1, <2>2, <2>3, <2>4, <2>5, <2>6
<1> QED  BY <1>3, <1>4, <1>5, <1>6, <1>7, WorkspaceStep

LEMMA OtherWritesKeepTypes ==
    ASSUME TypeInv, NEW i \in Handlers,
           \/ RetryReset(i) \/ FixWrite(i) \/ EntitlementsFill(i)
           \/ \E w \in Workspaces : ExpiryMark(i, w)
    PROVE  TypeInv'
<1>1. HandlersOK /\ RowTypes /\ RowsInUse /\ h[i] \in HandlerRecord /\ Remembered(h[i])
  BY DEF TypeInv, HandlersOK
<1>2. ASSUME RetryReset(i) PROVE TypeInv'
  <2> DEFINE p == h[i].p
  <2>1. p \in PaymentIds /\ HasPayment(p) /\ h[i].w \in Workspaces
    BY <1>1, <1>2 DEF RetryReset, Running, Remembered
  <2>2. pay' = [pay EXCEPT ![p].state = "PENDING"]
    BY <1>2 DEF RetryReset
  <2>3. RowTypes'
    <3>1. pay' \in [PaymentIds -> PaymentRow]
      <4> HIDE DEF p
      <4> QED  BY <1>1, <2>1, <2>2 DEF RowTypes, PaymentRow
    <3> QED  BY <1>1, <1>2, <3>1 DEF RetryReset, RowTypes, paystack, ghosts
  <2>4. RowsInUse' /\ RowsGrow
    BY <1>1, <1>2, <2>1, <2>2
    DEF RetryReset, RowTypes, PaymentRow, RowsInUse, RowsGrow, HasPayment, HasSubscription
  <2>5. CASE Goto(i, "write")
    <3> Remembered([h[i] EXCEPT !.at = "write"])
      BY <1>1, <1>2, <2>1 DEF RetryReset, Running, Remembered, HandlerRecord
    <3> QED  BY <1>1, <2>3, <2>4, <2>5, GotoStep DEF TypeInv, Awaits
  <2>6. CASE Finish(i)
    BY <1>1, <2>3, <2>4, <2>6, FinishStep DEF TypeInv
  <2> QED  BY <1>2, <2>5, <2>6 DEF RetryReset
<1>3. ASSUME FixWrite(i) PROVE TypeInv'
  <2> DEFINE w == h[i].w
             s == h[i].seenSub
             t == h[i].t
             end == IF s.end > t THEN s.end ELSE t + MonthDays
             unpaid == {p \in PaymentsOf(w) : pay[p].state = "PENDING"}
  <2>1. w \in Workspaces /\ s \in SubscriptionRow /\ t \in Dates
    BY <1>1, <1>3 DEF FixWrite, Running, Remembered, HandlerRecord
  <2>2. end \in Dates
    BY <2>1, PeriodsAssumption DEF SubscriptionRow, Dates, NoDate
  <2>3. /\ pay' = [p \in PaymentIds |->
                     IF p \in unpaid
                       THEN [pay[p] EXCEPT !.state = "PAID", !.paidAt = t]
                       ELSE pay[p]]
        /\ granted' = granted \cup unpaid
        /\ vouched' = vouched \cup {w}
        /\ ws' = [ws EXCEPT ![w] = [@ EXCEPT !.status = "ACTIVE", !.billing = "ACTIVE",
                                             !.renewal = end]]
        /\ sub' = IF s.status \in {"ABSENT", "ACTIVE"} THEN sub
                  ELSE [sub EXCEPT ![w] = [@ EXCEPT !.status = "ACTIVE", !.end = end]]
        /\ Bust(w)
        /\ UNCHANGED <<now, event, paystack, faults>>
        /\ Finish(i)
    BY <1>3 DEF FixWrite
  <2>4. s.status # "ABSENT" => HasSubscription(w)
    BY <1>1, <1>3 DEF FixWrite, Running, Remembered
  <2>5. unpaid \subseteq PaymentIds
    BY DEF PaymentsOf
  <2> HIDE DEF w, s, t, end, unpaid
  <2>6. /\ pay' \in [PaymentIds -> PaymentRow]
        /\ \A p \in PaymentIds : /\ pay'[p].ws = pay[p].ws
                                 /\ pay'[p].plan = pay[p].plan
                                 /\ pay'[p].state \in {pay[p].state, "PAID"}
    BY <1>1, <2>1, <2>3 DEF RowTypes, PaymentRow
  <2>7. ws' \in [Workspaces -> WorkspaceRow]
    BY <1>1, <2>1, <2>2, <2>3 DEF RowTypes, WorkspaceRow, WorkspaceStatus, BillingStatus
  <2>8. /\ sub' \in [Workspaces -> SubscriptionRow]
        /\ \A v \in Workspaces : /\ sub'[v].plan = sub[v].plan
                                 /\ HasSubscription(v) <=> HasSubscription(v)'
    BY <1>1, <2>1, <2>2, <2>3, <2>4 DEF RowTypes, SubscriptionRow, HasSubscription
  <2>9. RowTypes'
    <3>1. cache' \in [Workspaces -> Plans \cup {None}]
      <4> Bust(w)  BY <2>3
      <4> QED  BY <1>1, <2>1, BustTypes
    <3>2. granted' \subseteq PaymentIds /\ vouched' \subseteq Workspaces
      BY <1>1, <2>1, <2>3, <2>5 DEF RowTypes
    <3>3. /\ now' = now /\ event' = event /\ faults' = faults
          /\ open' = open /\ charged' = charged /\ acked' = acked
      BY <2>3 DEF paystack
    <3>4. /\ pay' \in [PaymentIds -> PaymentRow]
          /\ ws' \in [Workspaces -> WorkspaceRow]
          /\ sub' \in [Workspaces -> SubscriptionRow]
      BY <2>6, <2>7, <2>8
    <3> QED  BY <1>1, <3>1, <3>2, <3>3, <3>4 DEF RowTypes
  <2>10. \A p \in PaymentIds : HasPayment(p) => HasPayment(p)'
    BY <2>6 DEF HasPayment
  <2>11. \A p \in PaymentIds : HasPayment(p)' => HasPayment(p)
    BY <2>3, <2>5 DEF HasPayment, unpaid
  <2>12. RowsInUse' /\ RowsGrow
    BY <1>1, <2>6, <2>8, <2>10, <2>11 DEF RowsInUse, RowsGrow
  <2> QED  BY <1>1, <2>3, <2>9, <2>12, FinishStep DEF TypeInv
<1>4. ASSUME EntitlementsFill(i) PROVE TypeInv'
  <2>1. h[i].seen \in WorkspaceRow
    BY <1>1 DEF HandlerRecord
  <2>2. RowTypes' /\ RowsInUse' /\ RowsGrow
    BY <1>1, <1>4, <2>1
    DEF EntitlementsFill, RowTypes, RowsInUse, RowsGrow, HasPayment, HasSubscription,
        WorkspaceRow, rows, paystack, ghosts
  <2>3. Finish(i)  BY <1>4 DEF EntitlementsFill
  <2> QED  BY <1>1, <2>2, <2>3, FinishStep DEF TypeInv
<1>5. ASSUME NEW w \in Workspaces, ExpiryMark(i, w) PROVE TypeInv'
  <2>1. HasSubscription(w) /\ sub' = [sub EXCEPT ![w].status = "PAST_DUE"]
    BY <1>1, <1>5 DEF ExpiryMark, Remembered
  <2>2. RowTypes'
    BY <1>1, <1>5, <2>1 DEF ExpiryMark, RowTypes, SubscriptionRow, paystack, ghosts
  <2>3. RowsInUse' /\ RowsGrow
    BY <1>1, <1>5, <2>1
    DEF ExpiryMark, RowTypes, SubscriptionRow, RowsInUse, RowsGrow, HasPayment,
        HasSubscription
  <2>4. CASE Finish(i)
    BY <1>1, <2>2, <2>3, <2>4, FinishStep DEF TypeInv
  <2>5. CASE h' = [h EXCEPT ![i].due = @ \ {w}]
    <3> DEFINE r == [h[i] EXCEPT !.due = @ \ {w}]
    <3>1. r \in HandlerRecord  BY <1>1 DEF HandlerRecord
    <3>2. Remembered(r)        BY <1>1 DEF Remembered, HandlerRecord
    <3>3. h' = [h EXCEPT ![i] = r]  BY <2>5
    <3> QED  BY <1>1, <2>2, <2>3, <3>1, <3>2, <3>3, HandlerStep DEF TypeInv
  <2> QED  BY <1>5, <2>4, <2>5 DEF ExpiryMark
<1> QED  BY <1>2, <1>3, <1>4, <1>5

LEMMA EnvironmentKeepsTypes ==
    ASSUME TypeInv, Environment
    PROVE  TypeInv'
<1>1. HandlersOK /\ RowTypes /\ RowsInUse
  BY DEF TypeInv
<1>2. ASSUME UNCHANGED h, RowsGrow PROVE HandlersOK'
  <2>1. ASSUME NEW j \in Handlers PROVE HandlersOK'
    <3>1. h' = [h EXCEPT ![j] = h[j]] /\ h[j] \in HandlerRecord /\ Remembered(h[j])
      BY <1>1, <1>2 DEF HandlersOK
    <3> QED  BY <1>1, <1>2, <3>1, HandlerStep
  <2>2. CASE Handlers = {}
    BY <1>1, <1>2, <2>2 DEF HandlersOK
  <2> QED  BY <2>1, <2>2
<1>3. ASSUME NEW w \in Workspaces, CancelSubscription(w) PROVE TypeInv'
  <2>1. RowTypes' /\ RowsInUse' /\ RowsGrow
    BY <1>1, <1>3
    DEF CancelSubscription, RowTypes, SubscriptionRow, RowsInUse, RowsGrow, HasPayment,
        HasSubscription, paystack, ghosts
  <2> QED  BY <1>2, <1>3, <2>1 DEF TypeInv, CancelSubscription
<1>4. ASSUME NEW w \in Workspaces, SuspendWorkspace(w) PROVE TypeInv'
  <2>1. WriteStatuses(w, "SUSPENDED", "SUSPENDED")
    BY <1>4 DEF SuspendWorkspace
  <2>2. ws' \in [Workspaces -> WorkspaceRow]
    BY <1>1, <2>1, WriteStatusesTypes DEF WorkspaceStatus, BillingStatus
  <2> QED
    BY <1>1, <1>2, <1>4, <2>2, WorkspaceStep DEF SuspendWorkspace, RowTypes, ghosts
<1>5. ASSUME NEW w \in Workspaces, CacheExpire(w) PROVE TypeInv'
  <2>1. RowTypes' /\ RowsInUse' /\ RowsGrow
    BY <1>1, <1>5, BustTypes
    DEF CacheExpire, RowTypes, RowsInUse, RowsGrow, HasPayment, HasSubscription, rows,
        paystack, ghosts
  <2> QED  BY <1>2, <1>5, <2>1 DEF TypeInv, CacheExpire
<1>6. ASSUME NEW p \in PaymentIds, Charge(p) PROVE TypeInv'
  <2>1. RowTypes' /\ RowsInUse' /\ RowsGrow
    BY <1>1, <1>6
    DEF Charge, RowTypes, Dates, RowsInUse, RowsGrow, HasPayment, HasSubscription, rows, ghosts
  <2> QED  BY <1>2, <1>6, <2>1 DEF TypeInv, Charge
<1>7. ASSUME Tick PROVE TypeInv'
  <2>1. RowTypes' /\ RowsInUse' /\ RowsGrow
    BY <1>1, <1>7
    DEF Tick, RowTypes, RowsInUse, RowsGrow, HasPayment, HasSubscription, rows, paystack, ghosts
  <2> QED  BY <1>2, <1>7, <2>1 DEF TypeInv, Tick
<1>8. ASSUME Crash PROVE TypeInv'
  <2>1. RowTypes' /\ RowsInUse' /\ RowsGrow
    BY <1>1, <1>8, ParametersAssumption
    DEF Crash, RowTypes, RowsInUse, RowsGrow, HasPayment, HasSubscription, rows, paystack, ghosts
  <2>2. Idle \in HandlerRecord /\ Remembered(Idle)'
    BY IdleRemembers DEF Remembered, Idle, NoSubscription
  <2>3. HandlersOK'
    BY <1>8, <2>2 DEF Crash, HandlersOK, Remembered
  <2> QED  BY <2>1, <2>3 DEF TypeInv
<1> QED  BY <1>3, <1>4, <1>5, <1>6, <1>7, <1>8 DEF Environment

-----------------------------------------------------------------------------
(* Types                                                                    *)

LEMMA TypeInvInit == Init => TypeInv
<1> SUFFICES ASSUME Init PROVE TypeInv
  OBVIOUS
<1>1. RowTypes
  BY ParametersAssumption
  DEF Init, RowTypes, WorkspaceRow, PaymentRow, SubscriptionRow, EventState, NewWorkspace,
      NoPaymentRow, NoSubscription, WorkspaceStatus, BillingStatus, Dates, NoDate
<1>2. RowsInUse
  BY DEF Init, RowsInUse, HasPayment, HasSubscription, NoPaymentRow, NoSubscription
<1>3. HandlersOK
  BY IdleRemembers DEF Init, HandlersOK
<1> QED  BY <1>1, <1>2, <1>3 DEF TypeInv

LEMMA TypeInvStep == TypeInv /\ [Next]_vars => TypeInv'
<1> SUFFICES ASSUME TypeInv, [Next]_vars PROVE TypeInv'
  OBVIOUS
<1>1. ASSUME NEW i \in Handlers, Arrive(i) PROVE TypeInv'
  BY <1>1, StartsKeepTypes, ArrivalsKeepTypes, PaymentsKeepTypes DEF Arrive
<1>2. ASSUME NEW i \in Handlers, Continue(i) PROVE TypeInv'
  BY <1>2, PaymentsKeepTypes, StretchesKeepTypes, WorkspaceWritesKeepTypes,
     OtherWritesKeepTypes
  DEF Continue
<1>3. CASE Environment
  BY <1>3, EnvironmentKeepsTypes
<1>4. CASE UNCHANGED vars
  BY <1>4
  DEF vars, TypeInv, RowTypes, RowsInUse, HandlersOK, Remembered, HasPayment,
      HasSubscription, rows, paystack, ghosts
<1> QED  BY <1>1, <1>2, <1>3, <1>4 DEF Next

LEMMA TypeInvariant == Spec => []TypeInv
<1> QED  BY TypeInvInit, TypeInvStep, PTL DEF Spec

\* Every variable keeps its type, whatever the operations do to each other.
THEOREM TypeCorrect == Spec => []TypeOK
<1>1. TypeInv => TypeOK
  BY DEF TypeInv, RowTypes, HandlersOK, TypeOK
<1> QED  BY <1>1, TypeInvariant, PTL

-----------------------------------------------------------------------------
(* Status and billing status: the invariant is about the rows and about the *)
(* rows that handlers remember, since reconciliation writes back what it    *)
(* read.                                                                    *)

Paired(row) == <<row.status, row.billing>> \in Pairs

SeenPaired == \A i \in Handlers : Paired(h[i].seen)

PairInv == StatusesPaired /\ SeenPaired

LEMMA PairsAre ==
    ASSUME NEW s, NEW b
    PROVE  <<s, b>> \in Pairs <=>
             \/ s = "PENDING_PAYMENT" /\ b \in {"PENDING_PAYMENT", "PAST_DUE", "CANCELLED"}
             \/ s = "ACTIVE" /\ b = "ACTIVE"
             \/ s = "SUSPENDED" /\ b \in {"SUSPENDED", "CANCELLED"}
             \/ s = "PENDING_OTP" /\ b \in {"ACTIVE", "PAST_DUE"}
  BY DEF Pairs, BillingStatus, WorkspaceStatusFor

\* A step that gives one handler a record with a paired row.
LEMMA SeenStep ==
    ASSUME HandlersOK, SeenPaired, NEW i \in Handlers, NEW r, h' = [h EXCEPT ![i] = r],
           Paired(r.seen)
    PROVE  SeenPaired'
<1> SUFFICES ASSUME NEW j \in Handlers PROVE Paired(h[j].seen)'
  BY DEF SeenPaired
<1>1. CASE j = i
  <2> h'[j] = r  BY <1>1 DEF HandlersOK
  <2> QED  BY DEF Paired, Pairs
<1>2. CASE j # i
  <2> h'[j] = h[j] /\ Paired(h[j].seen)  BY <1>2 DEF HandlersOK, SeenPaired
  <2> QED  BY DEF Paired, Pairs
<1> QED  BY <1>1, <1>2

LEMMA IdleSeesPaired == Paired(Idle.seen)
  BY PairsAre DEF Paired, Idle, NewWorkspace

LEMMA StatusesSame ==
    ASSUME StatusesPaired, UNCHANGED ws
    PROVE  StatusesPaired'
  BY DEF StatusesPaired, Pairs

LEMMA OneRowPaired ==
    ASSUME RowTypes, StatusesPaired, NEW w \in Workspaces, NEW row,
           ws' = [ws EXCEPT ![w] = row], Paired(row)
    PROVE  StatusesPaired'
<1> SUFFICES ASSUME NEW v \in Workspaces PROVE (<<ws[v].status, ws[v].billing>> \in Pairs)'
  BY DEF StatusesPaired
<1>1. CASE v = w
  <2> ws'[v] = row  BY <1>1 DEF RowTypes
  <2> QED  BY DEF Paired, Pairs
<1>2. CASE v # w
  <2> ws'[v] = ws[v]  BY <1>2 DEF RowTypes
  <2> QED  BY DEF StatusesPaired, Pairs
<1> QED  BY <1>1, <1>2

LEMMA WriteStatusesPaired ==
    ASSUME RowTypes, StatusesPaired, NEW w \in Workspaces, NEW s, NEW b,
           WriteStatuses(w, s, b), <<s, b>> \in Pairs
    PROVE  StatusesPaired'
<1> DEFINE row == [ws[w] EXCEPT !.status = s, !.billing = b]
<1>1. ws' = [ws EXCEPT ![w] = row]
  BY DEF WriteStatuses
<1>2. row.status = s /\ row.billing = b
  BY DEF RowTypes, WorkspaceRow
<1>3. Paired(row)
  BY <1>2 DEF Paired
<1> HIDE DEF row
<1> QED  BY <1>1, <1>3, OneRowPaired

\* Reconciliation of a paired row is paired.
LEMMA ReconciledPaired ==
    ASSUME NEW r \in HandlerRecord, Paired(r.seen)
    PROVE  Paired(Reconciled(r))
<1> DEFINE s == r.seenSub
           renewal == CASE s.end # NoDate -> s.end
                        [] r.seen.renewal = NoDate /\ r.latest = "PAID" ->
                               now + (IF s.status = "ABSENT" THEN MonthDays
                                                             ELSE PeriodOf(s.plan))
                        [] OTHER -> r.seen.renewal
           plan == IF s.status = "ABSENT" THEN r.seen.plan ELSE s.plan
           billing == CASE r.latest = "PAID" -> "ACTIVE"
                        [] r.latest = "PENDING" /\ r.seen.billing = "ACTIVE" -> "PAST_DUE"
                        [] OTHER -> r.seen.billing
           status == CASE r.latest = "PAID" -> "ACTIVE"
                       [] r.latest = "PENDING" /\ r.seen.status = "ACTIVE" ->
                               "PENDING_PAYMENT"
                       [] OTHER -> r.seen.status
           expired == renewal # NoDate /\ renewal <= now
<1>1. Reconciled(r) =
        [status  |-> IF expired THEN "PENDING_PAYMENT" ELSE status,
         billing |-> IF expired /\ billing # "CANCELLED" THEN "PAST_DUE" ELSE billing,
         renewal |-> renewal,
         plan    |-> plan]
  BY DEF Reconciled
<1>2. <<status, billing>> \in Pairs
  <2>1. CASE r.latest = "PAID"
    BY <2>1, PairsAre
  <2>2. CASE r.latest = "PENDING"
    BY <2>2, PairsAre DEF Paired
  <2>3. CASE r.latest \notin {"PAID", "PENDING"}
    BY <2>3 DEF Paired
  <2> QED  BY <2>1, <2>2, <2>3
<1> HIDE DEF s, renewal, plan, billing, status, expired
<1>3. <<Reconciled(r).status, Reconciled(r).billing>> \in Pairs
  BY <1>1, <1>2, PairsAre
<1> QED  BY <1>3 DEF Paired

LEMMA StatusesArrive ==
    ASSUME TypeInv, PairInv, NEW i \in Handlers, Arrive(i)
    PROVE  PairInv'
<1>1. HandlersOK /\ RowTypes /\ StatusesPaired /\ SeenPaired
  BY DEF TypeInv, PairInv
<1>2. UNCHANGED ws
  BY DEF Arrive, OtpRead, CheckoutRead, MockInitRead, RetryRead, GuardRead, ReconcileRead,
         EntitlementsRead, SetRead, AdminRead, WebhookStore, ReplayRead, VerifyRead,
         MockConfirmRead, DunningRead, ExpiryRead, rows
<1>3. ASSUME NEW r, h' = [h EXCEPT ![i] = r], r.seen = Idle.seen PROVE PairInv'
  <2> SeenPaired' /\ StatusesPaired'
    BY <1>1, <1>2, <1>3, IdleSeesPaired, SeenStep, StatusesSame
  <2> QED  BY DEF PairInv
<1>4. ASSUME NEW w \in Workspaces, NEW op \in AllOps, NEW at \in Awaits,
             h' = [h EXCEPT ![i] = [Idle EXCEPT !.op = op, !.at = at, !.w = w,
                                                !.seen = ws[w]]]
      PROVE  PairInv'
  <2> DEFINE r == [Idle EXCEPT !.op = op, !.at = at, !.w = w, !.seen = ws[w]]
  <2>1. h' = [h EXCEPT ![i] = r] /\ r.seen = ws[w]  BY <1>4 DEF Idle
  <2>2. Paired(ws[w])  BY <1>1 DEF StatusesPaired, Paired
  <2> HIDE DEF r
  <2>3. SeenPaired' /\ StatusesPaired'
    BY <1>1, <1>2, <2>1, <2>2, SeenStep, StatusesSame
  <2> QED  BY <2>3 DEF PairInv
<1>5. ASSUME NEW op, NEW at, NEW w, NEW p, Start(i, op, at, w, p) PROVE PairInv'
  <2> DEFINE r == [Idle EXCEPT !.op = op, !.at = at, !.w = w, !.p = p]
  <2>1. h' = [h EXCEPT ![i] = r] /\ r.seen = Idle.seen  BY <1>5 DEF Start, Idle
  <2> HIDE DEF r
  <2> QED  BY <1>3, <2>1
<1>6. ASSUME NEW w \in Workspaces,
             RetryRead(i, w) \/ GuardRead(i, w) \/ ReconcileRead(i, w) \/ EntitlementsRead(i, w)
      PROVE  PairInv'
  BY <1>4, <1>6 DEF RetryRead, GuardRead, ReconcileRead, EntitlementsRead, AllOps, Awaits
<1>7. ASSUME NEW w \in Workspaces, OtpRead(i, w) \/ CheckoutRead(i, w) \/ MockInitRead(i, w)
      PROVE  PairInv'
  BY <1>5, <1>7 DEF OtpRead, CheckoutRead, MockInitRead
<1>8. ASSUME NEW p \in PaymentIds,
             WebhookStore(i, p) \/ ReplayRead(i, p) \/ VerifyRead(i, p) \/ MockConfirmRead(i, p)
      PROVE  PairInv'
  BY <1>5, <1>8 DEF WebhookStore, ReplayRead, VerifyRead, MockConfirmRead
<1>9. ASSUME NEW w \in Workspaces, NEW to \in BillingStatus, SetRead(i, w, to)
       PROVE  PairInv'
  <2> DEFINE r == [Idle EXCEPT !.op = "set", !.at = "write", !.w = w, !.to = to]
  <2>1. h' = [h EXCEPT ![i] = r] /\ r.seen = Idle.seen  BY <1>9 DEF SetRead, Idle
  <2> HIDE DEF r
  <2> QED  BY <1>3, <2>1
<1>10. ASSUME NEW w \in Workspaces, NEW op \in {"activate", "fix"}, AdminRead(i, op, w)
       PROVE  PairInv'
  <2> DEFINE r == [Idle EXCEPT !.op = op, !.at = "write", !.w = w, !.seenSub = sub[w],
                               !.t = now]
  <2>1. h' = [h EXCEPT ![i] = r] /\ r.seen = Idle.seen  BY <1>10 DEF AdminRead, Idle
  <2> HIDE DEF r
  <2> QED  BY <1>3, <2>1
<1>11. ASSUME DunningRead(i) PROVE PairInv'
  <2>1. PICK S : h' = [h EXCEPT ![i] = [Idle EXCEPT !.op = "dunning", !.at = "next",
                                                    !.todo = S, !.t = now]]
    BY <1>11 DEF DunningRead
  <2> DEFINE r == [Idle EXCEPT !.op = "dunning", !.at = "next", !.todo = S, !.t = now]
  <2>2. h' = [h EXCEPT ![i] = r] /\ r.seen = Idle.seen  BY <2>1 DEF Idle
  <2> HIDE DEF r
  <2> QED  BY <1>3, <2>2
<1>12. ASSUME ExpiryRead(i) PROVE PairInv'
  <2>1. PICK S : h' = [h EXCEPT ![i] = [Idle EXCEPT !.op = "expiry", !.at = "next",
                                                    !.due = S]]
    BY <1>12 DEF ExpiryRead
  <2> DEFINE r == [Idle EXCEPT !.op = "expiry", !.at = "next", !.due = S]
  <2>2. h' = [h EXCEPT ![i] = r] /\ r.seen = Idle.seen  BY <2>1 DEF Idle
  <2> HIDE DEF r
  <2> QED  BY <1>3, <2>2
<1> QED  BY <1>6, <1>7, <1>8, <1>9, <1>10, <1>11, <1>12 DEF Arrive

\* A handler in flight keeps the row it has read, or is done.
LEMMA SeenContinues ==
    ASSUME TypeInv, SeenPaired, NEW i \in Handlers, Continue(i)
    PROVE  SeenPaired'
<1>1. HandlersOK /\ h[i] \in HandlerRecord /\ Paired(h[i].seen)
  BY DEF TypeInv, HandlersOK, SeenPaired
<1>2. ASSUME NEW r, h' = [h EXCEPT ![i] = r], r.seen = h[i].seen PROVE SeenPaired'
  <2>1. Paired(r.seen)  BY <1>1, <1>2
  <2> QED  BY <1>1, <1>2, <2>1, SeenStep
<1>3. ASSUME Finish(i) PROVE SeenPaired'
  BY <1>1, <1>3, IdleSeesPaired, SeenStep DEF Finish
<1>4. ASSUME NEW at, Goto(i, at) PROVE SeenPaired'
  <2> DEFINE r == [h[i] EXCEPT !.at = at]
  <2>1. h' = [h EXCEPT ![i] = r] /\ r.seen = h[i].seen
    BY <1>1, <1>4 DEF Goto, HandlerRecord
  <2> HIDE DEF r
  <2> QED  BY <1>2, <2>1
<1>5. ASSUME h' = [h EXCEPT ![i] = Returned(h[i])] PROVE SeenPaired'
  <2>1. Finish(i) \/ Goto(i, "record")
    BY <1>5 DEF Returned, Finish, Goto
  <2> QED  BY <1>3, <1>4, <2>1
<1>6. ASSUME NEW p \in PaymentIds, NEW plan \in Plans, CreatePayment(i, p, plan)
      PROVE  SeenPaired'
  <2> DEFINE r == [h[i] EXCEPT !.at = "init", !.p = p]
  <2>1. r.seen = h[i].seen /\ (h' = [h EXCEPT ![i] = r] \/ Finish(i))
    BY <1>1, <1>6 DEF CreatePayment, HandlerRecord
  <2> HIDE DEF r
  <2> QED  BY <1>2, <1>3, <2>1
<1>7. ASSUME FinalizeRead(i) PROVE SeenPaired'
  <2> DEFINE r == [h[i] EXCEPT !.at = "tx", !.w = pay[h[i].p].ws]
  <2>1. /\ r.seen = h[i].seen
        /\ h' = [h EXCEPT ![i] = r] \/ h' = [h EXCEPT ![i] = Returned(h[i])]
    BY <1>1, <1>7 DEF FinalizeRead, HandlerRecord
  <2> HIDE DEF r
  <2> QED  BY <1>2, <1>5, <2>1
<1>8. ASSUME FinalizeFails(i) PROVE SeenPaired'
  <2>1. Goto(i, "failed") \/ Finish(i)
    BY <1>8 DEF FinalizeFails, Goto, Finish
  <2> QED  BY <1>3, <1>4, <2>1
<1>9. ASSUME RetryLatest(i) PROVE SeenPaired'
  <2> DEFINE r == [h[i] EXCEPT !.at = "reset", !.p = Newest(PaymentsOf(h[i].w))]
  <2>1. r.seen = h[i].seen /\ (h' = [h EXCEPT ![i] = r] \/ Finish(i))
    BY <1>1, <1>9 DEF RetryLatest, HandlerRecord
  <2> HIDE DEF r
  <2> QED  BY <1>2, <1>3, <2>1
<1>10. ASSUME DunningNext(i) PROVE SeenPaired'
  <2> DEFINE q == Oldest(h[i].todo)
             to == DunningTarget(q, h[i].t, ws[pay[q].ws].billing)
             at == IF to = None THEN "next" ELSE "set"
             r == [h[i] EXCEPT !.todo = h[i].todo \ {q}, !.w = pay[q].ws, !.to = to, !.at = at]
  <2>1. h' = [h EXCEPT ![i] = r]
    BY <1>1, <1>10 DEF DunningNext
  <2>2. r.seen = h[i].seen
    <3> HIDE DEF q, to, at
    <3> QED  BY <1>1 DEF HandlerRecord
  <2> HIDE DEF r
  <2> QED  BY <1>2, <2>1, <2>2
<1>11. ASSUME ReconcilePayment(i) PROVE SeenPaired'
  <2>1. PICK v : h' = [h EXCEPT ![i] = [h[i] EXCEPT !.latest = v]]
    BY <1>11 DEF ReconcilePayment
  <2> DEFINE r == [h[i] EXCEPT !.latest = v]
  <2>2. h' = [h EXCEPT ![i] = r] /\ r.seen = h[i].seen
    BY <1>1, <2>1 DEF HandlerRecord
  <2> HIDE DEF r
  <2> QED  BY <1>2, <2>2
<1>12. ASSUME ReconcileSubscription(i) PROVE SeenPaired'
  <2> DEFINE r == [h[i] EXCEPT !.subRead = TRUE, !.seenSub = sub[h[i].w]]
  <2>1. h' = [h EXCEPT ![i] = r] /\ r.seen = h[i].seen
    BY <1>1, <1>12 DEF ReconcileSubscription, HandlerRecord
  <2> HIDE DEF r
  <2> QED  BY <1>2, <2>1
<1>13. ASSUME NEW w \in Workspaces, ExpiryMark(i, w) PROVE SeenPaired'
  <2> DEFINE r == [h[i] EXCEPT !.due = @ \ {w}]
  <2>1. r.seen = h[i].seen /\ (h' = [h EXCEPT ![i] = r] \/ Finish(i))
    BY <1>1, <1>13 DEF ExpiryMark, HandlerRecord
  <2> HIDE DEF r
  <2> QED  BY <1>2, <1>3, <2>1
<1>14. ASSUME \/ InitTransaction(i) \/ InitTransactionFails(i)
              \/ RecordProcessed(i) \/ RecordFailed(i) \/ VerifyRejected(i)
              \/ OtpWrite(i) \/ RetryWrite(i) \/ DunningDone(i) \/ GuardDemote(i)
              \/ ReconcileWrite(i) \/ ActivateWrite(i) \/ FixWrite(i) \/ EntitlementsFill(i)
       PROVE  SeenPaired'
  BY <1>3, <1>14
  DEF InitTransaction, InitTransactionFails, RecordProcessed, RecordFailed, VerifyRejected,
      OtpWrite, RetryWrite, DunningDone, GuardDemote, ReconcileWrite, ActivateWrite, FixWrite,
      EntitlementsFill
<1>15. ASSUME FinalizeBust(i) \/ VerifyConfirmed(i) \/ DunningSetRead(i) PROVE SeenPaired'
  BY <1>4, <1>15 DEF FinalizeBust, VerifyConfirmed, DunningSetRead
<1>16. ASSUME SetWrite(i) \/ RetryReset(i) PROVE SeenPaired'
  <2>1. Finish(i) \/ \E at : Goto(i, at)
    BY <1>16 DEF SetWrite, RetryReset
  <2> QED  BY <1>3, <1>4, <2>1
<1>17. ASSUME FinalizeCommit(i) PROVE SeenPaired'
  BY <1>5, <1>17 DEF FinalizeCommit
<1> QED
  BY <1>6, <1>7, <1>8, <1>9, <1>10, <1>11, <1>12, <1>13, <1>14, <1>15, <1>16, <1>17
  DEF Continue

LEMMA StatusesContinue ==
    ASSUME TypeInv, PairInv, NEW i \in Handlers, Continue(i)
    PROVE  StatusesPaired'
<1>1. /\ HandlersOK /\ RowTypes /\ StatusesPaired
      /\ h[i] \in HandlerRecord /\ Remembered(h[i]) /\ Paired(h[i].seen)
  BY DEF TypeInv, HandlersOK, PairInv, SeenPaired
<1> DEFINE w == h[i].w
<1>2. ASSUME UNCHANGED ws PROVE StatusesPaired'
  BY <1>1, <1>2, StatusesSame
<1>3. CASE FinalizeCommit(i)
  <2>1. w \in Workspaces  BY <1>1, <1>3 DEF FinalizeCommit, Remembered
  <2> DEFINE row == [status |-> "ACTIVE", billing |-> "ACTIVE",
                     renewal |-> now + PeriodOf(pay[h[i].p].plan), plan |-> pay[h[i].p].plan]
  <2>2. ws' = [ws EXCEPT ![w] = row]  BY <1>3 DEF FinalizeCommit
  <2>3. Paired(row)  BY PairsAre DEF Paired
  <2> HIDE DEF row
  <2> QED  BY <1>1, <2>1, <2>2, <2>3, OneRowPaired
<1>4. CASE OtpWrite(i)
  <2>1. w \in Workspaces /\ WriteStatuses(w, "PENDING_PAYMENT", "PENDING_PAYMENT")
    BY <1>1, <1>4 DEF OtpWrite, Running, Remembered
  <2>2. <<"PENDING_PAYMENT", "PENDING_PAYMENT">> \in Pairs  BY PairsAre
  <2> QED  BY <1>1, <2>1, <2>2, WriteStatusesPaired
<1>5. CASE SetWrite(i)
  <2>1. /\ w \in Workspaces /\ h[i].to \in BillingStatus
        /\ WriteStatuses(w, WorkspaceStatusFor(h[i].to), h[i].to)
    BY <1>1, <1>5 DEF SetWrite, Remembered
  <2>2. <<WorkspaceStatusFor(h[i].to), h[i].to>> \in Pairs  BY <2>1 DEF Pairs
  <2> QED  BY <1>1, <2>1, <2>2, WriteStatusesPaired
<1>6. CASE RetryWrite(i)
  <2>1. w \in Workspaces /\ WriteStatuses(w, WorkspaceStatusFor("PAST_DUE"), "PAST_DUE")
    BY <1>1, <1>6 DEF RetryWrite, Running, Remembered
  <2>2. <<WorkspaceStatusFor("PAST_DUE"), "PAST_DUE">> \in Pairs  BY DEF Pairs, BillingStatus
  <2> QED  BY <1>1, <2>1, <2>2, WriteStatusesPaired
<1>7. CASE GuardDemote(i)
  <2>1. PICK b \in {"CANCELLED", "PAST_DUE"} : WriteStatuses(w, "PENDING_PAYMENT", b)
    BY <1>7 DEF GuardDemote
  <2>2. w \in Workspaces  BY <1>1, <1>7 DEF GuardDemote, Running, Remembered
  <2>3. <<"PENDING_PAYMENT", b>> \in Pairs  BY PairsAre
  <2> QED  BY <1>1, <2>1, <2>2, <2>3, WriteStatusesPaired
<1>8. CASE ReconcileWrite(i)
  <2>1. w \in Workspaces /\ ws' = [ws EXCEPT ![w] = Reconciled(h[i])]
    BY <1>1, <1>8 DEF ReconcileWrite, Running, Remembered
  <2>2. Paired(Reconciled(h[i]))  BY <1>1, ReconciledPaired
  <2> QED  BY <1>1, <2>1, <2>2, OneRowPaired
<1>9. CASE ActivateWrite(i)
  <2>1. w \in Workspaces  BY <1>1, <1>9 DEF ActivateWrite, Running, Remembered
  <2>2. PICK n : ws' = [ws EXCEPT ![w] = [ws[w] EXCEPT !.status = "ACTIVE", !.billing = "ACTIVE",
                                                     !.renewal = n]]
    BY <1>9 DEF ActivateWrite
  <2> DEFINE row == [ws[w] EXCEPT !.status = "ACTIVE", !.billing = "ACTIVE", !.renewal = n]
  <2>3. row.status = "ACTIVE" /\ row.billing = "ACTIVE"
    BY <1>1, <2>1 DEF RowTypes, WorkspaceRow
  <2>4. Paired(row)  BY <2>3, PairsAre DEF Paired
  <2> QED  BY <1>1, <2>1, <2>2, <2>4, OneRowPaired
<1>10. CASE FixWrite(i)
  <2>1. w \in Workspaces  BY <1>1, <1>10 DEF FixWrite, Running, Remembered
  <2>2. PICK n : ws' = [ws EXCEPT ![w] = [ws[w] EXCEPT !.status = "ACTIVE", !.billing = "ACTIVE",
                                                     !.renewal = n]]
    BY <1>10 DEF FixWrite
  <2> DEFINE row == [ws[w] EXCEPT !.status = "ACTIVE", !.billing = "ACTIVE", !.renewal = n]
  <2>3. row.status = "ACTIVE" /\ row.billing = "ACTIVE"
    BY <1>1, <2>1 DEF RowTypes, WorkspaceRow
  <2>4. Paired(row)  BY <2>3, PairsAre DEF Paired
  <2> QED  BY <1>1, <2>1, <2>2, <2>4, OneRowPaired
<1>11. ASSUME NEW p \in PaymentIds, NEW plan \in Plans, CreatePayment(i, p, plan)
       PROVE  StatusesPaired'
  BY <1>2, <1>11 DEF CreatePayment
<1>12. ASSUME NEW v \in Workspaces, ExpiryMark(i, v) PROVE StatusesPaired'
  BY <1>2, <1>12 DEF ExpiryMark
<1>13. ASSUME \/ InitTransaction(i) \/ InitTransactionFails(i)
              \/ FinalizeRead(i) \/ FinalizeBust(i) \/ FinalizeFails(i)
              \/ RecordProcessed(i) \/ RecordFailed(i)
              \/ VerifyConfirmed(i) \/ VerifyRejected(i)
              \/ RetryLatest(i) \/ RetryReset(i)
              \/ DunningNext(i) \/ DunningSetRead(i) \/ DunningDone(i)
              \/ ReconcilePayment(i) \/ ReconcileSubscription(i)
              \/ EntitlementsFill(i)
       PROVE  StatusesPaired'
  BY <1>2, <1>13
  DEF InitTransaction, InitTransactionFails, FinalizeRead, FinalizeBust, FinalizeFails,
      RecordProcessed, RecordFailed, VerifyConfirmed, VerifyRejected, RetryLatest, RetryReset,
      DunningNext, DunningSetRead, DunningDone, ReconcilePayment, ReconcileSubscription,
      EntitlementsFill, rows
<1> QED
  BY <1>3, <1>4, <1>5, <1>6, <1>7, <1>8, <1>9, <1>10, <1>11, <1>12, <1>13 DEF Continue

LEMMA PairsEnvironment ==
    ASSUME TypeInv, PairInv, Environment
    PROVE  PairInv'
<1>1. HandlersOK /\ RowTypes /\ StatusesPaired /\ SeenPaired
  BY DEF TypeInv, PairInv
<1>2. SeenPaired'
  <2>1. CASE Crash
    BY <2>1, IdleSeesPaired DEF Crash, SeenPaired, Paired, Pairs
  <2>2. CASE UNCHANGED h
    BY <1>1, <2>2 DEF SeenPaired, Paired, Pairs
  <2> QED
    BY <2>1, <2>2
    DEF Environment, CancelSubscription, SuspendWorkspace, CacheExpire, Charge, Tick
<1>3. StatusesPaired'
  <2>1. ASSUME NEW w \in Workspaces, SuspendWorkspace(w) PROVE StatusesPaired'
    <3>1. WriteStatuses(w, "SUSPENDED", "SUSPENDED")  BY <2>1 DEF SuspendWorkspace
    <3>2. <<"SUSPENDED", "SUSPENDED">> \in Pairs  BY PairsAre
    <3> QED  BY <1>1, <3>1, <3>2, WriteStatusesPaired
  <2>2. CASE UNCHANGED ws
    BY <1>1, <2>2, StatusesSame
  <2> QED
    BY <2>1, <2>2 DEF Environment, CancelSubscription, CacheExpire, Charge, Tick, Crash, rows
<1> QED  BY <1>2, <1>3 DEF PairInv

LEMMA PairInvInit == Init => PairInv
<1> SUFFICES ASSUME Init PROVE PairInv
  OBVIOUS
<1>1. <<NewWorkspace.status, NewWorkspace.billing>> \in Pairs
  BY PairsAre DEF NewWorkspace
<1>2. StatusesPaired
  BY <1>1 DEF Init, StatusesPaired
<1>3. SeenPaired
  BY IdleSeesPaired DEF Init, SeenPaired
<1> QED  BY <1>2, <1>3 DEF PairInv

LEMMA PairInvStep == TypeInv /\ PairInv /\ [Next]_vars => PairInv'
<1> SUFFICES ASSUME TypeInv, PairInv, [Next]_vars PROVE PairInv'
  OBVIOUS
<1>1. ASSUME NEW i \in Handlers, Arrive(i) PROVE PairInv'
  BY <1>1, StatusesArrive
<1>2. ASSUME NEW i \in Handlers, Continue(i) PROVE PairInv'
  BY <1>2, SeenContinues, StatusesContinue DEF PairInv
<1>3. CASE Environment
  BY <1>3, PairsEnvironment
<1>4. CASE UNCHANGED vars
  BY <1>4 DEF vars, PairInv, StatusesPaired, SeenPaired, Paired, Pairs, rows
<1> QED  BY <1>1, <1>2, <1>3, <1>4 DEF Next

\* Whatever the writers of the two statuses read before they write, and however
\* many of them there are, the two statuses of a workspace stay paired.
THEOREM StatusesStayPaired == Spec => []StatusesPaired
<1>1. PairInv => StatusesPaired
  BY DEF PairInv
<1> QED  BY <1>1, TypeInvariant, PairInvInit, PairInvStep, PTL DEF Spec

=============================================================================
