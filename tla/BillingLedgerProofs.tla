------------------------- MODULE BillingLedgerProofs -------------------------
(***************************************************************************)
(* Theorems about money: the billing service settles only what was charged *)
(* or granted, marks processed only what it settled, and each of its steps *)
(* is a step of PaymentLedger or leaves the ledger alone.                  *)
(***************************************************************************)
EXTENDS BillingProofs

-----------------------------------------------------------------------------
(* The invariant.  A settlement needs a charge when it commits, but the     *)
(* charge was looked up several awaits before: by the signature of the      *)
(* webhook, by the stored event, by verifyTransaction.  So the invariant    *)
(* says what a handler has established at each of its awaits, and since no  *)
(* step takes back a payment, a charge, a grant or a settlement, it still   *)
(* holds when the handler goes on.                                          *)

\* What r has established about its payment.
Established(r) ==
    /\ r.at \in {"init", "ask", "finalize", "tx", "commit", "record", "failed"}
          => r.p \in PaymentIds
    /\ r.at = "init" => HasPayment(r.p)
    /\ r.at = "ask" => r.op = "verify"
    /\ r.at \in {"finalize", "tx", "commit"}
          => IF r.op = "mockConfirm" THEN r.p \in granted ELSE charged[r.p] # NoDate
    /\ r.at \in {"record", "failed"} => charged[r.p] # NoDate
    /\ r.at = "record" => Settled(r.p)
    /\ r.op = "fix" => r.t # NoDate

AllEstablished == \A i \in Handlers : Established(h[i])

\* Checkout, charge, event and settlement come in this order.
InOrder ==
    /\ \A p \in open : HasPayment(p)
    /\ \A p \in PaymentIds :
          /\ charged[p] # NoDate => HasPayment(p)
          /\ event[p] # "absent" => charged[p] # NoDate
          /\ pay[p].state = "PAID" => Settled(p)
          /\ Settled(p) => HasPayment(p)

LedgerRows == InOrder /\ SettledWasCharged /\ ProcessedWasSettled

LedgerInv == LedgerRows /\ AllEstablished

\* Nothing on the ledger is taken back.
LedgerGrows ==
    /\ granted \subseteq granted'
    /\ \A p \in PaymentIds :
          /\ HasPayment(p) => HasPayment(p)'
          /\ charged[p] # NoDate => charged'[p] # NoDate
          /\ Settled(p) => Settled(p)'

-----------------------------------------------------------------------------
(* What handlers have established stays so.                                 *)

LEMMA EstablishedStays ==
    ASSUME LedgerGrows, NEW r, Established(r)
    PROVE  Established(r)'
  BY DEF LedgerGrows, Established

LEMMA EstablishedStep ==
    ASSUME h \in [Handlers -> HandlerRecord], AllEstablished, LedgerGrows,
           NEW i \in Handlers, NEW r, Established(r)', h' = [h EXCEPT ![i] = r]
    PROVE  AllEstablished'
<1>1. ASSUME NEW j \in Handlers PROVE Established(h[j])'
  <2>1. CASE j = i
    <3>1. h'[j] = r  BY <2>1
    <3> QED  BY <3>1 DEF Established
  <2>2. CASE j # i
    <3>1. PICK q : q = h[j]  OBVIOUS
    <3>2. Established(q)'
      BY <3>1, EstablishedStays DEF AllEstablished
    <3>3. h'[j] = q  BY <2>2, <3>1
    <3> QED  BY <3>2, <3>3 DEF Established
  <2> QED  BY <2>1, <2>2
<1> QED  BY <1>1 DEF AllEstablished

\* Where a handler waits having established nothing that matters here.
Elsewhere == Awaits \ {"init", "ask", "finalize", "tx", "commit", "record", "failed"}

\* A handler begins anew, or goes on to such a place.
LEMMA ElsewhereStep ==
    ASSUME h \in [Handlers -> HandlerRecord], AllEstablished, LedgerGrows,
           NEW i \in Handlers, NEW r, h' = [h EXCEPT ![i] = r],
           r.at \in Elsewhere,
           r.op # "fix" \/ r.t # NoDate \/ (r.op = h[i].op /\ r.t = h[i].t)
    PROVE  AllEstablished'
<1>1. r.op = "fix" => r.t # NoDate
  BY DEF AllEstablished, Established
<1>2. Established(r)'
  BY <1>1 DEF Established, Elsewhere
<1> QED  BY <1>2, EstablishedStep

LEMMA FinishEstablished ==
    ASSUME h \in [Handlers -> HandlerRecord], AllEstablished, LedgerGrows,
           NEW i \in Handlers, Finish(i)
    PROVE  AllEstablished'
<1>1. PICK r : r = Idle  OBVIOUS
<1>2. h' = [h EXCEPT ![i] = r] /\ r.at \in Elsewhere /\ r.op # "fix"
  BY <1>1 DEF Finish, Idle, Elsewhere, Awaits
<1> QED  BY <1>2, ElsewhereStep

LEMMA GotoElsewhere ==
    ASSUME h \in [Handlers -> HandlerRecord], AllEstablished, LedgerGrows,
           NEW i \in Handlers, NEW at \in Elsewhere, Goto(i, at)
    PROVE  AllEstablished'
<1>1. PICK r : r = [h[i] EXCEPT !.at = at]  OBVIOUS
<1>2. h' = [h EXCEPT ![i] = r] /\ r.at \in Elsewhere /\ r.op = h[i].op /\ r.t = h[i].t
  BY <1>1 DEF Goto, HandlerRecord
<1> QED  BY <1>2, ElsewhereStep

LEMMA SameLedger ==
    UNCHANGED <<pay, charged, granted>> => LedgerGrows
  BY DEF LedgerGrows, HasPayment, Settled

LEMMA SameRows ==
    ASSUME LedgerRows, UNCHANGED <<pay, event, open, charged, acked, granted>>
    PROVE  LedgerRows'
  BY DEF LedgerRows, InOrder, SettledWasCharged, ProcessedWasSettled, HasPayment, Settled

-----------------------------------------------------------------------------
(* Requests that arrive                                                     *)

LEMMA StartEstablished ==
    ASSUME h \in [Handlers -> HandlerRecord], AllEstablished, LedgerGrows,
           NEW i \in Handlers, NEW op, NEW at, NEW w, NEW p, Start(i, op, at, w, p),
           op # "fix",
           \/ at \in Elsewhere
           \/ /\ p \in PaymentIds
              /\ \/ at = "ask" /\ op = "verify"
                 \/ /\ at = "finalize"
                    /\ \/ op \in {"webhook", "replay"} /\ charged[p] # NoDate
                       \/ op = "mockConfirm" /\ p \in granted'
    PROVE  AllEstablished'
<1>1. PICK r : r = [Idle EXCEPT !.op = op, !.at = at, !.w = w, !.p = p]  OBVIOUS
<1>2. h' = [h EXCEPT ![i] = r] /\ r.op = op /\ r.at = at /\ r.p = p
  BY <1>1 DEF Start, Idle
<1>3. CASE at \in Elsewhere
  BY <1>2, <1>3, ElsewhereStep
<1>4. CASE at \in {"ask", "finalize"} /\ p \in PaymentIds
  <2>1. charged[p] # NoDate => charged'[p] # NoDate
    BY <1>4 DEF LedgerGrows
  <2>2. Established(r)'
    BY <1>2, <1>4, <2>1 DEF Established, Elsewhere
  <2> QED  BY <1>2, <2>2, EstablishedStep
<1> QED  BY <1>3, <1>4

LEMMA ArrivalsEstablish ==
    ASSUME TypeInv, LedgerInv, NEW i \in Handlers, Arrive(i)
    PROVE  LedgerInv'
<1>1. h \in [Handlers -> HandlerRecord] /\ RowTypes /\ AllEstablished /\ LedgerRows
  BY DEF TypeInv, HandlersOK, LedgerInv
<1>2. ASSUME UNCHANGED <<now, rows, cache, paystack, ghosts, faults>>
      PROVE  LedgerRows' /\ LedgerGrows
  BY <1>1, <1>2, SameRows, SameLedger DEF rows, paystack, ghosts
<1>3. ASSUME UNCHANGED <<now, rows, cache, paystack, ghosts, faults>>, AllEstablished'
      PROVE  LedgerInv'
  BY <1>2, <1>3 DEF LedgerInv
<1>4. ASSUME NEW r, h' = [h EXCEPT ![i] = r], r.at \in Elsewhere, r.op # "fix" \/ r.t # NoDate,
             UNCHANGED <<now, rows, cache, paystack, ghosts, faults>>
      PROVE  LedgerInv'
  BY <1>1, <1>2, <1>3, <1>4, ElsewhereStep
<1>5. ASSUME NEW w \in Workspaces, CheckoutRead(i, w) \/ MockInitRead(i, w) \/ OtpRead(i, w)
      PROVE  LedgerInv'
  <2>1. UNCHANGED <<now, rows, cache, paystack, ghosts, faults>>
    BY <1>5 DEF CheckoutRead, MockInitRead, OtpRead
  <2>2. AllEstablished'
    BY <1>1, <1>2, <1>5, <2>1, StartEstablished
    DEF CheckoutRead, MockInitRead, OtpRead, Elsewhere, Awaits
  <2> QED  BY <1>3, <2>1, <2>2
<1>6. ASSUME NEW p \in PaymentIds, ReplayRead(i, p) \/ VerifyRead(i, p) PROVE LedgerInv'
  <2>1. UNCHANGED <<now, rows, cache, paystack, ghosts, faults>>
    BY <1>6 DEF ReplayRead, VerifyRead
  <2>2. event[p] # "absent" => charged[p] # NoDate
    BY <1>1 DEF LedgerRows, InOrder
  <2>3. AllEstablished'
    BY <1>1, <1>2, <1>6, <2>1, <2>2, StartEstablished DEF ReplayRead, VerifyRead
  <2> QED  BY <1>3, <2>1, <2>3
<1>7. ASSUME NEW p \in PaymentIds, WebhookStore(i, p) PROVE LedgerInv'
  <2>1. /\ charged[p] # NoDate /\ event' = [event EXCEPT ![p] = "unprocessed"]
        /\ Start(i, "webhook", "finalize", None, p)
        /\ UNCHANGED <<pay, open, charged, acked, granted>>
    BY <1>7 DEF WebhookStore, paystack, ghosts
  <2>2. LedgerGrows  BY <2>1, SameLedger
  <2>3. LedgerRows'
    BY <1>1, <2>1
    DEF LedgerRows, InOrder, SettledWasCharged, ProcessedWasSettled, HasPayment, Settled, RowTypes
  <2>4. AllEstablished'  BY <1>1, <2>1, <2>2, StartEstablished
  <2> QED  BY <2>3, <2>4 DEF LedgerInv
<1>8. ASSUME NEW p \in PaymentIds, MockConfirmRead(i, p) PROVE LedgerInv'
  <2>1. /\ granted' = granted \cup {p} /\ Start(i, "mockConfirm", "finalize", None, p)
        /\ UNCHANGED <<pay, event, open, charged, acked>>
    BY <1>8 DEF MockConfirmRead, rows, paystack
  <2>2. LedgerGrows  BY <2>1 DEF LedgerGrows, HasPayment, Settled
  <2>3. LedgerRows'
    BY <1>1, <2>1
    DEF LedgerRows, InOrder, SettledWasCharged, ProcessedWasSettled, HasPayment, Settled
  <2>4. AllEstablished'  BY <1>1, <2>1, <2>2, StartEstablished
  <2> QED  BY <2>3, <2>4 DEF LedgerInv
<1>9. ASSUME NEW w \in Workspaces, NEW to \in BillingStatus, SetRead(i, w, to) PROVE LedgerInv'
  <2>1. PICK r : r = [Idle EXCEPT !.op = "set", !.at = "write", !.w = w, !.to = to]  OBVIOUS
  <2> QED  BY <1>4, <1>9, <2>1 DEF SetRead, Idle, Elsewhere, Awaits
<1>10. ASSUME NEW w \in Workspaces, NEW op \in {"activate", "fix"}, AdminRead(i, op, w)
       PROVE  LedgerInv'
  <2>1. PICK r : r = [Idle EXCEPT !.op = op, !.at = "write", !.w = w,
                                  !.seenSub = sub[w], !.t = now]
    OBVIOUS
  <2>2. r.t # NoDate  BY <1>1, <2>1 DEF RowTypes, Idle, NoDate
  <2> QED  BY <1>4, <1>10, <2>1, <2>2 DEF AdminRead, Idle, Elsewhere, Awaits
<1>11. ASSUME NEW w \in Workspaces,
              \/ RetryRead(i, w) \/ GuardRead(i, w) \/ ReconcileRead(i, w)
              \/ EntitlementsRead(i, w)
       PROVE  LedgerInv'
  <2>1. PICK op \in {"retry", "guard", "reconcile", "entitlements"},
             at \in {"latest", "write", "reads", "fill"} :
           h' = [h EXCEPT ![i] = [Idle EXCEPT !.op = op, !.at = at, !.w = w, !.seen = ws[w]]]
    BY <1>11 DEF RetryRead, GuardRead, ReconcileRead, EntitlementsRead
  <2>2. PICK r : r = [Idle EXCEPT !.op = op, !.at = at, !.w = w, !.seen = ws[w]]  OBVIOUS
  <2>3. r.at \in Elsewhere /\ r.op # "fix"  BY <2>2 DEF Idle, Elsewhere, Awaits
  <2> QED
    BY <1>4, <1>11, <2>1, <2>2, <2>3
    DEF RetryRead, GuardRead, ReconcileRead, EntitlementsRead
<1>12. ASSUME DunningRead(i) PROVE LedgerInv'
  <2>1. PICK S : h' = [h EXCEPT ![i] = [Idle EXCEPT !.op = "dunning", !.at = "next",
                                                    !.todo = S, !.t = now]]
    BY <1>12 DEF DunningRead
  <2>2. PICK r : r = [Idle EXCEPT !.op = "dunning", !.at = "next", !.todo = S, !.t = now]
    OBVIOUS
  <2> QED  BY <1>4, <1>12, <2>1, <2>2 DEF DunningRead, Idle, Elsewhere, Awaits
<1>13. ASSUME ExpiryRead(i) PROVE LedgerInv'
  <2>1. PICK S : h' = [h EXCEPT ![i] = [Idle EXCEPT !.op = "expiry", !.at = "next", !.due = S]]
    BY <1>13 DEF ExpiryRead
  <2>2. PICK r : r = [Idle EXCEPT !.op = "expiry", !.at = "next", !.due = S]  OBVIOUS
  <2> QED  BY <1>4, <1>13, <2>1, <2>2 DEF ExpiryRead, Idle, Elsewhere, Awaits
<1> QED
  BY <1>5, <1>6, <1>7, <1>8, <1>9, <1>10, <1>11, <1>12, <1>13 DEF Arrive

-----------------------------------------------------------------------------
(* Requests that go on                                                      *)

\* The steps outside the settlement: none touches the ledger.
LEMMA LifecycleKeepsLedger ==
    ASSUME TypeInv, LedgerInv, NEW i \in Handlers,
           \/ InitTransactionFails(i) \/ VerifyRejected(i)
           \/ OtpWrite(i) \/ SetWrite(i) \/ RetryLatest(i) \/ RetryWrite(i)
           \/ DunningNext(i) \/ DunningSetRead(i) \/ DunningDone(i)
           \/ GuardDemote(i)
           \/ ReconcilePayment(i) \/ ReconcileSubscription(i) \/ ReconcileWrite(i)
           \/ \E w \in Workspaces : ExpiryMark(i, w)
           \/ ActivateWrite(i) \/ EntitlementsFill(i)
    PROVE  LedgerInv'
<1>1. h \in [Handlers -> HandlerRecord] /\ AllEstablished /\ LedgerRows
  BY DEF TypeInv, HandlersOK, LedgerInv
<1>2. UNCHANGED <<pay, event, open, charged, acked, granted>>
  BY DEF InitTransactionFails, VerifyRejected, OtpWrite, SetWrite, RetryLatest, RetryWrite,
         DunningNext, DunningSetRead, DunningDone, GuardDemote, ReconcilePayment,
         ReconcileSubscription, ReconcileWrite, ExpiryMark, ActivateWrite, EntitlementsFill,
         rows, paystack, ghosts
<1>3. LedgerRows' /\ LedgerGrows
  BY <1>1, <1>2, SameRows, SameLedger
<1>4. SUFFICES AllEstablished'
  BY <1>3 DEF LedgerInv
<1>5. ASSUME Finish(i) PROVE AllEstablished'
  BY <1>1, <1>3, <1>5, FinishEstablished
<1>6. ASSUME NEW at \in Elsewhere, Goto(i, at) PROVE AllEstablished'
  BY <1>1, <1>3, <1>6, GotoElsewhere
<1>7. ASSUME NEW r, h' = [h EXCEPT ![i] = r], r.at \in Elsewhere, r.op = h[i].op, r.t = h[i].t
      PROVE  AllEstablished'
  BY <1>1, <1>3, <1>7, ElsewhereStep
<1>8. h[i] \in HandlerRecord
  BY <1>1
<1>9. ASSUME \/ InitTransactionFails(i) \/ VerifyRejected(i) \/ OtpWrite(i) \/ RetryWrite(i)
             \/ DunningDone(i) \/ GuardDemote(i) \/ ReconcileWrite(i)
             \/ ActivateWrite(i) \/ EntitlementsFill(i)
      PROVE  AllEstablished'
  BY <1>5, <1>9
  DEF InitTransactionFails, VerifyRejected, OtpWrite, RetryWrite, DunningDone, GuardDemote,
      ReconcileWrite, ActivateWrite, EntitlementsFill
<1>10. ASSUME SetWrite(i) \/ DunningSetRead(i) PROVE AllEstablished'
  BY <1>5, <1>6, <1>10 DEF SetWrite, DunningSetRead, Elsewhere, Awaits
<1>11. ASSUME RetryLatest(i) PROVE AllEstablished'
  <2>1. CASE Finish(i)  BY <1>5, <2>1
  <2>2. CASE ~Finish(i)
    <3>1. PICK p : h' = [h EXCEPT ![i].at = "reset", ![i].p = p]
      BY <1>11, <2>2 DEF RetryLatest
    <3>2. PICK r : r = [h[i] EXCEPT !.at = "reset", !.p = p]  OBVIOUS
    <3>3. r.at = "reset" /\ r.op = h[i].op /\ r.t = h[i].t
      BY <1>8, <3>2 DEF HandlerRecord
    <3>4. h' = [h EXCEPT ![i] = r]  BY <3>1, <3>2
    <3> QED  BY <1>7, <3>3, <3>4 DEF Elsewhere, Awaits
  <2> QED  BY <2>1, <2>2
<1>12. ASSUME DunningNext(i) PROVE AllEstablished'
  <2> DEFINE q  == Oldest(h[i].todo)
             to == DunningTarget(q, h[i].t, ws[pay[q].ws].billing)
             at == IF to = None THEN "next" ELSE "set"
             S  == h[i].todo \ {q}
             r0 == [h[i] EXCEPT !.todo = S, !.w = pay[q].ws, !.to = to, !.at = at]
  <2>1. h' = [h EXCEPT ![i] = r0]  BY <1>12 DEF DunningNext
  <2>2. at \in Elsewhere  BY DEF Elsewhere, Awaits
  <2> HIDE DEF q, to, at, S
  <2>3. r0.at = at /\ r0.op = h[i].op /\ r0.t = h[i].t
    BY <1>8 DEF HandlerRecord
  <2> HIDE DEF r0
  <2>4. PICK r : r = r0  OBVIOUS
  <2> QED  BY <1>7, <2>1, <2>2, <2>3, <2>4
<1>13. ASSUME ReconcilePayment(i) PROVE AllEstablished'
  <2>1. PICK v : h' = [h EXCEPT ![i].latest = v]
    BY <1>13 DEF ReconcilePayment
  <2>2. PICK r : r = [h[i] EXCEPT !.latest = v]  OBVIOUS
  <2>3. r.at = "reads" /\ r.op = h[i].op /\ r.t = h[i].t
    BY <1>8, <1>13, <2>2 DEF HandlerRecord, ReconcilePayment, Running
  <2> QED  BY <1>7, <2>1, <2>2, <2>3 DEF Elsewhere, Awaits
<1>14. ASSUME ReconcileSubscription(i) PROVE AllEstablished'
  <2>1. PICK s : h' = [h EXCEPT ![i].subRead = TRUE, ![i].seenSub = s]
    BY <1>14 DEF ReconcileSubscription
  <2>2. PICK r : r = [h[i] EXCEPT !.subRead = TRUE, !.seenSub = s]  OBVIOUS
  <2>3. r.at = "reads" /\ r.op = h[i].op /\ r.t = h[i].t
    BY <1>8, <1>14, <2>2 DEF HandlerRecord, ReconcileSubscription, Running
  <2>4. h' = [h EXCEPT ![i] = r]  BY <2>1, <2>2
  <2> QED  BY <1>7, <2>3, <2>4 DEF Elsewhere, Awaits
<1>15. ASSUME NEW w \in Workspaces, ExpiryMark(i, w) PROVE AllEstablished'
  <2>1. CASE Finish(i)  BY <1>5, <2>1
  <2>2. CASE ~Finish(i)
    <3>1. PICK S : h' = [h EXCEPT ![i].due = S]
      BY <1>15, <2>2 DEF ExpiryMark
    <3>2. PICK r : r = [h[i] EXCEPT !.due = S]  OBVIOUS
    <3>3. r.at = "next" /\ r.op = h[i].op /\ r.t = h[i].t
      BY <1>8, <1>15, <3>2 DEF HandlerRecord, ExpiryMark, Running
    <3> QED  BY <1>7, <3>1, <3>2, <3>3 DEF Elsewhere, Awaits
  <2> QED  BY <2>1, <2>2
<1> QED  BY <1>9, <1>10, <1>11, <1>12, <1>13, <1>14, <1>15

LEMMA ReturnedEstablished ==
    ASSUME h \in [Handlers -> HandlerRecord], AllEstablished, LedgerGrows,
           NEW i \in Handlers, NEW p \in PaymentIds, p = h[i].p,
           h' = [h EXCEPT ![i] = Returned(h[i])],
           h[i].op \in {"webhook", "replay"} => charged'[p] # NoDate /\ Settled(p)'
    PROVE  AllEstablished'
<1>1. CASE h[i].op \in {"webhook", "replay"}
  <2>1. PICK r : r = [h[i] EXCEPT !.at = "record"]  OBVIOUS
  <2>2. h' = [h EXCEPT ![i] = r] /\ r.at = "record" /\ r.p = p /\ r.op # "fix"
    BY <1>1, <2>1 DEF Returned, HandlerRecord
  <2>3. Established(r)'  BY <1>1, <2>2 DEF Established
  <2> QED  BY <2>2, <2>3, EstablishedStep
<1>2. CASE h[i].op \notin {"webhook", "replay"}
  <2>1. Finish(i)  BY <1>2 DEF Finish, Returned
  <2> QED  BY <2>1, FinishEstablished
<1> QED  BY <1>1, <1>2

\* The steps on the way to a settlement that change no row of the ledger.
LEMMA FinalizeKeepsLedger ==
    ASSUME TypeInv, LedgerInv, NEW i \in Handlers,
           FinalizeRead(i) \/ FinalizeBust(i) \/ FinalizeFails(i) \/ VerifyConfirmed(i)
    PROVE  LedgerInv'
<1>1. /\ h \in [Handlers -> HandlerRecord] /\ RowTypes /\ AllEstablished /\ LedgerRows
      /\ Remembered(h[i])
  BY DEF TypeInv, HandlersOK, LedgerInv
<1>2. UNCHANGED <<pay, event, open, charged, acked, granted>>
  BY DEF FinalizeRead, FinalizeBust, FinalizeFails, VerifyConfirmed, rows, paystack, ghosts
<1>3. LedgerRows' /\ LedgerGrows
  BY <1>1, <1>2, SameRows, SameLedger
<1>4. SUFFICES AllEstablished'
  BY <1>3 DEF LedgerInv
<1>5. PICK q \in HandlerRecord : q = h[i] /\ Established(q) /\ Remembered(q)
  BY <1>1 DEF AllEstablished
<1>6. ASSUME NEW r, h' = [h EXCEPT ![i] = r], Established(r) PROVE AllEstablished'
  BY <1>1, <1>3, <1>6, EstablishedStays, EstablishedStep
<1>7. ASSUME FinalizeRead(i) PROVE AllEstablished'
  <2>1. q.at = "finalize" /\ q.p \in PaymentIds
    BY <1>5, <1>7 DEF FinalizeRead, Established
  <2>2. CASE pay[q.p].state = "PENDING"
    <3>1. PICK r : r = [q EXCEPT !.at = "tx", !.w = pay[q.p].ws]  OBVIOUS
    <3>2. h' = [h EXCEPT ![i] = r]
      BY <1>5, <1>7, <2>2, <3>1 DEF FinalizeRead
    <3>3. r.at = "tx" /\ r.op = q.op /\ r.p = q.p /\ r.t = q.t
      BY <3>1 DEF HandlerRecord
    <3>4. Established(r)  BY <1>5, <2>1, <3>3 DEF Established
    <3> QED  BY <1>6, <3>2, <3>4
  <2>3. CASE pay[q.p].state # "PENDING"
    <3>1. h' = [h EXCEPT ![i] = Returned(h[i])]
      BY <1>5, <1>7, <2>3 DEF FinalizeRead
    <3>2. PICK p \in PaymentIds : p = q.p  BY <2>1
    <3>3. q.op \in {"webhook", "replay"} => charged[p] # NoDate
      BY <1>5, <2>1, <3>2 DEF Established
    <3>4. charged[p] # NoDate => Settled(p)
      BY <1>1, <2>3, <3>2 DEF LedgerRows, InOrder, HasPayment, RowTypes, PaymentRow
    <3>5. charged[p] # NoDate => charged'[p] # NoDate /\ Settled(p)'
      BY <1>3, <3>4 DEF LedgerGrows
    <3> QED  BY <1>1, <1>3, <1>5, <3>1, <3>2, <3>3, <3>5, ReturnedEstablished
  <2> QED  BY <2>2, <2>3
<1>8. ASSUME FinalizeBust(i) PROVE AllEstablished'
  <2>1. PICK r : r = [q EXCEPT !.at = "commit"]  OBVIOUS
  <2>2. h' = [h EXCEPT ![i] = r] /\ q.at = "tx"
    BY <1>5, <1>8, <2>1 DEF FinalizeBust, Goto
  <2>3. r.at = "commit" /\ r.op = q.op /\ r.p = q.p /\ r.t = q.t
    BY <2>1 DEF HandlerRecord
  <2>4. Established(r)  BY <1>5, <2>2, <2>3 DEF Established
  <2> QED  BY <1>6, <2>2, <2>4
<1>9. ASSUME FinalizeFails(i) PROVE AllEstablished'
  <2>1. CASE q.op = "webhook" /\ q.at # "failed"
    <3>1. PICK r : r = [q EXCEPT !.at = "failed"]  OBVIOUS
    <3>2. h' = [h EXCEPT ![i] = r] /\ q.at \in {"finalize", "tx", "commit", "record", "failed"}
      BY <1>5, <1>9, <2>1, <3>1 DEF FinalizeFails
    <3>3. r.at = "failed" /\ r.op = q.op /\ r.p = q.p /\ r.t = q.t
      BY <3>1 DEF HandlerRecord
    <3>4. Established(r)  BY <1>5, <2>1, <3>2, <3>3 DEF Established
    <3> QED  BY <1>6, <3>2, <3>4
  <2>2. CASE ~(q.op = "webhook" /\ q.at # "failed")
    <3>1. Finish(i)  BY <1>5, <1>9, <2>2 DEF FinalizeFails, Finish
    <3> QED  BY <1>1, <1>3, <3>1, FinishEstablished
  <2> QED  BY <2>1, <2>2
<1>10. ASSUME VerifyConfirmed(i) PROVE AllEstablished'
  <2>1. PICK r : r = [q EXCEPT !.at = "finalize"]  OBVIOUS
  <2>2. /\ h' = [h EXCEPT ![i] = r] /\ q.at = "ask" /\ q.op = "verify" /\ q.p \in PaymentIds
        /\ charged[q.p] # NoDate \/ event[q.p] # "absent"
    BY <1>5, <1>10, <2>1 DEF VerifyConfirmed, Goto, Established
  <2>3. charged[q.p] # NoDate
    BY <1>1, <2>2 DEF LedgerRows, InOrder
  <2>4. r.at = "finalize" /\ r.op = q.op /\ r.p = q.p /\ r.t = q.t
    BY <2>1 DEF HandlerRecord
  <2>5. Established(r)  BY <2>2, <2>3, <2>4 DEF Established
  <2> QED  BY <1>6, <2>2, <2>5
<1> QED  BY <1>7, <1>8, <1>9, <1>10

\* The steps that write a payment, an event or an answer.
LEMMA CreatePaymentKeepsLedger ==
    ASSUME TypeInv, LedgerInv, NEW i \in Handlers, NEW p \in PaymentIds, NEW plan \in Plans,
           CreatePayment(i, p, plan)
    PROVE  LedgerInv'
<1>1. /\ h \in [Handlers -> HandlerRecord] /\ RowTypes /\ AllEstablished /\ LedgerRows
  BY DEF TypeInv, HandlersOK, LedgerInv
<1>2. PICK row : row.state = "PENDING" /\ row.paidAt = NoDate /\ pay' = [pay EXCEPT ![p] = row]
  BY DEF CreatePayment
<1>3. ~HasPayment(p) /\ UNCHANGED <<event, open, charged, acked, granted>>
  BY DEF CreatePayment, HasPayment, paystack, ghosts
<1>4. ~Settled(p)
  BY <1>1, <1>3 DEF LedgerRows, InOrder
<1>5. /\ pay'[p] = row
      /\ \A q \in PaymentIds : q # p => pay'[q] = pay[q]
  BY <1>1, <1>2 DEF RowTypes
<1>6. HasPayment(p)' /\ ~Settled(p)'
  BY <1>2, <1>5 DEF HasPayment, Settled
<1>7. \A q \in PaymentIds : q # p => HasPayment(q)' = HasPayment(q) /\ Settled(q)' = Settled(q)
  BY <1>5 DEF HasPayment, Settled
<1>8. LedgerGrows
  BY <1>3, <1>4, <1>6, <1>7 DEF LedgerGrows
<1>9. LedgerRows'
  BY <1>1, <1>2, <1>3, <1>4, <1>5, <1>6, <1>7
  DEF LedgerRows, InOrder, SettledWasCharged, ProcessedWasSettled, RowTypes
<1>10. CASE h[i].op = "checkout"
  <2>1. PICK r : r = [h[i] EXCEPT !.at = "init", !.p = p]  OBVIOUS
  <2>2. h' = [h EXCEPT ![i] = r]
    BY <1>10, <2>1 DEF CreatePayment
  <2>3. r.at = "init" /\ r.p = p /\ r.op = "checkout"
    BY <1>1, <1>10, <2>1 DEF HandlerRecord
  <2>4. Established(r)'  BY <1>6, <2>3 DEF Established
  <2> QED  BY <1>1, <1>8, <1>9, <2>2, <2>4, EstablishedStep DEF LedgerInv
<1>11. CASE h[i].op # "checkout"
  <2>1. Finish(i)  BY <1>11 DEF CreatePayment
  <2> QED  BY <1>1, <1>8, <1>9, <2>1, FinishEstablished DEF LedgerInv
<1> QED  BY <1>10, <1>11

LEMMA SettlementKeepsLedger ==
    ASSUME TypeInv, LedgerInv, NEW i \in Handlers, FinalizeCommit(i)
    PROVE  LedgerInv'
<1>1. /\ h \in [Handlers -> HandlerRecord] /\ RowTypes /\ AllEstablished /\ LedgerRows
  BY DEF TypeInv, HandlersOK, LedgerInv
<1>2. PICK p \in PaymentIds : /\ p = h[i].p
                              /\ IF h[i].op = "mockConfirm" THEN p \in granted
                                                            ELSE charged[p] # NoDate
  BY <1>1 DEF AllEstablished, Established, FinalizeCommit
<1>3. PICK t : /\ pay' = [pay EXCEPT ![p] = [@ EXCEPT !.state = "PAID", !.paidAt = t]]
               /\ t = now \/ (t = charged[p] /\ charged[p] # NoDate)
  BY <1>2 DEF FinalizeCommit
<1>4. t # NoDate
  BY <1>1, <1>3 DEF RowTypes, NoDate
<1>5. UNCHANGED <<event, open, charged, acked, granted>>
  BY DEF FinalizeCommit, paystack, ghosts
<1>6. /\ pay'[p].state = "PAID" /\ pay'[p].paidAt = t
      /\ \A q \in PaymentIds : q # p => pay'[q] = pay[q]
  BY <1>1, <1>3 DEF RowTypes, PaymentRow
<1>7. HasPayment(p)' /\ Settled(p)'
  BY <1>4, <1>6 DEF HasPayment, Settled
<1>8. \A q \in PaymentIds : q # p => HasPayment(q)' = HasPayment(q) /\ Settled(q)' = Settled(q)
  BY <1>6 DEF HasPayment, Settled
<1>9. LedgerGrows
  BY <1>5, <1>7, <1>8 DEF LedgerGrows
<1>10. LedgerRows'
  BY <1>1, <1>2, <1>5, <1>6, <1>7, <1>8, <1>9
  DEF LedgerRows, InOrder, SettledWasCharged, ProcessedWasSettled, LedgerGrows, RowTypes
<1>11. h' = [h EXCEPT ![i] = Returned(h[i])]
  BY DEF FinalizeCommit
<1> QED
  BY <1>1, <1>2, <1>5, <1>7, <1>9, <1>10, <1>11, ReturnedEstablished DEF LedgerInv

LEMMA RecordsKeepLedger ==
    ASSUME TypeInv, LedgerInv, NEW i \in Handlers,
           InitTransaction(i) \/ RecordProcessed(i) \/ RecordFailed(i)
    PROVE  LedgerInv'
<1>1. /\ h \in [Handlers -> HandlerRecord] /\ RowTypes /\ AllEstablished /\ LedgerRows
  BY DEF TypeInv, HandlersOK, LedgerInv
<1>2. PICK q : q = h[i] /\ Established(q) /\ q.p \in PaymentIds
               /\ q.at \in {"init", "record", "failed"}
  BY <1>1 DEF AllEstablished, Established, InitTransaction, Running, RecordProcessed, RecordFailed
<1>3. /\ UNCHANGED <<pay, charged, granted>>
      /\ Finish(i)
  BY DEF InitTransaction, RecordProcessed, RecordFailed, rows, paystack, ghosts
<1>4. LedgerGrows  BY <1>3, SameLedger
<1>5. LedgerRows' => LedgerInv'
  BY <1>1, <1>3, <1>4, FinishEstablished DEF LedgerInv
<1>6. CASE InitTransaction(i)
  <2>1. HasPayment(q.p) /\ open' = open \cup {q.p} /\ UNCHANGED <<event, acked>>
    BY <1>2, <1>6 DEF InitTransaction, Running, Established, rows
  <2>2. LedgerRows'
    BY <1>1, <1>3, <2>1
    DEF LedgerRows, InOrder, SettledWasCharged, ProcessedWasSettled, HasPayment, Settled
  <2> QED  BY <1>5, <2>2
<1>7. CASE RecordProcessed(i)
  <2>1. /\ charged[q.p] # NoDate /\ Settled(q.p) /\ UNCHANGED open
        /\ event' = [event EXCEPT ![q.p] = "processed"] /\ acked' \subseteq acked \cup {q.p}
    BY <1>2, <1>7 DEF RecordProcessed, Established
  <2>2. LedgerRows'
    BY <1>1, <1>3, <2>1
    DEF LedgerRows, InOrder, SettledWasCharged, ProcessedWasSettled, HasPayment, Settled, RowTypes
  <2> QED  BY <1>5, <2>2
<1>8. CASE RecordFailed(i)
  <2>1. /\ charged[q.p] # NoDate /\ UNCHANGED <<open, acked>>
        /\ event' = [event EXCEPT ![q.p] = "unprocessed"]
    BY <1>2, <1>8 DEF RecordFailed, Established, paystack
  <2>2. LedgerRows'
    BY <1>1, <1>3, <2>1
    DEF LedgerRows, InOrder, SettledWasCharged, ProcessedWasSettled, HasPayment, Settled, RowTypes
  <2> QED  BY <1>5, <2>2
<1> QED  BY <1>6, <1>7, <1>8

\* A retry makes a settled payment PENDING again, and keeps its paidAt.
LEMMA RetryResetKeepsLedger ==
    ASSUME TypeInv, LedgerInv, NEW i \in Handlers, RetryReset(i)
    PROVE  LedgerInv'
<1>1. /\ h \in [Handlers -> HandlerRecord] /\ RowTypes /\ AllEstablished /\ LedgerRows
      /\ h[i] \in HandlerRecord
  BY DEF TypeInv, HandlersOK, LedgerInv
<1>2. PICK p \in PaymentIds : p = h[i].p /\ HasPayment(p)
  BY DEF TypeInv, HandlersOK, Remembered, RetryReset, Running
<1>3. pay' = [pay EXCEPT ![p].state = "PENDING"] /\ UNCHANGED <<event, open, charged, acked, granted>>
  BY <1>2 DEF RetryReset, paystack, ghosts
<1>4. /\ pay'[p].state = "PENDING" /\ pay'[p].paidAt = pay[p].paidAt
      /\ \A q \in PaymentIds : q # p => pay'[q] = pay[q]
  BY <1>1, <1>3 DEF RowTypes, PaymentRow
<1>5. \A q \in PaymentIds : HasPayment(q)' = HasPayment(q) /\ Settled(q)' = Settled(q)
  BY <1>2, <1>4 DEF HasPayment, Settled
<1>6. LedgerGrows
  BY <1>3, <1>5 DEF LedgerGrows
<1>7. LedgerRows'
  BY <1>1, <1>3, <1>4, <1>5
  DEF LedgerRows, InOrder, SettledWasCharged, ProcessedWasSettled, RowTypes
<1>8. AllEstablished'
  <2>1. CASE Finish(i)  BY <1>1, <1>6, <2>1, FinishEstablished
  <2>2. CASE Goto(i, "write")
    BY <1>1, <1>6, <2>2, GotoElsewhere DEF Elsewhere, Awaits
  <2> QED  BY <2>1, <2>2 DEF RetryReset
<1> QED  BY <1>7, <1>8 DEF LedgerInv

LEMMA FixKeepsLedger ==
    ASSUME TypeInv, LedgerInv, NEW i \in Handlers, FixWrite(i)
    PROVE  LedgerInv'
<1>1. /\ h \in [Handlers -> HandlerRecord] /\ RowTypes /\ AllEstablished /\ LedgerRows
  BY DEF TypeInv, HandlersOK, LedgerInv
<1>2. PICK t : t = h[i].t /\ t # NoDate
  BY <1>1 DEF AllEstablished, Established, FixWrite, Running
<1>3. PICK S : S = {p \in PaymentsOf(h[i].w) : pay[p].state = "PENDING"}
  OBVIOUS
<1>4. S \subseteq PaymentIds /\ \A p \in S : HasPayment(p)
  BY <1>3 DEF PaymentsOf, HasPayment
<1>5. /\ pay' = [p \in PaymentIds |-> IF p \in S THEN [pay[p] EXCEPT !.state = "PAID", !.paidAt = t]
                                                 ELSE pay[p]]
      /\ granted' = granted \cup S
      /\ Finish(i)
      /\ UNCHANGED <<event, open, charged, acked>>
  BY <1>2, <1>3 DEF FixWrite, paystack
<1>6. /\ \A p \in S : pay'[p].state = "PAID" /\ pay'[p].paidAt = t
      /\ \A p \in PaymentIds \ S : pay'[p] = pay[p]
  BY <1>1, <1>4, <1>5 DEF RowTypes, PaymentRow
<1>7. /\ \A p \in S : HasPayment(p)' /\ Settled(p)'
      /\ \A p \in PaymentIds \ S : HasPayment(p)' = HasPayment(p) /\ Settled(p)' = Settled(p)
  BY <1>2, <1>6 DEF HasPayment, Settled
<1>8. LedgerGrows
  BY <1>4, <1>5, <1>7 DEF LedgerGrows
<1>9. LedgerRows'
  BY <1>1, <1>4, <1>5, <1>6, <1>7, <1>8
  DEF LedgerRows, InOrder, SettledWasCharged, ProcessedWasSettled, LedgerGrows, RowTypes
<1>10. AllEstablished'
  BY <1>1, <1>5, <1>8, FinishEstablished
<1> QED  BY <1>9, <1>10 DEF LedgerInv

LEMMA ContinuesKeepLedger ==
    ASSUME TypeInv, LedgerInv, NEW i \in Handlers, Continue(i)
    PROVE  LedgerInv'
  BY LifecycleKeepsLedger, FinalizeKeepsLedger, CreatePaymentKeepsLedger, SettlementKeepsLedger,
     RecordsKeepLedger, RetryResetKeepsLedger, FixKeepsLedger
  DEF Continue

-----------------------------------------------------------------------------
(* The environment                                                          *)

LEMMA EnvironmentKeepsLedger ==
    ASSUME TypeInv, LedgerInv, Environment
    PROVE  LedgerInv'
<1>1. /\ h \in [Handlers -> HandlerRecord] /\ RowTypes /\ AllEstablished /\ LedgerRows
  BY DEF TypeInv, HandlersOK, LedgerInv
<1>2. ASSUME LedgerGrows, UNCHANGED h PROVE AllEstablished'
  <2>1. ASSUME NEW i \in Handlers PROVE Established(h[i])'
    <3>1. PICK q : q = h[i]  OBVIOUS
    <3>2. Established(q)'  BY <1>1, <1>2, <3>1, EstablishedStays DEF AllEstablished
    <3> QED  BY <1>2, <3>1, <3>2 DEF Established
  <2> QED  BY <2>1 DEF AllEstablished
<1>3. ASSUME NEW p \in PaymentIds, Charge(p) PROVE LedgerInv'
  <2>1. /\ p \in open /\ HasPayment(p) /\ now # NoDate
        /\ charged' = [charged EXCEPT ![p] = now]
        /\ UNCHANGED <<pay, event, open, acked, granted, h>>
    BY <1>1, <1>3 DEF Charge, LedgerRows, InOrder, RowTypes, NoDate, rows, ghosts
  <2>2. LedgerGrows
    BY <1>1, <2>1 DEF LedgerGrows, HasPayment, Settled, RowTypes
  <2>3. LedgerRows'
    BY <1>1, <2>1
    DEF LedgerRows, InOrder, SettledWasCharged, ProcessedWasSettled, HasPayment, Settled, RowTypes
  <2> QED  BY <1>2, <2>1, <2>2, <2>3 DEF LedgerInv
<1>4. CASE Crash
  <2>1. UNCHANGED <<pay, event, open, charged, acked, granted>>
    BY <1>4 DEF Crash, rows, paystack, ghosts
  <2>2. ASSUME NEW i \in Handlers PROVE Established(h[i])'
    <3>1. PICK r : r = Idle  OBVIOUS
    <3>2. r.at = "start" /\ r.op = "idle"  BY <3>1 DEF Idle
    <3>3. Established(r)'  BY <3>2 DEF Established
    <3>4. h'[i] = r  BY <1>4, <3>1 DEF Crash
    <3> QED  BY <3>3, <3>4 DEF Established
  <2> QED  BY <1>1, <2>1, <2>2, SameRows DEF LedgerInv, AllEstablished
<1>5. CASE \/ \E w \in Workspaces : CancelSubscription(w) \/ SuspendWorkspace(w) \/ CacheExpire(w)
           \/ Tick
  <2>1. UNCHANGED <<pay, event, open, charged, acked, granted, h>>
    BY <1>5 DEF CancelSubscription, SuspendWorkspace, CacheExpire, Tick, rows, paystack, ghosts
  <2> QED  BY <1>1, <1>2, <2>1, SameRows, SameLedger DEF LedgerInv
<1> QED  BY <1>3, <1>4, <1>5 DEF Environment

-----------------------------------------------------------------------------
(* The theorems                                                             *)

LEMMA LedgerInvInit == Init => LedgerInv
<1> SUFFICES ASSUME Init PROVE LedgerInv
  OBVIOUS
<1>1. LedgerRows
  BY DEF Init, LedgerRows, InOrder, SettledWasCharged, ProcessedWasSettled, HasPayment, Settled,
         NoPaymentRow
<1>2. ASSUME NEW i \in Handlers PROVE Established(h[i])
  <2>1. h[i].at = "start" /\ h[i].op = "idle"  BY DEF Init, Idle
  <2> QED  BY <2>1 DEF Established
<1> QED  BY <1>1, <1>2 DEF LedgerInv, AllEstablished

LEMMA LedgerInvStep == TypeInv /\ LedgerInv /\ [Next]_vars => LedgerInv'
<1> SUFFICES ASSUME TypeInv, LedgerInv, [Next]_vars PROVE LedgerInv'
  OBVIOUS
<1>1. ASSUME NEW i \in Handlers, Arrive(i) \/ Continue(i) PROVE LedgerInv'
  BY <1>1, ArrivalsEstablish, ContinuesKeepLedger
<1>2. CASE Environment
  BY <1>2, EnvironmentKeepsLedger
<1>3. CASE UNCHANGED vars
  <2>1. UNCHANGED <<pay, event, open, charged, acked, granted, h>>
    BY <1>3 DEF vars, rows, paystack, ghosts
  <2> QED
    BY <2>1 DEF LedgerInv, LedgerRows, InOrder, SettledWasCharged, ProcessedWasSettled,
                HasPayment, Settled, AllEstablished, Established
<1> QED  BY <1>1, <1>2, <1>3 DEF Next

LEMMA LedgerInvariant == Spec => []LedgerInv
  BY LedgerInvInit, TypeInvariant, LedgerInvStep, PTL DEF Spec

\* However often a charge is delivered, replayed, verified or retried at once,
\* a payment is settled only if Paystack charged for it or it was granted.
THEOREM SettlementsAreCharged == Spec => []SettledWasCharged
<1>1. LedgerInv => SettledWasCharged
  BY DEF LedgerInv, LedgerRows
<1> QED  BY <1>1, LedgerInvariant, PTL

\* Whatever crashes or fails between the settlement and the answer, an event
\* marked processed and a webhook answered with 200 stand for a settlement.
THEOREM ProcessedAreSettled == Spec => []ProcessedWasSettled
<1>1. LedgerInv => ProcessedWasSettled
  BY DEF LedgerInv, LedgerRows
<1> QED  BY <1>1, LedgerInvariant, PTL

-----------------------------------------------------------------------------
(* Refinement of PaymentLedger                                              *)

LEMMA LedgerUnchanged ==
    ASSUME UNCHANGED <<charged, granted>>,
           \A p \in PaymentIds : Settled(p)' <=> Settled(p)
    PROVE  UNCHANGED Ledger!ledger
  BY DEF Ledger!ledger

LEMMA ContinuesOnLedger ==
    ASSUME TypeInv, LedgerInv, NEW i \in Handlers, Continue(i)
    PROVE  [Ledger!LedgerNext]_(Ledger!ledger)
<1>1. /\ RowTypes /\ AllEstablished /\ LedgerRows
  BY DEF TypeInv, LedgerInv
<1>2. ASSUME NEW p \in PaymentIds, NEW plan \in Plans, CreatePayment(i, p, plan)
      PROVE  UNCHANGED Ledger!ledger
  <2>1. PICK row : row.paidAt = NoDate /\ pay' = [pay EXCEPT ![p] = row]
    BY <1>2 DEF CreatePayment
  <2>2. ~Settled(p)
    BY <1>1, <1>2 DEF CreatePayment, LedgerRows, InOrder, HasPayment
  <2>3. \A q \in PaymentIds : Settled(q)' <=> Settled(q)
    BY <1>1, <2>1, <2>2 DEF Settled, RowTypes
  <2>4. UNCHANGED <<charged, granted>>
    BY <1>2 DEF CreatePayment, paystack, ghosts
  <2> QED  BY <2>3, <2>4, LedgerUnchanged
<1>3. ASSUME RetryReset(i) PROVE UNCHANGED Ledger!ledger
  <2>1. PICK p : pay' = [pay EXCEPT ![p].state = "PENDING"]
    BY <1>3 DEF RetryReset
  <2>2. \A q \in PaymentIds : pay'[q].paidAt = pay[q].paidAt
    BY <1>1, <2>1 DEF RowTypes, PaymentRow
  <2>3. UNCHANGED <<charged, granted>>
    BY <1>3 DEF RetryReset, paystack, ghosts
  <2> QED  BY <2>2, <2>3, LedgerUnchanged DEF Settled
<1>4. ASSUME FinalizeCommit(i) PROVE Ledger!LedgerNext
  <2>1. PICK p \in PaymentIds : p = h[i].p /\ (charged[p] # NoDate \/ p \in granted)
    BY <1>1, <1>4 DEF AllEstablished, Established, FinalizeCommit
  <2>2. PICK t : /\ pay' = [pay EXCEPT ![p] = [@ EXCEPT !.state = "PAID", !.paidAt = t]]
                 /\ t = now \/ (t = charged[p] /\ charged[p] # NoDate)
    BY <1>4, <2>1 DEF FinalizeCommit
  <2>3. t # NoDate
    BY <1>1, <2>2 DEF RowTypes, NoDate
  <2>4. Settled(p)' /\ \A q \in PaymentIds : q # p => (Settled(q)' <=> Settled(q))
    BY <1>1, <2>2, <2>3 DEF Settled, RowTypes, PaymentRow
  <2>5. UNCHANGED <<charged, granted>>
    BY <1>4 DEF FinalizeCommit, paystack, ghosts
  <2>6. {q \in PaymentIds : Settled(q)}' = {q \in PaymentIds : Settled(q)} \cup {p}
    BY <2>4
  <2>7. p \in {q \in PaymentIds : charged[q] # NoDate} \cup granted
    BY <2>1
  <2>8. Ledger!Settle(p)
    BY <2>5, <2>6, <2>7 DEF Ledger!Settle
  <2> QED  BY <2>8 DEF Ledger!LedgerNext
<1>5. ASSUME FixWrite(i) PROVE Ledger!LedgerNext
  <2>1. PICK t : t = h[i].t /\ t # NoDate
    BY <1>1, <1>5 DEF AllEstablished, Established, FixWrite, Running
  <2>2. PICK S : S = {p \in PaymentsOf(h[i].w) : pay[p].state = "PENDING"}
    OBVIOUS
  <2>3. S \in SUBSET PaymentIds
    BY <2>2 DEF PaymentsOf
  <2>4. /\ pay' = [p \in PaymentIds |-> IF p \in S
                                          THEN [pay[p] EXCEPT !.state = "PAID", !.paidAt = t]
                                          ELSE pay[p]]
        /\ granted' = granted \cup S
        /\ UNCHANGED charged
    BY <1>5, <2>1, <2>2 DEF FixWrite, paystack
  <2>5. /\ \A p \in S : Settled(p)'
        /\ \A p \in PaymentIds \ S : Settled(p)' <=> Settled(p)
    BY <1>1, <2>1, <2>3, <2>4 DEF Settled, RowTypes, PaymentRow
  <2>6. {q \in PaymentIds : Settled(q)}' = {q \in PaymentIds : Settled(q)} \cup S
    BY <2>3, <2>5
  <2>7. Ledger!Forgive(S)
    BY <2>4, <2>6 DEF Ledger!Forgive
  <2> QED  BY <2>3, <2>7 DEF Ledger!LedgerNext
<1>6. CASE UNCHANGED <<pay, charged, granted>>
  BY <1>6, LedgerUnchanged DEF Settled
<1>7. \/ \E p \in PaymentIds, plan \in Plans : CreatePayment(i, p, plan)
      \/ RetryReset(i) \/ FinalizeCommit(i) \/ FixWrite(i)
      \/ UNCHANGED <<pay, charged, granted>>
  BY DEF Continue, InitTransaction, InitTransactionFails, FinalizeRead, FinalizeBust,
         FinalizeFails, RecordProcessed, RecordFailed, VerifyConfirmed, VerifyRejected,
         OtpWrite, SetWrite, RetryLatest, RetryWrite, DunningNext, DunningSetRead, DunningDone,
         GuardDemote, ReconcilePayment, ReconcileSubscription, ReconcileWrite, ExpiryMark,
         ActivateWrite, EntitlementsFill, rows, paystack, ghosts
<1> QED  BY <1>2, <1>3, <1>4, <1>5, <1>6, <1>7

LEMMA ArrivalsOnLedger ==
    ASSUME NEW i \in Handlers, Arrive(i)
    PROVE  [Ledger!LedgerNext]_(Ledger!ledger)
<1>1. ASSUME NEW p \in PaymentIds, MockConfirmRead(i, p) PROVE Ledger!LedgerNext
  <2>1. granted' = granted \cup {p} /\ UNCHANGED <<pay, charged>>
    BY <1>1 DEF MockConfirmRead, rows, paystack
  <2>2. Ledger!Grant(p)
    BY <2>1 DEF Ledger!Grant, Settled
  <2> QED  BY <2>2 DEF Ledger!LedgerNext
<1>2. CASE UNCHANGED <<pay, charged, granted>>
  BY <1>2, LedgerUnchanged DEF Settled
<1>3. (\E p \in PaymentIds : MockConfirmRead(i, p)) \/ UNCHANGED <<pay, charged, granted>>
  BY DEF Arrive, OtpRead, CheckoutRead, MockInitRead, RetryRead, GuardRead, ReconcileRead,
         EntitlementsRead, SetRead, AdminRead, WebhookStore, ReplayRead, VerifyRead,
         DunningRead, ExpiryRead, rows, paystack, ghosts
<1> QED  BY <1>1, <1>2, <1>3

LEMMA EnvironmentOnLedger ==
    ASSUME TypeInv, Environment
    PROVE  [Ledger!LedgerNext]_(Ledger!ledger)
<1>1. ASSUME NEW p \in PaymentIds, Charge(p) PROVE Ledger!LedgerNext
  <2>1. /\ charged' = [charged EXCEPT ![p] = now] /\ UNCHANGED <<pay, granted>>
        /\ now # NoDate /\ charged \in [PaymentIds -> Dates]
    BY <1>1 DEF Charge, TypeInv, RowTypes, NoDate, rows, ghosts
  <2>2. {q \in PaymentIds : charged[q] # NoDate}'
            = {q \in PaymentIds : charged[q] # NoDate} \cup {p}
    BY <2>1
  <2>3. Ledger!ChargeCustomer(p)
    BY <2>1, <2>2 DEF Ledger!ChargeCustomer, Settled
  <2> QED  BY <2>3 DEF Ledger!LedgerNext
<1>2. CASE UNCHANGED <<pay, charged, granted>>
  BY <1>2, LedgerUnchanged DEF Settled
<1>3. (\E p \in PaymentIds : Charge(p)) \/ UNCHANGED <<pay, charged, granted>>
  BY DEF Environment, CancelSubscription, SuspendWorkspace, CacheExpire, Tick, Crash,
         rows, paystack, ghosts
<1> QED  BY <1>1, <1>2, <1>3

LEMMA StepsOnLedger == TypeInv /\ LedgerInv /\ [Next]_vars => [Ledger!LedgerNext]_(Ledger!ledger)
<1>1. UNCHANGED vars => UNCHANGED Ledger!ledger
  BY LedgerUnchanged DEF vars, rows, paystack, ghosts, Settled
<1> QED  BY <1>1, ArrivalsOnLedger, ContinuesOnLedger, EnvironmentOnLedger DEF Next

\* The billing service, with its handlers, webhooks, crashes and retries, does
\* to the ledger only what PaymentLedger allows.
THEOREM LedgerImplemented == Spec => Ledger!LedgerSafety
<1>1. Init => Ledger!LedgerInit
  BY DEF Init, Ledger!LedgerInit, Settled, NoPaymentRow
<1> QED
  BY <1>1, TypeInvariant, LedgerInvariant, StepsOnLedger, PTL DEF Spec, Ledger!LedgerSafety

-----------------------------------------------------------------------------
(* Access is paid for.  A reconciliation writes back, several awaits later, *)
(* a row, a payment status and a subscription it has read; a cache entry    *)
(* is a plan read earlier still.  What such a read may be used for is what  *)
(* was true of it and cannot become false: that a payment of the workspace  *)
(* was settled, that it bought the plan, that an operator vouched.          *)

Paid(w) == \E p \in PaymentsOf(w) : Settled(p)

Bought(w, plan) ==
    plan = StarterPlan \/ \E p \in PaymentsOf(w) : Settled(p) /\ pay[p].plan = plan

GoodRow(w, row) ==
    /\ row.status = "ACTIVE" => w \in vouched \/ (Paid(w) /\ row.renewal # NoDate)
    /\ Bought(w, row.plan)

GoodSubscription(w, s) == s.status # "ABSENT" => s.end # NoDate /\ Bought(w, s.plan)

\* What a handler may rely on when it writes.
Knows(r) ==
    /\ r.at \in {"reads", "fill"} => GoodRow(r.w, r.seen)
    /\ r.at = "reads" => GoodSubscription(r.w, r.seenSub) /\ (r.latest = "PAID" => Paid(r.w))
    /\ r.at \in {"tx", "commit"} => r.w = pay[r.p].ws

AllKnow == \A i \in Handlers : Knows(h[i])

RowsGood ==
    \A w \in Workspaces : /\ GoodRow(w, ws[w])
                          /\ GoodSubscription(w, sub[w])
                          /\ cache[w] = None \/ Bought(w, cache[w])

AccessInv == RowsGood /\ AllKnow

\* No step takes back a settlement, a vote of an operator, or what a payment
\* is for.
PaymentsKept ==
    /\ vouched \subseteq vouched'
    /\ \A p \in PaymentIds :
          /\ HasPayment(p) => HasPayment(p)' /\ pay'[p].ws = pay[p].ws
                                             /\ pay'[p].plan = pay[p].plan
          /\ Settled(p) => Settled(p)'

LEMMA PaidStays ==
    ASSUME PaymentsKept, NEW w, Paid(w)
    PROVE  Paid(w)'
  BY DEF PaymentsKept, Paid, PaymentsOf, HasPayment

LEMMA BoughtStays ==
    ASSUME PaymentsKept, NEW w, NEW plan, Bought(w, plan)
    PROVE  Bought(w, plan)'
  BY DEF PaymentsKept, Bought, PaymentsOf, HasPayment

LEMMA GoodRowStays ==
    ASSUME PaymentsKept, NEW w, NEW row, GoodRow(w, row)
    PROVE  GoodRow(w, row)'
<1>1. Paid(w) => Paid(w)'  BY PaidStays
<1>2. Bought(w, row.plan)'  BY BoughtStays DEF GoodRow
<1> QED  BY <1>1, <1>2 DEF GoodRow, PaymentsKept

LEMMA GoodSubscriptionStays ==
    ASSUME PaymentsKept, NEW w, NEW s, GoodSubscription(w, s)
    PROVE  GoodSubscription(w, s)'
<1>1. Bought(w, s.plan) => Bought(w, s.plan)'  BY BoughtStays
<1> QED  BY <1>1 DEF GoodSubscription

LEMMA KnowsStays ==
    ASSUME PaymentsKept, NEW r, Knows(r), Remembered(r)
    PROVE  Knows(r)'
<1>1. GoodRow(r.w, r.seen) => GoodRow(r.w, r.seen)'  BY GoodRowStays
<1>2. GoodSubscription(r.w, r.seenSub) => GoodSubscription(r.w, r.seenSub)'
  BY GoodSubscriptionStays
<1>3. Paid(r.w) => Paid(r.w)'  BY PaidStays
<1>4. r.at \in {"tx", "commit"} => pay'[r.p].ws = pay[r.p].ws
  BY DEF PaymentsKept, Remembered
<1> QED  BY <1>1, <1>2, <1>3, <1>4 DEF Knows

LEMMA KnowsStep ==
    ASSUME TypeInv, AllKnow, PaymentsKept, NEW i \in Handlers, NEW r, Knows(r)',
           h' = [h EXCEPT ![i] = r]
    PROVE  AllKnow'
<1>1. ASSUME NEW j \in Handlers PROVE Knows(h[j])'
  <2>1. CASE j = i
    <3>1. h'[j] = r  BY <2>1 DEF TypeInv, HandlersOK
    <3> QED  BY <3>1 DEF Knows
  <2>2. CASE j # i
    <3>1. PICK q : q = h[j]  OBVIOUS
    <3>2. Remembered(q)  BY <3>1 DEF TypeInv, HandlersOK
    <3>3. Knows(q)'  BY <3>1, <3>2, KnowsStays DEF AllKnow
    <3>4. h'[j] = q  BY <2>2, <3>1 DEF TypeInv, HandlersOK
    <3> QED  BY <3>3, <3>4 DEF Knows
  <2> QED  BY <2>1, <2>2
<1> QED  BY <1>1 DEF AllKnow

\* Where a handler waits without relying on a row it has read.
Quiet == Awaits \ {"reads", "fill", "tx", "commit"}

LEMMA QuietStep ==
    ASSUME TypeInv, AllKnow, PaymentsKept, NEW i \in Handlers, NEW r, r.at \in Quiet,
           h' = [h EXCEPT ![i] = r]
    PROVE  AllKnow'
<1>1. Knows(r)'  BY DEF Knows, Quiet
<1> QED  BY <1>1, KnowsStep

LEMMA SameAccess ==
    ASSUME UNCHANGED <<pay, vouched>>
    PROVE  PaymentsKept
  BY DEF PaymentsKept, HasPayment, Settled

\* What was good of a row is still good of it after a step that leaves it.
LEMMA RowsGoodStep ==
    ASSUME RowsGood, PaymentsKept,
           \A w \in Workspaces : ws'[w] = ws[w] \/ GoodRow(w, ws[w])',
           \A w \in Workspaces : sub'[w] = sub[w] \/ GoodSubscription(w, sub[w])',
           \A w \in Workspaces : cache'[w] \in {None, cache[w]} \/ Bought(w, cache[w])'
    PROVE  RowsGood'
<1>1. ASSUME NEW w \in Workspaces PROVE GoodRow(w, ws[w])'
  <2>1. PICK row : row = ws[w]  OBVIOUS
  <2>2. GoodRow(w, row)'  BY <2>1, GoodRowStays DEF RowsGood
  <2>3. CASE ws'[w] = row  BY <2>2, <2>3 DEF GoodRow
  <2> QED  BY <2>1, <2>3
<1>2. ASSUME NEW w \in Workspaces PROVE GoodSubscription(w, sub[w])'
  <2>1. PICK s : s = sub[w]  OBVIOUS
  <2>2. GoodSubscription(w, s)'  BY <2>1, GoodSubscriptionStays DEF RowsGood
  <2>3. CASE sub'[w] = s  BY <2>2, <2>3 DEF GoodSubscription
  <2> QED  BY <2>1, <2>3
<1>3. ASSUME NEW w \in Workspaces PROVE (cache[w] = None \/ Bought(w, cache[w]))'
  <2>1. PICK c : c = cache[w]  OBVIOUS
  <2>2. c = None \/ Bought(w, c)'  BY <2>1, BoughtStays DEF RowsGood
  <2>3. CASE cache'[w] = c  BY <2>2, <2>3 DEF Bought
  <2> QED  BY <2>1, <2>3
<1> QED  BY <1>1, <1>2, <1>3 DEF RowsGood

-----------------------------------------------------------------------------
(* Requests that arrive, and requests that go on without writing            *)

LEMMA ArrivalsKeepAccess ==
    ASSUME TypeInv, AccessInv, NEW i \in Handlers, Arrive(i)
    PROVE  AccessInv'
<1>1. UNCHANGED <<ws, pay, sub, cache, vouched>> /\ AllKnow /\ RowsGood
  BY DEF Arrive, OtpRead, CheckoutRead, MockInitRead, RetryRead, GuardRead, ReconcileRead,
         EntitlementsRead, SetRead, AdminRead, WebhookStore, ReplayRead, VerifyRead,
         MockConfirmRead, DunningRead, ExpiryRead, rows, ghosts, AccessInv
<1>2. PaymentsKept  BY <1>1, SameAccess
<1>3. RowsGood'  BY <1>1, <1>2, RowsGoodStep
<1>4. ASSUME NEW r, h' = [h EXCEPT ![i] = r], r.at \in Quiet PROVE AccessInv'
  BY <1>1, <1>2, <1>3, <1>4, QuietStep DEF AccessInv
<1>5. ASSUME NEW w \in Workspaces, NEW op, NEW at \in {"reads", "fill"},
             h' = [h EXCEPT ![i] = [Idle EXCEPT !.op = op, !.at = at, !.w = w, !.seen = ws[w]]]
      PROVE  AccessInv'
  <2>1. PICK r : r = [Idle EXCEPT !.op = op, !.at = at, !.w = w, !.seen = ws[w]]  OBVIOUS
  <2>2. /\ r.at = at /\ r.w = w /\ r.seen = ws[w] /\ r.seenSub = NoSubscription
        /\ r.latest = "unread"
    BY <2>1 DEF Idle
  <2>3. GoodRow(w, r.seen)  BY <1>1, <2>2 DEF RowsGood
  <2>4. GoodRow(r.w, r.seen)'  BY <1>2, <2>2, <2>3, GoodRowStays
  <2>5. GoodSubscription(r.w, r.seenSub)'  BY <2>2 DEF GoodSubscription, NoSubscription
  <2>6. Knows(r)'  BY <2>2, <2>4, <2>5 DEF Knows
  <2> QED  BY <1>1, <1>2, <1>3, <1>5, <2>1, <2>6, KnowsStep DEF AccessInv
<1>6. ASSUME NEW op, NEW at \in Quiet, NEW w, NEW p, Start(i, op, at, w, p) PROVE AccessInv'
  <2>1. PICK r : r = [Idle EXCEPT !.op = op, !.at = at, !.w = w, !.p = p]  OBVIOUS
  <2>2. r.at = at  BY <2>1 DEF Idle
  <2> QED  BY <1>4, <1>6, <2>1, <2>2 DEF Start
<1>7. ASSUME NEW w \in Workspaces, ReconcileRead(i, w) \/ EntitlementsRead(i, w)
      PROVE  AccessInv'
  BY <1>5, <1>7 DEF ReconcileRead, EntitlementsRead
<1>8. ASSUME NEW w \in Workspaces,
             \/ OtpRead(i, w) \/ CheckoutRead(i, w) \/ MockInitRead(i, w)
      PROVE  AccessInv'
  BY <1>6, <1>8 DEF OtpRead, CheckoutRead, MockInitRead, Quiet, Awaits
<1>9. ASSUME NEW p \in PaymentIds,
             WebhookStore(i, p) \/ ReplayRead(i, p) \/ VerifyRead(i, p) \/ MockConfirmRead(i, p)
      PROVE  AccessInv'
  BY <1>6, <1>9 DEF WebhookStore, ReplayRead, VerifyRead, MockConfirmRead, Quiet, Awaits
<1>10. ASSUME NEW w \in Workspaces, RetryRead(i, w) \/ GuardRead(i, w) PROVE AccessInv'
  <2>1. PICK op \in {"retry", "guard"}, at \in {"latest", "write"} :
           h' = [h EXCEPT ![i] = [Idle EXCEPT !.op = op, !.at = at, !.w = w, !.seen = ws[w]]]
    BY <1>10 DEF RetryRead, GuardRead
  <2>2. PICK r : r = [Idle EXCEPT !.op = op, !.at = at, !.w = w, !.seen = ws[w]]  OBVIOUS
  <2>3. r.at \in Quiet  BY <2>2 DEF Idle, Quiet, Awaits
  <2> QED  BY <1>4, <2>1, <2>2, <2>3
<1>11. ASSUME NEW w \in Workspaces, NEW to \in BillingStatus, SetRead(i, w, to) PROVE AccessInv'
  <2>1. PICK r : r = [Idle EXCEPT !.op = "set", !.at = "write", !.w = w, !.to = to]  OBVIOUS
  <2>2. r.at \in Quiet  BY <2>1 DEF Idle, Quiet, Awaits
  <2> QED  BY <1>4, <1>11, <2>1, <2>2 DEF SetRead
<1>12. ASSUME NEW w \in Workspaces, NEW op \in {"activate", "fix"}, AdminRead(i, op, w)
       PROVE  AccessInv'
  <2>1. PICK r : r = [Idle EXCEPT !.op = op, !.at = "write", !.w = w, !.seenSub = sub[w],
                                  !.t = now]
    OBVIOUS
  <2>2. r.at \in Quiet  BY <2>1 DEF Idle, Quiet, Awaits
  <2> QED  BY <1>4, <1>12, <2>1, <2>2 DEF AdminRead
<1>13. ASSUME DunningRead(i) PROVE AccessInv'
  <2>1. PICK S : h' = [h EXCEPT ![i] = [Idle EXCEPT !.op = "dunning", !.at = "next",
                                                    !.todo = S, !.t = now]]
    BY <1>13 DEF DunningRead
  <2>2. PICK r : r = [Idle EXCEPT !.op = "dunning", !.at = "next", !.todo = S, !.t = now]
    OBVIOUS
  <2>3. r.at \in Quiet  BY <2>2 DEF Idle, Quiet, Awaits
  <2> QED  BY <1>4, <2>1, <2>2, <2>3
<1>14. ASSUME ExpiryRead(i) PROVE AccessInv'
  <2>1. PICK S : h' = [h EXCEPT ![i] = [Idle EXCEPT !.op = "expiry", !.at = "next", !.due = S]]
    BY <1>14 DEF ExpiryRead
  <2>2. PICK r : r = [Idle EXCEPT !.op = "expiry", !.at = "next", !.due = S]  OBVIOUS
  <2>3. r.at \in Quiet  BY <2>2 DEF Idle, Quiet, Awaits
  <2> QED  BY <1>4, <2>1, <2>2, <2>3
<1> QED
  BY <1>7, <1>8, <1>9, <1>10, <1>11, <1>12, <1>13, <1>14 DEF Arrive

\* The records of the handlers that go on and rely on no row.
LEMMA ContinuesQuietly ==
    ASSUME TypeInv, NEW i \in Handlers, Continue(i)
    PROVE  \/ \E r : r.at \in Quiet /\ h' = [h EXCEPT ![i] = r]
           \/ FinalizeBust(i) \/ ReconcilePayment(i) \/ ReconcileSubscription(i)
           \/ /\ FinalizeRead(i)
              /\ \E r : /\ r.at = "tx" /\ r.p = h[i].p /\ r.w = pay[h[i].p].ws
                        /\ h' = [h EXCEPT ![i] = r]
<1> DEFINE Quietly == \E r : r.at \in Quiet /\ h' = [h EXCEPT ![i] = r]
<1>1. h[i] \in HandlerRecord /\ Idle.at = "start"
  BY DEF TypeInv, HandlersOK, Idle
<1>2. Finish(i) => Quietly
  BY <1>1 DEF Finish, Quiet, Awaits
<1>3. ASSUME NEW at \in Quiet, Goto(i, at) PROVE Quietly
  <2>1. PICK r : r = [h[i] EXCEPT !.at = at]  OBVIOUS
  <2>2. r.at = at /\ h' = [h EXCEPT ![i] = r]
    BY <1>1, <1>3, <2>1 DEF Goto, HandlerRecord
  <2> QED  BY <2>2
<1>4. ASSUME NEW r, NEW at \in Quiet, r.at = at, h' = [h EXCEPT ![i] = r] PROVE Quietly
  BY <1>4
<1>5. h' = [h EXCEPT ![i] = Returned(h[i])] => Quietly
  <2>1. h' = [h EXCEPT ![i] = Returned(h[i])] => Finish(i) \/ Goto(i, "record")
    BY DEF Returned, Finish, Goto
  <2> QED  BY <1>2, <1>3, <2>1 DEF Quiet, Awaits
<1> HIDE DEF Quietly
<1>6. ASSUME \/ InitTransaction(i) \/ InitTransactionFails(i)
             \/ RecordProcessed(i) \/ RecordFailed(i) \/ VerifyRejected(i)
             \/ OtpWrite(i) \/ RetryWrite(i) \/ DunningDone(i) \/ GuardDemote(i)
             \/ ReconcileWrite(i) \/ ActivateWrite(i) \/ FixWrite(i) \/ EntitlementsFill(i)
      PROVE  Quietly
  BY <1>2, <1>6
  DEF InitTransaction, InitTransactionFails, RecordProcessed, RecordFailed, VerifyRejected,
      OtpWrite, RetryWrite, DunningDone, GuardDemote, ReconcileWrite, ActivateWrite, FixWrite,
      EntitlementsFill
<1>7. ASSUME VerifyConfirmed(i) \/ DunningSetRead(i) \/ SetWrite(i) \/ RetryReset(i)
      PROVE  Quietly
  BY <1>2, <1>3, <1>7 DEF VerifyConfirmed, DunningSetRead, SetWrite, RetryReset, Quiet, Awaits
<1>8. FinalizeCommit(i) => Quietly
  BY <1>5 DEF FinalizeCommit
<1>9. FinalizeFails(i) => Quietly
  <2>1. FinalizeFails(i) => Goto(i, "failed") \/ Finish(i)
    BY DEF FinalizeFails, Goto, Finish
  <2> QED  BY <1>2, <1>3, <2>1 DEF Quiet, Awaits
<1>10. ASSUME NEW p \in PaymentIds, NEW plan \in Plans, CreatePayment(i, p, plan) PROVE Quietly
  <2>1. PICK r : r = [h[i] EXCEPT !.at = "init", !.p = p]  OBVIOUS
  <2>2. r.at = "init" /\ (h' = [h EXCEPT ![i] = r] \/ Finish(i))
    BY <1>1, <1>10, <2>1 DEF CreatePayment, HandlerRecord
  <2> QED  BY <1>2, <1>4, <2>2 DEF Quiet, Awaits
<1>11. RetryLatest(i) => Quietly
  <2>1. PICK r : r = [h[i] EXCEPT !.at = "reset", !.p = Newest(PaymentsOf(h[i].w))]  OBVIOUS
  <2>2. r.at = "reset" /\ (RetryLatest(i) => h' = [h EXCEPT ![i] = r] \/ Finish(i))
    BY <1>1, <2>1 DEF RetryLatest, HandlerRecord
  <2> QED  BY <1>2, <1>4, <2>2 DEF Quiet, Awaits
<1>12. DunningNext(i) => Quietly
  <2> DEFINE q == Oldest(h[i].todo)
             to == DunningTarget(q, h[i].t, ws[pay[q].ws].billing)
             at == IF to = None THEN "next" ELSE "set"
             S  == h[i].todo \ {q}
             r0 == [h[i] EXCEPT !.todo = S, !.w = pay[q].ws, !.to = to, !.at = at]
  <2>1. DunningNext(i) => h' = [h EXCEPT ![i] = r0]  BY DEF DunningNext
  <2>2. at \in Quiet  BY DEF Quiet, Awaits
  <2> HIDE DEF q, to, at, S
  <2>3. r0.at = at  BY <1>1 DEF HandlerRecord
  <2> HIDE DEF r0
  <2> QED  BY <1>4, <2>1, <2>2, <2>3
<1>13. ASSUME NEW w \in Workspaces, ExpiryMark(i, w) PROVE Quietly
  <2>1. PICK r : r = [h[i] EXCEPT !.due = @ \ {w}]  OBVIOUS
  <2>2. r.at = "next" /\ (h' = [h EXCEPT ![i] = r] \/ Finish(i))
    BY <1>1, <1>13, <2>1 DEF ExpiryMark, Running, HandlerRecord
  <2> QED  BY <1>2, <1>4, <2>2 DEF Quiet, Awaits
<1>14. FinalizeRead(i) =>
          \/ Quietly
          \/ \E r : /\ r.at = "tx" /\ r.p = h[i].p /\ r.w = pay[h[i].p].ws
                    /\ h' = [h EXCEPT ![i] = r]
  <2>1. PICK r : r = [h[i] EXCEPT !.at = "tx", !.w = pay[h[i].p].ws]  OBVIOUS
  <2>2. r.at = "tx" /\ r.p = h[i].p /\ r.w = pay[h[i].p].ws
    BY <1>1, <2>1 DEF HandlerRecord
  <2>3. FinalizeRead(i) =>
           h' = [h EXCEPT ![i] = r] \/ h' = [h EXCEPT ![i] = Returned(h[i])]
    BY <2>1 DEF FinalizeRead
  <2> QED  BY <1>5, <2>2, <2>3
<1> QED
  BY <1>6, <1>7, <1>8, <1>9, <1>10, <1>11, <1>12, <1>13, <1>14 DEF Continue, Quietly

-----------------------------------------------------------------------------
(* Requests that write                                                      *)

LEMMA ContinuesKeepPayments ==
    ASSUME TypeInv, LedgerInv, NEW i \in Handlers, Continue(i)
    PROVE  PaymentsKept
<1>1. RowTypes /\ AllEstablished /\ LedgerRows /\ h[i] \in HandlerRecord /\ Remembered(h[i])
  BY DEF TypeInv, LedgerInv, HandlersOK
<1>2. ASSUME NEW p \in PaymentIds, NEW plan \in Plans, CreatePayment(i, p, plan)
      PROVE  PaymentsKept
  <2>1. PICK row : pay' = [pay EXCEPT ![p] = row]  BY <1>2 DEF CreatePayment
  <2>2. ~HasPayment(p) /\ ~Settled(p) /\ UNCHANGED vouched
    BY <1>1, <1>2 DEF CreatePayment, HasPayment, LedgerRows, InOrder, ghosts
  <2>3. \A q \in PaymentIds : q # p => pay'[q] = pay[q]  BY <1>1, <2>1 DEF RowTypes
  <2> QED  BY <2>2, <2>3 DEF PaymentsKept, HasPayment, Settled
<1>3. ASSUME FinalizeCommit(i) PROVE PaymentsKept
  <2>1. PICK p \in PaymentIds : p = h[i].p
    BY <1>1, <1>3 DEF FinalizeCommit, Remembered
  <2>2. PICK t : /\ pay' = [pay EXCEPT ![p] = [@ EXCEPT !.state = "PAID", !.paidAt = t]]
                 /\ t = now \/ (t = charged[p] /\ charged[p] # NoDate)
    BY <1>3, <2>1 DEF FinalizeCommit
  <2>3. t # NoDate  BY <1>1, <2>2 DEF RowTypes, NoDate
  <2>4. /\ pay'[p].state = "PAID" /\ pay'[p].paidAt = t
        /\ pay'[p].ws = pay[p].ws /\ pay'[p].plan = pay[p].plan
        /\ \A q \in PaymentIds : q # p => pay'[q] = pay[q]
    BY <1>1, <2>2 DEF RowTypes, PaymentRow
  <2>5. UNCHANGED vouched  BY <1>3 DEF FinalizeCommit, ghosts
  <2> QED  BY <2>3, <2>4, <2>5 DEF PaymentsKept, HasPayment, Settled
<1>4. ASSUME RetryReset(i) PROVE PaymentsKept
  <2>1. PICK p : pay' = [pay EXCEPT ![p].state = "PENDING"]  BY <1>4 DEF RetryReset
  <2>2. \A q \in PaymentIds : /\ pay'[q].state \in {pay[q].state, "PENDING"}
                              /\ pay'[q].paidAt = pay[q].paidAt
                              /\ pay'[q].ws = pay[q].ws /\ pay'[q].plan = pay[q].plan
    BY <1>1, <2>1 DEF RowTypes, PaymentRow
  <2>3. UNCHANGED vouched  BY <1>4 DEF RetryReset, ghosts
  <2> QED  BY <2>2, <2>3 DEF PaymentsKept, HasPayment, Settled
<1>5. ASSUME FixWrite(i) PROVE PaymentsKept
  <2>1. PICK t : t = h[i].t /\ t # NoDate
    BY <1>1, <1>5 DEF AllEstablished, Established, FixWrite, Running
  <2>2. PICK S : S = {p \in PaymentsOf(h[i].w) : pay[p].state = "PENDING"}  OBVIOUS
  <2>3. S \in SUBSET PaymentIds  BY <2>2 DEF PaymentsOf
  <2>4. /\ pay' = [p \in PaymentIds |-> IF p \in S
                                          THEN [pay[p] EXCEPT !.state = "PAID", !.paidAt = t]
                                          ELSE pay[p]]
        /\ vouched \subseteq vouched'
    BY <1>5, <2>1, <2>2 DEF FixWrite
  <2>5. /\ \A p \in S : /\ pay'[p].state = "PAID" /\ pay'[p].paidAt = t
                        /\ pay'[p].ws = pay[p].ws /\ pay'[p].plan = pay[p].plan
        /\ \A p \in PaymentIds \ S : pay'[p] = pay[p]
    BY <1>1, <2>3, <2>4 DEF RowTypes, PaymentRow
  <2> QED  BY <2>1, <2>4, <2>5 DEF PaymentsKept, HasPayment, Settled
<1>6. ASSUME UNCHANGED pay, vouched \subseteq vouched' PROVE PaymentsKept
  BY <1>6 DEF PaymentsKept, HasPayment, Settled
<1>7. ASSUME SetWrite(i) \/ ActivateWrite(i) PROVE PaymentsKept
  BY <1>6, <1>7 DEF SetWrite, ActivateWrite
<1>8. ASSUME \/ InitTransaction(i) \/ InitTransactionFails(i)
             \/ FinalizeRead(i) \/ FinalizeBust(i) \/ FinalizeFails(i)
             \/ RecordProcessed(i) \/ RecordFailed(i)
             \/ VerifyConfirmed(i) \/ VerifyRejected(i)
             \/ OtpWrite(i) \/ RetryLatest(i) \/ RetryWrite(i)
             \/ DunningNext(i) \/ DunningSetRead(i) \/ DunningDone(i) \/ GuardDemote(i)
             \/ ReconcilePayment(i) \/ ReconcileSubscription(i) \/ ReconcileWrite(i)
             \/ \E w \in Workspaces : ExpiryMark(i, w)
             \/ EntitlementsFill(i)
      PROVE  PaymentsKept
  <2>1. UNCHANGED <<pay, vouched>>
    BY <1>8
    DEF InitTransaction, InitTransactionFails, FinalizeRead, FinalizeBust, FinalizeFails,
        RecordProcessed, RecordFailed, VerifyConfirmed, VerifyRejected, OtpWrite, RetryLatest,
        RetryWrite, DunningNext, DunningSetRead, DunningDone, GuardDemote, ReconcilePayment,
        ReconcileSubscription, ReconcileWrite, ExpiryMark, EntitlementsFill, rows, ghosts
  <2> QED  BY <2>1, SameAccess
<1> QED  BY <1>2, <1>3, <1>4, <1>5, <1>7, <1>8 DEF Continue

\* A write that leaves the workspace not ACTIVE, or that an operator made.
LEMMA StatusesWritten ==
    ASSUME TypeInv, RowsGood, PaymentsKept, NEW w \in Workspaces, NEW status, NEW billing,
           WriteStatuses(w, status, billing), status # "ACTIVE" \/ w \in vouched'
    PROVE  \A v \in Workspaces : ws'[v] = ws[v] \/ GoodRow(v, ws[v])'
<1>1. ws \in [Workspaces -> WorkspaceRow]  BY DEF TypeInv, RowTypes
<1>2. \A v \in Workspaces : v # w => ws'[v] = ws[v]  BY <1>1 DEF WriteStatuses
<1>3. ws'[w].status = status /\ ws'[w].plan = ws[w].plan
  BY <1>1 DEF WriteStatuses, WorkspaceRow
<1>4. Bought(w, ws[w].plan)  BY DEF RowsGood, GoodRow
<1>5. PICK plan : plan = ws[w].plan  OBVIOUS
<1>6. Bought(w, plan)'  BY <1>4, <1>5, BoughtStays
<1>7. GoodRow(w, ws[w])'
  <2>1. Bought(w, ws[w].plan)'  BY <1>3, <1>5, <1>6 DEF Bought
  <2> QED  BY <1>3, <2>1 DEF GoodRow
<1> QED  BY <1>2, <1>7

\* Reconciliation computes a good row from what it knows.
LEMMA ReconciledGood ==
    ASSUME now \in Nat, NEW r \in HandlerRecord, r.w \in Workspaces, Knows(r), r.at = "reads"
    PROVE  GoodRow(r.w, Reconciled(r))
<1>1. r.seen \in WorkspaceRow /\ r.seenSub \in SubscriptionRow
  BY DEF HandlerRecord
<1>2. /\ r.seen.status \in WorkspaceStatus /\ r.seen.renewal \in Dates
      /\ r.seenSub.end \in Dates
  BY <1>1 DEF WorkspaceRow, SubscriptionRow
<1>3. /\ GoodRow(r.w, r.seen) /\ GoodSubscription(r.w, r.seenSub)
      /\ r.latest = "PAID" => Paid(r.w)
  BY DEF Knows
<1> DEFINE s == r.seenSub
           renewal == CASE s.end # NoDate -> s.end
                        [] r.seen.renewal = NoDate /\ r.latest = "PAID" ->
                               now + (IF s.status = "ABSENT" THEN MonthDays
                                                             ELSE PeriodOf(s.plan))
                        [] OTHER -> r.seen.renewal
           plan == IF s.status = "ABSENT" THEN r.seen.plan ELSE s.plan
           billing == CASE r.latest = "PAID" -> "ACTIVE"
                        [] r.latest = "PENDING" /\ r.seen.billing = "ACTIVE" -> "PAST_DUE"
                        [] OTHER -> r.seen.billing
           status == CASE r.latest = "PAID" -> "ACTIVE"
                       [] r.latest = "PENDING" /\ r.seen.status = "ACTIVE" ->
                               "PENDING_PAYMENT"
                       [] OTHER -> r.seen.status
           expired == renewal # NoDate /\ renewal <= now
<1>4. r.latest = "PAID" \/ r.seen.renewal # NoDate => renewal # NoDate
  BY <1>2, PeriodsAssumption DEF Dates, NoDate, PeriodOf
<1>5. Bought(r.w, plan)
  BY <1>3 DEF GoodRow, GoodSubscription
<1>6. status = "ACTIVE" => r.latest = "PAID" \/ r.seen.status = "ACTIVE"
  BY <1>2
<1>7. Reconciled(r) =
        [status  |-> IF expired THEN "PENDING_PAYMENT" ELSE status,
         billing |-> IF expired /\ billing # "CANCELLED" THEN "PAST_DUE" ELSE billing,
         renewal |-> renewal,
         plan    |-> plan]
  BY DEF Reconciled
<1> HIDE DEF s, renewal, plan, billing, status, expired
<1>8. /\ Reconciled(r).status = "ACTIVE" => status = "ACTIVE"
      /\ Reconciled(r).renewal = renewal /\ Reconciled(r).plan = plan
  BY <1>7
<1> QED  BY <1>3, <1>4, <1>5, <1>6, <1>8 DEF GoodRow

\* A settlement makes a good row, and a good subscription.
LEMMA SettlementKeepsRows ==
    ASSUME TypeInv, LedgerInv, AccessInv, PaymentsKept, NEW i \in Handlers, FinalizeCommit(i)
    PROVE  RowsGood'
<1>1. /\ RowTypes /\ RowsInUse /\ RowsGood
      /\ h[i] \in HandlerRecord /\ Remembered(h[i]) /\ Knows(h[i])
  BY DEF TypeInv, HandlersOK, AccessInv, AllKnow
<1>2. PICK p \in PaymentIds : /\ p = h[i].p /\ HasPayment(p) /\ h[i].w = pay[p].ws
  BY <1>1 DEF FinalizeCommit, Remembered, Knows
<1>3. PICK w \in Workspaces : w = h[i].w
  BY <1>1 DEF FinalizeCommit, Remembered
<1>4. PICK plan \in Plans : plan = pay[p].plan
  BY <1>1, <1>2 DEF RowsInUse
<1>5. PICK end : end = now + PeriodOf(plan) /\ end \in Nat
  BY <1>1, PeriodsAssumption DEF RowTypes, PeriodOf
<1>6. PICK t : /\ pay' = [pay EXCEPT ![p] = [@ EXCEPT !.state = "PAID", !.paidAt = t]]
               /\ t = now \/ (t = charged[p] /\ charged[p] # NoDate)
  BY <1>2 DEF FinalizeCommit
<1>7. /\ ws' = [ws EXCEPT ![w] = [status |-> "ACTIVE", billing |-> "ACTIVE",
                                  renewal |-> end, plan |-> plan]]
      /\ sub' = [sub EXCEPT ![w] = [status |-> "ACTIVE", plan |-> plan, end |-> end]]
      /\ UNCHANGED cache
  BY <1>2, <1>3, <1>4, <1>5 DEF FinalizeCommit
<1>8. t # NoDate /\ end # NoDate
  BY <1>1, <1>5, <1>6 DEF RowTypes, NoDate
<1>9. pay'[p].state = "PAID" /\ pay'[p].paidAt = t /\ pay'[p].ws = w /\ pay'[p].plan = plan
  BY <1>1, <1>2, <1>3, <1>4, <1>6 DEF RowTypes, PaymentRow
<1>10. p \in PaymentsOf(w)' /\ Settled(p)'
  BY <1>8, <1>9 DEF PaymentsOf, Settled
<1>11. Paid(w)' /\ Bought(w, plan)'
  BY <1>9, <1>10 DEF Paid, Bought
<1>12. /\ ws'[w].status = "ACTIVE" /\ ws'[w].renewal = end /\ ws'[w].plan = plan
       /\ sub'[w].plan = plan /\ sub'[w].end = end
       /\ \A v \in Workspaces : v # w => ws'[v] = ws[v] /\ sub'[v] = sub[v]
  BY <1>1, <1>7 DEF RowTypes
<1>13. GoodRow(w, ws[w])' /\ GoodSubscription(w, sub[w])'
  BY <1>8, <1>11, <1>12 DEF GoodRow, GoodSubscription, Bought
<1> QED  BY <1>1, <1>7, <1>12, <1>13, RowsGoodStep

\* The administrator's two writes.
LEMMA AdministratorKeepsRows ==
    ASSUME TypeInv, LedgerInv, AccessInv, PaymentsKept, NEW i \in Handlers,
           ActivateWrite(i) \/ FixWrite(i)
    PROVE  RowsGood'
<1>1. /\ RowTypes /\ RowsGood
      /\ h[i] \in HandlerRecord /\ Remembered(h[i]) /\ Established(h[i])
  BY DEF TypeInv, HandlersOK, AccessInv, LedgerInv, AllEstablished
<1>2. PICK w \in Workspaces : w = h[i].w
  BY <1>1 DEF ActivateWrite, FixWrite, Running, Remembered
<1>3. w \in vouched' /\ Bust(w)
  BY <1>2 DEF ActivateWrite, FixWrite
<1>4. \A v \in Workspaces : cache'[v] \in {None, cache[v]}
  BY <1>1, <1>3 DEF Bust, RowTypes
<1>5. PICK n : ws' = [ws EXCEPT ![w] = [ws[w] EXCEPT !.status = "ACTIVE", !.billing = "ACTIVE",
                                                    !.renewal = n]]
  BY <1>2 DEF ActivateWrite, FixWrite
<1>6. /\ ws'[w].plan = ws[w].plan
      /\ \A v \in Workspaces : v # w => ws'[v] = ws[v]
  BY <1>1, <1>5 DEF RowTypes, WorkspaceRow
<1>7. PICK plan : plan = ws[w].plan /\ Bought(w, plan)
  BY <1>1 DEF RowsGood, GoodRow
<1>8. Bought(w, plan)'  BY <1>7, BoughtStays
<1>9. Bought(w, ws[w].plan)'  BY <1>6, <1>7, <1>8 DEF Bought
<1>10. GoodRow(w, ws[w])'  BY <1>3, <1>9 DEF GoodRow
<1>11. CASE UNCHANGED sub
  BY <1>1, <1>4, <1>6, <1>10, <1>11, RowsGoodStep
<1>12. CASE FixWrite(i) /\ ~UNCHANGED sub
  <2>1. PICK s : s = h[i].seenSub /\ s.end \in Dates
    BY <1>1 DEF HandlerRecord, SubscriptionRow
  <2>2. PICK t : t = h[i].t /\ t \in Dates /\ t # NoDate
    BY <1>1, <1>12 DEF FixWrite, Running, Established, HandlerRecord
  <2>3. PICK end : end = IF s.end > t THEN s.end ELSE t + MonthDays
    OBVIOUS
  <2>4. end # NoDate
    BY <2>1, <2>2, <2>3, PeriodsAssumption DEF Dates, NoDate
  <2>5. /\ s.status # "ABSENT"
        /\ sub' = [sub EXCEPT ![w] = [@ EXCEPT !.status = "ACTIVE", !.end = end]]
    BY <1>2, <1>12, <2>1, <2>2, <2>3 DEF FixWrite
  <2>6. HasSubscription(w)
    BY <1>1, <1>2, <1>12, <2>1, <2>5 DEF FixWrite, Running, Remembered
  <2>7. PICK sold : sold = sub[w].plan /\ Bought(w, sold)
    BY <1>1, <2>6 DEF RowsGood, GoodSubscription, HasSubscription
  <2>8. Bought(w, sold)'  BY <2>7, BoughtStays
  <2>9. /\ sub'[w].plan = sold /\ sub'[w].end = end
        /\ \A v \in Workspaces : v # w => sub'[v] = sub[v]
    BY <1>1, <2>5, <2>7 DEF RowTypes, SubscriptionRow
  <2>10. GoodSubscription(w, sub[w])'
    BY <2>4, <2>8, <2>9 DEF GoodSubscription, Bought
  <2> QED  BY <1>1, <1>4, <1>6, <1>10, <2>9, <2>10, RowsGoodStep
<1> QED  BY <1>11, <1>12 DEF ActivateWrite

LEMMA ContinuesKeepRows ==
    ASSUME TypeInv, LedgerInv, AccessInv, PaymentsKept, NEW i \in Handlers, Continue(i)
    PROVE  RowsGood'
<1>1. /\ RowTypes /\ RowsGood /\ HandlersOK
      /\ h[i] \in HandlerRecord /\ Remembered(h[i]) /\ Knows(h[i])
  BY DEF TypeInv, HandlersOK, AccessInv, AllKnow
<1> DEFINE w == h[i].w
<1>2. ASSUME w \in Workspaces, Bust(w) PROVE \A v \in Workspaces : cache'[v] \in {None, cache[v]}
  BY <1>1, <1>2 DEF Bust, RowTypes
<1>3. CASE SetWrite(i)
  <2>1. /\ w \in Workspaces /\ h[i].to \in BillingStatus /\ Bust(w) /\ UNCHANGED sub
        /\ WriteStatuses(w, WorkspaceStatusFor(h[i].to), h[i].to)
    BY <1>1, <1>3 DEF SetWrite, Remembered
  <2>2. WorkspaceStatusFor(h[i].to) # "ACTIVE" \/ w \in vouched'
    BY <1>3, <2>1 DEF SetWrite, WorkspaceStatusFor, BillingStatus
  <2>3. \A v \in Workspaces : ws'[v] = ws[v] \/ GoodRow(v, ws[v])'
    BY <1>1, <2>1, <2>2, StatusesWritten
  <2> QED  BY <1>1, <1>2, <2>1, <2>3, RowsGoodStep
<1>4. CASE OtpWrite(i) \/ RetryWrite(i) \/ GuardDemote(i)
  <2>1. PICK status, billing :
           status # "ACTIVE" /\ WriteStatuses(w, status, billing)
    BY <1>4 DEF OtpWrite, RetryWrite, GuardDemote, WorkspaceStatusFor
  <2>2. w \in Workspaces
    BY <1>1, <1>4 DEF OtpWrite, RetryWrite, GuardDemote, Running, Remembered
  <2>3. UNCHANGED sub /\ (UNCHANGED cache \/ Bust(w))
    BY <1>4 DEF OtpWrite, RetryWrite, GuardDemote
  <2>4. \A v \in Workspaces : ws'[v] = ws[v] \/ GoodRow(v, ws[v])'
    BY <1>1, <2>1, <2>2, StatusesWritten
  <2> QED  BY <1>1, <1>2, <2>2, <2>3, <2>4, RowsGoodStep
<1>5. CASE ReconcileWrite(i)
  <2>1. PICK v \in Workspaces : v = w
    BY <1>1, <1>5 DEF ReconcileWrite, Running, Remembered
  <2>2. PICK row : row = Reconciled(h[i])  OBVIOUS
  <2>3. GoodRow(v, row)
    BY <1>1, <1>5, <2>1, <2>2, ReconciledGood DEF ReconcileWrite, Running, RowTypes
  <2>4. GoodRow(v, row)'  BY <2>3, GoodRowStays
  <2>5. ws' = [ws EXCEPT ![v] = row] /\ Bust(v) /\ UNCHANGED sub
    BY <1>5, <2>1, <2>2 DEF ReconcileWrite
  <2>6. ws'[v] = row /\ \A u \in Workspaces : u # v => ws'[u] = ws[u]
    BY <1>1, <2>5 DEF RowTypes
  <2>7. GoodRow(v, ws[v])'  BY <2>4, <2>6 DEF GoodRow
  <2> QED  BY <1>1, <1>2, <2>1, <2>5, <2>6, <2>7, RowsGoodStep
<1>6. CASE EntitlementsFill(i)
  <2>1. PICK v \in Workspaces : v = w
    BY <1>1, <1>6 DEF EntitlementsFill, Running, Remembered
  <2>2. PICK plan : plan = h[i].seen.plan /\ Bought(v, plan)
    BY <1>1, <1>6, <2>1 DEF EntitlementsFill, Running, Knows, GoodRow
  <2>3. cache' = [cache EXCEPT ![v] = plan] /\ UNCHANGED <<ws, sub>>
    BY <1>6, <2>1, <2>2 DEF EntitlementsFill, rows
  <2>4. Bought(v, plan)'  BY <2>2, BoughtStays
  <2>5. cache'[v] = plan /\ \A u \in Workspaces : u # v => cache'[u] = cache[u]
    BY <1>1, <2>3 DEF RowTypes
  <2>6. Bought(v, cache[v])'  BY <2>4, <2>5 DEF Bought
  <2> QED  BY <1>1, <2>3, <2>5, <2>6, RowsGoodStep
<1>7. ASSUME NEW v \in Workspaces, ExpiryMark(i, v) PROVE RowsGood'
  <2>1. HasSubscription(v) /\ sub' = [sub EXCEPT ![v].status = "PAST_DUE"]
        /\ UNCHANGED <<ws, cache>>
    BY <1>1, <1>7 DEF ExpiryMark, Remembered
  <2>2. PICK plan : plan = sub[v].plan /\ Bought(v, plan) /\ sub[v].end # NoDate
    BY <1>1, <2>1 DEF RowsGood, GoodSubscription, HasSubscription
  <2>3. Bought(v, plan)'  BY <2>2, BoughtStays
  <2>4. /\ sub'[v].plan = plan /\ sub'[v].end = sub[v].end
        /\ \A u \in Workspaces : u # v => sub'[u] = sub[u]
    BY <1>1, <2>1, <2>2 DEF RowTypes, SubscriptionRow
  <2>5. GoodSubscription(v, sub[v])'
    BY <2>2, <2>3, <2>4 DEF GoodSubscription, Bought
  <2> QED  BY <1>1, <2>1, <2>4, <2>5, RowsGoodStep
<1>8. CASE FinalizeBust(i)
  <2>1. w \in Workspaces /\ Bust(w) /\ UNCHANGED <<ws, sub>>
    BY <1>1, <1>8 DEF FinalizeBust, Remembered, rows
  <2> QED  BY <1>1, <1>2, <2>1, RowsGoodStep
<1>9. CASE UNCHANGED <<ws, sub, cache>>
  BY <1>1, <1>9, RowsGoodStep
<1>10. \/ SetWrite(i) \/ OtpWrite(i) \/ RetryWrite(i) \/ GuardDemote(i) \/ ReconcileWrite(i)
       \/ EntitlementsFill(i) \/ \E v \in Workspaces : ExpiryMark(i, v)
       \/ FinalizeBust(i) \/ FinalizeCommit(i) \/ ActivateWrite(i) \/ FixWrite(i)
       \/ UNCHANGED <<ws, sub, cache>>
  BY DEF Continue, CreatePayment, InitTransaction, InitTransactionFails, FinalizeRead,
         FinalizeFails, RecordProcessed, RecordFailed, VerifyConfirmed, VerifyRejected,
         RetryLatest, RetryReset, DunningNext, DunningSetRead, DunningDone,
         ReconcilePayment, ReconcileSubscription, rows
<1> HIDE DEF w
<1> QED
  BY <1>3, <1>4, <1>5, <1>6, <1>7, <1>8, <1>9, <1>10, SettlementKeepsRows,
     AdministratorKeepsRows

LEMMA ContinuesKeepAccess ==
    ASSUME TypeInv, LedgerInv, AccessInv, NEW i \in Handlers, Continue(i)
    PROVE  AccessInv'
<1>1. /\ RowTypes /\ RowsInUse /\ RowsGood /\ AllKnow /\ LedgerRows /\ PaymentsKept
      /\ h[i] \in HandlerRecord /\ Remembered(h[i]) /\ Knows(h[i])
  BY ContinuesKeepPayments DEF TypeInv, HandlersOK, AccessInv, AllKnow, LedgerInv
<1>2. SUFFICES AllKnow'
  BY <1>1, ContinuesKeepRows DEF AccessInv
<1>3. ASSUME NEW r, r.at \in Quiet, h' = [h EXCEPT ![i] = r] PROVE AllKnow'
  BY <1>1, <1>3, QuietStep
<1>4. ASSUME FinalizeRead(i), NEW r, r.at = "tx", r.p = h[i].p, r.w = pay[h[i].p].ws,
             h' = [h EXCEPT ![i] = r]
      PROVE  AllKnow'
  <2>1. UNCHANGED pay  BY <1>4 DEF FinalizeRead, rows
  <2>2. Knows(r)'  BY <1>4, <2>1 DEF Knows
  <2> QED  BY <1>1, <1>4, <2>2, KnowsStep
<1>5. ASSUME FinalizeBust(i) PROVE AllKnow'
  <2>1. PICK r : r = [h[i] EXCEPT !.at = "commit"]  OBVIOUS
  <2>2. r.at = "commit" /\ r.p = h[i].p /\ r.w = h[i].w
    BY <1>1, <2>1 DEF HandlerRecord
  <2>3. h' = [h EXCEPT ![i] = r] /\ UNCHANGED pay /\ h[i].w = pay[h[i].p].ws
    BY <1>1, <1>5, <2>1 DEF FinalizeBust, Goto, Knows, rows
  <2>4. Knows(r)'  BY <2>2, <2>3 DEF Knows
  <2> QED  BY <1>1, <2>3, <2>4, KnowsStep
<1>6. ASSUME ReconcilePayment(i) PROVE AllKnow'
  <2>1. PICK v : v = IF PaymentsOf(h[i].w) = {} THEN "none"
                     ELSE pay[LatestByPaidAt(PaymentsOf(h[i].w))].state
    OBVIOUS
  <2>2. PICK r : r = [h[i] EXCEPT !.latest = v]  OBVIOUS
  <2>3. /\ r.at = h[i].at /\ r.w = h[i].w /\ r.seen = h[i].seen /\ r.seenSub = h[i].seenSub
        /\ r.latest = v /\ r.p = h[i].p
    BY <1>1, <2>2 DEF HandlerRecord
  <2>4. v = "PAID" => Paid(h[i].w)
    <3>1. PICK S : S = PaymentsOf(h[i].w)  OBVIOUS
    <3>2. S # {} => LatestByPaidAt(S) \in S
      <4>1. S \in SUBSET PaymentIds  BY <3>1 DEF PaymentsOf
      <4> QED  BY <1>1, <4>1, LatestByPaidAtIsOne DEF RowTypes
    <3>3. \A p \in S : p \in PaymentIds  BY <3>1 DEF PaymentsOf
    <3>4. \A p \in S : pay[p].state = "PAID" => Settled(p)
      BY <1>1, <3>3 DEF LedgerRows, InOrder
    <3> QED  BY <2>1, <3>1, <3>2, <3>4 DEF Paid
  <2>5. h[i].at = "reads" /\ h' = [h EXCEPT ![i] = r]
    BY <1>6, <2>1, <2>2 DEF ReconcilePayment, Running
  <2>6. Knows(r)
    BY <1>1, <2>3, <2>4, <2>5 DEF Knows
  <2>7. Remembered(r)
    BY <1>1, <2>2, <2>3 DEF Remembered, HandlerRecord
  <2>8. Knows(r)'  BY <1>1, <2>6, <2>7, KnowsStays
  <2> QED  BY <1>1, <2>5, <2>8, KnowsStep
<1>7. ASSUME ReconcileSubscription(i) PROVE AllKnow'
  <2>1. PICK s : s = sub[h[i].w]  OBVIOUS
  <2>2. PICK r : r = [h[i] EXCEPT !.subRead = TRUE, !.seenSub = s]  OBVIOUS
  <2>3. /\ r.at = h[i].at /\ r.w = h[i].w /\ r.seen = h[i].seen /\ r.seenSub = s
        /\ r.latest = h[i].latest
    BY <1>1, <2>2 DEF HandlerRecord
  <2>4. h[i].at = "reads" /\ h[i].w \in Workspaces /\ h' = [h EXCEPT ![i] = r]
    BY <1>1, <1>7, <2>1, <2>2 DEF ReconcileSubscription, Running, Remembered
  <2>5. GoodSubscription(h[i].w, s)
    BY <1>1, <2>1, <2>4 DEF RowsGood
  <2>6. GoodRow(r.w, r.seen)' /\ GoodSubscription(r.w, r.seenSub)'
    <3>1. GoodRow(r.w, r.seen) /\ GoodSubscription(r.w, r.seenSub)
      BY <1>1, <2>3, <2>4, <2>5 DEF Knows
    <3> QED  BY <1>1, <3>1, GoodRowStays, GoodSubscriptionStays
  <2>7. r.latest = "PAID" => Paid(r.w)'
    <3>1. r.latest = "PAID" => Paid(r.w)  BY <1>1, <2>3, <2>4 DEF Knows
    <3> QED  BY <1>1, <3>1, PaidStays
  <2>8. Knows(r)'  BY <2>3, <2>4, <2>6, <2>7 DEF Knows
  <2> QED  BY <1>1, <2>4, <2>8, KnowsStep
<1> QED
  BY <1>3, <1>4, <1>5, <1>6, <1>7, ContinuesQuietly

-----------------------------------------------------------------------------
(* The environment, and the theorems                                        *)

LEMMA EnvironmentKeepsAccess ==
    ASSUME TypeInv, AccessInv, Environment
    PROVE  AccessInv'
<1>1. RowTypes /\ RowsGood /\ AllKnow /\ HandlersOK
  BY DEF TypeInv, AccessInv
<1>2. UNCHANGED <<pay, vouched>> /\ PaymentsKept
  BY SameAccess
  DEF Environment, CancelSubscription, SuspendWorkspace, CacheExpire, Charge, Tick, Crash,
      rows, ghosts
<1>3. AllKnow'
  <2>1. ASSUME NEW i \in Handlers, Crash PROVE Knows(h[i])'
    <3>1. h'[i].at = "start"  BY <2>1 DEF Crash, Idle
    <3> QED  BY <3>1 DEF Knows
  <2>2. ASSUME NEW i \in Handlers, UNCHANGED h PROVE Knows(h[i])'
    <3>1. PICK r : r = h[i]  OBVIOUS
    <3>2. Knows(r)'  BY <1>1, <1>2, <3>1, KnowsStays DEF AllKnow, HandlersOK
    <3> QED  BY <2>2, <3>1, <3>2 DEF Knows
  <2> QED
    BY <2>1, <2>2
    DEF AllKnow, Environment, CancelSubscription, SuspendWorkspace, CacheExpire, Charge, Tick
<1>4. RowsGood'
  <2>1. ASSUME NEW w \in Workspaces, SuspendWorkspace(w) PROVE RowsGood'
    <3>1. \A v \in Workspaces : ws'[v] = ws[v] \/ GoodRow(v, ws[v])'
      BY <1>1, <1>2, <2>1, StatusesWritten DEF SuspendWorkspace
    <3>2. UNCHANGED <<sub, cache>>  BY <2>1 DEF SuspendWorkspace
    <3> QED  BY <1>1, <1>2, <3>1, <3>2, RowsGoodStep
  <2>2. ASSUME NEW w \in Workspaces, CancelSubscription(w) PROVE RowsGood'
    <3>1. /\ HasSubscription(w) /\ sub' = [sub EXCEPT ![w].status = "CANCELED"]
          /\ UNCHANGED <<ws, cache>>
      BY <2>2 DEF CancelSubscription, HasSubscription
    <3>2. PICK plan : plan = sub[w].plan /\ Bought(w, plan) /\ sub[w].end # NoDate
      BY <1>1, <3>1 DEF RowsGood, GoodSubscription, HasSubscription
    <3>3. Bought(w, plan)'  BY <1>2, <3>2, BoughtStays
    <3>4. /\ sub'[w].plan = plan /\ sub'[w].end = sub[w].end
          /\ \A u \in Workspaces : u # w => sub'[u] = sub[u]
      BY <1>1, <3>1, <3>2 DEF RowTypes, SubscriptionRow
    <3>5. GoodSubscription(w, sub[w])'
      BY <3>2, <3>3, <3>4 DEF GoodSubscription, Bought
    <3> QED  BY <1>1, <1>2, <3>1, <3>4, <3>5, RowsGoodStep
  <2>3. ASSUME UNCHANGED <<ws, sub>>, \A w \in Workspaces : cache'[w] \in {None, cache[w]}
        PROVE  RowsGood'
    BY <1>1, <1>2, <2>3, RowsGoodStep
  <2>4. ASSUME NEW w \in Workspaces, CacheExpire(w) PROVE RowsGood'
    <3>1. cache' = [cache EXCEPT ![w] = None] /\ UNCHANGED <<ws, sub>>
      BY <2>4 DEF CacheExpire, Bust, rows
    <3> QED  BY <1>1, <2>3, <3>1 DEF RowTypes
  <2>5. ASSUME Crash \/ Tick \/ \E p \in PaymentIds : Charge(p) PROVE RowsGood'
    BY <2>3, <2>5 DEF Crash, Tick, Charge, rows
  <2> QED  BY <2>1, <2>2, <2>4, <2>5 DEF Environment
<1> QED  BY <1>3, <1>4 DEF AccessInv

LEMMA AccessInvInit == Init => AccessInv
<1> SUFFICES ASSUME Init PROVE AccessInv
  OBVIOUS
<1>1. RowsGood
  BY DEF Init, RowsGood, GoodRow, GoodSubscription, Bought, NewWorkspace, NoSubscription
<1>2. \A i \in Handlers : h[i].at = "start"
  BY DEF Init, Idle
<1>3. AllKnow  BY <1>2 DEF AllKnow, Knows
<1> QED  BY <1>1, <1>3 DEF AccessInv

LEMMA AccessInvStep == TypeInv /\ LedgerInv /\ AccessInv /\ [Next]_vars => AccessInv'
<1> SUFFICES ASSUME TypeInv, LedgerInv, AccessInv, [Next]_vars PROVE AccessInv'
  OBVIOUS
<1>1. ASSUME NEW i \in Handlers, Arrive(i) \/ Continue(i) PROVE AccessInv'
  BY <1>1, ArrivalsKeepAccess, ContinuesKeepAccess
<1>2. CASE Environment
  BY <1>2, EnvironmentKeepsAccess
<1>3. CASE UNCHANGED vars
  <2>1. UNCHANGED <<ws, pay, sub, cache, vouched, h>>
    BY <1>3 DEF vars, rows, ghosts
  <2>2. RowsGood'
    BY <2>1, SameAccess, RowsGoodStep DEF AccessInv
  <2>3. AllKnow'
    BY <2>1
    DEF AccessInv, AllKnow, Knows, GoodRow, GoodSubscription, Paid, Bought, PaymentsOf, Settled
  <2> QED  BY <2>2, <2>3 DEF AccessInv
<1> QED  BY <1>1, <1>2, <1>3 DEF Next

LEMMA AccessInvariant == Spec => []AccessInv
  BY AccessInvInit, TypeInvariant, LedgerInvariant, AccessInvStep, PTL DEF Spec

\* No stale read opens a workspace that never paid: one that is ACTIVE has a
\* settled payment, or an operator set it so.
THEOREM OpenWorkspacesPaid == Spec => []ActiveWasPaidFor
<1>1. AccessInv => ActiveWasPaidFor
  BY DEF AccessInv, RowsGood, GoodRow, Paid, ActiveWasPaidFor
<1> QED  BY <1>1, AccessInvariant, PTL

\* No reconciliation, however its reads are ordered, opens a workspace without
\* the renewal date by which the access guard closes it again.
THEOREM AccessHasAnEnd == Spec => []PaidAccessEnds
<1>1. AccessInv => PaidAccessEnds
  BY DEF AccessInv, RowsGood, GoodRow, PaidAccessEnds
<1> QED  BY <1>1, AccessInvariant, PTL

\* The plan of a workspace, and the plan the cache serves for it however stale,
\* is the Starter plan or was bought by a payment that was settled.
THEOREM PlansWereBought == Spec => []PlanWasPaidFor
<1>1. AccessInv => PlanWasPaidFor
  BY DEF AccessInv, RowsGood, GoodRow, Bought, PlanWasPaidFor
<1> QED  BY <1>1, AccessInvariant, PTL

=============================================================================
