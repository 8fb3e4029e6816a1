-------------------------- MODULE BillingLifecycle --------------------------
(***************************************************************************)
(* What moves a workspace between its statuses apart from a settlement:    *)
(* the owner's OTP, the manual status change, the payment retry, the       *)
(* dunning sweep, the reconciliation, the access guard, the subscription   *)
(* cron, and the platform administrator.                                   *)
(***************************************************************************)
EXTENDS BillingState

\* The largest element of a set of payment ids: the one created last.
Newest(S) == CHOOSE p \in S : \A q \in S : q <= p
Oldest(S) == CHOOSE p \in S : \A q \in S : p <= q

-----------------------------------------------------------------------------
(* verifyOwnerEmailOtp, with a correct code: the status is checked outside *)
(* the transaction that changes it.                                        *)

OtpRead(i, w) ==
    /\ ws[w].status = "PENDING_OTP"
    /\ Start(i, "otp", "write", w, NoPayment)
    /\ UNCHANGED <<now, rows, cache, paystack, ghosts, faults>>

OtpWrite(i) ==
    /\ Running(i, "otp", "write")
    /\ WorkspaceRowFree(h[i].w)
    /\ WriteStatuses(h[i].w, "PENDING_PAYMENT", "PENDING_PAYMENT")
    /\ Finish(i)
    /\ UNCHANGED <<now, pay, sub, event, cache, paystack, ghosts, faults>>

-----------------------------------------------------------------------------
(* setBillingStatus *)

\* Reads the workspace and asserts the transition.
SetRead(i, w, to) ==
    /\ Allowed(ws[w].billing, to)
    /\ "set" \in Ops
    /\ h[i] = Idle
    /\ h' = [h EXCEPT ![i] = [Idle EXCEPT !.op = "set", !.at = "write", !.w = w,
                                          !.to = to]]
    /\ UNCHANGED <<now, rows, cache, paystack, ghosts, faults>>

\* Mutant: the status that belongs to the billing status is not written.
SetWriteBillingOnly(i) ==
    /\ h[i].op \in {"set", "dunning"} /\ h[i].at = "write"
    /\ WorkspaceRowFree(h[i].w)
    /\ ws' = [ws EXCEPT ![h[i].w].billing = h[i].to]
    /\ Bust(h[i].w)
    /\ vouched' = IF h[i].to = "ACTIVE" THEN vouched \cup {h[i].w} ELSE vouched
    /\ IF h[i].op = "set" THEN Finish(i) ELSE Goto(i, "next")
    /\ UNCHANGED <<now, pay, sub, event, paystack, granted, faults>>

\* Writes both statuses, by id alone; the dunning sweep goes on with its loop.
SetWrite(i) ==
    /\ h[i].op \in {"set", "dunning"} /\ h[i].at = "write"
    /\ WorkspaceRowFree(h[i].w)
    /\ WriteStatuses(h[i].w, WorkspaceStatusFor(h[i].to), h[i].to)
    /\ Bust(h[i].w)
    /\ vouched' = IF h[i].to = "ACTIVE" THEN vouched \cup {h[i].w} ELSE vouched
    /\ IF h[i].op = "set" THEN Finish(i) ELSE Goto(i, "next")
    /\ UNCHANGED <<now, pay, sub, event, paystack, granted, faults>>

-----------------------------------------------------------------------------
(* retryLatestPayment *)

RetryRead(i, w) ==
    /\ "retry" \in Ops
    /\ h[i] = Idle
    /\ h' = [h EXCEPT ![i] = [Idle EXCEPT !.op = "retry", !.at = "latest", !.w = w,
                                          !.seen = ws[w]]]
    /\ UNCHANGED <<now, rows, cache, paystack, ghosts, faults>>

\* The payment created last: none throws, PAID answers "already paid".
RetryLatest(i) ==
    /\ Running(i, "retry", "latest")
    /\ LET mine == PaymentsOf(h[i].w) IN
       IF mine # {} /\ pay[Newest(mine)].state = "PENDING"
         THEN h' = [h EXCEPT ![i].at = "reset", ![i].p = Newest(mine)]
         ELSE Finish(i)
    /\ UNCHANGED <<now, rows, cache, paystack, ghosts, faults>>

\* The payment is written PENDING by id before the transition is asserted.
RetryReset(i) ==
    /\ Running(i, "retry", "reset")
    /\ PaymentRowFree(h[i].p)
    /\ pay' = [pay EXCEPT ![h[i].p].state = "PENDING"]
    /\ IF Allowed(h[i].seen.billing, "PAST_DUE") THEN Goto(i, "write") ELSE Finish(i)
    /\ UNCHANGED <<now, ws, sub, event, cache, paystack, ghosts, faults>>

RetryWrite(i) ==
    /\ Running(i, "retry", "write")
    /\ WorkspaceRowFree(h[i].w)
    /\ WriteStatuses(h[i].w, WorkspaceStatusFor("PAST_DUE"), "PAST_DUE")
    /\ Bust(h[i].w)
    /\ Finish(i)
    /\ UNCHANGED <<now, pay, sub, event, paystack, ghosts, faults>>

-----------------------------------------------------------------------------
(* runDunningSweep: from the timer and from POST dunning/run.  It takes the *)
(* oldest SweepLimit pending payments.                                      *)

DunningRead(i) ==
    /\ "dunning" \in Ops
    /\ h[i] = Idle
    /\ LET pending == {p \in PaymentIds : pay[p].state = "PENDING"}
           taken == {p \in pending : Cardinality({q \in pending : q < p}) < SweepLimit}
       IN  /\ taken # {}
           /\ h' = [h EXCEPT ![i] = [Idle EXCEPT !.op = "dunning", !.at = "next",
                                                 !.todo = taken, !.t = now]]
    /\ UNCHANGED <<now, rows, cache, paystack, ghosts, faults>>

\* The status the sweep asks for on reading the workspace b of payment p.
DunningTarget(p, t, b) ==
    CASE pay[p].created + SuspendDays <= t /\ b # "SUSPENDED" ->
            IF Allowed(b, "SUSPENDED") THEN "SUSPENDED" ELSE None
      [] pay[p].created + OverdueDays <= t /\ b = "ACTIVE" -> "PAST_DUE"
      [] OTHER -> None

\* One turn of the loop: the oldest payment left, and its workspace read anew.
DunningNext(i) ==
    /\ Running(i, "dunning", "next")
    /\ h[i].todo # {}
    /\ LET p == Oldest(h[i].todo)
           to == DunningTarget(p, h[i].t, ws[pay[p].ws].billing)
       IN  h' = [h EXCEPT ![i].todo = @ \ {p},
                          ![i].w = pay[p].ws,
                          ![i].to = to,
                          ![i].at = IF to = None THEN "next" ELSE "set"]
    /\ UNCHANGED <<now, rows, cache, paystack, ghosts, faults>>

\* setBillingStatus reads again and asserts again; the sweep catches its throw.
DunningSetRead(i) ==
    /\ Running(i, "dunning", "set")
    /\ Goto(i, IF Allowed(ws[h[i].w].billing, h[i].to) THEN "write" ELSE "next")
    /\ UNCHANGED <<now, rows, cache, paystack, ghosts, faults>>

DunningDone(i) ==
    /\ Running(i, "dunning", "next")
    /\ h[i].todo = {}
    /\ Finish(i)
    /\ UNCHANGED <<now, rows, cache, paystack, ghosts, faults>>

-----------------------------------------------------------------------------
(* WorkspaceAccessGuard.canActivate, for a workspace ACTIVE and expired for *)
(* longer than the grace period; every other outcome changes nothing.       *)

GuardRead(i, w) ==
    /\ ws[w].status = "ACTIVE"
    /\ ws[w].renewal # NoDate
    /\ now - ws[w].renewal > GraceDays
    /\ "guard" \in Ops
    /\ h[i] = Idle
    /\ h' = [h EXCEPT ![i] = [Idle EXCEPT !.op = "guard", !.at = "write", !.w = w,
                                          !.seen = ws[w]]]
    /\ UNCHANGED <<now, rows, cache, paystack, ghosts, faults>>

\* Demotes by id what it read expired; the cache is not busted.
GuardDemote(i) ==
    /\ Running(i, "guard", "write")
    /\ WorkspaceRowFree(h[i].w)
    /\ WriteStatuses(h[i].w, "PENDING_PAYMENT",
                     IF h[i].seen.billing = "CANCELLED" THEN "CANCELLED" ELSE "PAST_DUE")
    /\ Finish(i)
    /\ UNCHANGED <<now, pay, sub, event, cache, paystack, ghosts, faults>>

-----------------------------------------------------------------------------
(* reconcileWorkspaceBilling *)

ReconcileRead(i, w) ==
    /\ "reconcile" \in Ops
    /\ h[i] = Idle
    /\ h' = [h EXCEPT ![i] = [Idle EXCEPT !.op = "reconcile", !.at = "reads", !.w = w,
                                          !.seen = ws[w]]]
    /\ UNCHANGED <<now, rows, cache, paystack, ghosts, faults>>

\* ORDER BY paidAt DESC, createdAt DESC: PostgreSQL puts nulls first.
LatestByPaidAt(S) ==
    LET unpaid == {p \in S : pay[p].paidAt = NoDate}
        last == {p \in S : \A q \in S : pay[q].paidAt <= pay[p].paidAt}
    IN  Newest(IF unpaid # {} THEN unpaid ELSE last)

\* Promise.all: the two reads come back in either order.
ReconcilePayment(i) ==
    /\ Running(i, "reconcile", "reads")
    /\ h[i].latest = "unread"
    /\ LET mine == PaymentsOf(h[i].w) IN
       h' = [h EXCEPT ![i].latest = IF mine = {} THEN "none"
                                    ELSE pay[LatestByPaidAt(mine)].state]
    /\ UNCHANGED <<now, rows, cache, paystack, ghosts, faults>>

ReconcileSubscription(i) ==
    /\ Running(i, "reconcile", "reads")
    /\ ~h[i].subRead
    /\ h' = [h EXCEPT ![i].subRead = TRUE, ![i].seenSub = sub[h[i].w]]
    /\ UNCHANGED <<now, rows, cache, paystack, ghosts, faults>>

\* Mutants: whatever is not pending counts as paid; the renewal date is taken
\* from the subscription only; the payment's status lands in billingStatus.
ReconciledUnlessPending(r) ==
    [r.seen EXCEPT !.status = IF r.latest = "PENDING" THEN "PENDING_PAYMENT" ELSE "ACTIVE",
                   !.billing = IF r.latest = "PENDING" THEN "PAST_DUE" ELSE "ACTIVE"]

ReconciledWithoutRenewal(r) ==
    IF r.latest = "PAID"
      THEN [r.seen EXCEPT !.status = "ACTIVE", !.billing = "ACTIVE",
                          !.renewal = IF r.subRead /\ r.seenSub.end # NoDate
                                        THEN r.seenSub.end ELSE @]
      ELSE r.seen

ReconciledMixedUp(r) ==
    IF r.latest = "none" THEN r.seen ELSE [r.seen EXCEPT !.billing = r.latest]

\* The row that reconciliation computes from what it has read.
Reconciled(r) ==
    LET s == r.seenSub
        renewal == CASE s.end # NoDate -> s.end
                     [] r.seen.renewal = NoDate /\ r.latest = "PAID" ->
                            now + (IF s.status = "ABSENT" THEN MonthDays
                                                          ELSE PeriodOf(s.plan))
                     [] OTHER -> r.seen.renewal
        plan == IF s.status = "ABSENT" THEN r.seen.plan ELSE s.plan
        billing == CASE r.latest = "PAID" -> "ACTIVE"
                     [] r.latest = "PENDING" /\ r.seen.billing = "ACTIVE" -> "PAST_DUE"
                     [] OTHER -> r.seen.billing
        status == CASE r.latest = "PAID" -> "ACTIVE"
                    [] r.latest = "PENDING" /\ r.seen.status = "ACTIVE" ->
                            "PENDING_PAYMENT"
                    [] OTHER -> r.seen.status
        expired == renewal # NoDate /\ renewal <= now
    IN  [status  |-> IF expired THEN "PENDING_PAYMENT" ELSE status,
         billing |-> IF expired /\ billing # "CANCELLED" THEN "PAST_DUE" ELSE billing,
         renewal |-> renewal,
         plan    |-> plan]

ReconcileWrite(i) ==
    /\ Running(i, "reconcile", "reads")
    /\ h[i].latest # "unread" /\ h[i].subRead
    /\ WorkspaceRowFree(h[i].w)
    /\ ws' = [ws EXCEPT ![h[i].w] = Reconciled(h[i])]
    /\ Bust(h[i].w)
    /\ Finish(i)
    /\ UNCHANGED <<now, pay, sub, event, paystack, ghosts, faults>>

-----------------------------------------------------------------------------
(* The subscription: cancelWorkspaceSubscription and checkSubscriptionExpiry *)

CancelSubscription(w) ==
    /\ "cancel" \in Ops
    /\ sub[w].status # "ABSENT"
    /\ WorkspaceRowFree(w)
    /\ sub' = [sub EXCEPT ![w].status = "CANCELED"]
    /\ UNCHANGED <<now, ws, pay, event, cache, paystack, ghosts, faults, h>>

\* The daily cron finds what expired in the last day.
ExpiryRead(i) ==
    /\ "expiry" \in Ops
    /\ h[i] = Idle
    /\ LET expired == {w \in Workspaces : /\ sub[w].status = "ACTIVE"
                                          /\ sub[w].end \in (now - 1)..now}
       IN  /\ expired # {}
           /\ h' = [h EXCEPT ![i] = [Idle EXCEPT !.op = "expiry", !.at = "next",
                                                 !.due = expired]]
    /\ UNCHANGED <<now, rows, cache, paystack, ghosts, faults>>

\* It marks each PAST_DUE by id, and does not look at it again.
ExpiryMark(i, w) ==
    /\ Running(i, "expiry", "next")
    /\ w \in h[i].due
    /\ WorkspaceRowFree(w)
    /\ sub' = [sub EXCEPT ![w].status = "PAST_DUE"]
    /\ IF h[i].due = {w} THEN Finish(i) ELSE h' = [h EXCEPT ![i].due = @ \ {w}]
    /\ UNCHANGED <<now, ws, pay, event, cache, paystack, ghosts, faults>>

-----------------------------------------------------------------------------
(* The platform administrator: activateWorkspace, suspendWorkspace and     *)
(* fixWorkspacePayment of admin.service.ts                                 *)

AdminRead(i, op, w) ==
    /\ op \in Ops \cap {"activate", "fix"}
    /\ h[i] = Idle
    /\ h' = [h EXCEPT ![i] = [Idle EXCEPT !.op = op, !.at = "write", !.w = w,
                                          !.seenSub = sub[w], !.t = now]]
    /\ UNCHANGED <<now, rows, cache, paystack, ghosts, faults>>

\* Renewal is the end of a running subscription that lies ahead, else none.
ActivateWrite(i) ==
    /\ Running(i, "activate", "write")
    /\ WorkspaceRowFree(h[i].w)
    /\ LET s == h[i].seenSub IN
       ws' = [ws EXCEPT ![h[i].w] =
                [@ EXCEPT !.status = "ACTIVE", !.billing = "ACTIVE",
                          !.renewal = IF s.status = "ACTIVE" /\ s.end > h[i].t
                                        THEN s.end ELSE NoDate]]
    /\ vouched' = vouched \cup {h[i].w}
    /\ Bust(h[i].w)
    /\ Finish(i)
    /\ UNCHANGED <<now, pay, sub, event, paystack, granted, faults>>

SuspendWorkspace(w) ==
    /\ "suspend" \in Ops
    /\ WorkspaceRowFree(w)
    /\ WriteStatuses(w, "SUSPENDED", "SUSPENDED")
    /\ UNCHANGED <<now, pay, sub, event, cache, paystack, ghosts, faults, h>>

\* Every unpaid payment is forgiven in the transaction that activates.
FixWrite(i) ==
    /\ Running(i, "fix", "write")
    /\ WorkspaceRowFree(h[i].w)
    /\ LET w == h[i].w
           s == h[i].seenSub
           end == IF s.end > h[i].t THEN s.end ELSE h[i].t + MonthDays
           unpaid == {p \in PaymentsOf(w) : pay[p].state = "PENDING"}
       IN  /\ pay' = [p \in PaymentIds |->
                        IF p \in unpaid
                          THEN [pay[p] EXCEPT !.state = "PAID", !.paidAt = h[i].t]
                          ELSE pay[p]]
           /\ granted' = granted \cup unpaid
           /\ vouched' = vouched \cup {w}
           /\ ws' = [ws EXCEPT ![w] = [@ EXCEPT !.status = "ACTIVE", !.billing = "ACTIVE",
                                                !.renewal = end]]
           /\ sub' = IF s.status \in {"ABSENT", "ACTIVE"} THEN sub
                     ELSE [sub EXCEPT ![w] = [@ EXCEPT !.status = "ACTIVE", !.end = end]]
    /\ Bust(h[i].w)
    /\ Finish(i)
    /\ UNCHANGED <<now, event, paystack, faults>>

=============================================================================
