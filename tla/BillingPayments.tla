-------------------------- MODULE BillingPayments --------------------------
(***************************************************************************)
(* From checkout to settlement: the payment row, the Paystack checkout,    *)
(* the webhook, the verification on the payment-success page, the replay   *)
(* of a failed webhook, the mock flow, and finalizeSuccessfulPayment which *)
(* all of them end in.                                                     *)
(***************************************************************************)
EXTENDS BillingState

-----------------------------------------------------------------------------
(* Checkout: initPaystackPayment and initMockPayment.  changeWorkspacePlan *)
(* reads the plan and the workspace and calls initPaystackPayment.         *)

CheckoutRead(i, w) ==
    /\ ws[w].status \in {"PENDING_PAYMENT", "ACTIVE"}
    /\ RoomForPayment
    /\ Start(i, "checkout", "create", w, NoPayment)
    /\ UNCHANGED <<now, rows, cache, paystack, ghosts, faults>>

MockInitRead(i, w) ==
    /\ ws[w].status = "PENDING_PAYMENT"
    /\ RoomForPayment
    /\ Start(i, "mockInit", "create", w, NoPayment)
    /\ UNCHANGED <<now, rows, cache, paystack, ghosts, faults>>

\* Mutant: starting a plan switch already moves the workspace to the plan.
CreatePaymentSwitchingPlan(i, p, plan) ==
    /\ h[i].at = "create"
    /\ pay[p].state = "ABSENT"
    /\ \A q \in 1..(p - 1) : pay[q].state # "ABSENT"
    /\ pay' = [pay EXCEPT ![p] = [state |-> "PENDING", ws |-> h[i].w, plan |-> plan,
                                  created |-> now, paidAt |-> NoDate]]
    /\ ws' = [ws EXCEPT ![h[i].w].plan = plan]
    /\ Finish(i)
    /\ UNCHANGED <<now, sub, event, cache, paystack, ghosts, faults>>

\* payment.create: the row exists before Paystack hears of the reference.
CreatePayment(i, p, plan) ==
    /\ h[i].at = "create"
    /\ pay[p].state = "ABSENT"
    /\ \A q \in 1..(p - 1) : pay[q].state # "ABSENT"
    /\ pay' = [pay EXCEPT ![p] = [state |-> "PENDING", ws |-> h[i].w, plan |-> plan,
                                  created |-> now, paidAt |-> NoDate]]
    /\ IF h[i].op = "checkout"
         THEN h' = [h EXCEPT ![i].at = "init", ![i].p = p]
         ELSE Finish(i)
    /\ UNCHANGED <<now, ws, sub, event, cache, paystack, ghosts, faults>>

\* initializeTransaction answers with the checkout page.
InitTransaction(i) ==
    /\ Running(i, "checkout", "init")
    /\ open' = open \cup {h[i].p}
    /\ Finish(i)
    /\ UNCHANGED <<now, rows, cache, charged, acked, ghosts, faults>>

\* initializeTransaction fails: BadGatewayException, and the row stays PENDING.
InitTransactionFails(i) ==
    /\ Running(i, "checkout", "init")
    /\ Finish(i)
    /\ UNCHANGED <<now, rows, cache, paystack, ghosts, faults>>

\* External: the customer pays on the checkout page.
Charge(p) ==
    /\ p \in open
    /\ charged[p] = NoDate
    /\ charged' = [charged EXCEPT ![p] = now]
    /\ UNCHANGED <<now, rows, cache, open, acked, ghosts, faults, h>>

-----------------------------------------------------------------------------
(* finalizeSuccessfulPayment *)

\* Where a caller goes on when finalizeSuccessfulPayment returns: the two
\* webhook paths update the WebhookEvent row, the others answer.
Returned(r) == IF r.op \in {"webhook", "replay"} THEN [r EXCEPT !.at = "record"] ELSE Idle

\* The payment is read outside the transaction; a missing or PAID one returns.
FinalizeRead(i) ==
    /\ h[i].at = "finalize"
    /\ LET p == h[i].p IN
       h' = [h EXCEPT ![i] = IF pay[p].state = "PENDING"
                               THEN [h[i] EXCEPT !.at = "tx", !.w = pay[p].ws]
                               ELSE Returned(h[i])]
    /\ UNCHANGED <<now, rows, cache, paystack, ghosts, faults>>

\* The transaction takes its row locks and busts the cache before it commits.
FinalizeBust(i) ==
    /\ h[i].at = "tx"
    /\ WorkspaceRowFree(h[i].w) /\ PaymentRowFree(h[i].p)
    /\ \/ ws[h[i].w].billing = "ACTIVE"
       \/ Allowed(ws[h[i].w].billing, "ACTIVE")
    /\ Goto(i, "commit")
    /\ Bust(h[i].w)
    /\ UNCHANGED <<now, rows, paystack, ghosts, faults>>

\* paidAt is Paystack's paid_at, or the time of the call where there is none.
FinalizeCommit(i) ==
    /\ h[i].at = "commit"
    /\ LET p == h[i].p
           w == h[i].w
           end == now + PeriodOf(pay[p].plan)
       IN  /\ pay' = [pay EXCEPT ![p] =
                        [@ EXCEPT !.state = "PAID",
                                  !.paidAt = IF h[i].op = "mockConfirm" \/ charged[p] = NoDate
                                               THEN now ELSE charged[p]]]
           /\ ws' = [ws EXCEPT ![w] = [status |-> "ACTIVE", billing |-> "ACTIVE",
                                       renewal |-> end, plan |-> pay[p].plan]]
           /\ sub' = [sub EXCEPT ![w] = [status |-> "ACTIVE", plan |-> pay[p].plan,
                                         end |-> end]]
    /\ h' = [h EXCEPT ![i] = Returned(h[i])]
    /\ UNCHANGED <<now, event, cache, paystack, ghosts, faults>>

\* Mutant: a failed settlement is swallowed, and the event counts as processed.
FinalizeFailsSilently(i) ==
    /\ h[i].at \in {"finalize", "tx", "commit"}
    /\ faults < MaxFaults
    /\ faults' = faults + 1
    /\ h' = [h EXCEPT ![i] = Returned(h[i])]
    /\ UNCHANGED <<now, rows, cache, paystack, ghosts>>

\* A database call fails: the transaction rolls back, and the caller throws;
\* the webhook handler first records the error.
FinalizeFails(i) ==
    /\ h[i].at \in {"finalize", "tx", "commit", "record", "failed"}
    /\ faults < MaxFaults
    /\ faults' = faults + 1
    /\ h' = [h EXCEPT ![i] = IF h[i].op = "webhook" /\ h[i].at # "failed"
                               THEN [h[i] EXCEPT !.at = "failed"]
                               ELSE Idle]
    /\ UNCHANGED <<now, rows, cache, paystack, ghosts>>

-----------------------------------------------------------------------------
(* handlePaystackWebhook.  Paystack delivers charge.success until it is    *)
(* answered with 200, and may deliver it again after that.                 *)

\* The signature holds; the event row is upserted with processed: false.
WebhookStore(i, p) ==
    /\ charged[p] # NoDate
    /\ Start(i, "webhook", "finalize", None, p)
    /\ event' = [event EXCEPT ![p] = "unprocessed"]
    /\ UNCHANGED <<now, ws, pay, sub, cache, paystack, ghosts, faults>>

\* processed: true; a webhook is answered, a replay reports to its operator.
RecordProcessed(i) ==
    /\ h[i].at = "record"
    /\ event' = [event EXCEPT ![h[i].p] = "processed"]
    /\ acked' = IF h[i].op = "webhook" THEN acked \cup {h[i].p} ELSE acked
    /\ Finish(i)
    /\ UNCHANGED <<now, ws, pay, sub, cache, open, charged, ghosts, faults>>

\* Mutant: the error is stored and not rethrown, so Paystack gets its 200.
RecordFailedAcknowledging(i) ==
    /\ h[i].at = "failed"
    /\ event' = [event EXCEPT ![h[i].p] = "unprocessed"]
    /\ acked' = acked \cup {h[i].p}
    /\ Finish(i)
    /\ UNCHANGED <<now, ws, pay, sub, cache, open, charged, ghosts, faults>>

\* processed: false with lastError, and the error is rethrown (no 200).
RecordFailed(i) ==
    /\ h[i].at = "failed"
    /\ event' = [event EXCEPT ![h[i].p] = "unprocessed"]
    /\ Finish(i)
    /\ UNCHANGED <<now, ws, pay, sub, cache, paystack, ghosts, faults>>

\* replayFailedWebhook: any stored charge.success event may be replayed.
ReplayRead(i, p) ==
    /\ event[p] # "absent"
    /\ Start(i, "replay", "finalize", None, p)
    /\ UNCHANGED <<now, rows, cache, paystack, ghosts, faults>>

-----------------------------------------------------------------------------
(* verifyAndActivatePayment and confirmMockPayment *)

VerifyRead(i, p) ==
    /\ pay[p].state = "PENDING"
    /\ Start(i, "verify", "ask", None, p)
    /\ UNCHANGED <<now, rows, cache, paystack, ghosts, faults>>

\* Mutant: any answer of verifyTransaction is taken for success.
VerifyConfirmedUnchecked(i) ==
    /\ h[i].at = "ask"
    /\ Goto(i, "finalize")
    /\ UNCHANGED <<now, rows, cache, paystack, ghosts, faults>>

\* Paystack says success, or the stored webhook event does.
VerifyConfirmed(i) ==
    /\ h[i].at = "ask"
    /\ charged[h[i].p] # NoDate \/ event[h[i].p] # "absent"
    /\ Goto(i, "finalize")
    /\ UNCHANGED <<now, rows, cache, paystack, ghosts, faults>>

\* Not charged, or Paystack not reachable, and no event either; or the amount
\* or currency does not match: nothing changes.
VerifyRejected(i) ==
    /\ h[i].at = "ask"
    /\ Finish(i)
    /\ UNCHANGED <<now, rows, cache, paystack, ghosts, faults>>

\* confirmMockPayment settles any unpaid reference without a charge.
MockConfirmRead(i, p) ==
    /\ pay[p].state = "PENDING"
    /\ Start(i, "mockConfirm", "finalize", None, p)
    /\ granted' = granted \cup {p}
    /\ UNCHANGED <<now, rows, cache, paystack, vouched, faults>>

=============================================================================
