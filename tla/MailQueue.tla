------------------------------ MODULE MailQueue ------------------------------
(***************************************************************************)
(* Mail and its dead letter queue: MailService.send, which tries Resend,   *)
(* then SMTP, and parks a mail that neither took in                        *)
(* NotificationDeadLetter; and the scheduler's runNotificationDlq, which   *)
(* retries what is due every five minutes.  Nest starts the job whether or *)
(* not the one before has ended, so that several sweeps may run at once,   *)
(* each with the rows it has read.                                         *)
(*                                                                         *)
(* A letter is one call of send.  Time is abstract: a row falls due, and   *)
(* dueQueue holds the due rows in the order in which they did, which is    *)
(* that of nextAttemptAt.  Only mails are ever parked, so that the branch  *)
(* for other channels does not occur.                                      *)
(***************************************************************************)
EXTENDS Integers, SequencesExt

CONSTANTS
    Letters,        \* the calls of send
    Sweeps,         \* slots for runs of runNotificationDlq
    MaxAttempts,    \* MAX_ATTEMPTS, 6 in the code
    Backoff,        \* backoffMins, six numbers of minutes
    Take,           \* rows a sweep reads, 50 in the code
    MaxFaults       \* bound on restarts and failed database calls

ASSUME ParametersAssumption ==
    /\ MaxAttempts \in Nat /\ MaxAttempts > 1
    /\ Backoff \in Seq(Nat) /\ Len(Backoff) = 6
    /\ Take \in Nat \ {0}
    /\ MaxFaults \in Nat

VARIABLES
    env,        \* the transports that are configured, and NODE_ENV
    call,       \* where each call of send is
    row,        \* NotificationDeadLetter
    dueQueue,   \* the due rows by nextAttemptAt
    sweep,      \* the runs of the retry job
    arrived,    \* letters a provider has delivered (history)
    refused,    \* numbers of the retries that ended in an error (history)
    faults

vars == <<env, call, row, dueQueue, sweep, arrived, refused, faults>>

Environments == [resend : BOOLEAN, smtp : BOOLEAN, production : BOOLEAN]

NoRow == [status |-> "NONE", attempts |-> 0, wait |-> 0]
Idle == [step |-> "idle", todo |-> <<>>]

\* Rows the retry job asks for.
Waiting(l) == row[l].status \in {"PENDING", "RETRYING"}

HasTransport == env.resend \/ env.smtp

\* A call to a provider ends in one of three ways: it took the mail, it did
\* not, or it took the mail and the answer was lost.  The caller sees an error
\* in the last two.
Outcomes == {"taken", "refused", "answerLost"}

Arrives(l, outcome) ==
    arrived' = IF outcome = "refused" THEN arrived ELSE arrived \union {l}

Init ==
    /\ env \in Environments
    /\ call = [l \in Letters |-> "new"]
    /\ row = [l \in Letters |-> NoRow]
    /\ dueQueue = <<>>
    /\ sweep = [s \in Sweeps |-> Idle]
    /\ arrived = {}
    /\ refused = [l \in Letters |-> {}]
    /\ faults = 0

-----------------------------------------------------------------------------
(* MailService.send                                                        *)

\* Mutant: outside production, a mail that Resend did not take is skipped.
AfterResendSkipping ==
    IF env.smtp THEN "smtp" ELSE IF env.production THEN "park" ELSE "skipped"

\* Where a mail goes that Resend did not take: to SMTP if there is a
\* transporter, else to the dead letters.
AfterResend == IF env.smtp THEN "smtp" ELSE "park"

\* Resend is configured and is tried first.
SendWithResend(l) ==
    /\ call[l] = "new" /\ env.resend
    /\ \E outcome \in Outcomes :
         /\ Arrives(l, outcome)
         /\ call' = [call EXCEPT ![l] = IF outcome = "taken" THEN "done" ELSE AfterResend]
    /\ UNCHANGED <<env, row, dueQueue, sweep, refused, faults>>

\* No Resend key: SMTP, and without that the mail is parked in production and
\* skipped elsewhere.
SendWithoutResend(l) ==
    /\ call[l] = "new" /\ ~env.resend
    /\ call' = [call EXCEPT ![l] = IF env.smtp THEN "smtp"
                                   ELSE IF env.production THEN "park" ELSE "skipped"]
    /\ UNCHANGED <<env, row, dueQueue, sweep, arrived, refused, faults>>

SendWithSmtp(l) ==
    /\ call[l] = "smtp"
    /\ \E outcome \in Outcomes :
         /\ Arrives(l, outcome)
         /\ call' = [call EXCEPT ![l] = IF outcome = "taken" THEN "done" ELSE "park"]
    /\ UNCHANGED <<env, row, dueQueue, sweep, refused, faults>>

\* enqueueDeadLetter
EnqueueDeadLetter(l) ==
    /\ call[l] = "park"
    /\ row' = [row EXCEPT ![l] = [status |-> "PENDING", attempts |-> 1, wait |-> 1]]
    /\ call' = [call EXCEPT ![l] = "done"]
    /\ UNCHANGED <<env, dueQueue, sweep, arrived, refused, faults>>

\* The insert fails; the error is logged and the mail is gone.
EnqueueFails(l) ==
    /\ call[l] = "park" /\ faults < MaxFaults
    /\ faults' = faults + 1
    /\ call' = [call EXCEPT ![l] = "lost"]
    /\ UNCHANGED <<env, row, dueQueue, sweep, arrived, refused>>

-----------------------------------------------------------------------------
(* runNotificationDlq                                                      *)

\* nextAttemptAt of a waiting row passes.
FallsDue(l) ==
    /\ Waiting(l) /\ ~Contains(dueQueue, l)
    /\ dueQueue' = Append(dueQueue, l)
    /\ UNCHANGED <<env, call, row, sweep, arrived, refused, faults>>

\* The rows a sweep reads: letters and the attempts counted so far.
Batch ==
    [i \in 1..(IF Len(dueQueue) < Take THEN Len(dueQueue) ELSE Take) |->
        [letter |-> dueQueue[i], attempts |-> row[dueQueue[i]].attempts]]

SweepRead(s) ==
    /\ sweep[s].step = "idle" /\ dueQueue # <<>>
    /\ sweep' = [sweep EXCEPT ![s] = [step |-> "try", todo |-> Batch]]
    /\ UNCHANGED <<env, call, row, dueQueue, arrived, refused, faults>>

\* retryEmail of the next row: one try, with SMTP only if there is no Resend.
SweepTry(s) ==
    /\ sweep[s].step = "try"
    /\ LET next == Head(sweep[s].todo) IN
       \E outcome \in IF HasTransport THEN Outcomes ELSE {"refused"} :
         /\ Arrives(next.letter, outcome)
         /\ refused' = IF outcome = "taken" THEN refused
                       ELSE [refused EXCEPT ![next.letter] = @ \union {next.attempts + 1}]
         /\ sweep' = [sweep EXCEPT ![s].step = IF outcome = "taken" THEN "sent" ELSE "failed"]
    /\ UNCHANGED <<env, call, row, dueQueue, faults>>

\* The loop goes on with the rest of its rows.
NextRow(s) ==
    LET rest == Tail(sweep[s].todo) IN
    sweep' = [sweep EXCEPT ![s] = IF rest = <<>> THEN Idle
                                  ELSE [step |-> "try", todo |-> rest]]

\* Minutes until the next retry, once n attempts have been made.
WaitAfter(n) == Backoff[(IF n < 5 THEN n ELSE 5) + 1]

\* Mutant: the limit is one too low.
AfterRetryEarly(step, n) ==
    IF step = "sent" THEN [status |-> "SENT", attempts |-> n, wait |-> 0]
    ELSE IF n >= MaxAttempts - 1 THEN [status |-> "FAILED", attempts |-> n, wait |-> 0]
    ELSE [status |-> "RETRYING", attempts |-> n, wait |-> WaitAfter(n)]

\* Mutant: the limit is one too high.
AfterRetryLate(step, n) ==
    IF step = "sent" THEN [status |-> "SENT", attempts |-> n, wait |-> 0]
    ELSE IF n > MaxAttempts THEN [status |-> "FAILED", attempts |-> n, wait |-> 0]
    ELSE [status |-> "RETRYING", attempts |-> n, wait |-> WaitAfter(n)]

\* Mutant: the attempts are not written back with the next time.
AfterRetryUncounted(step, n) ==
    IF step = "sent" THEN [status |-> "SENT", attempts |-> n, wait |-> 0]
    ELSE IF n >= MaxAttempts THEN [status |-> "FAILED", attempts |-> n, wait |-> 0]
    ELSE [status |-> "RETRYING", attempts |-> n - 1, wait |-> WaitAfter(n)]

\* The dead letter after a retry: decided, or waiting for its next time.
AfterRetry(step, n) ==
    IF step = "sent" THEN [status |-> "SENT", attempts |-> n, wait |-> 0]
    ELSE IF n >= MaxAttempts THEN [status |-> "FAILED", attempts |-> n, wait |-> 0]
    ELSE [status |-> "RETRYING", attempts |-> n, wait |-> WaitAfter(n)]

\* Either way the row is no longer among the due ones.
DueWithout(l) ==
    IF Contains(dueQueue, l)
    THEN RemoveAt(dueQueue, CHOOSE i \in DOMAIN dueQueue : dueQueue[i] = l)
    ELSE dueQueue

\* The row is updated by its id, with the attempts the sweep has read plus one.
SweepRecord(s) ==
    /\ sweep[s].step \in {"sent", "failed"}
    /\ LET next == Head(sweep[s].todo) IN
         /\ row' = [row EXCEPT ![next.letter] = AfterRetry(sweep[s].step, next.attempts + 1)]
         /\ dueQueue' = DueWithout(next.letter)
    /\ NextRow(s)
    /\ UNCHANGED <<env, call, arrived, refused, faults>>

\* The update fails; the error is logged and the row is left as it was.
SweepRecordFails(s) ==
    /\ sweep[s].step \in {"sent", "failed"} /\ faults < MaxFaults
    /\ faults' = faults + 1
    /\ NextRow(s)
    /\ UNCHANGED <<env, call, row, dueQueue, arrived, refused>>

-----------------------------------------------------------------------------
\* The process dies with its calls and sweeps, and starts again, perhaps with
\* another environment.
Restart ==
    /\ faults < MaxFaults
    /\ faults' = faults + 1
    /\ env' \in Environments
    /\ call' = [l \in Letters |-> IF call[l] \in {"smtp", "park"} THEN "lost" ELSE call[l]]
    /\ sweep' = [s \in Sweeps |-> Idle]
    /\ UNCHANGED <<row, dueQueue, arrived, refused>>

SendStep(l) == \/ SendWithResend(l) \/ SendWithoutResend(l) \/ SendWithSmtp(l)
               \/ EnqueueDeadLetter(l) \/ EnqueueFails(l)

SweepStep(s) == \/ SweepTry(s) \/ SweepRecord(s) \/ SweepRecordFails(s)

Next ==
    \/ \E l \in Letters : SendStep(l) \/ FallsDue(l)
    \/ \E s \in Sweeps : SweepRead(s) \/ SweepStep(s)
    \/ Restart

Spec == Init /\ [][Next]_vars

\* Time passes, the timer fires, and calls to the database and the providers
\* end; nothing is assumed of what they answer.
Fairness ==
    /\ \A l \in Letters : WF_vars(SendStep(l)) /\ WF_vars(FallsDue(l))
    /\ \A s \in Sweeps : WF_vars(SweepStep(s))
    /\ WF_vars(\E s \in Sweeps : SweepRead(s))

FairSpec == Spec /\ Fairness

-----------------------------------------------------------------------------
Row == [status : {"NONE", "PENDING", "RETRYING", "SENT", "FAILED"},
        attempts : 0..MaxAttempts, wait : Nat]

DueRow == [letter : Letters, attempts : 1..(MaxAttempts - 1)]

\* Types of the variables.
TypeOK ==
    /\ env \in Environments
    /\ call \in [Letters -> {"new", "smtp", "park", "done", "skipped", "lost"}]
    /\ row \in [Letters -> Row]
    /\ dueQueue \in Seq(Letters)
    /\ sweep \in [Sweeps -> [step : {"idle", "try", "sent", "failed"}, todo : Seq(DueRow)]]
    /\ arrived \in SUBSET Letters
    /\ refused \in [Letters -> SUBSET (2..MaxAttempts)]
    /\ faults \in 0..MaxFaults

\* A letter marked SENT has been delivered, and one marked FAILED has been
\* retried up to MAX_ATTEMPTS, each time in vain, although sweeps overlap and
\* write attempts they have read long ago (runNotificationDlq).
VerdictsAreTrue ==
    \A l \in Letters :
        /\ row[l].status = "SENT" => l \in arrived
        /\ row[l].status = "FAILED" => 2..MaxAttempts \subseteq refused[l]

\* When send returns, the mail has been delivered or is kept in the dead
\* letters.  It is skipped only where there is no transport to fail and it is
\* not production; faults = 0 since a restart can change that (send,
\* enqueueDeadLetter).
NoMailDropped ==
    \A l \in Letters :
        /\ call[l] = "done" => l \in arrived \/ row[l] # NoRow
        /\ call[l] = "skipped" /\ faults = 0 => ~HasTransport /\ ~env.production

\* Every letter ends up not parked, SENT or FAILED, and stays so: there is no
\* endless retrying, although an overlapping sweep can turn attempts back and
\* even take a row out of SENT or FAILED, and a long queue starves nobody.
EveryLetterIsDecided ==
    \A l \in Letters :
        <>[](row[l].status \in {"NONE", "SENT", "FAILED"})

\* The comment on the back-off: one minute before the first retry, then five,
\* fifteen, an hour, six hours and a day (scheduler.service.ts:774).
WaitsFollowTheTable ==
    \A l \in Letters : Waiting(l) => row[l].wait = Backoff[row[l].attempts]

=============================================================================
