------------------------------- MODULE Leases -------------------------------
(***************************************************************************)
(* Leases of an estate (estate-ops.service.ts) and the hourly job that     *)
(* reminds of the ones about to end (scheduler.service.ts).  The stored    *)
(* status is worked out from the dates when a lease is written and by      *)
(* nothing later but the job, which knows ACTIVE and EXPIRING ones only.   *)
(***************************************************************************)
EXTENDS Requests

CONSTANTS Leases, Periods, Notice, Cutoff

ASSUME NoticeNat == Notice \in Nat /\ Cutoff \in Nat
ASSUME SendIsNoLease == "send" \notin Leases        \* where the job is between two rows

VARIABLES lease

NoLease == [status |-> "none"]

LeasesInit == lease = [l \in Leases |-> NoLease]

Let == {l \in Leases : lease[l] # NoLease}

deriveLeaseStatus(period, explicit) ==
    IF explicit = "TERMINATED" THEN "TERMINATED"
    ELSE IF period.to < now THEN "EXPIRED"
    ELSE IF period.from > now THEN "DRAFT"
    ELSE IF period.to <= now + Notice THEN "EXPIRING"
    ELSE "ACTIVE"

\* A caller may name any status; only TERMINATED is heard.
Explicit == {"TERMINATED", "ACTIVE"}

CreateLease(l) ==
    /\ l \notin Let
    /\ \E p \in Periods, named \in Explicit, contact \in BOOLEAN :
          lease' = [lease EXCEPT ![l] =
              [period |-> p, status |-> deriveLeaseStatus(p, named), contact |-> contact,
               logged |-> FALSE, sent |-> 0]]
    /\ Once(l)

UpdateLease(i, l) ==
    LET old == lease[l] IN
    /\ \E p \in Periods, named \in Explicit \cup {old.status} :
          Begin(i, [op |-> "lease", rows |-> {l}, lease |-> l, moved |-> p # old.period,
                    period |-> p, status |-> deriveLeaseStatus(p, named)])
    /\ UNCHANGED lease

WriteLease(i) ==
    LET r == req[i]
        row == lease[r.lease]
    IN /\ r # Idle /\ r.op = "lease"
       /\ lease' = [lease EXCEPT ![r.lease] =
             [row EXCEPT !.period = IF r.moved THEN r.period ELSE @, !.status = r.status]]
       /\ End(i)

Ending ==
    {l \in Let :
        /\ lease[l].contact /\ ~lease[l].logged
        /\ lease[l].status \in {"ACTIVE", "EXPIRING"}
        /\ now <= lease[l].period.to /\ lease[l].period.to <= now + Cutoff}

SendLeaseReminders(i) ==
    /\ Ending # {}
    /\ Begin(i, [op |-> "remindLease", rows |-> Ending, left |-> Ending, at |-> "send"])
    /\ UNCHANGED lease

MaxLeaseMails == 2  \* bound of the model

\* One row after the other: the message, then the log, then the status.
SendLeaseReminder(i) ==
    LET r == req[i] IN
    /\ r # Idle /\ r.op = "remindLease" /\ r.at = "send"
    /\ \E l \in r.left :
          /\ lease[l].sent < MaxLeaseMails
          /\ lease' = [lease EXCEPT ![l].sent = @ + 1]
          /\ Proceed(i, [r EXCEPT !.at = l, !.left = @ \ {l}])

LogLeaseReminder(i) ==
    LET r == req[i] IN
    /\ r # Idle /\ r.op = "remindLease" /\ r.at \in Leases
    /\ ~lease[r.at].logged
    /\ lease' = [lease EXCEPT ![r.at].logged = TRUE]
    /\ UNCHANGED requestVars

NextLease(r) == IF r.left = {} THEN Idle ELSE [r EXCEPT !.at = "send"]

MarkExpiring(i) ==
    LET r == req[i] IN
    /\ r # Idle /\ r.op = "remindLease" /\ r.at \in Leases
    /\ lease[r.at].logged
    /\ lease' = [lease EXCEPT ![r.at].status = "EXPIRING"]
    /\ Proceed(i, NextLease(r))

SkipLease(i) ==
    LET r == req[i] IN
    /\ r # Idle /\ r.op = "remindLease" /\ r.at \in Leases
    /\ contested' = contested \cup {r.at}
    /\ req' = [req EXCEPT ![i] = NextLease(r)]
    /\ UNCHANGED <<now, lease>>

LeasesStep(i) ==
    \/ \E l \in Let : UpdateLease(i, l)
    \/ WriteLease(i)
    \/ SendLeaseReminders(i)
    \/ SendLeaseReminder(i)
    \/ LogLeaseReminder(i)
    \/ MarkExpiring(i)
    \/ SkipLease(i)

LeasesNext ==
    \/ \E l \in Leases : CreateLease(l)
    \/ \E i \in Slots : LeasesStep(i) \/ (Cut(i) /\ UNCHANGED lease)
    \/ Tick /\ UNCHANGED lease

-----------------------------------------------------------------------------

LeasesTypeOK ==
    \A l \in Let :
        lease[l] \in [period : Periods, contact : BOOLEAN, logged : BOOLEAN, sent : 0..MaxLeaseMails,
                      status : {"DRAFT", "ACTIVE", "EXPIRING", "EXPIRED", "TERMINATED"}]

\* A part of RemindedOnce: one message per lease, however often its end is moved.
LeasesRemindedOnce ==
    \A l \in Let \ contested : lease[l].sent <= 1

=============================================================================
