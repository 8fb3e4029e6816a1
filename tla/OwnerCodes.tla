----------------------------- MODULE OwnerCodes -----------------------------
(***************************************************************************)
(* The codes that verify the owner of a new workspace                      *)
(* (onboarding.service.ts): at most OwnerCap an hour and one every         *)
(* OwnerGap.  Sends are serialised by an advisory lock of PostgreSQL; the  *)
(* hourly count is made before it.                                         *)
(***************************************************************************)
EXTENDS Requests, Sequences, FiniteSetsExt

CONSTANTS OwnerCap, OwnerGap, OwnerCodeLife, Hour

ASSUME OwnerGapNat == OwnerGap \in Nat
ASSUME OwnerCapNat == OwnerCap \in Nat \ {0} /\ Hour \in Nat

VARIABLES
    ownerCode,   \* the otpCode rows of the owner, in the order of their creation
    pending      \* whether the workspace is at PENDING_OTP

ownerVars == <<ownerCode, pending>>

OwnerRow == "owner"

OwnersInit ==
    /\ ownerCode = <<>>
    /\ pending = TRUE

IssuedSince(from) == {c \in DOMAIN ownerCode : ownerCode[c].at > from}

Unconsumed == {c \in DOMAIN ownerCode : ~ownerCode[c].consumed}

\* The start of the last hour; the clock starts at 1.
HourAgo == IF now > Hour THEN now - Hour ELSE 0

SendOwnerEmailOtp(i) ==
    /\ pending
    /\ Cardinality(IssuedSince(HourAgo)) < OwnerCap
    /\ Begin(i, [op |-> "send", rows |-> {OwnerRow}, step |-> "issue"])
    /\ UNCHANGED ownerVars

\* Mutant: the latest code is read before the lock, so that it may be an older one.
IssueOwnerCodeMutant(i) ==
    /\ req[i] # Idle /\ req[i].step = "issue"
    /\ ownerCode' = Append(ownerCode, [at |-> now, consumed |-> FALSE])
    /\ End(i)
    /\ UNCHANGED pending

\* Under the lock: the latest unconsumed code is read and the new one made.
IssueOwnerCode(i) ==
    /\ req[i] # Idle /\ req[i].step = "issue"
    /\ ownerCode' = IF Unconsumed # {} /\ now - ownerCode[Max(Unconsumed)].at < OwnerGap
                    THEN ownerCode
                    ELSE Append(ownerCode, [at |-> now, consumed |-> FALSE])
    /\ End(i)
    /\ UNCHANGED pending

\* The latest code, if it has not run out, and the guess is right.
VerifyOwnerEmailOtp(i) ==
    LET usable == {c \in Unconsumed : ownerCode[c].at + OwnerCodeLife > now} IN
    /\ pending
    /\ usable # {}
    /\ Begin(i, [op |-> "verify", rows |-> {OwnerRow}, code |-> Max(usable), step |-> "consume"])
    /\ UNCHANGED ownerVars

ConsumeOwnerCode(i) ==
    LET r == req[i] IN
    /\ r # Idle /\ r.step = "consume"
    /\ ownerCode' = [ownerCode EXCEPT ![r.code].consumed = TRUE]
    /\ pending' = FALSE
    /\ End(i)

OwnersNext ==
    \/ \E i \in Slots :
          \/ SendOwnerEmailOtp(i)
          \/ IssueOwnerCode(i)
          \/ VerifyOwnerEmailOtp(i)
          \/ ConsumeOwnerCode(i)
    \/ (Tick \/ \E i \in Slots : Abort(i)) /\ UNCHANGED ownerVars

-----------------------------------------------------------------------------

OwnersTypeOK ==
    /\ ownerCode \in Seq([at : 1..MaxTime, consumed : BOOLEAN])
    /\ pending \in BOOLEAN

\* Two codes are never sent within OwnerGap of each other, however many requests ask at
\* once, unless the first has been used.
OwnerCodesApart ==
    \A c, d \in DOMAIN ownerCode : c < d =>
        \/ ownerCode[d].at - ownerCode[c].at >= OwnerGap
        \/ ownerCode[c].consumed

\* A part of CodesAreRationed: the hour holds no more codes than OwnerCap, and one more for every other request that
\* had counted by then.
OwnerCodesBounded == Cardinality(IssuedSince(HourAgo)) < OwnerCap + Cardinality(Slots)

=============================================================================
