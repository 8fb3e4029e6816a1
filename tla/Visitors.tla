------------------------------ MODULE Visitors ------------------------------
(***************************************************************************)
(* Visitor passes (visitors.service.ts): invitations and walk-ins, the     *)
(* scan at the gate, the manual check-in and check-out, and the edits.     *)
(* Every operation but the two creations reads the pass, decides, and      *)
(* writes it by id, whatever happened to it in between.                    *)
(***************************************************************************)
EXTENDS Requests

CONSTANTS Passes, WalkInStay      \* WalkInStay stands for the eight hours

ASSUME WalkInStayNat == WalkInStay \in Nat

VARIABLES pass                    \* the visitor rows

NoPass == [status |-> "none"]

\* Dates a pass may be valid from and until; Never is a date left out.
PassFrom == {Never, 2}
PassUntil == {Never, 1, 2}

Stamps == Never..MaxTime

PassRow == [status : {"EXPECTED", "CHECKED_IN", "CHECKED_OUT", "CANCELLED", "EXPIRED"},
            from : PassFrom \cup Stamps, until : PassUntil \cup Never..(MaxTime + WalkInStay),
            in : Stamps, out : Stamps]

Issued == {p \in Passes : pass[p] # NoPass}

VisitorsInit == pass = [p \in Passes |-> NoPass]

CreateVisitor(p) ==
    /\ p \notin Issued
    /\ \E f \in PassFrom, u \in PassUntil :
          pass' = [pass EXCEPT ![p] = [status |-> "EXPECTED", from |-> f, until |-> u,
                                       in |-> Never, out |-> Never]]
    /\ Once(p)

CreateWalkIn(p) ==
    /\ p \notin Issued
    /\ pass' = [pass EXCEPT ![p] = [status |-> "CHECKED_IN", from |-> now,
                                    until |-> now + WalkInStay, in |-> now, out |-> Never]]
    /\ Once(p)

\* An operation has read pass p and will write the columns of w.
Decide(i, p, op, w) ==
    /\ Begin(i, [rows |-> {p}, op |-> op, pass |-> p, write |-> w])
    /\ UNCHANGED pass

Expired(v) == v.until # Never /\ now > v.until

\* The gate's decision: the dates are compared, and the stamp taken, when the
\* pass is read.
ScanVisitor(i, p) ==
    LET v == pass[p] IN
    /\ v.status \notin {"CANCELLED", "EXPIRED"}
    /\ v.from = Never \/ now >= v.from
    /\ \/ /\ Expired(v)
          /\ Decide(i, p, "scan", [status |-> "EXPIRED"])
       \/ /\ ~Expired(v)
          /\ v.status = "EXPECTED"
          /\ Decide(i, p, "scan", [status |-> "CHECKED_IN", in |-> now])
       \/ /\ ~Expired(v)
          /\ v.status = "CHECKED_IN"
          /\ Decide(i, p, "scan", [status |-> "CHECKED_OUT", out |-> now])

UpdateVisitor(i, p) ==
    /\ pass[p].status = "EXPECTED"
    /\ \E u \in PassUntil : Decide(i, p, "update", [until |-> u])

CancelVisitor(i, p) ==
    /\ pass[p].status # "CHECKED_IN"
    /\ Decide(i, p, "cancel", [status |-> "CANCELLED"])

ExtendVisitor(i, p) ==
    /\ pass[p].status \notin {"CANCELLED", "EXPIRED"}
    /\ \E u \in PassUntil \ {Never} : Decide(i, p, "extend", [until |-> u])

\* Mutant: only a cancelled pass is refused.
ManualCheckInMutant(i, p) ==
    /\ pass[p].status # "CANCELLED"
    /\ Decide(i, p, "checkIn", [status |-> "CHECKED_IN"])

\* The manual operations read the user's name after the pass: their stamp is
\* taken when they write.
ManualCheckIn(i, p) ==
    /\ pass[p].status = "EXPECTED"
    /\ Decide(i, p, "checkIn", [status |-> "CHECKED_IN"])

\* Mutant: the status is not looked at.
ManualCheckOutMutant(i, p) ==
    Decide(i, p, "checkOut", [status |-> "CHECKED_OUT"])

ManualCheckOut(i, p) ==
    /\ pass[p].status = "CHECKED_IN"
    /\ Decide(i, p, "checkOut", [status |-> "CHECKED_OUT"])

WritePass(i) ==
    LET r == req[i]
        stamp == CASE r.op = "checkIn" -> [in |-> now]
                   [] r.op = "checkOut" -> [out |-> now]
                   [] OTHER -> <<>>
    IN /\ r # Idle
       /\ pass' = [pass EXCEPT ![r.pass] = Written(stamp, Written(r.write, @))]
       /\ End(i)

VisitorsStep(i) ==
    \/ \E p \in Issued :
          \/ ScanVisitor(i, p)
          \/ UpdateVisitor(i, p)
          \/ CancelVisitor(i, p)
          \/ ExtendVisitor(i, p)
          \/ ManualCheckIn(i, p)
          \/ ManualCheckOut(i, p)
    \/ WritePass(i)

VisitorsNext ==
    \/ \E p \in Passes : CreateVisitor(p) \/ CreateWalkIn(p)
    \/ \E i \in Slots : VisitorsStep(i)
    \/ (Tick \/ \E i \in Slots : Abort(i)) /\ UNCHANGED pass

-----------------------------------------------------------------------------

VisitorsTypeOK == \A p \in Passes : pass[p] \in PassRow \cup {NoPass}

\* A visitor is recorded as inside exactly between the two stamps of the visit,
\* and the way out is never before the way in, on every pass that no two
\* requests handled at once: each of the scan, the manual check-in and check-out,
\* the cancellation and the expiry looks at the status only.
VisitIsRecorded ==
    \A p \in Issued \ contested :
        LET v == pass[p] IN
        /\ v.status = "EXPECTED" => v.in = Never /\ v.out = Never
        /\ v.status = "CHECKED_IN" => v.in # Never /\ v.out = Never
        /\ v.status = "CHECKED_OUT" => v.in # Never /\ v.out # Never
        /\ v.out # Never => v.in # Never /\ v.in <= v.out

\* A pass that was used up, cancelled or expired lets nobody in again, except by a
\* request that had read it before: nothing puts a pass back to EXPECTED.
EndedPassLetsNobodyIn ==
    [][\A p \in Issued \ contested' :
          pass[p].status \in {"CHECKED_OUT", "CANCELLED", "EXPIRED"}
            => pass'[p].status \notin {"EXPECTED", "CHECKED_IN"}]_pass

=============================================================================
