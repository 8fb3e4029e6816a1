--------------------------- MODULE AdmissionProofs ---------------------------
(***************************************************************************)
(* Theorems about Access: passes at the gate, members, invitations, codes, *)
(* the administrators and the types of all desks, for every number of them *)
(* and of requests in flight.                                              *)
(***************************************************************************)
EXTENDS AccessProofs

ClockOK == now \in 1..MaxTime

\* The clock stands still or goes on by one.
ClockMoves == now' = now \/ (now < MaxTime /\ now' = now + 1)

LEMMA RequestsAndClock ==
    /\ \A i, r : Begin(i, r) \/ Proceed(i, r) => UNCHANGED now
    /\ \A i : End(i) \/ Abort(i) \/ Cut(i) => UNCHANGED now
    /\ \A row : Once(row) => UNCHANGED now
    /\ Tick => ClockMoves
<1>1. \A i, r : Begin(i, r) \/ Proceed(i, r) => UNCHANGED now
  BY DEF Begin, Proceed
<1>2. \A i : End(i) \/ Abort(i) \/ Cut(i) => UNCHANGED now
  BY <1>1 DEF End, Abort, Cut
<1>3. \A row : Once(row) => UNCHANGED now
  BY DEF Once
<1>4. Tick => ClockMoves
  BY DEF Tick, ClockMoves
<1> QED  BY <1>1, <1>2, <1>3, <1>4

LEMMA GateClock == VisitorsNext => ClockMoves
BY RequestsAndClock DEF VisitorsNext, VisitorsStep, CreateVisitor, CreateWalkIn, Decide, ScanVisitor,
     UpdateVisitor, CancelVisitor, ExtendVisitor, ManualCheckIn, ManualCheckOut, WritePass, ClockMoves

LEMMA MembersClock == MembersNext => ClockMoves
<1>1. \A i, u : CreateWorkspaceStaff(i, u) => UNCHANGED now
  BY RequestsAndClock DEF CreateWorkspaceStaff
<1>2. \A i, u : UpdateWorkspaceMember(i, u) => UNCHANGED now
  BY RequestsAndClock DEF UpdateWorkspaceMember
<1>3. \A i, u : RemoveWorkspaceMember(i, u) => UNCHANGED now
  BY RequestsAndClock DEF RemoveWorkspaceMember
<1>4. \A i : AssertManagerCapacity(i) \/ WriteMember(i) \/ DeleteMember(i) => UNCHANGED now
  BY RequestsAndClock DEF AssertManagerCapacity, WriteMember, DeleteMember
<1> QED  BY <1>1, <1>2, <1>3, <1>4, RequestsAndClock DEF MembersNext, MembersStep, ClockMoves

LEMMA CodesClock == ASSUME NEW i PROVE CodeStep(i) => ClockMoves
BY RequestsAndClock DEF CodeStep, IssueCode, ReadCode, BurnCode, MissCode, SpendCode, ClockMoves

LEMMA InvitesClock == InvitesNext => ClockMoves
BY RequestsAndClock, CodesClock DEF InvitesNext, InvitesStep, CreateTenantInvite, SendInvite,
     ResendTenantInvite, ExpireOpenInvites, InsertInvite, RevokeTenantInvite, WriteRevocation,
     BeginAcceptTenantInvite, SendCode, AcceptTenantInvite, GrantMembership, RemoveWorkspaceMember,
     DeleteMember, ClockMoves

LEMMA SessionsClock == SessionsNext => ClockMoves
BY RequestsAndClock, CodesClock DEF SessionsNext, SessionsStep, SyncUserPhone, CreateSession, SendLoginOtp,
     SendCode, VerifyLoginOtp, RegisterDevice, VerifyDevice, RefreshDevice, ForgetDevice, RemoveDevice,
     RevokeAllSessions, TouchUser, DeleteDevices, ConfirmRegistration, GetAuthenticationOptions,
     ConfirmAuthentication, VerifyAssertion, UpdateCounter, RemovePasskey, requestVars, ClockMoves

LEMMA LimitsClock == LimitsNext => ClockMoves
BY RequestsAndClock DEF LimitsNext, LimitsStep, EntitlementsGuard, CountUsage, ComputeAndCache,
     AssertPlanLimit, CreateRow, DeleteRow, CacheBust, requestVars, ClockMoves

LEMMA PanelClock == PanelNext => ClockMoves
BY RequestsAndClock DEF PanelNext, PanelStep, LogInRead, CreateLogIn, VerifyAdminOtp, MarkVerified, LogOut,
     RequestPasswordReset, DropLinks, CreateLink, ResetRead, ResetAdminPassword, CreateAdminUser,
     UpdateAdminUser, ReadExisting, WriteOperator, DropLogIns, CutShort, ClockMoves

LEMMA OwnersClock == OwnersNext => ClockMoves
BY RequestsAndClock DEF OwnersNext, SendOwnerEmailOtp, IssueOwnerCode, VerifyOwnerEmailOtp,
     ConsumeOwnerCode, ClockMoves

LEMMA ClockStep == ClockOK /\ [Next]_accessVars => ClockOK'
<1>1. Next => ClockMoves
  BY GateClock, MembersClock, InvitesClock, SessionsClock, LimitsClock, PanelClock, OwnersClock
     DEF Next, AtTheGate, AmongMembers, OfInvitations, OfSessions, UnderLimits, AtThePanel, OfOwners
<1>2. UNCHANGED accessVars => now' = now
  BY DEF accessVars, requestVars
<1> QED  BY <1>1, <1>2, MaxTimeNat DEF ClockOK, ClockMoves

LEMMA ClockRuns == Spec => []ClockOK
<1>1. Init => ClockOK
  BY MaxTimeNat DEF Init, RequestsInit, ClockOK
<1> QED  BY <1>1, ClockStep, PTL DEF Spec

(***************************************************************************)
(* Visitors.  What a request in flight writes, and what it has found of    *)
(* the pass; at a pass outside contested nobody else has moved it since.   *)
(***************************************************************************)

\* The columns each operation writes; the manual ones have their stamp yet to come.
GateWrite(op, w) ==
    \/ op = "scan" /\ w \in [status : {"EXPIRED"}]
    \/ op = "scan" /\ w \in [status : {"CHECKED_IN"}, in : 1..MaxTime]
    \/ op = "scan" /\ w \in [status : {"CHECKED_OUT"}, out : 1..MaxTime]
    \/ op \in {"update", "extend"} /\ w \in [until : PassUntil]
    \/ op = "cancel" /\ w \in [status : {"CANCELLED"}]
    \/ op = "checkIn" /\ w \in [status : {"CHECKED_IN"}]
    \/ op = "checkOut" /\ w \in [status : {"CHECKED_OUT"}]

GateRequest(r) == r # Idle /\ r.pass \in Issued /\ r.rows = {r.pass} /\ GateWrite(r.op, r.write)

\* Whoever lets a visitor in has found the pass unused, whoever lets him out has found
\* him inside; a scan has taken its stamp by then.
GateFound(r, v) ==
    /\ r.op \in {"scan", "checkIn"} /\ r.write.status = "CHECKED_IN" => v.status = "EXPECTED"
    /\ r.op \in {"scan", "checkOut"} /\ r.write.status = "CHECKED_OUT" => v.status = "CHECKED_IN"
    /\ r.op = "scan" /\ r.write.status = "CHECKED_IN" => r.write.in <= now
    /\ r.op = "scan" /\ r.write.status = "CHECKED_OUT" => v.in <= r.write.out /\ r.write.out <= now

VisitRecorded(v) ==
    /\ v.in <= now /\ v.out <= now
    /\ v.status = "EXPECTED" => v.in = Never /\ v.out = Never
    /\ v.status = "CHECKED_IN" => v.in # Never /\ v.out = Never
    /\ v.status = "CHECKED_OUT" => v.in # Never /\ v.out # Never
    /\ v.out # Never => v.in # Never /\ v.in <= v.out

VisitorsInv ==
    /\ VisitorsTypeOK
    /\ pass = [p \in Passes |-> pass[p]]
    /\ req = [i \in Slots |-> req[i]]
    /\ \A i \in Slots : req[i] = Idle \/ GateRequest(req[i])
    /\ \A p \in Passes \ contested : AloneAt(p)
    /\ \A i \in Slots : req[i] # Idle /\ req[i].pass \notin contested
          => GateFound(req[i], pass[req[i].pass])
    /\ \A p \in Issued \ contested : VisitRecorded(pass[p])

VisitorsKept ==
    /\ desk = "visitors" => VisitorsInv
    /\ desk # "visitors" => pass = [p \in Passes |-> NoPass]

-----------------------------------------------------------------------------

LEMMA IdleWrites == Idle.op = "idle" /\ NoPass \notin PassRow
BY DEF Idle, NoPass, PassRow


PassColumns == {"status", "from", "until", "in", "out"}

\* An update of some columns of a pass.
LEMMA PassUpdate ==
    ASSUME NEW v \in PassRow, NEW w, DOMAIN w \subseteq PassColumns,
           "status" \in DOMAIN w => w.status \in {"EXPECTED", "CHECKED_IN", "CHECKED_OUT", "CANCELLED", "EXPIRED"},
           "until" \in DOMAIN w => w.until \in PassUntil \cup Never..(MaxTime + WalkInStay),
           "from" \notin DOMAIN w,
           "in" \in DOMAIN w => w.in \in Stamps,
           "out" \in DOMAIN w => w.out \in Stamps
    PROVE  /\ Written(w, v) \in PassRow
           /\ Written(w, v).status = IF "status" \in DOMAIN w THEN w.status ELSE v.status
           /\ Written(w, v).in = IF "in" \in DOMAIN w THEN w.in ELSE v.in
           /\ Written(w, v).out = IF "out" \in DOMAIN w THEN w.out ELSE v.out
<1> DEFINE S == {"EXPECTED", "CHECKED_IN", "CHECKED_OUT", "CANCELLED", "EXPIRED"}
           U == PassUntil \cup Never..(MaxTime + WalkInStay)
           F == PassFrom \cup Stamps
<1>1. v \in [status : S, from : F, until : U, in : Stamps, out : Stamps]
  BY DEF PassRow
<1> HIDE DEF S, U, F
<1>2. Written(w, v) \in [status : S, from : F, until : U, in : Stamps, out : Stamps]
  BY <1>1 DEF Written, PassColumns, S, U
<1>3. Written(w, v) \in PassRow
  BY <1>2 DEF PassRow, S, U, F
<1> QED  BY <1>1, <1>3 DEF Written, PassColumns

\* The stamp a write takes when it is made.
GateStamp(op) == CASE op = "checkIn" -> [in |-> now]
                   [] op = "checkOut" -> [out |-> now]
                   [] OTHER -> <<>>

WrittenPass(r, v) == Written(GateStamp(r.op), Written(r.write, v))

LEMMA StampColumns ==
    ASSUME NEW op
    PROVE  /\ op = "checkIn" => GateStamp(op) = [in |-> now]
           /\ op = "checkOut" => GateStamp(op) = [out |-> now]
           /\ op \in {"scan", "update", "extend", "cancel"} => GateStamp(op) = <<>>
BY DEF GateStamp

\* What the row is after the write of each operation.
LEMMA PassAfter ==
    ASSUME NEW r, NEW v \in PassRow, ClockOK, GateWrite(r.op, r.write)
    PROVE  /\ WrittenPass(r, v) \in PassRow
           /\ WrittenPass(r, v).status = IF r.op \in {"update", "extend"} THEN v.status ELSE r.write.status
           /\ WrittenPass(r, v).in = IF r.op = "checkIn" THEN now
                                     ELSE IF r.op = "scan" /\ r.write.status = "CHECKED_IN" THEN r.write.in
                                     ELSE v.in
           /\ WrittenPass(r, v).out = IF r.op = "checkOut" THEN now
                                      ELSE IF r.op = "scan" /\ r.write.status = "CHECKED_OUT" THEN r.write.out
                                      ELSE v.out
<1> DEFINE mid == Written(r.write, v)
           w == Written(GateStamp(r.op), mid)
           S == {"EXPECTED", "CHECKED_IN", "CHECKED_OUT", "CANCELLED", "EXPIRED"}
<1>1. now \in Stamps /\ 1..MaxTime \subseteq Stamps
  BY MaxTimeNat DEF ClockOK, Stamps, Never
<1>2. /\ DOMAIN r.write \subseteq PassColumns /\ "from" \notin DOMAIN r.write
      /\ "status" \in DOMAIN r.write => r.write.status \in S
      /\ "until" \in DOMAIN r.write => r.write.until \in PassUntil \cup Never..(MaxTime + WalkInStay)
      /\ "in" \in DOMAIN r.write => r.write.in \in Stamps
      /\ "out" \in DOMAIN r.write => r.write.out \in Stamps
      /\ "status" \in DOMAIN r.write <=> r.op \notin {"update", "extend"}
      /\ "in" \in DOMAIN r.write <=> r.op = "scan" /\ r.write.status = "CHECKED_IN"
      /\ "out" \in DOMAIN r.write <=> r.op = "scan" /\ r.write.status = "CHECKED_OUT"
  BY <1>1 DEF GateWrite, PassColumns
<1>3. /\ mid \in PassRow
      /\ mid.status = IF r.op \in {"update", "extend"} THEN v.status ELSE r.write.status
      /\ mid.in = IF r.op = "scan" /\ r.write.status = "CHECKED_IN" THEN r.write.in ELSE v.in
      /\ mid.out = IF r.op = "scan" /\ r.write.status = "CHECKED_OUT" THEN r.write.out ELSE v.out
  BY <1>2, PassUpdate
<1> HIDE DEF mid
<1>4. CASE r.op = "checkIn"
  <2>1. GateStamp(r.op) = [in |-> now]
    BY <1>4, StampColumns
  <2>2. DOMAIN GateStamp(r.op) = {"in"} /\ GateStamp(r.op).in = now
    BY <2>1
  <2>3. w \in PassRow /\ w.status = mid.status /\ w.in = now /\ w.out = mid.out
    BY <1>1, <1>3, <2>2, PassUpdate DEF PassColumns
  <2> QED  BY <1>3, <1>4, <2>3 DEF WrittenPass, mid
<1>5. CASE r.op = "checkOut"
  <2>1. GateStamp(r.op) = [out |-> now]
    BY <1>5, StampColumns
  <2>2. DOMAIN GateStamp(r.op) = {"out"} /\ GateStamp(r.op).out = now
    BY <2>1
  <2>3. w \in PassRow /\ w.status = mid.status /\ w.in = mid.in /\ w.out = now
    BY <1>1, <1>3, <2>2, PassUpdate DEF PassColumns
  <2> QED  BY <1>3, <1>5, <2>3 DEF WrittenPass, mid
<1>6. CASE r.op \notin {"checkIn", "checkOut"}
  <2>1. GateStamp(r.op) = <<>>
    BY <1>6, StampColumns DEF GateWrite
  <2>2. DOMAIN GateStamp(r.op) = {}
    BY <2>1
  <2>3. w \in PassRow /\ w.status = mid.status /\ w.in = mid.in /\ w.out = mid.out
    BY <1>3, <2>2, PassUpdate DEF PassColumns
  <2> QED  BY <1>3, <1>6, <2>3 DEF WrittenPass, mid
<1> QED  BY <1>4, <1>5, <1>6

\* A write that has found the pass as it is keeps the visit in order.
LEMMA VisitGoesOn ==
    ASSUME NEW r, NEW v \in PassRow, ClockOK, GateWrite(r.op, r.write), GateFound(r, v), VisitRecorded(v)
    PROVE  /\ VisitRecorded(WrittenPass(r, v))
           /\ v.status \in {"CHECKED_OUT", "CANCELLED", "EXPIRED"}
                 => WrittenPass(r, v).status \notin {"EXPECTED", "CHECKED_IN"}
<1> DEFINE w == WrittenPass(r, v)
<1>1. /\ w.status = IF r.op \in {"update", "extend"} THEN v.status ELSE r.write.status
      /\ w.in = IF r.op = "checkIn" THEN now
                ELSE IF r.op = "scan" /\ r.write.status = "CHECKED_IN" THEN r.write.in ELSE v.in
      /\ w.out = IF r.op = "checkOut" THEN now
                 ELSE IF r.op = "scan" /\ r.write.status = "CHECKED_OUT" THEN r.write.out ELSE v.out
  BY PassAfter
<1> HIDE DEF w
<1>2. v.in \in Nat /\ v.out \in Nat /\ now \in Nat /\ now # 0
  <2>1. Stamps \subseteq Nat
    BY MaxTimeNat DEF Stamps, Never
  <2>2. v.in \in Stamps /\ v.out \in Stamps
    BY DEF PassRow
  <2>3. now \in Nat /\ now # 0
    BY MaxTimeNat DEF ClockOK
  <2> QED  BY <2>1, <2>2, <2>3
<1>3. CASE r.op = "scan" /\ r.write \in [status : {"EXPIRED"}]
  <2>1. w.status = "EXPIRED" /\ w.in = v.in /\ w.out = v.out
    BY <1>1, <1>3
  <2> QED  BY <2>1 DEF VisitRecorded, w
<1>4. CASE r.op = "scan" /\ r.write \in [status : {"CHECKED_IN"}, in : 1..MaxTime]
  <2>1. /\ w.status = "CHECKED_IN" /\ w.in = r.write.in /\ w.out = v.out /\ r.write.in <= now
        /\ r.write.in \in Nat /\ r.write.in # 0 /\ v.status = "EXPECTED"
    BY <1>1, <1>4, MaxTimeNat DEF GateFound
  <2> QED  BY <2>1 DEF VisitRecorded, w, Never
<1>5. CASE r.op = "scan" /\ r.write \in [status : {"CHECKED_OUT"}, out : 1..MaxTime]
  <2>1. /\ w.status = "CHECKED_OUT" /\ w.in = v.in /\ w.out = r.write.out /\ r.write.out <= now
        /\ r.write.out \in Nat /\ r.write.out # 0 /\ v.status = "CHECKED_IN" /\ v.in <= r.write.out
    BY <1>1, <1>5, MaxTimeNat DEF GateFound
  <2> QED  BY <2>1 DEF VisitRecorded, w, Never
<1>6. CASE r.op \in {"update", "extend"}
  <2>1. w.status = v.status /\ w.in = v.in /\ w.out = v.out
    BY <1>1, <1>6
  <2> QED  BY <2>1 DEF VisitRecorded, w
<1>7. CASE r.op = "cancel" /\ r.write \in [status : {"CANCELLED"}]
  <2>1. w.status = "CANCELLED" /\ w.in = v.in /\ w.out = v.out
    BY <1>1, <1>7
  <2> QED  BY <2>1 DEF VisitRecorded, w
<1>8. CASE r.op = "checkIn" /\ r.write \in [status : {"CHECKED_IN"}]
  <2>1. w.status = "CHECKED_IN" /\ w.in = now /\ w.out = v.out /\ v.status = "EXPECTED"
    BY <1>1, <1>8 DEF GateFound
  <2> QED  BY <1>2, <2>1 DEF VisitRecorded, w, Never
<1>9. CASE r.op = "checkOut" /\ r.write \in [status : {"CHECKED_OUT"}]
  <2>1. w.status = "CHECKED_OUT" /\ w.in = v.in /\ w.out = now /\ v.status = "CHECKED_IN"
    BY <1>1, <1>9 DEF GateFound
  <2> QED  BY <1>2, <2>1 DEF VisitRecorded, w, Never
<1> QED  BY <1>3, <1>4, <1>5, <1>6, <1>7, <1>8, <1>9 DEF GateWrite

\* A request begins at a pass, with what it has found of it; the passes stay as they are.
LEMMA GateBegins ==
    ASSUME VisitorsInv, UNCHANGED pass, NEW i \in Slots, NEW p \in Issued, NEW op, NEW w,
           Begin(i, [rows |-> {p}, op |-> op, pass |-> p, write |-> w]), GateWrite(op, w),
           p \notin contested
              => GateFound([rows |-> {p}, op |-> op, pass |-> p, write |-> w], pass[p])
    PROVE  VisitorsInv'
<1> DEFINE r == [rows |-> {p}, op |-> op, pass |-> p, write |-> w]
<1>1. /\ r.rows = {p} /\ r.pass = p /\ GateWrite(r.op, r.write) /\ Begin(i, r) /\ r # Idle
      /\ p \notin contested => GateFound(r, pass[p])
  <2>1. r.op = op /\ r.write = w /\ op # "idle"
    BY DEF GateWrite
  <2> QED  BY <2>1, IdleWrites
<1> HIDE DEF r
<1>2. /\ req'[i] = r /\ req' = [j \in Slots |-> req'[j]] /\ \A j \in Slots : j # i => req'[j] = req[j]
      /\ contested \subseteq contested'
      /\ \A row : AloneAt(row) /\ row \notin contested' => AloneAt(row)'
  BY <1>1, BeginAlone DEF VisitorsInv
<1>3. now' = now /\ Issued' = Issued
  BY <1>1 DEF Begin, Issued
<1>4. \A x, v : /\ GateFound(x, v)' <=> GateFound(x, v)
                /\ VisitRecorded(v)' <=> VisitRecorded(v)
                /\ GateRequest(x)' <=> GateRequest(x)
  BY <1>3 DEF GateFound, VisitRecorded, GateRequest, GateWrite
<1>5. (\A j \in Slots : req[j] = Idle \/ GateRequest(req[j]))'
  <2>1. GateRequest(r)
    BY <1>1 DEF GateRequest
  <2> QED  BY <1>2, <1>4, <2>1 DEF VisitorsInv
<1>6. \A x \in Passes \ contested' : AloneAt(x)'
  BY <1>2 DEF VisitorsInv
<1>7. (\A j \in Slots : req[j] # Idle /\ req[j].pass \notin contested
          => GateFound(req[j], pass[req[j].pass]))'
  BY <1>1, <1>2, <1>4 DEF VisitorsInv
<1>8. (\A x \in Issued \ contested : VisitRecorded(pass[x]))'
  BY <1>2, <1>3, <1>4 DEF VisitorsInv
<1> QED  BY <1>2, <1>5, <1>6, <1>7, <1>8 DEF VisitorsInv, VisitorsTypeOK

\* Each operation at the gate writes what it may, and has found what it needs.
LEMMA GateOperations ==
    ASSUME VisitorsInv, ClockOK, NEW i \in Slots, NEW p \in Issued,
           \/ ScanVisitor(i, p) \/ UpdateVisitor(i, p) \/ CancelVisitor(i, p)
           \/ ExtendVisitor(i, p) \/ ManualCheckIn(i, p) \/ ManualCheckOut(i, p)
    PROVE  VisitorsInv'
<1>1. p \notin contested => pass[p].in <= now
  BY DEF VisitorsInv, Issued, VisitRecorded
<1>2. now \in 1..MaxTime /\ now <= now
  BY MaxTimeNat DEF ClockOK
<1>3. SUFFICES ASSUME NEW op, NEW w, Decide(i, p, op, w), GateWrite(op, w),
                      op \in {"scan", "checkIn"} /\ w.status = "CHECKED_IN" => pass[p].status = "EXPECTED",
                      op \in {"scan", "checkOut"} /\ w.status = "CHECKED_OUT" => pass[p].status = "CHECKED_IN",
                      op = "scan" /\ w.status = "CHECKED_IN" => w.in = now,
                      op = "scan" /\ w.status = "CHECKED_OUT" => w.out = now
               PROVE  VisitorsInv'
  <2>1. CASE ScanVisitor(i, p)
    <3>1. CASE Decide(i, p, "scan", [status |-> "EXPIRED"])
      <4> DEFINE w == [status |-> "EXPIRED"]
      <4>1. w \in [status : {"EXPIRED"}] /\ w.status = "EXPIRED" /\ Decide(i, p, "scan", w)
        BY <3>1
      <4> HIDE DEF w
      <4> QED  BY <1>3, <4>1 DEF GateWrite
    <3>2. CASE Decide(i, p, "scan", [status |-> "CHECKED_IN", in |-> now]) /\ pass[p].status = "EXPECTED"
      <4> DEFINE w == [status |-> "CHECKED_IN", in |-> now]
      <4>1. /\ w \in [status : {"CHECKED_IN"}, in : 1..MaxTime] /\ w.status = "CHECKED_IN" /\ w.in = now
            /\ Decide(i, p, "scan", w)
        BY <1>2, <3>2
      <4> HIDE DEF w
      <4> QED  BY <1>3, <3>2, <4>1 DEF GateWrite
    <3>3. CASE Decide(i, p, "scan", [status |-> "CHECKED_OUT", out |-> now]) /\ pass[p].status = "CHECKED_IN"
      <4> DEFINE w == [status |-> "CHECKED_OUT", out |-> now]
      <4>1. /\ w \in [status : {"CHECKED_OUT"}, out : 1..MaxTime] /\ w.status = "CHECKED_OUT" /\ w.out = now
            /\ Decide(i, p, "scan", w)
        BY <1>2, <3>3
      <4> HIDE DEF w
      <4> QED  BY <1>3, <3>3, <4>1 DEF GateWrite
    <3> QED  BY <2>1, <3>1, <3>2, <3>3 DEF ScanVisitor
  <2>2. ASSUME NEW op \in {"update", "extend"}, NEW u \in PassUntil, Decide(i, p, op, [until |-> u])
        PROVE  VisitorsInv'
    <3> DEFINE w == [until |-> u]
    <3>1. w \in [until : PassUntil] /\ Decide(i, p, op, w)
      BY <2>2
    <3> HIDE DEF w
    <3> QED  BY <1>3, <3>1 DEF GateWrite
  <2>3. CASE CancelVisitor(i, p)
    <3> DEFINE w == [status |-> "CANCELLED"]
    <3>1. w \in [status : {"CANCELLED"}] /\ Decide(i, p, "cancel", w)
      BY <2>3 DEF CancelVisitor
    <3> HIDE DEF w
    <3> QED  BY <1>3, <3>1 DEF GateWrite
  <2>4. CASE ManualCheckIn(i, p)
    <3> DEFINE w == [status |-> "CHECKED_IN"]
    <3>1. w \in [status : {"CHECKED_IN"}] /\ w.status = "CHECKED_IN" /\ Decide(i, p, "checkIn", w)
      BY <2>4 DEF ManualCheckIn
    <3> HIDE DEF w
    <3> QED  BY <1>3, <2>4, <3>1 DEF GateWrite, ManualCheckIn
  <2>5. CASE ManualCheckOut(i, p)
    <3> DEFINE w == [status |-> "CHECKED_OUT"]
    <3>1. w \in [status : {"CHECKED_OUT"}] /\ w.status = "CHECKED_OUT" /\ Decide(i, p, "checkOut", w)
      BY <2>5 DEF ManualCheckOut
    <3> HIDE DEF w
    <3> QED  BY <1>3, <2>5, <3>1 DEF GateWrite, ManualCheckOut
  <2>6. CASE UpdateVisitor(i, p) \/ ExtendVisitor(i, p)
    BY <2>2, <2>6 DEF UpdateVisitor, ExtendVisitor
  <2> QED  BY <2>1, <2>3, <2>4, <2>5, <2>6
<1> DEFINE r == [rows |-> {p}, op |-> op, pass |-> p, write |-> w]
<1>4. r.op = op /\ r.write = w /\ Begin(i, r) /\ UNCHANGED pass
  BY <1>3 DEF Decide
<1>5. p \notin contested => GateFound(r, pass[p])
  <2> HIDE DEF r
  <2> QED  BY <1>1, <1>2, <1>3, <1>4 DEF GateFound
<1> QED  BY <1>3, <1>4, <1>5, GateBegins

\* The row is written by id; nobody else is at it, or it is contested.
LEMMA PassWritten ==
    ASSUME VisitorsInv, ClockOK, NEW i \in Slots, WritePass(i)
    PROVE  /\ VisitorsInv'
           /\ \A p \in Issued \ contested' :
                 pass[p].status \in {"CHECKED_OUT", "CANCELLED", "EXPIRED"}
                    => pass'[p].status \notin {"EXPECTED", "CHECKED_IN"}
<1> DEFINE r == req[i]
           p == r.pass
           w == WrittenPass(r, pass[p])
<1>1. /\ r # Idle /\ Proceed(i, Idle) /\ pass' = [pass EXCEPT ![p] = w] /\ GateRequest(r)
      /\ p \in Issued /\ p \in Passes /\ pass[p] \in PassRow /\ r.rows = {p} /\ GateWrite(r.op, r.write)
  BY DEF WritePass, WrittenPass, GateStamp, End, VisitorsInv, VisitorsTypeOK, GateRequest, Issued
<1> HIDE DEF w
<1>2. /\ req'[i] = Idle /\ req' = [j \in Slots |-> req'[j]] /\ contested' = contested /\ now' = now
      /\ \A j \in Slots : j # i => req'[j] = req[j]
      /\ \A row : AloneAt(row) => AloneAt(row)'
  BY <1>1, ProceedAlone DEF VisitorsInv, Proceed
<1>3. /\ pass'[p] = w /\ w \in PassRow /\ pass' = [x \in Passes |-> pass'[x]]
      /\ \A x \in Passes : x # p => pass'[x] = pass[x]
  BY <1>1, PassAfter DEF VisitorsInv, w
<1>4. Issued' = Issued
  BY <1>1, <1>3, IdleWrites DEF Issued
<1>5. \A x, v : /\ GateFound(x, v)' <=> GateFound(x, v)
                /\ VisitRecorded(v)' <=> VisitRecorded(v)
                /\ GateRequest(x)' <=> GateRequest(x)
  BY <1>2, <1>4 DEF GateFound, VisitRecorded, GateRequest, GateWrite
<1>6. p \notin contested =>
        /\ VisitRecorded(w)
        /\ pass[p].status \in {"CHECKED_OUT", "CANCELLED", "EXPIRED"}
              => w.status \notin {"EXPECTED", "CHECKED_IN"}
  BY <1>1, VisitGoesOn DEF VisitorsInv, w
<1>7. (\A j \in Slots : req[j] = Idle \/ GateRequest(req[j]))'
  BY <1>2, <1>5 DEF VisitorsInv
<1>8. \A x \in Passes \ contested' : AloneAt(x)'
  BY <1>2 DEF VisitorsInv
<1>9. (\A j \in Slots : req[j] # Idle /\ req[j].pass \notin contested
          => GateFound(req[j], pass[req[j].pass]))'
  <2> SUFFICES ASSUME NEW j \in Slots, j # i, req[j] # Idle, req[j].pass \notin contested
               PROVE  GateFound(req[j], pass'[req[j].pass])
    BY <1>2, <1>5
  <2>1. GateRequest(req[j]) /\ GateFound(req[j], pass[req[j].pass])
    BY DEF VisitorsInv
  <2>2. req[j].pass \in Passes /\ req[j].pass \in req[j].rows
    BY <2>1 DEF GateRequest, Issued
  <2>3. req[j].pass # p
    BY <1>1, <2>2, AtRow DEF VisitorsInv, AloneAt
  <2> QED  BY <1>3, <2>1, <2>2, <2>3
<1>10. (\A x \in Issued \ contested : VisitRecorded(pass[x]))'
  <2> SUFFICES ASSUME NEW x \in Issued \ contested PROVE VisitRecorded(pass'[x])
    BY <1>2, <1>4, <1>5
  <2> QED  BY <1>3, <1>6 DEF VisitorsInv, Issued
<1>11. VisitorsTypeOK'
  BY <1>3 DEF VisitorsInv, VisitorsTypeOK
<1>12. VisitorsInv'
  BY <1>2, <1>3, <1>7, <1>8, <1>9, <1>10, <1>11 DEF VisitorsInv
<1>13. \A x \in Issued \ contested' :
          pass[x].status \in {"CHECKED_OUT", "CANCELLED", "EXPIRED"}
             => pass'[x].status \notin {"EXPECTED", "CHECKED_IN"}
  BY <1>2, <1>3, <1>6 DEF Issued
<1> QED  BY <1>12, <1>13

\* A pass nobody can be at yet.
LEMMA PassCreated ==
    ASSUME VisitorsInv, ClockOK, NEW p \in Passes, CreateVisitor(p) \/ CreateWalkIn(p)
    PROVE  VisitorsInv' /\ \A x \in Issued : pass'[x] = pass[x]
<1>1. /\ p \notin Issued /\ UNCHANGED <<req, now>> /\ contested \subseteq contested'
  BY MeetContests DEF CreateVisitor, CreateWalkIn, Once
<1>2. now \in Nat /\ now \in Stamps /\ now # 0 /\ Never \in Stamps /\ now + WalkInStay \in Never..(MaxTime + WalkInStay)
  BY MaxTimeNat, WalkInStayNat DEF ClockOK, Stamps, Never
<1>3. \E v \in PassRow : pass' = [pass EXCEPT ![p] = v] /\ VisitRecorded(v)
  <2>1. ASSUME NEW f \in PassFrom, NEW u \in PassUntil,
               pass' = [pass EXCEPT ![p] = [status |-> "EXPECTED", from |-> f, until |-> u,
                                            in |-> Never, out |-> Never]]
        PROVE  \E v \in PassRow : pass' = [pass EXCEPT ![p] = v] /\ VisitRecorded(v)
    <3> DEFINE v == [status |-> "EXPECTED", from |-> f, until |-> u, in |-> Never, out |-> Never]
    <3>1. v \in PassRow
      BY <1>2 DEF PassRow
    <3>2. VisitRecorded(v)
      BY <1>2 DEF VisitRecorded, Never
    <3> QED  BY <2>1, <3>1, <3>2
  <2>2. CASE CreateVisitor(p)
    BY <2>1, <2>2 DEF CreateVisitor
  <2>3. CASE CreateWalkIn(p)
    <3> DEFINE v == [status |-> "CHECKED_IN", from |-> now, until |-> now + WalkInStay,
                     in |-> now, out |-> Never]
    <3>1. v \in PassRow
      BY <1>2 DEF PassRow
    <3>2. VisitRecorded(v)
      BY <1>2 DEF VisitRecorded, Never
    <3> QED  BY <2>3, <3>1, <3>2 DEF CreateWalkIn
  <2> QED  BY <2>2, <2>3
<1>4. PICK v \in PassRow : pass' = [pass EXCEPT ![p] = v] /\ VisitRecorded(v)
  BY <1>3
<1>5. /\ pass'[p] = v /\ pass' = [x \in Passes |-> pass'[x]]
      /\ \A x \in Passes : x # p => pass'[x] = pass[x]
  BY <1>4 DEF VisitorsInv
<1>6. Issued' = Issued \cup {p}
  BY <1>5, IdleWrites DEF Issued
<1>7. VisitorsTypeOK'
  BY <1>5 DEF VisitorsInv, VisitorsTypeOK
<1>8. \A x, y : /\ GateFound(x, y)' <=> GateFound(x, y)
                /\ VisitRecorded(y)' <=> VisitRecorded(y)
                /\ GateRequest(x) => GateRequest(x)'
  BY <1>1, <1>6 DEF GateFound, VisitRecorded, GateRequest, GateWrite
<1>9. (\A j \in Slots : req[j] = Idle \/ GateRequest(req[j]))'
  BY <1>1, <1>8 DEF VisitorsInv
<1>10. \A x \in Passes \ contested' : AloneAt(x)'
  BY <1>1 DEF VisitorsInv, AloneAt, InFlight
<1>11. (\A j \in Slots : req[j] # Idle /\ req[j].pass \notin contested
          => GateFound(req[j], pass[req[j].pass]))'
  <2> SUFFICES ASSUME NEW j \in Slots, req[j] # Idle, req[j].pass \notin contested
               PROVE  GateFound(req[j], pass'[req[j].pass])
    BY <1>1, <1>8
  <2>1. req[j].pass \in Issued /\ GateFound(req[j], pass[req[j].pass])
    BY DEF VisitorsInv, GateRequest
  <2> QED  BY <1>1, <1>5, <2>1 DEF Issued
<1>12. (\A x \in Issued \ contested : VisitRecorded(pass[x]))'
  <2> SUFFICES ASSUME NEW x \in Issued \cup {p}, x \notin contested PROVE VisitRecorded(pass'[x])
    BY <1>1, <1>6, <1>8
  <2> QED  BY <1>4, <1>5 DEF VisitorsInv, Issued
<1> QED  BY <1>1, <1>5, <1>7, <1>9, <1>10, <1>11, <1>12 DEF VisitorsInv, Issued

\* The clock goes on and requests are cut short.
LEMMA GateStutters ==
    ASSUME VisitorsInv, ClockOK, UNCHANGED <<pass, contested>>, now' = now \/ now' = now + 1,
           \/ req' = req
           \/ \E i \in Slots : req[i] # Idle /\ Proceed(i, Idle)
    PROVE  VisitorsInv'
<1>1. /\ req' = [j \in Slots |-> req'[j]]
      /\ \A j \in Slots : req'[j] = req[j] \/ req'[j] = Idle
      /\ \A row : AloneAt(row) => AloneAt(row)'
  <2>1. CASE req' = req
    BY <2>1 DEF VisitorsInv, AloneAt, InFlight
  <2>2. ASSUME NEW i \in Slots, req[i] # Idle, Proceed(i, Idle)
        PROVE  /\ req' = [j \in Slots |-> req'[j]]
               /\ \A j \in Slots : req'[j] = req[j] \/ req'[j] = Idle
               /\ \A row : AloneAt(row) => AloneAt(row)'
    BY <2>2, ProceedAlone DEF VisitorsInv
  <2> QED  BY <2>1, <2>2
<1>2. now \in Nat /\ now' \in Nat /\ now <= now'
  BY MaxTimeNat DEF ClockOK
<1>3. \A v \in PassRow : v.in \in Nat /\ v.out \in Nat
  BY MaxTimeNat DEF PassRow, Stamps, Never
<1>4. \A w : w \in [status : {"CHECKED_IN"}, in : 1..MaxTime] => w.in \in Nat
  BY MaxTimeNat
<1>5. \A w : w \in [status : {"CHECKED_OUT"}, out : 1..MaxTime] => w.out \in Nat
  BY MaxTimeNat
<1>6. Issued' = Issued /\ \A p \in Issued : pass[p] \in PassRow
  BY DEF Issued, VisitorsInv, VisitorsTypeOK
<1>7. ASSUME NEW r, NEW v \in PassRow, GateFound(r, v), GateWrite(r.op, r.write) PROVE GateFound(r, v)'
  <2>1. r.op = "scan" /\ r.write.status = "CHECKED_IN" => r.write.in \in Nat
    BY <1>4, <1>7 DEF GateWrite
  <2>2. r.op = "scan" /\ r.write.status = "CHECKED_OUT" => r.write.out \in Nat
    BY <1>5, <1>7 DEF GateWrite
  <2> QED  BY <1>2, <1>3, <1>7, <2>1, <2>2 DEF GateFound
<1>8. (\A j \in Slots : req[j] = Idle \/ GateRequest(req[j]))'
  BY <1>1, <1>6 DEF VisitorsInv, GateRequest, GateWrite
<1>9. \A x \in Passes \ contested' : AloneAt(x)'
  BY <1>1 DEF VisitorsInv
<1>10. (\A j \in Slots : req[j] # Idle /\ req[j].pass \notin contested
          => GateFound(req[j], pass[req[j].pass]))'
  <2> SUFFICES ASSUME NEW j \in Slots, req'[j] # Idle, req'[j].pass \notin contested'
               PROVE  GateFound(req[j], pass[req[j].pass])'
    OBVIOUS
  <2>1. req'[j] = req[j] /\ req[j] # Idle
    BY <1>1
  <2>2. /\ GateFound(req[j], pass[req[j].pass]) /\ GateWrite(req[j].op, req[j].write)
        /\ pass[req[j].pass] \in PassRow
    BY <1>6, <2>1 DEF VisitorsInv, GateRequest
  <2> QED  BY <1>7, <2>1, <2>2 DEF GateFound
<1>11. (\A x \in Issued \ contested : VisitRecorded(pass[x]))'
  BY <1>2, <1>3, <1>6 DEF VisitorsInv, VisitRecorded
<1> QED  BY <1>1, <1>8, <1>9, <1>10, <1>11 DEF VisitorsInv, VisitorsTypeOK

LEMMA VisitorsStepKeeps ==
    ASSUME VisitorsInv, ClockOK, VisitorsNext
    PROVE  /\ VisitorsInv'
           /\ \A p \in Issued \ contested' :
                 pass[p].status \in {"CHECKED_OUT", "CANCELLED", "EXPIRED"}
                    => pass'[p].status \notin {"EXPECTED", "CHECKED_IN"}
<1>1. ASSUME NEW p \in Passes, CreateVisitor(p) \/ CreateWalkIn(p)
      PROVE  VisitorsInv' /\ \A x \in Issued : pass'[x] = pass[x]
  BY <1>1, PassCreated
<1>2. ASSUME NEW i \in Slots, NEW p \in Issued,
             \/ ScanVisitor(i, p) \/ UpdateVisitor(i, p) \/ CancelVisitor(i, p)
             \/ ExtendVisitor(i, p) \/ ManualCheckIn(i, p) \/ ManualCheckOut(i, p)
      PROVE  VisitorsInv' /\ UNCHANGED pass
  <2>1. UNCHANGED pass
    BY <1>2 DEF ScanVisitor, UpdateVisitor, CancelVisitor, ExtendVisitor, ManualCheckIn,
                ManualCheckOut, Decide
  <2> QED  BY <1>2, <2>1, GateOperations
<1>3. ASSUME Tick \/ \E i \in Slots : Abort(i), UNCHANGED pass
      PROVE  VisitorsInv' /\ UNCHANGED pass
  <2>1. UNCHANGED contested /\ (now' = now \/ now' = now + 1)
    BY <1>3 DEF Tick, Abort, End, Proceed
  <2>2. req' = req \/ \E i \in Slots : req[i] # Idle /\ Proceed(i, Idle)
    BY <1>3 DEF Tick, Abort, End
  <2> QED  BY <1>3, <2>1, <2>2, GateStutters
<1>4. \A p \in Issued : pass[p].status \in {"CHECKED_OUT", "CANCELLED", "EXPIRED"} /\ pass'[p] = pass[p]
          => pass'[p].status \notin {"EXPECTED", "CHECKED_IN"}
  OBVIOUS
<1> QED  BY <1>1, <1>2, <1>3, <1>4, PassWritten DEF VisitorsNext, VisitorsStep

LEMMA VisitorsInitially == Init => VisitorsKept
<1> SUFFICES ASSUME Init PROVE VisitorsKept
  OBVIOUS
<1>1. pass = [p \in Passes |-> NoPass] /\ req = [i \in Slots |-> Idle]
  BY DEF Init, VisitorsInit, RequestsInit
<1> QED  BY <1>1 DEF VisitorsKept, VisitorsInv, VisitorsTypeOK, Issued, AloneAt, InFlight

\* At the other desks nobody has a pass.
LEMMA VisitorsStayKept == VisitorsKept /\ ClockOK /\ [Next]_accessVars => VisitorsKept'
<1> SUFFICES ASSUME VisitorsKept, ClockOK, [Next]_accessVars PROVE VisitorsKept'
  OBVIOUS
<1>1. CASE Next
  <2>1. desk' = desk /\ (desk = "visitors" => VisitorsNext) /\ (desk # "visitors" => UNCHANGED pass)
    BY <1>1 DEF Next, AtTheGate, AmongMembers, OfInvitations, OfSessions, UnderLimits, AtThePanel, OfOwners
  <2> QED  BY <2>1, VisitorsStepKeeps DEF VisitorsKept
<1>2. CASE UNCHANGED accessVars
  <2>1. UNCHANGED <<desk, req, contested, now, pass>>
    BY <1>2 DEF accessVars, requestVars
  <2> QED  BY <2>1, GateStutters DEF VisitorsKept
<1> QED  BY <1>1, <1>2

\* A pass that no two requests handle at once says who is inside, and since when: the way
\* out never comes before the way in, in whatever order scans, manual operations, edits
\* and cancellations read the pass and write it.
THEOREM VisitsAreRecorded == Spec => []VisitIsRecorded
<1>1. VisitorsKept => VisitIsRecorded
  <2>1. CASE desk = "visitors"
    BY <2>1 DEF VisitorsKept, VisitorsInv, VisitIsRecorded, VisitRecorded
  <2>2. CASE desk # "visitors"
    BY <2>2 DEF VisitorsKept, VisitIsRecorded, Issued
  <2> QED  BY <2>1, <2>2
<1> QED  BY <1>1, ClockRuns, VisitorsInitially, VisitorsStayKept, PTL DEF Spec

\* What has let its visitor in and out, was cancelled or has expired lets nobody in again.
THEOREM EndedPassesStayEnded == Spec => EndedPassLetsNobodyIn
<1>1. VisitorsKept /\ ClockOK /\ [Next]_accessVars =>
        [\A p \in Issued \ contested' :
          pass[p].status \in {"CHECKED_OUT", "CANCELLED", "EXPIRED"}
            => pass'[p].status \notin {"EXPECTED", "CHECKED_IN"}]_pass
  <2> SUFFICES ASSUME VisitorsKept, ClockOK, [Next]_accessVars, pass' # pass
               PROVE  \A p \in Issued \ contested' :
                        pass[p].status \in {"CHECKED_OUT", "CANCELLED", "EXPIRED"}
                          => pass'[p].status \notin {"EXPECTED", "CHECKED_IN"}
    OBVIOUS
  <2>1. desk = "visitors" /\ VisitorsNext
    BY DEF Next, AtTheGate, AmongMembers, OfInvitations, OfSessions, UnderLimits, AtThePanel, OfOwners,
           accessVars
  <2> QED  BY <2>1, VisitorsStepKeeps DEF VisitorsKept
<1> QED  BY <1>1, ClockRuns, VisitorsInitially, VisitorsStayKept, PTL DEF Spec, EndedPassLetsNobodyIn

(***************************************************************************)
(* Members.  Only a request that has counted adds to the managers who were *)
(* counted; it holds the seats from the count to the write, so that no     *)
(* other does, if the seats are not contested.                             *)
(***************************************************************************)

CountedManagers == ActiveManagers \ unchecked

Counts == [role : Roles] \cup [role : Roles, active : BOOLEAN]

StaffRequest ==
    [op : {"staff"}, user : Users, step : {"count", "write"}, rows : SUBSET (Users \cup {SeatRow}),
     write : [role : Roles, active : BOOLEAN]]

UpdateRequest ==
    [op : {"update"}, user : Users, id : Nat, step : {"count", "write"},
     rows : SUBSET (Users \cup {SeatRow}), write : Counts]

RemoveRequest ==
    [op : {"remove"}, user : Users, id : Nat, step : {"write"}, rows : {{u} : u \in Users}]

MemberRow == [id : 0..MaxRows, role : Roles \cup {"none"}, active : BOOLEAN]

\* Whoever has counted the seats has found one, and it is still free.
SeatFound(i) ==
    req[i] # Idle /\ SeatRow \in req[i].rows /\ req[i].step = "write" /\ SeatRow \notin contested
        => Cardinality(CountedManagers) < Seats

SeatsInv ==
    /\ MembersTypeOK
    /\ req \in [Slots -> {Idle} \cup StaffRequest \cup UpdateRequest \cup RemoveRequest]
    /\ IsFiniteSet(ActiveManagers)
    /\ SeatRow \notin contested => AloneAt(SeatRow)
    /\ \A i \in Slots : SeatFound(i)
    /\ SeatsHold

\* At the other desks nobody joins; those who are invited nobody counts.
MembersKept ==
    /\ desk = "members" => SeatsInv
    /\ desk \notin {"members", "invites"} => MembersTypeOK /\ CountedManagers = {}

-----------------------------------------------------------------------------

LEMMA MemberRequests ==
    /\ Idle \notin StaffRequest \cup UpdateRequest \cup RemoveRequest
    /\ \A r \in RemoveRequest : SeatRow \notin r.rows
    /\ \A r \in StaffRequest : r.op = "staff"
    /\ \A r \in UpdateRequest : r.op = "update"
    /\ \A r \in RemoveRequest : r.op = "remove"
<1>1. Idle.op = "idle"
  BY DEF Idle
<1>2. /\ \A r \in StaffRequest : r.op = "staff"
      /\ \A r \in UpdateRequest : r.op = "update"
      /\ \A r \in RemoveRequest : r.op = "remove"
  BY DEF StaffRequest, UpdateRequest, RemoveRequest
<1>3. \A r \in RemoveRequest : SeatRow \notin r.rows
  BY SeatRowIsNoUser DEF RemoveRequest
<1> QED  BY <1>1, <1>2, <1>3

\* The managers counted for are among those there were, and those a count let in.
LEMMA MembersCounted ==
    ASSUME member = [x \in Users |-> member[x]], NEW u, NEW row, NEW counted \in BOOLEAN,
           member' = [member EXCEPT ![u] = row], unchecked' = Unchecked(u, row, counted)
    PROVE  /\ CountedManagers' \subseteq CountedManagers \cup (IF counted THEN {u} ELSE {})
           /\ ActiveManagers' \subseteq ActiveManagers \cup {u}
<1>1. \A x \in Users : member'[x] = IF x = u THEN row ELSE member[x]
  OBVIOUS
<1>2. ActiveManagers' = {x \in Users : member'[x].role = "MANAGER" /\ member'[x].active}
  BY DEF ActiveManagers
<1>3. \A x \in Users : x # u => (x \in ActiveManagers' <=> x \in ActiveManagers)
  BY <1>1 DEF ActiveManagers
<1>4. u \in ActiveManagers' => row.role = "MANAGER" /\ row.active
  BY <1>1, <1>2
<1>5. CASE row.role = "MANAGER" /\ row.active /\ u \in ActiveManagers
  <2>1. unchecked' = unchecked
    BY <1>5 DEF Unchecked
  <2> QED  BY <1>2, <1>3, <1>5, <2>1 DEF CountedManagers
<1>6. CASE row.role = "MANAGER" /\ row.active /\ u \notin ActiveManagers
  <2>1. unchecked' = IF counted THEN unchecked \ {u} ELSE unchecked \cup {u}
    BY <1>6 DEF Unchecked
  <2> QED  BY <1>2, <1>3, <1>6, <2>1 DEF CountedManagers
<1>7. CASE ~(row.role = "MANAGER" /\ row.active)
  <2>1. unchecked' = unchecked \ {u}
    BY <1>7 DEF Unchecked
  <2> QED  BY <1>2, <1>3, <1>4, <1>7, <2>1 DEF CountedManagers
<1> QED  BY <1>5, <1>6, <1>7

LEMMA MemberPut ==
    ASSUME MembersTypeOK, NEW u \in Users, NEW row \in MemberRow, NEW counted \in BOOLEAN,
           member' = [member EXCEPT ![u] = row], unchecked' = Unchecked(u, row, counted)
    PROVE  MembersTypeOK'
<1>1. member \in [Users -> MemberRow] /\ unchecked \subseteq Users
  BY DEF MembersTypeOK, MemberRow
<1>2. member' \in [Users -> MemberRow]
  BY <1>1
<1>3. unchecked' \subseteq Users
  BY <1>1 DEF Unchecked
<1> QED  BY <1>2, <1>3 DEF MembersTypeOK, MemberRow

LEMMA MemberDeleted ==
    ASSUME MembersTypeOK, NEW i \in Slots, DeleteMember(i)
    PROVE  /\ CountedManagers' \subseteq CountedManagers /\ ActiveManagers' \subseteq ActiveManagers
           /\ MembersTypeOK'
<1> DEFINE u == req[i].user
           row == [member[u] EXCEPT !.role = "none", !.active = FALSE]
<1>1. member' = [member EXCEPT ![u] = row] /\ unchecked' = unchecked \ {u}
  BY DEF DeleteMember
<1>2. u \in Users => row \in MemberRow /\ row.role = "none"
  <2>1. u \in Users => member[u] \in MemberRow
    BY DEF MembersTypeOK, MemberRow
  <2> QED  BY <2>1 DEF MemberRow
<1> HIDE DEF row, u
<1>3. \A x \in Users : member'[x] = IF x = u THEN row ELSE member[x]
  BY <1>1 DEF MembersTypeOK
<1>4. ActiveManagers' = {x \in Users : member'[x].role = "MANAGER" /\ member'[x].active}
  BY DEF ActiveManagers
<1>5. ActiveManagers' \subseteq ActiveManagers \ {u}
  BY <1>2, <1>3, <1>4 DEF ActiveManagers
<1>6. member' \in [Users -> MemberRow]
  BY <1>1, <1>2 DEF MembersTypeOK, MemberRow
<1> QED  BY <1>1, <1>5, <1>6 DEF CountedManagers, MembersTypeOK, MemberRow

\* An update writes the columns of a member.
LEMMA MemberUpdate ==
    ASSUME NEW v, v \in [id : Nat, role : Roles \cup {"none"}, active : BOOLEAN], NEW w \in Counts
    PROVE  /\ Written(w, v).id = v.id /\ Written(w, v).role = w.role
           /\ v.id \in 0..MaxRows => Written(w, v) \in MemberRow
<1> DEFINE R == Roles \cup {"none"}
           I == 0..MaxRows
<1>1. v \in [id : Nat, role : R, active : BOOLEAN] /\ DOMAIN w \subseteq {"role", "active"}
      /\ "role" \in DOMAIN w /\ w.role \in R /\ ("active" \in DOMAIN w => w.active \in BOOLEAN)
  BY DEF Counts
<1> HIDE DEF R, I
<1>2. v.id \in I => Written(w, v) \in [id : I, role : R, active : BOOLEAN]
  BY <1>1 DEF Written
<1>3. Written(w, v).id = v.id /\ Written(w, v).role = w.role
  BY <1>1 DEF Written
<1> QED  BY <1>2, <1>3 DEF MemberRow, R, I

\* A request begins to count the seats, or goes on when it has found one; the members
\* stay as they are.
LEMMA SeatMoves ==
    ASSUME SeatsInv, UNCHANGED memberVars, NEW i \in Slots, NEW r,
           \/ Begin(i, r)
           \/ req[i] # Idle /\ Proceed(i, r) /\ (r = Idle \/ r.rows \subseteq req[i].rows),
           r \in {Idle} \cup StaffRequest \cup UpdateRequest \cup RemoveRequest,
           r # Idle /\ SeatRow \in r.rows /\ r.step = "write" => Cardinality(CountedManagers) < Seats
    PROVE  SeatsInv'
<1>1. /\ req'[i] = r /\ req' = [j \in Slots |-> req'[j]]
      /\ \A j \in Slots : j # i => req'[j] = req[j]
      /\ contested \subseteq contested'
      /\ \A row : AloneAt(row) /\ row \notin contested' => AloneAt(row)'
  <2>1. req = [j \in Slots |-> req[j]]
    BY DEF SeatsInv
  <2>2. CASE Begin(i, r)
    BY <2>1, <2>2, BeginAlone
  <2>3. CASE req[i] # Idle /\ Proceed(i, r) /\ (r = Idle \/ r.rows \subseteq req[i].rows)
    BY <2>1, <2>3, ProceedAlone
  <2> QED  BY <2>2, <2>3
<1>2. ActiveManagers' = ActiveManagers /\ CountedManagers' = CountedManagers
  BY DEF memberVars, ActiveManagers, CountedManagers
<1>3. req' \in [Slots -> {Idle} \cup StaffRequest \cup UpdateRequest \cup RemoveRequest]
  BY <1>1 DEF SeatsInv
<1>4. ASSUME NEW j \in Slots PROVE SeatFound(j)'
  <2>1. CASE j = i
    BY <1>1, <1>2, <2>1 DEF SeatFound
  <2>2. CASE j # i
    BY <1>1, <1>2, <2>2 DEF SeatsInv, SeatFound
  <2> QED  BY <2>1, <2>2
<1>5. SeatsHold'
  BY <1>1, <1>2 DEF SeatsInv, SeatsHold, CountedManagers
<1>6. MembersTypeOK'
  BY DEF SeatsInv, MembersTypeOK, memberVars
<1> QED  BY <1>1, <1>2, <1>3, <1>4, <1>5, <1>6 DEF SeatsInv

\* A request ends with a change of the members; only one that has counted may add to
\* those who were counted for.
LEMMA SeatWrites ==
    ASSUME SeatsInv, MembersTypeOK', NEW i \in Slots, req[i] # Idle, req[i].step = "write", End(i), NEW u,
           ActiveManagers' \subseteq ActiveManagers \cup {u},
           CountedManagers' \subseteq CountedManagers
                                        \cup (IF SeatRow \in req[i].rows THEN {u} ELSE {})
    PROVE  SeatsInv'
<1>1. /\ req'[i] = Idle /\ req' = [j \in Slots |-> req'[j]] /\ contested' = contested
      /\ \A j \in Slots : j # i => req'[j] = req[j]
      /\ \A row : AloneAt(row) => AloneAt(row)'
  BY ProceedAlone DEF SeatsInv, End
<1>2. req' \in [Slots -> {Idle} \cup StaffRequest \cup UpdateRequest \cup RemoveRequest]
  BY <1>1 DEF SeatsInv
<1>3. IsFiniteSet(ActiveManagers')
  <2>1. IsFiniteSet(ActiveManagers \cup {u})
    BY FS_AddElement DEF SeatsInv
  <2> QED  BY <2>1, FS_Subset
<1>4. IsFiniteSet(CountedManagers) /\ IsFiniteSet(CountedManagers')
  BY <1>3, FS_Subset DEF SeatsInv, CountedManagers
<1>5. Cardinality(CountedManagers) \in Nat /\ Cardinality(CountedManagers') \in Nat
  BY <1>4, FS_CardinalityType
<1>6. CASE SeatRow \in req[i].rows
  <2>1. CountedManagers' \subseteq CountedManagers \cup {u}
    BY <1>6
  <2>2. /\ IsFiniteSet(CountedManagers \cup {u})
        /\ Cardinality(CountedManagers \cup {u}) <= Cardinality(CountedManagers) + 1
    <3>1. /\ IsFiniteSet(CountedManagers \cup {u})
          /\ Cardinality(CountedManagers \cup {u}) = IF u \in CountedManagers THEN Cardinality(CountedManagers)
                                                     ELSE Cardinality(CountedManagers) + 1
      BY <1>4, FS_AddElement
    <3> QED  BY <1>5, <3>1
  <2>3. Cardinality(CountedManagers') <= Cardinality(CountedManagers \cup {u})
    BY <2>1, <2>2, FS_Subset
  <2>4. Cardinality(CountedManagers \cup {u}) \in Nat
    BY <2>2, FS_CardinalityType
  <2>5. SeatRow \notin contested => Cardinality(CountedManagers') <= Seats
    BY <1>5, <1>6, <2>2, <2>3, <2>4, SeatsNat DEF SeatsInv, SeatFound
  <2>6. ASSUME NEW j \in Slots PROVE SeatFound(j)'
    <3>1. j # i /\ req[j] # Idle /\ SeatRow \notin contested => SeatRow \notin req[j].rows
      BY <1>6, AtRow DEF SeatsInv, AloneAt
    <3> QED  BY <1>1, <3>1 DEF SeatFound
  <2> QED  BY <1>1, <1>2, <1>3, <2>5, <2>6 DEF SeatsInv, SeatsHold, CountedManagers
<1>7. CASE SeatRow \notin req[i].rows
  <2>1. CountedManagers' \subseteq CountedManagers
    BY <1>7
  <2>2. Cardinality(CountedManagers') <= Cardinality(CountedManagers)
    BY <1>4, <2>1, FS_Subset
  <2>3. SeatRow \notin contested => Cardinality(CountedManagers') <= Seats
    BY <1>5, <2>2, SeatsNat DEF SeatsInv, SeatsHold, CountedManagers
  <2>4. ASSUME NEW j \in Slots PROVE SeatFound(j)'
    <3>1. SeatFound(j)
      BY DEF SeatsInv
    <3> QED  BY <1>1, <1>5, <2>2, <3>1, SeatsNat DEF SeatFound
  <2> QED  BY <1>1, <1>2, <1>3, <2>3, <2>4 DEF SeatsInv, SeatsHold, CountedManagers
<1> QED  BY <1>6, <1>7

-----------------------------------------------------------------------------

LEMMA StaffBegins ==
    ASSUME SeatsInv, NEW i \in Slots, NEW u \in Users,
           \/ CreateWorkspaceStaff(i, u) \/ UpdateWorkspaceMember(i, u) \/ RemoveWorkspaceMember(i, u)
    PROVE  SeatsInv'
<1>1. member[u].id \in Nat
  <2>1. member[u] \in [id : 0..MaxRows, role : Roles \cup {"none"}, active : BOOLEAN]
    BY DEF SeatsInv, MembersTypeOK
  <2> QED  BY <2>1, MaxRowsNat
<1>2. \A role, was : /\ StepFor(role, was) \in {"count", "write"}
                     /\ RowsFor(u, role, was) \in SUBSET (Users \cup {SeatRow})
                     /\ SeatRow \in RowsFor(u, role, was) => StepFor(role, was) = "count"
  BY SeatRowIsNoUser DEF StepFor, RowsFor
<1>3. CASE CreateWorkspaceStaff(i, u)
  <2>1. PICK role \in {"MANAGER", "STAFF"} :
          Begin(i, [op |-> "staff", user |-> u, step |-> StepFor(role, member[u].role),
                    rows |-> RowsFor(u, role, member[u].role), write |-> [role |-> role, active |-> TRUE]])
    BY <1>3 DEF CreateWorkspaceStaff
  <2> DEFINE r == [op |-> "staff", user |-> u, step |-> StepFor(role, member[u].role),
                   rows |-> RowsFor(u, role, member[u].role), write |-> [role |-> role, active |-> TRUE]]
  <2>2. r \in StaffRequest /\ (SeatRow \in r.rows => r.step = "count")
    BY <1>2 DEF StaffRequest, Roles
  <2>3. UNCHANGED memberVars
    BY <1>3 DEF CreateWorkspaceStaff
  <2>4. Begin(i, r)
    BY <2>1
  <2> HIDE DEF r
  <2> QED  BY <2>2, <2>3, <2>4, SeatMoves
<1>4. CASE UpdateWorkspaceMember(i, u)
  <2>1. PICK role \in Roles, active \in BOOLEAN :
          Begin(i, [op |-> "update", user |-> u, id |-> member[u].id,
                       step |-> StepFor(role, member[u].role),
                       rows |-> RowsFor(u, role, member[u].role),
                       write |-> IF active = member[u].active THEN [role |-> role]
                                 ELSE [role |-> role, active |-> active]])
    BY <1>4 DEF UpdateWorkspaceMember
  <2> DEFINE w == IF active = member[u].active THEN [role |-> role] ELSE [role |-> role, active |-> active]
             r == [op |-> "update", user |-> u, id |-> member[u].id, step |-> StepFor(role, member[u].role),
                   rows |-> RowsFor(u, role, member[u].role), write |-> w]
  <2>2. w \in Counts
    BY DEF Counts
  <2> HIDE DEF w
  <2>3. r \in UpdateRequest /\ (SeatRow \in r.rows => r.step = "count")
    BY <1>1, <1>2, <2>2 DEF UpdateRequest
  <2>4. UNCHANGED memberVars
    BY <1>4 DEF UpdateWorkspaceMember
  <2>5. Begin(i, r)
    BY <2>1 DEF w
  <2> HIDE DEF r
  <2> QED  BY <2>3, <2>4, <2>5, SeatMoves
<1>5. CASE RemoveWorkspaceMember(i, u)
  <2> DEFINE r == [op |-> "remove", user |-> u, id |-> member[u].id, step |-> "write", rows |-> {u}]
  <2>1. r \in RemoveRequest
    BY <1>1 DEF RemoveRequest
  <2>2. Begin(i, r) /\ UNCHANGED memberVars
    BY <1>5 DEF RemoveWorkspaceMember
  <2> HIDE DEF r
  <2> QED  BY <2>1, <2>2, MemberRequests, SeatMoves
<1> QED  BY <1>3, <1>4, <1>5

LEMMA CapacityMoves ==
    ASSUME SeatsInv, NEW i \in Slots, AssertManagerCapacity(i)
    PROVE  SeatsInv'
<1> DEFINE r == [req[i] EXCEPT !.step = "write"]
<1>1. /\ req[i] # Idle /\ req[i].step = "count" /\ UNCHANGED memberVars
      /\ \/ Proceed(i, Idle)
         \/ Proceed(i, r) /\ ~(Cardinality(ActiveManagers) >= Seats)
  BY DEF AssertManagerCapacity, End
<1>2. r \in StaffRequest \cup UpdateRequest /\ r.rows = req[i].rows
  <2>1. req[i] \in StaffRequest \cup UpdateRequest
    BY <1>1 DEF SeatsInv, RemoveRequest
  <2>2. CASE req[i] \in StaffRequest
    BY <2>2 DEF StaffRequest
  <2>3. CASE req[i] \in UpdateRequest
    BY <2>3 DEF UpdateRequest
  <2> QED  BY <2>1, <2>2, <2>3
<1> HIDE DEF r
<1>3. ~(Cardinality(ActiveManagers) >= Seats) => Cardinality(CountedManagers) < Seats
  <2>1. Cardinality(CountedManagers) <= Cardinality(ActiveManagers) /\ IsFiniteSet(CountedManagers)
    BY FS_Subset DEF SeatsInv, CountedManagers
  <2>2. Cardinality(CountedManagers) \in Nat /\ Cardinality(ActiveManagers) \in Nat
    BY <2>1, FS_CardinalityType DEF SeatsInv
  <2> QED  BY <2>1, <2>2, SeatsNat
<1> QED  BY <1>1, <1>2, <1>3, SeatMoves

LEMMA MemberWrites ==
    ASSUME SeatsInv, NEW i \in Slots, WriteMember(i)
    PROVE  SeatsInv'
<1> DEFINE r == req[i]
           u == r.user
           old == IF Present(u) THEN member[u] ELSE [member[u] EXCEPT !.id = @ + 1]
           row == Written(r.write, old)
<1>1. /\ r # Idle /\ r.step = "write" /\ End(i) /\ r.op \in {"staff", "update"} /\ row.id <= MaxRows
      /\ member' = [member EXCEPT ![u] = row]
      /\ unchecked' = Unchecked(u, row, SeatRow \in r.rows)
  BY DEF WriteMember, Upserted
<1>2. u \in Users /\ r.write \in Counts
  <2>1. r \in StaffRequest \cup UpdateRequest
    BY <1>1, MemberRequests DEF SeatsInv
  <2> QED  BY <2>1 DEF StaffRequest, UpdateRequest, Counts
<1>3. old \in [id : Nat, role : Roles \cup {"none"}, active : BOOLEAN]
  <2>1. member[u] \in [id : 0..MaxRows, role : Roles \cup {"none"}, active : BOOLEAN]
    BY <1>2 DEF SeatsInv, MembersTypeOK
  <2> QED  BY <2>1, MaxRowsNat
<1> HIDE DEF old
<1>4. row \in MemberRow
  <2>1. row.id = old.id /\ old.id \in Nat
    BY <1>2, <1>3, MemberUpdate
  <2>2. old.id \in 0..MaxRows
    BY <1>1, <2>1, MaxRowsNat
  <2> QED  BY <1>2, <1>3, <2>2, MemberUpdate
<1> HIDE DEF row
<1>5. member = [x \in Users |-> member[x]]
  BY DEF SeatsInv, MembersTypeOK
<1> DEFINE counted == SeatRow \in r.rows
<1>6. counted \in BOOLEAN /\ unchecked' = Unchecked(u, row, counted)
  BY <1>1
<1> HIDE DEF counted
<1>7. /\ CountedManagers' \subseteq CountedManagers \cup (IF counted THEN {u} ELSE {})
      /\ ActiveManagers' \subseteq ActiveManagers \cup {u}
  BY <1>1, <1>5, <1>6, MembersCounted
<1>8. MembersTypeOK'
  BY <1>1, <1>2, <1>4, <1>6, MemberPut DEF SeatsInv
<1> QED  BY <1>1, <1>7, <1>8, SeatWrites DEF counted

LEMMA MembersStepKeeps ==
    ASSUME SeatsInv, MembersNext
    PROVE  SeatsInv'
<1>1. ASSUME NEW i \in Slots, DeleteMember(i) PROVE SeatsInv'
  <2>1. req[i] # Idle /\ req[i].op = "remove" /\ End(i)
    BY <1>1 DEF DeleteMember
  <2>2. req[i].step = "write"
    BY <2>1, MemberRequests DEF SeatsInv, RemoveRequest
  <2>3. MembersTypeOK' /\ CountedManagers' \subseteq CountedManagers /\ ActiveManagers' \subseteq ActiveManagers
    BY <1>1, MemberDeleted DEF SeatsInv
  <2> QED  BY <2>1, <2>2, <2>3, SeatWrites
<1>2. ASSUME NEW i \in Slots, Abort(i), UNCHANGED memberVars PROVE SeatsInv'
  BY <1>2, SeatMoves DEF Abort, End
<1> QED  BY <1>1, <1>2, StaffBegins, CapacityMoves, MemberWrites DEF MembersNext, MembersStep

LEMMA MembersInitially == Init => MembersTypeOK /\ CountedManagers = {} /\ MembersKept
<1> SUFFICES ASSUME Init PROVE MembersTypeOK /\ CountedManagers = {} /\ SeatsInv
  BY DEF MembersKept
<1>1. /\ req = [i \in Slots |-> Idle] /\ unchecked = {}
      /\ member = [u \in Users |-> IF u = Owner THEN [id |-> 1, role |-> "OWNER_ADMIN", active |-> TRUE]
                                   ELSE [id |-> 0, role |-> "none", active |-> FALSE]]
  BY DEF Init, RequestsInit, MembersInit
<1>2. MembersTypeOK
  BY <1>1, MaxRowsNat DEF MembersTypeOK, Roles
<1>3. \A u \in Users : member[u].role # "MANAGER"
  BY <1>1
<1>4. ActiveManagers = {} /\ CountedManagers = {}
  BY <1>3 DEF ActiveManagers, CountedManagers
<1>5. IsFiniteSet(ActiveManagers) /\ Cardinality(CountedManagers) = 0
  BY <1>4, FS_EmptySet
<1>6. SeatsHold
  BY <1>5, SeatsNat DEF SeatsHold, CountedManagers
<1>7. req \in [Slots -> {Idle} \cup StaffRequest \cup UpdateRequest \cup RemoveRequest]
      /\ \A i \in Slots : SeatFound(i)
  BY <1>1 DEF SeatFound
<1>8. AloneAt(SeatRow)
  BY <1>1 DEF AloneAt, InFlight
<1> QED  BY <1>2, <1>4, <1>5, <1>6, <1>7, <1>8 DEF SeatsInv

LEMMA MembersStayKept == MembersKept /\ [Next]_accessVars => MembersKept'
<1> SUFFICES ASSUME MembersKept, [Next]_accessVars PROVE MembersKept'
  OBVIOUS
<1>1. CASE Next
  <2>1. /\ desk' = desk /\ (desk = "members" => MembersNext)
        /\ desk \notin {"members", "invites"} => UNCHANGED memberVars
    BY <1>1 DEF Next, AtTheGate, AmongMembers, OfInvitations, OfSessions, UnderLimits, AtThePanel, OfOwners,
                inviteVars
  <2>2. UNCHANGED memberVars => CountedManagers' = CountedManagers /\ (MembersTypeOK => MembersTypeOK')
    BY DEF memberVars, CountedManagers, ActiveManagers, MembersTypeOK
  <2> QED  BY <2>1, <2>2, MembersStepKeeps DEF MembersKept
<1>2. CASE UNCHANGED accessVars
  <2>1. UNCHANGED <<desk, req, contested, memberVars>>
    BY <1>2 DEF accessVars, requestVars, inviteVars
  <2> QED  BY <2>1 DEF MembersKept, SeatsInv, SeatFound, SeatsHold, AloneAt, InFlight, MembersTypeOK,
                       CountedManagers, ActiveManagers, memberVars
<1> QED  BY <1>1, <1>2

(***************************************************************************)
(* Invitations.  At an address outside contested one request at most is at *)
(* work, so what it has found of its invitations is still so.              *)
(***************************************************************************)

InviteeAt(i) ==
    \/ req[i] = Idle
    \/ /\ req[i] # Idle /\ {"op", "rows", "user", "step"} \subseteq DOMAIN req[i]
       /\ req[i].user \in Invitees /\ req[i].rows = {req[i].user}
       /\ \/ /\ req[i].op = "invite" /\ req[i].step \in {"expire", "create"}
             /\ "role" \in DOMAIN req[i] /\ req[i].role \in Roles \ {"OWNER_ADMIN"}
          \/ req[i].op = "send" /\ req[i].step = "issue"
          \/ req[i].op = "remove" /\ req[i].step = "write"
          \/ /\ \/ req[i].op = "revoke" /\ req[i].step = "revoke"
                \/ req[i].op = "accept" /\ req[i].step \in {"code", "burn", "miss", "spend", "grant"}
             /\ "invite" \in DOMAIN req[i]
             /\ req[i].invite \in DOMAIN invite /\ invite[req[i].invite].user = req[i].user

\* As it was sent: neither accepted nor revoked nor replaced.
AsSent(k) == invite[k].accepted = Never /\ invite[k].until = invite[k].at + InviteLife

\* Whoever accepts an invitation found it open, and it is as it was sent.
AcceptFound(i) ==
    req[i] # Idle /\ req[i].op = "accept" /\ req[i].user \notin contested => AsSent(req[i].invite)

\* Whoever creates an invitation has expired those it replaces.
CreateFound(i) ==
    req[i] # Idle /\ req[i].op = "invite" /\ req[i].step = "create" /\ req[i].user \notin contested
        => \A k \in DOMAIN invite :
              invite[k].user = req[i].user /\ invite[k].role = req[i].role => ~Open(k)

\* At most one invitation of the address u is open for a role.
OneOpenAt(u) ==
    \A j, k \in DOMAIN invite :
        /\ j # k /\ Open(j) /\ Open(k) /\ invite[j].role = invite[k].role
        /\ invite[j].user = u /\ invite[k].user = u
        => u \in contested

Ended(k) == invite[k].until <= now

InvitesInv ==
    /\ MembersTypeOK /\ CountedManagers = {}
    /\ invite \in Seq(InviteRow)
    /\ req = [i \in Slots |-> req[i]]
    /\ \A i \in Slots : InviteeAt(i) /\ AcceptFound(i) /\ CreateFound(i)
    /\ \A u \in Invitees \ contested : AloneAt(u)
    /\ \A k \in DOMAIN invite : Ended(k) \/ invite[k].until = invite[k].at + InviteLife
    /\ \A u \in Invitees : OneOpenAt(u)

\* At the other desks nobody is invited.
InvitesKept ==
    /\ desk = "invites" => InvitesInv
    /\ desk # "invites" => invite = <<>>

-----------------------------------------------------------------------------

LEMMA InviteRows ==
    ASSUME invite \in Seq(InviteRow), NEW k \in DOMAIN invite
    PROVE  /\ invite[k] \in InviteRow
           /\ invite[k].user \in Invitees /\ invite[k].role \in Roles \ {"OWNER_ADMIN"}
           /\ invite[k].at \in Nat /\ invite[k].until \in Nat /\ invite[k].accepted \in Nat
<1>1. \A S : invite \in Seq(S) => invite[k] \in S
  OBVIOUS
<1>2. invite[k] \in InviteRow
  BY <1>1
<1>3. 1..MaxTime \subseteq Nat /\ Never..MaxTime \subseteq Nat /\ 1..(MaxTime + InviteLife) \subseteq Nat
  BY MaxTimeNat, InviteLifeNat DEF Never
<1> QED  BY <1>2, <1>3 DEF InviteRow

\* A request arrives; the invitations and the members stay as they are.
LEMMA InviteBegins ==
    ASSUME InvitesInv, UNCHANGED <<invite, memberVars>>, NEW i \in Slots, NEW r, Begin(i, r),
           InviteeAt(i)', AcceptFound(i)', CreateFound(i)'
    PROVE  InvitesInv'
<1>1. /\ req' = [j \in Slots |-> req'[j]] /\ contested \subseteq contested' /\ now' = now
      /\ \A j \in Slots : j # i => req'[j] = req[j]
      /\ \A row : AloneAt(row) /\ row \notin contested' => AloneAt(row)'
  BY BeginAlone DEF InvitesInv, Begin
<1>2. MembersTypeOK' /\ (CountedManagers = {})'
  BY DEF InvitesInv, memberVars, MembersTypeOK, CountedManagers, ActiveManagers
<1>3. ASSUME NEW j \in Slots PROVE (InviteeAt(j) /\ AcceptFound(j) /\ CreateFound(j))'
  <2>1. CASE j = i
    BY <2>1
  <2>2. CASE j # i
    <3>1. InviteeAt(j) /\ AcceptFound(j) /\ CreateFound(j)
      BY DEF InvitesInv
    <3>2. InviteeAt(j)'
      BY <1>1, <2>2, <3>1 DEF InviteeAt
    <3>3. AcceptFound(j)'
      BY <1>1, <2>2, <3>1 DEF AcceptFound, AsSent
    <3>4. CreateFound(j)'
      BY <1>1, <2>2, <3>1 DEF CreateFound, Open
    <3> QED  BY <3>2, <3>3, <3>4
  <2> QED  BY <2>1, <2>2
<1>4. (\A u \in Invitees \ contested : AloneAt(u))'
  BY <1>1 DEF InvitesInv
<1>5. (\A k \in DOMAIN invite : Ended(k) \/ invite[k].until = invite[k].at + InviteLife)'
  BY <1>1 DEF InvitesInv, Ended
<1>6. (\A u \in Invitees : OneOpenAt(u))'
  BY <1>1 DEF InvitesInv, OneOpenAt, Open
<1> QED  BY <1>1, <1>2, <1>3, <1>4, <1>5, <1>6 DEF InvitesInv

\* A request goes on or ends: it may write the invitations of its own address, which
\* only end earlier, and add one; and it may change the members, of whom none is counted.
LEMMA InviteProceeds ==
    ASSUME InvitesInv, NEW i \in Slots, NEW r, req[i] # Idle, Proceed(i, r),
           r = Idle \/ r.rows \subseteq req[i].rows,
           MembersTypeOK', CountedManagers' = {}, invite' \in Seq(InviteRow),
           DOMAIN invite \subseteq DOMAIN invite',
           \A k \in DOMAIN invite :
              /\ invite'[k].user = invite[k].user /\ invite'[k].role = invite[k].role
              /\ invite[k].user # req[i].user => invite'[k] = invite[k]
              /\ Open(k)' => Open(k)
              /\ (Ended(k) \/ invite[k].until = invite[k].at + InviteLife)',
           \A k \in DOMAIN invite' \ DOMAIN invite :
              /\ invite'[k].user = req[i].user
              /\ (Ended(k) \/ invite[k].until = invite[k].at + InviteLife)',
           InviteeAt(i)', AcceptFound(i)', CreateFound(i)',
           \A u \in Invitees : u = req[i].user => OneOpenAt(u)'
    PROVE  InvitesInv'
<1>1. /\ req' = [j \in Slots |-> req'[j]] /\ contested' = contested /\ now' = now
      /\ \A j \in Slots : j # i => req'[j] = req[j]
      /\ \A row : AloneAt(row) => AloneAt(row)'
  BY ProceedAlone DEF InvitesInv, Proceed
<1>2. req[i].user \in Invitees /\ req[i].rows = {req[i].user}
  BY DEF InvitesInv, InviteeAt
<1>3. ASSUME NEW j \in Slots, j # i PROVE (InviteeAt(j) /\ AcceptFound(j) /\ CreateFound(j))'
  <2>1. InviteeAt(j) /\ AcceptFound(j) /\ CreateFound(j) /\ req'[j] = req[j]
    BY <1>1, <1>3 DEF InvitesInv
  <2>2. InviteeAt(j)'
    BY <1>1, <2>1 DEF InviteeAt
  <2>3. ASSUME req[j] # Idle, req[j].user \notin contested PROVE req[j].user # req[i].user
    <3>1. req[j].user \in Invitees /\ req[j].rows = {req[j].user} /\ AloneAt(req[j].user)
      BY <2>1, <2>3 DEF InvitesInv, InviteeAt
    <3> QED  BY <1>2, <1>3, <2>3, <3>1, AtRow DEF AloneAt
  <2>4. AcceptFound(j)'
    <3> SUFFICES ASSUME req[j] # Idle, req[j].op = "accept", req[j].user \notin contested
                 PROVE  AsSent(req[j].invite)'
      BY <1>1, <2>1 DEF AcceptFound
    <3>1. req[j].invite \in DOMAIN invite /\ invite[req[j].invite].user = req[j].user
      BY <2>1 DEF InviteeAt
    <3>2. invite'[req[j].invite] = invite[req[j].invite]
      BY <2>3, <3>1
    <3>3. AsSent(req[j].invite)
      BY <2>1 DEF AcceptFound
    <3> QED  BY <2>1, <3>2, <3>3 DEF AsSent
  <2>5. CreateFound(j)'
    <3> SUFFICES ASSUME req[j] # Idle, req[j].op = "invite", req[j].step = "create", req[j].user \notin contested,
                        NEW k \in DOMAIN invite', invite'[k].user = req[j].user, invite'[k].role = req[j].role
                 PROVE  ~Open(k)'
      BY <1>1, <2>1 DEF CreateFound
    <3>1. k \in DOMAIN invite
      BY <2>3
    <3>2. ~Open(k)
      BY <2>1, <3>1 DEF CreateFound
    <3> QED  BY <3>1, <3>2
  <2> QED  BY <2>2, <2>4, <2>5
<1>4. (\A u \in Invitees \ contested : AloneAt(u))'
  BY <1>1 DEF InvitesInv
<1>5. (\A k \in DOMAIN invite : Ended(k) \/ invite[k].until = invite[k].at + InviteLife)'
  OBVIOUS
<1>6. ASSUME NEW u \in Invitees PROVE OneOpenAt(u)'
  <2>1. CASE u = req[i].user
    BY <2>1
  <2>2. CASE u # req[i].user
    <3> SUFFICES ASSUME NEW j \in DOMAIN invite', NEW k \in DOMAIN invite', j # k, Open(j)', Open(k)',
                        invite'[j].role = invite'[k].role, invite'[j].user = u, invite'[k].user = u
                 PROVE  u \in contested
      BY <1>1 DEF OneOpenAt
    <3>1. j \in DOMAIN invite /\ k \in DOMAIN invite
      BY <2>2
    <3>2. /\ Open(j) /\ Open(k) /\ invite[j].role = invite[k].role
          /\ invite[j].user = u /\ invite[k].user = u
      BY <3>1
    <3> QED  BY <3>1, <3>2 DEF InvitesInv, OneOpenAt
  <2> QED  BY <2>1, <2>2
<1> QED  BY <1>1, <1>3, <1>4, <1>5, <1>6 DEF InvitesInv

\* A request goes on or ends, and leaves the invitations as they are.
LEMMA InviteStays ==
    ASSUME InvitesInv, NEW i \in Slots, NEW r, req[i] # Idle, Proceed(i, r),
           r = Idle \/ r.rows \subseteq req[i].rows,
           MembersTypeOK', CountedManagers' = {}, UNCHANGED invite,
           InviteeAt(i)', AcceptFound(i)', CreateFound(i)'
    PROVE  InvitesInv'
<1>1. contested' = contested /\ now' = now
  BY DEF Proceed
<1>2. \A u \in Invitees : OneOpenAt(u)'
  BY <1>1 DEF InvitesInv, OneOpenAt, Open
<1>3. \A k \in DOMAIN invite : /\ Open(k)' => Open(k)
                               /\ (Ended(k) \/ invite[k].until = invite[k].at + InviteLife)'
  BY <1>1 DEF InvitesInv, Ended, Open
<1>4. invite' \in Seq(InviteRow)
  BY DEF InvitesInv
<1> QED  BY <1>2, <1>3, <1>4, InviteProceeds

\* Time ends invitations and opens none.
LEMMA InviteTicks ==
    ASSUME InvitesInv, ClockOK, UNCHANGED <<req, contested, invite, memberVars>>, now' = now \/ now' = now + 1
    PROVE  InvitesInv'
<1>1. \A k \in DOMAIN invite : (Ended(k) => Ended(k)') /\ (Open(k)' => Open(k))
  BY InviteRows, MaxTimeNat DEF InvitesInv, ClockOK, Ended, Open
<1>2. MembersTypeOK' /\ (CountedManagers = {})'
  BY DEF InvitesInv, memberVars, MembersTypeOK, CountedManagers, ActiveManagers
<1>3. (\A j \in Slots : InviteeAt(j) /\ AcceptFound(j) /\ CreateFound(j))'
  <2> SUFFICES ASSUME NEW j \in Slots PROVE (InviteeAt(j) /\ AcceptFound(j) /\ CreateFound(j))'
    OBVIOUS
  <2>1. InviteeAt(j) /\ AcceptFound(j) /\ CreateFound(j)
    BY DEF InvitesInv
  <2>2. InviteeAt(j)' /\ AcceptFound(j)'
    BY <2>1 DEF InviteeAt, AcceptFound, AsSent
  <2>3. CreateFound(j)'
    BY <1>1, <2>1 DEF CreateFound
  <2> QED  BY <2>2, <2>3
<1>4. (\A u \in Invitees \ contested : AloneAt(u))'
  BY DEF InvitesInv, AloneAt, InFlight
<1>5. (\A k \in DOMAIN invite : Ended(k) \/ invite[k].until = invite[k].at + InviteLife)'
  BY <1>1 DEF InvitesInv
<1>6. (\A u \in Invitees : OneOpenAt(u))'
  BY <1>1 DEF InvitesInv, OneOpenAt
<1> QED  BY <1>2, <1>3, <1>4, <1>5, <1>6 DEF InvitesInv

LEMMA InviteArrivals ==
    ASSUME InvitesInv, NEW i \in Slots, NEW u \in Invitees,
           \/ \E role \in Roles \ {"OWNER_ADMIN"} : SendInvite(i, u, role)
           \/ SendCode(i, u) /\ UNCHANGED <<invite, memberVars>>
           \/ RemoveWorkspaceMember(i, u) /\ UNCHANGED <<invite, code>>
    PROVE  InvitesInv'
<1>1. req = [j \in Slots |-> req[j]]
  BY DEF InvitesInv
<1>2. ASSUME NEW role \in Roles \ {"OWNER_ADMIN"}, SendInvite(i, u, role) PROVE InvitesInv'
  <2> DEFINE r == [op |-> "invite", rows |-> {u}, user |-> u, role |-> role, step |-> "expire"]
  <2>1. Begin(i, r) /\ UNCHANGED <<invite, memberVars>>
    BY <1>2 DEF SendInvite, inviteVars
  <2>2. req'[i] = r
    BY <1>1, <2>1, BeginAlone
  <2>3. r # Idle /\ r.op = "invite" /\ r.step = "expire"
    BY DEF Idle
  <2>4. InviteeAt(i)'
    BY <2>2, <2>3 DEF InviteeAt
  <2>5. AcceptFound(i)' /\ CreateFound(i)'
    BY <2>2, <2>3 DEF AcceptFound, CreateFound
  <2> HIDE DEF r
  <2> QED  BY <2>1, <2>4, <2>5, InviteBegins
<1>3. CASE SendCode(i, u) /\ UNCHANGED <<invite, memberVars>>
  <2> DEFINE r == [op |-> "send", rows |-> {u}, user |-> u, step |-> "issue"]
  <2>1. Begin(i, r) /\ UNCHANGED <<invite, memberVars>>
    BY <1>3 DEF SendCode
  <2>2. req'[i] = r
    BY <1>1, <2>1, BeginAlone
  <2>3. r # Idle /\ r.op = "send"
    BY DEF Idle
  <2>4. InviteeAt(i)'
    BY <2>2, <2>3 DEF InviteeAt
  <2>5. AcceptFound(i)' /\ CreateFound(i)'
    BY <2>2, <2>3 DEF AcceptFound, CreateFound
  <2> HIDE DEF r
  <2> QED  BY <2>1, <2>4, <2>5, InviteBegins
<1>4. CASE RemoveWorkspaceMember(i, u) /\ UNCHANGED <<invite, code>>
  <2> DEFINE r == [op |-> "remove", user |-> u, id |-> member[u].id, step |-> "write", rows |-> {u}]
  <2>1. Begin(i, r) /\ UNCHANGED <<invite, memberVars>>
    BY <1>4 DEF RemoveWorkspaceMember
  <2>2. req'[i] = r
    BY <1>1, <2>1, BeginAlone
  <2>3. r # Idle /\ r.op = "remove"
    BY DEF Idle
  <2>4. InviteeAt(i)'
    BY <2>2, <2>3 DEF InviteeAt
  <2>5. AcceptFound(i)' /\ CreateFound(i)'
    BY <2>2, <2>3 DEF AcceptFound, CreateFound
  <2> HIDE DEF r
  <2> QED  BY <2>1, <2>4, <2>5, InviteBegins
<1> QED  BY <1>2, <1>3, <1>4

LEMMA InviteAnswers ==
    ASSUME InvitesInv, ClockOK, NEW i \in Slots, NEW k \in DOMAIN invite,
           RevokeTenantInvite(i, k) \/ AcceptTenantInvite(i, k)
    PROVE  InvitesInv'
<1> DEFINE u == invite[k].user
<1>1. req = [j \in Slots |-> req[j]] /\ u \in Invitees
  BY InviteRows DEF InvitesInv
<1>2. CASE RevokeTenantInvite(i, k)
  <2> DEFINE r == [op |-> "revoke", rows |-> {u}, user |-> u, invite |-> k, step |-> "revoke"]
  <2>1. Begin(i, r) /\ UNCHANGED <<invite, memberVars>>
    BY <1>2 DEF RevokeTenantInvite, inviteVars
  <2>2. req'[i] = r
    BY <1>1, <2>1, BeginAlone
  <2>3. r # Idle /\ r.op = "revoke"
    BY DEF Idle
  <2>4. InviteeAt(i)'
    BY <1>1, <2>1, <2>2, <2>3 DEF InviteeAt
  <2>5. AcceptFound(i)' /\ CreateFound(i)'
    BY <2>2, <2>3 DEF AcceptFound, CreateFound
  <2> HIDE DEF r
  <2> QED  BY <2>1, <2>4, <2>5, InviteBegins
<1>3. CASE AcceptTenantInvite(i, k)
  <2> DEFINE r == [op |-> "accept", rows |-> {u}, user |-> u, invite |-> k, step |-> "code", code |-> 0]
  <2>1. Begin(i, r) /\ UNCHANGED <<invite, memberVars>> /\ Open(k)
    BY <1>3 DEF AcceptTenantInvite, inviteVars
  <2>2. req'[i] = r
    BY <1>1, <2>1, BeginAlone
  <2>3. r # Idle /\ r.op = "accept" /\ r.invite = k
    BY DEF Idle
  <2>4. InviteeAt(i)'
    BY <1>1, <2>1, <2>2, <2>3 DEF InviteeAt
  <2>5. AsSent(k)
    <3>1. ~Ended(k)
      BY <2>1, InviteRows, MaxTimeNat DEF InvitesInv, ClockOK, Open, Ended
    <3> QED  BY <2>1, <3>1 DEF InvitesInv, AsSent, Open, Ended
  <2>6. AcceptFound(i)' /\ CreateFound(i)'
    BY <2>1, <2>2, <2>3, <2>5 DEF AcceptFound, CreateFound, AsSent
  <2> HIDE DEF r
  <2> QED  BY <2>1, <2>4, <2>6, InviteBegins
<1> QED  BY <1>2, <1>3

LEMMA InviteEnds ==
    ASSUME InvitesInv, NEW i \in Slots, req[i] # Idle, End(i), UNCHANGED invite,
           MembersTypeOK', CountedManagers' = {}
    PROVE  InvitesInv'
<1>1. req'[i] = Idle
  BY ProceedAlone DEF InvitesInv, End
<1>2. InviteeAt(i)' /\ AcceptFound(i)' /\ CreateFound(i)'
  BY <1>1 DEF InviteeAt, AcceptFound, CreateFound
<1>3. Proceed(i, Idle)
  BY DEF End
<1> QED  BY <1>2, <1>3, InviteStays

LEMMA UncountedStay == UNCHANGED memberVars => /\ MembersTypeOK => MembersTypeOK'
                                               /\ CountedManagers = {} => CountedManagers' = {}
BY DEF memberVars, MembersTypeOK, CountedManagers, ActiveManagers

\* The code of an acceptance is read, burnt, missed or spent; another one is issued.
LEMMA InviteCodes ==
    ASSUME InvitesInv, NEW i \in Slots, CodeStep(i), UNCHANGED <<invite, memberVars>>
    PROVE  InvitesInv'
<1>1. MembersTypeOK' /\ CountedManagers' = {}
  BY UncountedStay DEF InvitesInv
<1>2. req[i] # Idle
  BY DEF CodeStep, IssueCode, ReadCode, BurnCode, MissCode, SpendCode
<1>3. CASE End(i)
  BY <1>1, <1>2, <1>3, InviteEnds
<1>4. ASSUME NEW r, Proceed(i, r), req[i].op = "accept", DOMAIN r = DOMAIN req[i],
             r.op = req[i].op, r.rows = req[i].rows, r.user = req[i].user, r.invite = req[i].invite,
             r.step \in {"burn", "miss", "spend", "grant"}
      PROVE  InvitesInv'
  <2>1. req'[i] = r /\ contested' = contested /\ now' = now
    BY <1>2, <1>4, ProceedAlone DEF InvitesInv, Proceed
  <2>2. InviteeAt(i) /\ AcceptFound(i)
    BY DEF InvitesInv
  <2>3. r # Idle
    BY <1>4 DEF Idle
  <2>4. InviteeAt(i)'
    BY <1>2, <1>4, <2>1, <2>2, <2>3 DEF InviteeAt
  <2>5. AcceptFound(i)' /\ CreateFound(i)'
    BY <1>2, <1>4, <2>1, <2>2, <2>3 DEF AcceptFound, CreateFound, AsSent
  <2> QED  BY <1>1, <1>2, <1>4, <2>4, <2>5, InviteStays
<1>5. req[i].step \in {"code", "spend"} => req[i].op = "accept"
  BY <1>2 DEF InvitesInv, InviteeAt
<1>6. CASE ReadCode(i) /\ ~End(i)
  <2> DEFINE c == Max(Usable(req[i].user))
  <2>1. PICK step \in {"burn", "miss", "spend"} : Proceed(i, [req[i] EXCEPT !.step = step, !.code = c])
    BY <1>6 DEF ReadCode
  <2> HIDE DEF c
  <2>2. req[i].op = "accept" /\ {"op", "rows", "user", "step", "invite"} \subseteq DOMAIN req[i]
    BY <1>2, <1>5, <1>6 DEF InvitesInv, InviteeAt, ReadCode
  <2> DEFINE r == [req[i] EXCEPT !.step = step, !.code = c]
  <2>3. /\ DOMAIN r = DOMAIN req[i] /\ r.op = req[i].op /\ r.rows = req[i].rows /\ r.user = req[i].user
        /\ r.invite = req[i].invite /\ r.step \in {"burn", "miss", "spend", "grant"}
    BY <2>2
  <2>4. Proceed(i, r)
    BY <2>1
  <2> HIDE DEF r
  <2> QED  BY <1>4, <2>2, <2>3, <2>4
<1>7. CASE SpendCode(i)
  <2>1. req[i].op = "accept" /\ {"op", "rows", "user", "step", "invite"} \subseteq DOMAIN req[i]
    BY <1>2, <1>5, <1>7 DEF InvitesInv, InviteeAt, SpendCode
  <2> DEFINE r == [req[i] EXCEPT !.step = "grant"]
  <2>2. /\ DOMAIN r = DOMAIN req[i] /\ r.op = req[i].op /\ r.rows = req[i].rows /\ r.user = req[i].user
        /\ r.invite = req[i].invite /\ r.step \in {"burn", "miss", "spend", "grant"}
    BY <2>1
  <2>3. Proceed(i, r)
    BY <1>7 DEF SpendCode
  <2> HIDE DEF r
  <2> QED  BY <1>4, <2>1, <2>2, <2>3
<1> QED  BY <1>3, <1>6, <1>7 DEF CodeStep, IssueCode, BurnCode, MissCode

LEMMA InviteExpires ==
    ASSUME InvitesInv, ClockOK, NEW i \in Slots, ExpireOpenInvites(i)
    PROVE  InvitesInv'
<1> DEFINE old == {k \in DOMAIN invite : Open(k) /\ invite[k].user = req[i].user /\ invite[k].role = req[i].role}
           r == [req[i] EXCEPT !.step = "create"]
<1>1. /\ req[i] # Idle /\ req[i].step = "expire" /\ Proceed(i, r) /\ UNCHANGED memberVars
      /\ invite' = [k \in DOMAIN invite |-> IF k \in old THEN [invite[k] EXCEPT !.until = now] ELSE invite[k]]
  BY DEF ExpireOpenInvites
<1>2. req[i].op = "invite" /\ {"op", "rows", "user", "step", "role"} \subseteq DOMAIN req[i] /\ InviteeAt(i)
  BY <1>1 DEF InvitesInv, InviteeAt
<1>3. /\ DOMAIN r = DOMAIN req[i] /\ r.op = req[i].op /\ r.rows = req[i].rows /\ r.user = req[i].user
      /\ r.role = req[i].role /\ r.step = "create"
  BY <1>2
<1> HIDE DEF r
<1>4. req'[i] = r /\ contested' = contested /\ now' = now
  BY <1>1, <1>3, ProceedAlone DEF InvitesInv, Proceed
<1>5. now \in 1..MaxTime /\ now \in 1..(MaxTime + InviteLife) /\ now \in Nat
  BY MaxTimeNat, InviteLifeNat DEF ClockOK
<1>6. DOMAIN invite' = DOMAIN invite
  BY <1>1
<1>7. ASSUME NEW k \in DOMAIN invite
      PROVE  /\ invite'[k] \in InviteRow
             /\ invite'[k].user = invite[k].user /\ invite'[k].role = invite[k].role
             /\ invite[k].user # req[i].user => invite'[k] = invite[k]
             /\ Open(k)' => Open(k)
             /\ (Ended(k) \/ invite[k].until = invite[k].at + InviteLife)'
             /\ invite[k].user = req[i].user /\ invite[k].role = req[i].role => ~Open(k)'
  <2>1. invite[k] \in InviteRow
    BY InviteRows DEF InvitesInv
  <2>2. CASE k \in old
    <3>1. invite'[k] = [invite[k] EXCEPT !.until = now]
      BY <1>1, <2>2
    <3>2. /\ invite'[k] \in InviteRow /\ invite'[k].user = invite[k].user /\ invite'[k].role = invite[k].role
          /\ invite'[k].until = now
      BY <1>5, <2>1, <3>1 DEF InviteRow
    <3>3. (Ended(k) /\ ~Open(k))'
      BY <1>4, <1>5, <3>2 DEF Ended, Open
    <3> QED  BY <2>2, <3>2, <3>3
  <2>3. CASE k \notin old
    <3>1. invite'[k] = invite[k]
      BY <1>1, <2>3
    <3>2. Open(k)' <=> Open(k)
      BY <1>4, <3>1 DEF Open
    <3>3. (Ended(k) \/ invite[k].until = invite[k].at + InviteLife)'
      BY <1>4, <3>1 DEF InvitesInv, Ended
    <3> QED  BY <2>1, <2>3, <3>1, <3>2, <3>3
  <2> QED  BY <2>2, <2>3
<1>8. invite' \in Seq(InviteRow)
  <2>1. DOMAIN invite = 1..Len(invite) /\ Len(invite) \in Nat
    BY LenProperties DEF InvitesInv
  <2>2. invite' = [k \in 1..Len(invite) |-> invite'[k]] /\ \A k \in 1..Len(invite) : invite'[k] \in InviteRow
    BY <1>1, <1>7, <2>1
  <2> QED  BY <2>1, <2>2
<1>9. r # Idle /\ InviteeAt(i)'
  <2>1. r # Idle
    BY <1>2, <1>3 DEF Idle
  <2> QED  BY <1>1, <1>2, <1>3, <1>4, <2>1 DEF InviteeAt
<1>10. AcceptFound(i)' /\ CreateFound(i)'
  BY <1>2, <1>3, <1>4, <1>6, <1>7 DEF AcceptFound, CreateFound
<1>11. \A u \in Invitees : OneOpenAt(u)'
  BY <1>4, <1>6, <1>7 DEF InvitesInv, OneOpenAt
<1>12. MembersTypeOK' /\ CountedManagers' = {}
  BY <1>1, UncountedStay DEF InvitesInv
<1> HIDE DEF old
<1> QED  BY <1>1, <1>3, <1>6, <1>7, <1>8, <1>9, <1>10, <1>11, <1>12, InviteProceeds

LEMMA InviteInserts ==
    ASSUME InvitesInv, ClockOK, NEW i \in Slots, InsertInvite(i)
    PROVE  InvitesInv'
<1> DEFINE row == [user |-> req[i].user, role |-> req[i].role, at |-> now,
                   until |-> now + InviteLife, accepted |-> Never]
           n == Len(invite)
<1>1. /\ req[i] # Idle /\ req[i].step = "create" /\ Proceed(i, Idle) /\ UNCHANGED memberVars
      /\ invite' = Append(invite, row)
  BY DEF InsertInvite, End
<1>2. /\ req[i].op = "invite" /\ req[i].user \in Invitees /\ req[i].role \in Roles \ {"OWNER_ADMIN"}
      /\ CreateFound(i)
  BY <1>1 DEF InvitesInv, InviteeAt
<1>3. req'[i] = Idle /\ contested' = contested /\ now' = now
  BY <1>1, ProceedAlone DEF InvitesInv, Proceed
<1>4. row \in InviteRow /\ row.user = req[i].user /\ row.role = req[i].role /\ row.until = row.at + InviteLife
  BY <1>2, MaxTimeNat, InviteLifeNat DEF ClockOK, InviteRow, Never
<1> HIDE DEF row
<1>5. /\ invite' \in Seq(InviteRow) /\ n \in Nat /\ DOMAIN invite = 1..n /\ DOMAIN invite' = 1..(n + 1)
      /\ invite'[n + 1] = row /\ \A k \in 1..n : invite'[k] = invite[k]
  <2>1. invite \in Seq(InviteRow)
    BY DEF InvitesInv
  <2>2. /\ Append(invite, row) \in Seq(InviteRow) /\ Len(Append(invite, row)) = n + 1
        /\ \A k \in 1..n : Append(invite, row)[k] = invite[k]
        /\ Append(invite, row)[n + 1] = row
    BY <1>4, <2>1, AppendProperties
  <2> QED  BY <1>1, <2>1, <2>2, LenProperties
<1>6. DOMAIN invite \subseteq DOMAIN invite' /\ \A k \in DOMAIN invite' : k \in DOMAIN invite \/ k = n + 1
  BY <1>5
<1>7. \A k \in DOMAIN invite : /\ invite'[k] = invite[k]
                               /\ Open(k)' <=> Open(k)
                               /\ (Ended(k) \/ invite[k].until = invite[k].at + InviteLife)'
  BY <1>3, <1>5 DEF InvitesInv, Open, Ended
<1>8. invite'[n + 1].until = invite'[n + 1].at + InviteLife
  BY <1>4, <1>5
<1>9. ASSUME NEW u \in Invitees, u = req[i].user PROVE OneOpenAt(u)'
  <2> SUFFICES ASSUME NEW j \in DOMAIN invite', NEW k \in DOMAIN invite', j # k, Open(j)', Open(k)',
                      invite'[j].role = invite'[k].role, invite'[j].user = u, invite'[k].user = u,
                      u \notin contested
               PROVE  FALSE
    BY <1>3 DEF OneOpenAt
  <2>1. CASE j \in DOMAIN invite /\ k \in DOMAIN invite
    BY <1>7, <2>1 DEF InvitesInv, OneOpenAt
  <2>2. CASE j \in DOMAIN invite /\ k = n + 1
    BY <1>1, <1>2, <1>4, <1>5, <1>7, <1>9, <2>2 DEF CreateFound
  <2>3. CASE k \in DOMAIN invite /\ j = n + 1
    BY <1>1, <1>2, <1>4, <1>5, <1>7, <1>9, <2>3 DEF CreateFound
  <2> QED  BY <1>6, <2>1, <2>2, <2>3
<1>10. InviteeAt(i)' /\ AcceptFound(i)' /\ CreateFound(i)'
  BY <1>3 DEF InviteeAt, AcceptFound, CreateFound
<1>11. MembersTypeOK' /\ CountedManagers' = {}
  BY <1>1, UncountedStay DEF InvitesInv
<1>12. \A k \in DOMAIN invite' \ DOMAIN invite :
              /\ invite'[k].user = req[i].user
              /\ (Ended(k) \/ invite[k].until = invite[k].at + InviteLife)'
  BY <1>4, <1>5, <1>6, <1>8
<1> QED  BY <1>1, <1>5, <1>6, <1>7, <1>9, <1>10, <1>11, <1>12, InviteProceeds

\* A request writes the invitation it was sent for, of its own address, and ends: a
\* revocation, or the transaction of an acceptance.
LEMMA InviteCloses ==
    ASSUME InvitesInv, ClockOK, NEW i \in Slots, End(i), req[i] # Idle, req[i].op \in {"revoke", "accept"},
           MembersTypeOK', CountedManagers' = {},
           \/ invite' = [invite EXCEPT ![req[i].invite].until = now]
           \/ invite' = [invite EXCEPT ![req[i].invite].accepted = now]
    PROVE  InvitesInv'
<1> DEFINE k == req[i].invite
<1>1. k \in DOMAIN invite /\ invite[k].user = req[i].user
  BY DEF InvitesInv, InviteeAt
<1>2. req'[i] = Idle /\ contested' = contested /\ now' = now /\ Proceed(i, Idle)
  BY ProceedAlone DEF InvitesInv, End, Proceed
<1>3. now \in 1..MaxTime /\ now \in 1..(MaxTime + InviteLife) /\ now \in Nat /\ now # Never
  BY MaxTimeNat, InviteLifeNat DEF ClockOK, Never
<1>4. PICK row : /\ invite' = [invite EXCEPT ![k] = row]
                 /\ row = [invite[k] EXCEPT !.until = now] \/ row = [invite[k] EXCEPT !.accepted = now]
  OBVIOUS
<1>5. invite[k] \in InviteRow
  BY <1>1, InviteRows DEF InvitesInv
<1>6. /\ row \in InviteRow /\ row.user = invite[k].user /\ row.role = invite[k].role /\ row.at = invite[k].at
      /\ row.until = now \/ (row.accepted = now /\ row.until = invite[k].until)
  <2>1. Never..MaxTime = 0..MaxTime /\ now \in Never..MaxTime
    BY <1>3, MaxTimeNat DEF Never
  <2> QED  BY <1>3, <1>4, <1>5, <2>1 DEF InviteRow
<1> HIDE DEF k
<1>7. /\ invite' \in Seq(InviteRow) /\ DOMAIN invite' = DOMAIN invite
      /\ \A j \in DOMAIN invite : invite'[j] = IF j = k THEN row ELSE invite[j]
  <2>1. invite \in Seq(InviteRow) /\ DOMAIN invite = 1..Len(invite)
    BY LenProperties DEF InvitesInv
  <2>2. /\ [invite EXCEPT ![k] = row] \in Seq(InviteRow) /\ Len([invite EXCEPT ![k] = row]) = Len(invite)
        /\ \A j \in 1..Len(invite) : [invite EXCEPT ![k] = row][j] = IF j = k THEN row ELSE invite[j]
    BY <1>1, <1>6, <2>1, ExceptSeq
  <2> QED  BY <1>4, <2>1, <2>2, LenProperties
<1>8. ASSUME NEW j \in DOMAIN invite
      PROVE  /\ invite'[j].user = invite[j].user /\ invite'[j].role = invite[j].role
             /\ invite[j].user # req[i].user => invite'[j] = invite[j]
             /\ Open(j)' => Open(j)
             /\ (Ended(j) \/ invite[j].until = invite[j].at + InviteLife)'
  <2>1. CASE j = k
    <3>1. invite'[j] = row
      BY <1>7, <2>1
    <3>2. ~Open(j)'
      BY <1>2, <1>3, <1>6, <3>1 DEF Open
    <3>3. (Ended(j) \/ invite[j].until = invite[j].at + InviteLife)'
      <4>1. Ended(j) \/ invite[j].until = invite[j].at + InviteLife
        BY DEF InvitesInv
      <4> QED  BY <1>2, <1>3, <1>6, <2>1, <3>1, <4>1 DEF Ended
    <3> QED  BY <1>1, <1>6, <2>1, <3>1, <3>2, <3>3
  <2>2. CASE j # k
    BY <1>2, <1>7, <2>2 DEF InvitesInv, Open, Ended
  <2> QED  BY <2>1, <2>2
<1>9. \A u \in Invitees : OneOpenAt(u)'
  BY <1>2, <1>7, <1>8 DEF InvitesInv, OneOpenAt
<1>10. InviteeAt(i)' /\ AcceptFound(i)' /\ CreateFound(i)'
  BY <1>2 DEF InviteeAt, AcceptFound, CreateFound
<1> QED  BY <1>2, <1>7, <1>8, <1>9, <1>10, InviteProceeds

\* The transaction makes a member nobody counted.
LEMMA InviteGrants ==
    ASSUME InvitesInv, ClockOK, NEW i \in Slots, GrantMembership(i)
    PROVE  InvitesInv'
<1> DEFINE u == req[i].user
           role == invite[req[i].invite].role
           old == IF Present(u) THEN member[u] ELSE [member[u] EXCEPT !.id = @ + 1]
           w == [role |-> role, active |-> TRUE]
           row == Written(w, old)
<1>1. /\ req[i] # Idle /\ req[i].op = "accept" /\ End(i) /\ row.id <= MaxRows
      /\ member' = [member EXCEPT ![u] = row]
      /\ unchecked' = Unchecked(u, row, FALSE)
      /\ invite' = [invite EXCEPT ![req[i].invite].accepted = now]
  BY DEF GrantMembership, Upserted
<1>2. u \in Users /\ role \in Roles
  <2>1. u \in Invitees /\ req[i].invite \in DOMAIN invite
    BY <1>1 DEF InvitesInv, InviteeAt
  <2> QED  BY <2>1, InviteesAreUsers, InviteRows DEF InvitesInv
<1>3. w \in Counts
  BY <1>2 DEF Counts
<1>4. old \in [id : Nat, role : Roles \cup {"none"}, active : BOOLEAN]
  <2>1. member[u] \in [id : 0..MaxRows, role : Roles \cup {"none"}, active : BOOLEAN]
    BY <1>2 DEF InvitesInv, MembersTypeOK
  <2> QED  BY <2>1, MaxRowsNat
<1> HIDE DEF old, w
<1>5. row \in MemberRow
  <2>1. row.id = old.id /\ old.id \in Nat
    BY <1>3, <1>4, MemberUpdate
  <2>2. old.id \in 0..MaxRows
    BY <1>1, <2>1, MaxRowsNat
  <2> QED  BY <1>3, <1>4, <2>2, MemberUpdate
<1> HIDE DEF row
<1>6. MembersTypeOK /\ member = [x \in Users |-> member[x]] /\ CountedManagers = {}
  BY DEF InvitesInv, MembersTypeOK
<1>7. MembersTypeOK'
  BY <1>1, <1>2, <1>5, <1>6, MemberPut
<1>8. CountedManagers' = {}
  BY <1>1, <1>6, MembersCounted
<1> QED  BY <1>1, <1>7, <1>8, InviteCloses

LEMMA InvitesStepKeeps ==
    ASSUME InvitesInv, ClockOK, InvitesNext
    PROVE  InvitesInv'
<1>1. ASSUME NEW i \in Slots, InvitesStep(i) PROVE InvitesInv'
  <2>1. ASSUME NEW u \in Invitees, CreateTenantInvite(i, u) PROVE InvitesInv'
    BY <2>1, InviteArrivals, InviteRolesOK DEF CreateTenantInvite
  <2>2. ASSUME NEW k \in DOMAIN invite, ResendTenantInvite(i, k) PROVE InvitesInv'
    BY <2>2, InviteArrivals, InviteRows DEF ResendTenantInvite, InvitesInv
  <2>3. ASSUME NEW k \in DOMAIN invite, BeginAcceptTenantInvite(i, k) PROVE InvitesInv'
    BY <2>3, InviteArrivals, InviteRows DEF BeginAcceptTenantInvite, InvitesInv
  <2>4. ASSUME NEW u \in Invitees, RemoveWorkspaceMember(i, u), UNCHANGED <<invite, code>> PROVE InvitesInv'
    BY <2>4, InviteArrivals
  <2>5. CASE WriteRevocation(i)
    <3>1. req[i].op = "revoke" /\ req[i] # Idle /\ End(i) /\ UNCHANGED memberVars
      BY <2>5 DEF WriteRevocation, InvitesInv, InviteeAt
    <3>2. MembersTypeOK' /\ CountedManagers' = {}
      BY <3>1, UncountedStay DEF InvitesInv
    <3> QED  BY <2>5, <3>1, <3>2, InviteCloses DEF WriteRevocation
  <2>6. CASE DeleteMember(i) /\ UNCHANGED <<invite, code>>
    <3>1. MembersTypeOK' /\ CountedManagers' \subseteq CountedManagers /\ req[i] # Idle /\ End(i)
      BY <2>6, MemberDeleted DEF InvitesInv, DeleteMember
    <3>2. CountedManagers' = {}
      BY <3>1 DEF InvitesInv
    <3> QED  BY <2>6, <3>1, <3>2, InviteEnds
  <2>7. CASE CodeStep(i) /\ UNCHANGED <<invite, memberVars>>
    BY <2>7, InviteCodes
  <2> QED  BY <1>1, <2>1, <2>2, <2>3, <2>4, <2>5, <2>6, <2>7, InviteAnswers, InviteExpires, InviteInserts,
              InviteGrants DEF InvitesStep
<1>2. ASSUME NEW i \in Slots, Abort(i), UNCHANGED inviteVars PROVE InvitesInv'
  <2>1. MembersTypeOK' /\ CountedManagers' = {}
    BY <1>2, UncountedStay DEF InvitesInv, inviteVars
  <2> QED  BY <1>2, <2>1, InviteEnds DEF Abort, inviteVars
<1>3. ASSUME Tick, UNCHANGED inviteVars PROVE InvitesInv'
  BY <1>3, InviteTicks DEF Tick, inviteVars
<1> QED  BY <1>1, <1>2, <1>3 DEF InvitesNext

LEMMA InvitesInitially == Init => InvitesKept
<1> SUFFICES ASSUME Init PROVE InvitesKept
  OBVIOUS
<1>1. invite = <<>> /\ req = [i \in Slots |-> Idle]
  BY DEF Init, InvitesInit, RequestsInit
<1>2. MembersTypeOK /\ CountedManagers = {}
  BY MembersInitially
<1>3. invite \in Seq(InviteRow) /\ DOMAIN invite = {}
  BY <1>1
<1> QED  BY <1>1, <1>2, <1>3 DEF InvitesKept, InvitesInv, InviteeAt, AcceptFound, CreateFound, AloneAt,
                                 InFlight, OneOpenAt

LEMMA InvitesStayKept == InvitesKept /\ ClockOK /\ [Next]_accessVars => InvitesKept'
<1> SUFFICES ASSUME InvitesKept, ClockOK, [Next]_accessVars PROVE InvitesKept'
  OBVIOUS
<1>1. CASE Next
  <2>1. desk' = desk /\ (desk = "invites" => InvitesNext) /\ (desk # "invites" => UNCHANGED invite)
    BY <1>1 DEF Next, AtTheGate, AmongMembers, OfInvitations, OfSessions, UnderLimits, AtThePanel, OfOwners,
                inviteVars
  <2> QED  BY <2>1, InvitesStepKeeps DEF InvitesKept
<1>2. CASE UNCHANGED accessVars
  <2>1. UNCHANGED <<desk, req, contested, now, invite, memberVars>>
    BY <1>2 DEF accessVars, requestVars, inviteVars
  <2> QED  BY <2>1, InviteTicks DEF InvitesKept
<1> QED  BY <1>1, <1>2

\* The managers a seat was counted for never outnumber the seats of the plan, however
\* many requests are in flight, if no two of them counted the seats together.
THEOREM ManagersHaveSeats == Spec => []SeatsHold
<1>1. MembersKept /\ InvitesKept => SeatsHold
  <2>1. CountedManagers = {} => SeatsHold
    BY FS_EmptySet, SeatsNat DEF SeatsHold, CountedManagers
  <2> QED  BY <2>1 DEF MembersKept, InvitesKept, SeatsInv, InvitesInv
<1> QED  BY <1>1, ClockRuns, MembersInitially, MembersStayKept, InvitesInitially, InvitesStayKept, PTL DEF Spec

\* Of an address that no two requests work for at once, no two invitations to the same
\* role are open, however often one is sent, resent, revoked and accepted.
THEOREM InvitationsReplaceOneAnother == Spec => []OneOpenInvite
<1>1. InvitesKept => OneOpenInvite
  <2>1. ASSUME InvitesInv PROVE OneOpenInvite
    BY <2>1, InviteRows DEF InvitesInv, OneOpenAt, OneOpenInvite
  <2>2. invite = <<>> => OneOpenInvite
    BY DEF OneOpenInvite
  <2> QED  BY <2>1, <2>2 DEF InvitesKept
<1> QED  BY <1>1, ClockRuns, InvitesInitially, InvitesStayKept, PTL DEF Spec

LEMMA InviteAdmits ==
    ASSUME InvitesInv, ClockOK, InvitesNext, NEW k \in DOMAIN invite, invite'[k].accepted # invite[k].accepted
    PROVE  invite[k].user \in contested \/ AsSent(k)
<1>1. PICK i \in Slots : InvitesStep(i) /\ invite' # invite
  BY DEF InvitesNext, inviteVars
<1>2. invite \in Seq(InviteRow) /\ invite[k] \in InviteRow
  BY InviteRows DEF InvitesInv
<1>3. ~ExpireOpenInvites(i)
  BY <1>2 DEF ExpireOpenInvites, InviteRow
<1>4. ~InsertInvite(i)
  BY <1>2 DEF InsertInvite
<1>5. ~WriteRevocation(i)
  BY <1>2 DEF WriteRevocation, InviteRow
<1>6. GrantMembership(i)
  BY <1>1, <1>3, <1>4, <1>5
     DEF InvitesStep, CreateTenantInvite, SendInvite, ResendTenantInvite, RevokeTenantInvite,
         BeginAcceptTenantInvite, AcceptTenantInvite, inviteVars
<1>7. req[i] # Idle /\ req[i].op = "accept" /\ invite' = [invite EXCEPT ![req[i].invite].accepted = now]
  BY <1>6 DEF GrantMembership
<1>8. k = req[i].invite
  BY <1>2, <1>7
<1>9. invite[k].user = req[i].user
  BY <1>7, <1>8 DEF InvitesInv, InviteeAt
<1> QED  BY <1>7, <1>8, <1>9 DEF InvitesInv, AcceptFound

\* What an invitation gave is never given again, and a revoked or replaced one gives
\* nothing, unless two requests worked for its address at once.
THEOREM InvitationsAdmitOnce == Spec => InviteAdmitsOnce
<1>1. InvitesKept /\ ClockOK /\ [Next]_accessVars =>
        [\A k \in DOMAIN invite :
          invite'[k].accepted # invite[k].accepted
            => \/ invite[k].user \in contested
               \/ /\ invite[k].accepted = Never
                  /\ invite[k].until = invite[k].at + InviteLife]_invite
  <2> SUFFICES ASSUME InvitesKept, ClockOK, [Next]_accessVars, invite' # invite,
                      NEW k \in DOMAIN invite, invite'[k].accepted # invite[k].accepted
               PROVE  invite[k].user \in contested \/ AsSent(k)
    BY DEF AsSent
  <2>1. desk = "invites" /\ InvitesNext
    BY DEF Next, AtTheGate, AmongMembers, OfInvitations, OfSessions, UnderLimits, AtThePanel, OfOwners,
           accessVars, inviteVars
  <2> QED  BY <2>1, InviteAdmits DEF InvitesKept
<1> QED  BY <1>1, ClockRuns, InvitesInitially, InvitesStayKept, PTL DEF Spec, InviteAdmitsOnce

(***************************************************************************)
(* One-time codes.  Each request that has read a code and is to count a    *)
(* miss of it read it before the limit was reached: the misses counted and *)
(* those yet to be counted stay below the limit and the other requests.    *)
(***************************************************************************)

Missing(c) == {i \in Slots : req[i] # Idle /\ req[i].step = "miss" /\ req[i].code = c}

\* What the steps of a code look at in a request.
CodeRequest(i, People) ==
    \/ req[i] = Idle
    \/ /\ req[i] # Idle /\ "step" \in DOMAIN req[i]
       /\ req[i].step = "issue" => req[i].user \in People
       /\ req[i].step = "code" => "code" \in DOMAIN req[i]

CodesInv(People) ==
    /\ req = [i \in Slots |-> req[i]]
    /\ \A i \in Slots : CodeRequest(i, People)
    /\ code \in Seq(CodeRow(People))
    /\ \A c \in DOMAIN code : code[c].attempts + Cardinality(Missing(c)) < MaxAttempts + Cardinality(Slots)

\* A request whose next step counts a miss.
Misses(r) == r # Idle /\ r.step = "miss"

-----------------------------------------------------------------------------

LEMMA SlotsCounted ==
    ASSUME NEW S \in SUBSET Slots
    PROVE  IsFiniteSet(S) /\ Cardinality(S) \in Nat /\ Cardinality(S) <= Cardinality(Slots)
           /\ Cardinality(Slots) \in Nat
BY SlotsFinite, FS_Subset, FS_CardinalityType

LEMMA CodeRows ==
    ASSUME NEW People, code \in Seq(CodeRow(People)), NEW c \in DOMAIN code
    PROVE  code[c] \in CodeRow(People) /\ code[c].attempts \in Nat
<1>1. \A S : code \in Seq(S) => code[c] \in S
  OBVIOUS
<1>2. code[c] \in CodeRow(People)
  BY <1>1
<1>3. 0..(MaxAttempts + Cardinality(Slots)) \subseteq Nat
  OBVIOUS
<1> QED  BY <1>2, <1>3 DEF CodeRow

\* Nobody else than request i comes to miss a code, nor does it.
LEMMA CodesRest ==
    ASSUME NEW People, CodesInv(People), UNCHANGED code, NEW i \in Slots, NEW r,
           req' = [req EXCEPT ![i] = r], ~Misses(r), CodeRequest(i, People)'
    PROVE  CodesInv(People)'
<1>1. /\ req' = [j \in Slots |-> req'[j]] /\ req'[i] = r
      /\ \A j \in Slots : j # i => req'[j] = req[j]
  BY DEF CodesInv
<1>2. ASSUME NEW c \in DOMAIN code
      PROVE  code'[c].attempts + Cardinality(Missing(c)') < MaxAttempts + Cardinality(Slots)
  <2>1. Missing(c)' \subseteq Missing(c)
    BY <1>1 DEF Missing, Misses
  <2>2. Cardinality(Missing(c)') <= Cardinality(Missing(c)) /\ Cardinality(Missing(c)') \in Nat
        /\ Cardinality(Missing(c)) \in Nat
    BY <2>1, SlotsCounted, FS_Subset DEF Missing
  <2>3. code[c].attempts + Cardinality(Missing(c)) < MaxAttempts + Cardinality(Slots)
        /\ code[c].attempts \in Nat
    BY CodeRows DEF CodesInv
  <2> QED  BY <2>2, <2>3, SlotsCounted, MaxAttemptsNat
<1>3. \A j \in Slots : CodeRequest(j, People)'
  BY <1>1 DEF CodesInv, CodeRequest
<1> QED  BY <1>1, <1>2, <1>3 DEF CodesInv

\* A row of the table is written, and nobody comes to miss a code.
LEMMA CodeWritten ==
    ASSUME NEW People, CodesInv(People), NEW i \in Slots, NEW r, req' = [req EXCEPT ![i] = r], ~Misses(r),
           CodeRequest(i, People)', code' \in Seq(CodeRow(People)),
           \A c \in DOMAIN code' : \/ c \in DOMAIN code /\ code'[c].attempts = code[c].attempts
                                   \/ code'[c].attempts = 0
                                   \/ /\ c \in DOMAIN code /\ i \in Missing(c)
                                      /\ code'[c].attempts = code[c].attempts + 1
    PROVE  CodesInv(People)'
<1>1. /\ req' = [j \in Slots |-> req'[j]] /\ req'[i] = r
      /\ \A j \in Slots : j # i => req'[j] = req[j]
  BY DEF CodesInv
<1>2. ASSUME NEW c \in DOMAIN code'
      PROVE  code'[c].attempts + Cardinality(Missing(c)') < MaxAttempts + Cardinality(Slots)
  <2>1. Missing(c)' \subseteq Missing(c) \ {i} /\ Missing(c) \in SUBSET Slots
    BY <1>1 DEF Missing, Misses
  <2>2. /\ Cardinality(Missing(c)') \in Nat /\ Cardinality(Missing(c)') <= Cardinality(Slots)
        /\ Cardinality(Missing(c)) \in Nat /\ IsFiniteSet(Missing(c)) /\ Cardinality(Slots) \in Nat
    <3>1. Missing(c)' \in SUBSET Slots
      BY <2>1
    <3> QED  BY <2>1, <3>1, SlotsCounted
  <2>3. Cardinality(Missing(c)') <= Cardinality(Missing(c))
    BY <2>1, <2>2, FS_Subset
  <2>4. c \in DOMAIN code => code[c].attempts + Cardinality(Missing(c)) < MaxAttempts + Cardinality(Slots)
                             /\ code[c].attempts \in Nat
    BY CodeRows DEF CodesInv
  <2>5. CASE code'[c].attempts = 0
    BY <2>2, <2>5, MaxAttemptsNat
  <2>6. CASE c \in DOMAIN code /\ code'[c].attempts = code[c].attempts
    BY <2>2, <2>3, <2>4, <2>6, MaxAttemptsNat
  <2>7. CASE c \in DOMAIN code /\ i \in Missing(c) /\ code'[c].attempts = code[c].attempts + 1
    <3>1. IsFiniteSet(Missing(c) \ {i}) /\ Cardinality(Missing(c) \ {i}) = Cardinality(Missing(c)) - 1
      BY <2>2, <2>7, FS_RemoveElement
    <3>2. Cardinality(Missing(c)') <= Cardinality(Missing(c) \ {i})
      BY <2>1, <3>1, FS_Subset
    <3> QED  BY <2>2, <2>4, <2>7, <3>1, <3>2, MaxAttemptsNat
  <2> QED  BY <2>5, <2>6, <2>7
<1>3. \A j \in Slots : CodeRequest(j, People)'
  BY <1>1 DEF CodesInv, CodeRequest
<1> QED  BY <1>1, <1>2, <1>3 DEF CodesInv

\* A row of the table is changed in one column.
LEMMA CodeChanged ==
    ASSUME NEW People, code \in Seq(CodeRow(People)), NEW k, NEW row,
           k \in DOMAIN code => row \in CodeRow(People), code' = [code EXCEPT ![k] = row]
    PROVE  /\ code' \in Seq(CodeRow(People)) /\ DOMAIN code' = DOMAIN code
           /\ \A c \in DOMAIN code : code'[c] = IF c = k THEN row ELSE code[c]
<1> DEFINE R == CodeRow(People)
<1>1. code \in Seq(R) /\ (k \in DOMAIN code => row \in R)
  OBVIOUS
<1> HIDE DEF R
<1>2. DOMAIN code = 1..Len(code) /\ code = [c \in 1..Len(code) |-> code[c]]
  BY <1>1, LenProperties
<1>3. CASE k \in DOMAIN code
  <2>1. /\ code' \in Seq(R) /\ Len(code') = Len(code)
        /\ \A c \in 1..Len(code) : code'[c] = IF c = k THEN row ELSE code[c]
    BY <1>1, <1>2, <1>3, ExceptSeq
  <2> QED  BY <1>2, <2>1, LenProperties DEF R
<1>4. CASE k \notin DOMAIN code
  <2>1. code' = code
    BY <1>2, <1>4
  <2> QED  BY <1>1, <1>4, <2>1 DEF R
<1> QED  BY <1>3, <1>4

LEMMA CodeIssued ==
    ASSUME NEW People, CodesInv(People), ClockOK, NEW i \in Slots, IssueCode(i)
    PROVE  CodesInv(People)'
<1> DEFINE row == [user |-> req[i].user, at |-> now, until |-> now + CodeLife, attempts |-> 0, used |-> FALSE]
           n == Len(code)
           R == CodeRow(People)
<1>1. req[i] # Idle /\ req[i].step = "issue" /\ req' = [req EXCEPT ![i] = Idle] /\ code' = Append(code, row)
  BY DEF IssueCode, End, Proceed
<1>2. row \in R /\ row.attempts = 0 /\ code \in Seq(R)
  <2>1. req[i].user \in People
    BY <1>1 DEF CodesInv, CodeRequest
  <2>2. 0 \in 0..(MaxAttempts + Cardinality(Slots))
    <3>1. Cardinality(Slots) \in Nat
      BY SlotsCounted
    <3> QED  BY <3>1, MaxAttemptsNat
  <2> QED  BY <2>1, <2>2, MaxTimeNat, CodeLifeNat DEF CodesInv, CodeRow, ClockOK
<1> HIDE DEF row, R
<1>3. /\ code' \in Seq(R) /\ n \in Nat /\ DOMAIN code = 1..n /\ DOMAIN code' = 1..(n + 1)
      /\ code'[n + 1] = row /\ \A c \in 1..n : code'[c] = code[c]
  BY <1>1, <1>2, AppendProperties, LenProperties
<1>4. \A c \in DOMAIN code' : \/ c \in DOMAIN code /\ code'[c].attempts = code[c].attempts
                              \/ code'[c].attempts = 0
  BY <1>2, <1>3
<1>5. CodeRequest(i, People)' /\ ~Misses(Idle)
  BY <1>1 DEF CodesInv, CodeRequest, Misses
<1> QED  BY <1>1, <1>3, <1>4, <1>5, CodeWritten DEF R

\* A miss is counted below the limit of the type.
LEMMA CodeMissed ==
    ASSUME NEW People, CodesInv(People), NEW i \in Slots, MissCode(i)
    PROVE  CodesInv(People)'
<1> DEFINE k == req[i].code
           row == [code[k] EXCEPT !.attempts = @ + 1]
<1>1. /\ req[i] # Idle /\ req[i].step = "miss" /\ req' = [req EXCEPT ![i] = Idle]
      /\ code' = [code EXCEPT ![k] = row]
  BY DEF MissCode, End, Proceed
<1>2. i \in Missing(k)
  BY <1>1 DEF Missing
<1>3. k \in DOMAIN code => row \in CodeRow(People) /\ row.attempts = code[k].attempts + 1
  <2> SUFFICES ASSUME k \in DOMAIN code PROVE row \in CodeRow(People) /\ row.attempts = code[k].attempts + 1
    OBVIOUS
  <2>1. code[k] \in CodeRow(People) /\ code[k].attempts \in Nat
    BY CodeRows DEF CodesInv
  <2>2. code[k].attempts + Cardinality(Missing(k)) < MaxAttempts + Cardinality(Slots)
    BY DEF CodesInv
  <2>3. Cardinality(Missing(k)) \in Nat /\ Cardinality(Slots) \in Nat
    BY SlotsCounted DEF Missing
  <2>4. code[k].attempts + 1 \in 0..(MaxAttempts + Cardinality(Slots))
    BY <2>1, <2>2, <2>3, MaxAttemptsNat
  <2> QED  BY <2>1, <2>4 DEF CodeRow
<1> HIDE DEF row, k
<1>4. /\ code' \in Seq(CodeRow(People)) /\ DOMAIN code' = DOMAIN code
      /\ \A c \in DOMAIN code : code'[c] = IF c = k THEN row ELSE code[c]
  BY <1>1, <1>3, CodeChanged DEF CodesInv
<1>5. \A c \in DOMAIN code' : \/ c \in DOMAIN code /\ code'[c].attempts = code[c].attempts
                              \/ /\ c \in DOMAIN code /\ i \in Missing(c)
                                 /\ code'[c].attempts = code[c].attempts + 1
  BY <1>2, <1>3, <1>4
<1>6. CodeRequest(i, People)' /\ ~Misses(Idle)
  BY <1>1 DEF CodesInv, CodeRequest, Misses
<1> QED  BY <1>1, <1>4, <1>5, <1>6, CodeWritten

\* A code is used up by the right guess, or by the miss after the last.
LEMMA CodeUsed ==
    ASSUME NEW People, CodesInv(People), NEW i \in Slots, BurnCode(i) \/ SpendCode(i)
    PROVE  CodesInv(People)'
<1> DEFINE k == req[i].code
           row == [code[k] EXCEPT !.used = TRUE]
<1>1. PICK r : /\ req[i] # Idle /\ req' = [req EXCEPT ![i] = r] /\ code' = [code EXCEPT ![k] = row]
               /\ r = Idle \/ r = [req[i] EXCEPT !.step = "grant"]
  BY DEF BurnCode, SpendCode, End, Proceed
<1>2. k \in DOMAIN code => row \in CodeRow(People) /\ row.attempts = code[k].attempts
  <2> SUFFICES ASSUME k \in DOMAIN code PROVE row \in CodeRow(People) /\ row.attempts = code[k].attempts
    OBVIOUS
  <2>1. code[k] \in CodeRow(People)
    BY CodeRows DEF CodesInv
  <2> QED  BY <2>1 DEF CodeRow
<1> HIDE DEF row, k
<1>3. /\ code' \in Seq(CodeRow(People)) /\ DOMAIN code' = DOMAIN code
      /\ \A c \in DOMAIN code : code'[c] = IF c = k THEN row ELSE code[c]
  BY <1>1, <1>2, CodeChanged DEF CodesInv
<1>4. \A c \in DOMAIN code' : c \in DOMAIN code /\ code'[c].attempts = code[c].attempts
  BY <1>2, <1>3
<1>5. r = Idle \/ (DOMAIN r = DOMAIN req[i] /\ "step" \in DOMAIN r /\ r.step = "grant")
  BY <1>1 DEF CodesInv, CodeRequest
<1>6. CodeRequest(i, People)' /\ ~Misses(r)
  BY <1>1, <1>5 DEF CodesInv, CodeRequest, Misses
<1> QED  BY <1>1, <1>3, <1>4, <1>6, CodeWritten

\* Whoever is to miss a code has found it below the limit.
LEMMA CodeRead ==
    ASSUME NEW People, CodesInv(People), NEW i \in Slots, ReadCode(i)
    PROVE  CodesInv(People)'
<1>1. req[i] # Idle /\ req[i].step = "code" /\ {"step", "code"} \subseteq DOMAIN req[i] /\ UNCHANGED code
  BY DEF ReadCode, CodesInv, CodeRequest
<1>2. CASE End(i)
  <2>1. req' = [req EXCEPT ![i] = Idle] /\ ~Misses(Idle)
    BY <1>2 DEF End, Proceed, Misses
  <2>2. CodeRequest(i, People)'
    BY <2>1 DEF CodesInv, CodeRequest
  <2> QED  BY <1>1, <2>1, <2>2, CodesRest
<1>3. ASSUME NEW c, NEW step \in {"burn", "spend", "miss"},
             Proceed(i, [req[i] EXCEPT !.step = step, !.code = c]),
             step = "miss" => ~(code[c].attempts >= MaxAttempts)
      PROVE  CodesInv(People)'
  <2> DEFINE r == [req[i] EXCEPT !.step = step, !.code = c]
  <2>1. req' = [req EXCEPT ![i] = r] /\ DOMAIN r = DOMAIN req[i] /\ r.step = step /\ r.code = c
    BY <1>1, <1>3 DEF Proceed
  <2>2. r # Idle
    <3>1. "step" \notin DOMAIN Idle
      BY DEF Idle
    <3> QED  BY <1>1, <2>1, <3>1
  <2> HIDE DEF r
  <2>3. /\ req' = [j \in Slots |-> req'[j]] /\ req'[i] = r
        /\ \A j \in Slots : j # i => req'[j] = req[j]
    BY <2>1 DEF CodesInv
  <2>4. CodeRequest(i, People)'
    BY <1>1, <2>1, <2>2, <2>3 DEF CodeRequest
  <2>5. CASE step # "miss"
    BY <1>1, <2>1, <2>4, <2>5, CodesRest DEF Misses
  <2>6. CASE step = "miss"
    <3>1. ASSUME NEW d \in DOMAIN code
          PROVE  code'[d].attempts + Cardinality(Missing(d)') < MaxAttempts + Cardinality(Slots)
      <4>1. /\ code[d].attempts + Cardinality(Missing(d)) < MaxAttempts + Cardinality(Slots)
            /\ code[d].attempts \in Nat /\ code'[d] = code[d]
        BY <1>1, CodeRows DEF CodesInv
      <4>2. /\ Cardinality(Missing(d)') \in Nat /\ Cardinality(Missing(d)') <= Cardinality(Slots)
            /\ Cardinality(Missing(d)) \in Nat /\ IsFiniteSet(Missing(d)) /\ Cardinality(Slots) \in Nat
        <5>1. Missing(d)' \in SUBSET Slots /\ Missing(d) \in SUBSET Slots
          BY DEF Missing
        <5> QED  BY <5>1, SlotsCounted
      <4>3. CASE d = c
        BY <1>3, <2>6, <4>1, <4>2, <4>3, MaxAttemptsNat
      <4>4. CASE d # c
        <5>1. Missing(d)' \subseteq Missing(d)
          BY <2>1, <2>3, <4>4 DEF Missing
        <5>2. Cardinality(Missing(d)') <= Cardinality(Missing(d))
          BY <4>2, <5>1, FS_Subset
        <5> QED  BY <4>1, <4>2, <5>2, MaxAttemptsNat
      <4> QED  BY <4>3, <4>4
    <3>2. \A j \in Slots : CodeRequest(j, People)'
      BY <2>3, <2>4 DEF CodesInv, CodeRequest
    <3> QED  BY <1>1, <2>3, <3>1, <3>2 DEF CodesInv
  <2> QED  BY <2>5, <2>6
<1> QED  BY <1>1, <1>2, <1>3 DEF ReadCode

LEMMA CodesStep ==
    ASSUME NEW People, CodesInv(People), ClockOK, NEW i \in Slots, CodeStep(i)
    PROVE  CodesInv(People)'
BY CodeIssued, CodeRead, CodeMissed, CodeUsed DEF CodeStep

\* A request that has nothing to do with codes begins, goes on or ends.
Quiet(r) == r = Idle \/ ("step" \in DOMAIN r /\ r.step \notin {"issue", "code", "miss"})

LEMMA CodesQuiet ==
    ASSUME NEW People, CodesInv(People), UNCHANGED code, NEW i \in Slots, NEW r, Quiet(r),
           Begin(i, r) \/ Proceed(i, r)
    PROVE  CodesInv(People)'
<1>1. req' = [req EXCEPT ![i] = r] /\ req'[i] = r
  BY DEF CodesInv, Begin, Proceed
<1>2. CodeRequest(i, People)' /\ ~Misses(r)
  BY <1>1 DEF CodeRequest, Misses, Quiet
<1> QED  BY <1>1, <1>2, CodesRest

\* A request is sent a code, or comes with one.
LEMMA CodesAsked ==
    ASSUME NEW People, CodesInv(People), UNCHANGED code, NEW i \in Slots, NEW r, Begin(i, r),
           "step" \in DOMAIN r, r.step \in {"issue", "code"},
           r.step = "issue" => r.user \in People, r.step = "code" => "code" \in DOMAIN r
    PROVE  CodesInv(People)'
<1>1. req' = [req EXCEPT ![i] = r] /\ req'[i] = r
  BY DEF CodesInv, Begin
<1>2. r # Idle
  <2>1. "step" \notin DOMAIN Idle
    BY DEF Idle
  <2> QED  BY <2>1
<1>3. CodeRequest(i, People)' /\ ~Misses(r)
  BY <1>1, <1>2 DEF CodeRequest, Misses
<1> QED  BY <1>1, <1>3, CodesRest

LEMMA CodeSent ==
    ASSUME NEW People, CodesInv(People), NEW i \in Slots, NEW u \in People, SendCode(i, u)
    PROVE  CodesInv(People)'
<1> DEFINE r == [op |-> "send", rows |-> {u}, user |-> u, step |-> "issue"]
<1>1. Begin(i, r) /\ UNCHANGED code
  BY DEF SendCode
<1>2. "step" \in DOMAIN r /\ r.step = "issue" /\ r.user = u
  OBVIOUS
<1> HIDE DEF r
<1> QED  BY <1>1, <1>2, CodesAsked

LEMMA CodesStutter ==
    ASSUME NEW People, CodesInv(People), UNCHANGED <<req, code>>
    PROVE  CodesInv(People)'
BY DEF CodesInv, CodeRequest, Missing

LEMMA CodesOfSessions ==
    ASSUME CodesInv(Accounts), ClockOK, SessionsNext
    PROVE  CodesInv(Accounts)'
<1>1. ASSUME NEW i \in Slots, NEW u \in Accounts, SendLoginOtp(i, u) PROVE CodesInv(Accounts)'
  BY <1>1, CodeSent DEF SendLoginOtp
<1>2. ASSUME NEW i \in Slots, NEW u \in Accounts, VerifyLoginOtp(i, u) PROVE CodesInv(Accounts)'
  <2> DEFINE r == [op |-> "login", rows |-> {u}, user |-> u, step |-> "code", code |-> 0]
  <2>1. Begin(i, r) /\ UNCHANGED code
    BY <1>2 DEF VerifyLoginOtp, sessionAll
  <2>2. {"step", "code"} \subseteq DOMAIN r /\ r.step = "code"
    OBVIOUS
  <2> HIDE DEF r
  <2> QED  BY <2>1, <2>2, CodesAsked
<1>3. ASSUME NEW i \in Slots, NEW u \in Accounts,
             RevokeAllSessions(i, u) \/ \E c \in DOMAIN challenge : ConfirmAuthentication(i, u, c)
      PROVE  CodesInv(Accounts)'
  <2>1. CASE RevokeAllSessions(i, u)
    <3>1. PICK r : Begin(i, r) /\ UNCHANGED code /\ Quiet(r)
      BY <2>1 DEF RevokeAllSessions, sessionAll, Quiet
    <3> QED  BY <3>1, CodesQuiet
  <2>2. ASSUME NEW c, ConfirmAuthentication(i, u, c) PROVE CodesInv(Accounts)'
    <3>1. PICK r : Begin(i, r) /\ UNCHANGED code /\ Quiet(r)
      BY <2>2 DEF ConfirmAuthentication, Quiet
    <3> QED  BY <3>1, CodesQuiet
  <2> QED  BY <1>3, <2>1, <2>2
<1>4. ASSUME NEW i \in Slots, NEW d \in Devices, VerifyDevice(i, d) PROVE CodesInv(Accounts)'
  <2>1. PICK r : Begin(i, r) /\ UNCHANGED code /\ Quiet(r)
    BY <1>4 DEF VerifyDevice, sessionAll, Quiet
  <2> QED  BY <2>1, CodesQuiet
<1>5. ASSUME NEW i \in Slots, CreateSession(i) \/ ForgetDevice(i) \/ DeleteDevices(i) \/ Abort(i), UNCHANGED code
      PROVE  CodesInv(Accounts)'
  <2>1. Proceed(i, Idle) /\ Quiet(Idle)
    BY <1>5 DEF CreateSession, ForgetDevice, DeleteDevices, Abort, End, Quiet
  <2> QED  BY <1>5, <2>1, CodesQuiet
<1>6. ASSUME NEW i \in Slots, RefreshDevice(i) \/ UpdateCounter(i) PROVE CodesInv(Accounts)'
  <2>1. req[i] # Idle /\ "step" \in DOMAIN req[i] /\ UNCHANGED code
    BY <1>6 DEF CodesInv, CodeRequest, RefreshDevice, UpdateCounter
  <2>2. Proceed(i, Idle) \/ Proceed(i, [req[i] EXCEPT !.step = "grant"])
    BY <1>6 DEF RefreshDevice, UpdateCounter, End
  <2>3. Quiet(Idle) /\ Quiet([req[i] EXCEPT !.step = "grant"])
    BY <2>1 DEF Quiet
  <2> QED  BY <2>1, <2>2, <2>3, CodesQuiet
<1>7. ASSUME NEW i \in Slots, TouchUser(i) PROVE CodesInv(Accounts)'
  <2>1. PICK r : Proceed(i, r) /\ UNCHANGED code /\ Quiet(r)
    BY <1>7 DEF TouchUser, Quiet
  <2> QED  BY <2>1, CodesQuiet
<1>8. ASSUME NEW i \in Slots, VerifyAssertion(i) PROVE CodesInv(Accounts)'
  <2>1. ASSUME NEW n PROVE Quiet([op |-> "passkey", rows |-> req[i].rows, user |-> req[i].user,
                                  challenge |-> req[i].challenge, step |-> "counter", count |-> n])
    BY DEF Quiet
  <2>2. Quiet(Idle) /\ UNCHANGED code
    BY <1>8 DEF Quiet, VerifyAssertion, sessionAll
  <2>3. PICK n : \/ Proceed(i, Idle)
                 \/ Proceed(i, [op |-> "passkey", rows |-> req[i].rows, user |-> req[i].user,
                                challenge |-> req[i].challenge, step |-> "counter", count |-> n])
    BY <1>8 DEF VerifyAssertion, End
  <2> QED  BY <2>1, <2>2, <2>3, CodesQuiet
<1>9. ASSUME NEW i \in Slots, SessionsStep(i) PROVE CodesInv(Accounts)'
  <2>1. CreateSession(i) \/ ForgetDevice(i) \/ DeleteDevices(i) => UNCHANGED code
    BY DEF CreateSession, ForgetDevice, DeleteDevices
  <2> QED  BY <1>1, <1>2, <1>3, <1>4, <1>5, <1>6, <1>7, <1>8, <1>9, <2>1, CodesStep DEF SessionsStep
<1>10. CASE UNCHANGED <<req, code>>
  BY <1>10, CodesStutter
<1>11. ASSUME NEW u \in Accounts, \/ SyncUserPhone(u) \/ ConfirmRegistration(u) \/ RemovePasskey(u)
                                  \/ \E d \in Devices : RegisterDevice(u, d)
       PROVE UNCHANGED <<req, code>>
  BY <1>11 DEF SyncUserPhone, ConfirmRegistration, RemovePasskey, RegisterDevice, Once
<1>12. ASSUME NEW d \in Devices, RemoveDevice(d) PROVE UNCHANGED <<req, code>>
  BY <1>12 DEF RemoveDevice, Once
<1>13. GetAuthenticationOptions \/ (Tick /\ UNCHANGED sessionAll) => UNCHANGED <<req, code>>
  BY DEF GetAuthenticationOptions, Tick, sessionAll, requestVars
<1> QED  BY <1>5, <1>9, <1>10, <1>11, <1>12, <1>13 DEF SessionsNext, sessionAll

LEMMA CodesOfInvites ==
    ASSUME CodesInv(Invitees), InvitesInv, ClockOK, InvitesNext
    PROVE  CodesInv(Invitees)'
<1>1. ASSUME NEW i \in Slots, NEW u, NEW role, SendInvite(i, u, role) PROVE CodesInv(Invitees)'
  <2>1. PICK r : Begin(i, r) /\ UNCHANGED code /\ Quiet(r)
    BY <1>1 DEF SendInvite, inviteVars, Quiet
  <2> QED  BY <2>1, CodesQuiet
<1>2. ASSUME NEW i \in Slots, NEW k \in DOMAIN invite, RevokeTenantInvite(i, k) PROVE CodesInv(Invitees)'
  <2>1. PICK r : Begin(i, r) /\ UNCHANGED code /\ Quiet(r)
    BY <1>2 DEF RevokeTenantInvite, inviteVars, Quiet
  <2> QED  BY <2>1, CodesQuiet
<1>3. ASSUME NEW i \in Slots, NEW k \in DOMAIN invite, BeginAcceptTenantInvite(i, k) PROVE CodesInv(Invitees)'
  BY <1>3, CodeSent, InviteRows DEF BeginAcceptTenantInvite, InvitesInv
<1>4. ASSUME NEW i \in Slots, NEW k \in DOMAIN invite, AcceptTenantInvite(i, k) PROVE CodesInv(Invitees)'
  <2> DEFINE r == [op |-> "accept", rows |-> {invite[k].user}, user |-> invite[k].user,
                   invite |-> k, step |-> "code", code |-> 0]
  <2>1. Begin(i, r) /\ UNCHANGED code
    BY <1>4 DEF AcceptTenantInvite, inviteVars
  <2>2. {"step", "code"} \subseteq DOMAIN r /\ r.step = "code"
    OBVIOUS
  <2> HIDE DEF r
  <2> QED  BY <2>1, <2>2, CodesAsked
<1>5. ASSUME NEW i \in Slots, NEW u, RemoveWorkspaceMember(i, u), UNCHANGED code PROVE CodesInv(Invitees)'
  <2>1. PICK r : Begin(i, r) /\ Quiet(r)
    BY <1>5 DEF RemoveWorkspaceMember, Quiet
  <2> QED  BY <1>5, <2>1, CodesQuiet
<1>6. ASSUME NEW i \in Slots, UNCHANGED code,
             InsertInvite(i) \/ WriteRevocation(i) \/ GrantMembership(i) \/ DeleteMember(i) \/ Abort(i)
      PROVE  CodesInv(Invitees)'
  <2>1. Proceed(i, Idle) /\ Quiet(Idle)
    BY <1>6 DEF InsertInvite, WriteRevocation, GrantMembership, DeleteMember, Abort, End, Quiet
  <2> QED  BY <1>6, <2>1, CodesQuiet
<1>7. ASSUME NEW i \in Slots, ExpireOpenInvites(i) PROVE CodesInv(Invitees)'
  <2>1. req[i] # Idle /\ "step" \in DOMAIN req[i]
    BY <1>7 DEF CodesInv, CodeRequest, ExpireOpenInvites
  <2>2. Proceed(i, [req[i] EXCEPT !.step = "create"]) /\ UNCHANGED code
    BY <1>7 DEF ExpireOpenInvites
  <2>3. Quiet([req[i] EXCEPT !.step = "create"])
    BY <2>1 DEF Quiet
  <2> QED  BY <2>2, <2>3, CodesQuiet
<1>8. ASSUME NEW i \in Slots, InvitesStep(i) PROVE CodesInv(Invitees)'
  <2>1. InsertInvite(i) \/ WriteRevocation(i) \/ GrantMembership(i) => UNCHANGED code
    BY DEF InsertInvite, WriteRevocation, GrantMembership
  <2>2. \A u : CreateTenantInvite(i, u) => \E role : SendInvite(i, u, role)
    BY DEF CreateTenantInvite
  <2>3. \A k : ResendTenantInvite(i, k) => \E u, role : SendInvite(i, u, role)
    BY DEF ResendTenantInvite
  <2> QED  BY <1>1, <1>2, <1>3, <1>4, <1>5, <1>6, <1>7, <1>8, <2>1, <2>2, <2>3, CodesStep DEF InvitesStep
<1>9. ASSUME Tick, UNCHANGED inviteVars PROVE CodesInv(Invitees)'
  BY <1>9, CodesStutter DEF Tick, inviteVars
<1> QED  BY <1>6, <1>8, <1>9 DEF InvitesNext, inviteVars

CodesKept ==
    /\ desk = "invites" => CodesInv(Invitees)
    /\ desk = "sessions" => CodesInv(Accounts)
    /\ desk \notin {"invites", "sessions"} => code = <<>>

LEMMA CodesInitially == Init => CodesKept
<1> SUFFICES ASSUME Init PROVE CodesKept
  OBVIOUS
<1>1. code = <<>> /\ req = [i \in Slots |-> Idle]
  BY DEF Init, CodesInit, RequestsInit
<1>2. ASSUME NEW People PROVE CodesInv(People)
  BY <1>1 DEF CodesInv, CodeRequest
<1> QED  BY <1>1, <1>2 DEF CodesKept

LEMMA CodesStayKept == CodesKept /\ InvitesKept /\ ClockOK /\ [Next]_accessVars => CodesKept'
<1> SUFFICES ASSUME CodesKept, InvitesKept, ClockOK, [Next]_accessVars PROVE CodesKept'
  OBVIOUS
<1>1. CASE Next
  <2>1. /\ desk' = desk /\ (desk = "invites" => InvitesNext) /\ (desk = "sessions" => SessionsNext)
        /\ desk \notin {"invites", "sessions"} => UNCHANGED code
    BY <1>1 DEF Next, AtTheGate, AmongMembers, OfInvitations, OfSessions, UnderLimits, AtThePanel, OfOwners,
                inviteVars
  <2> QED  BY <2>1, CodesOfInvites, CodesOfSessions DEF CodesKept, InvitesKept
<1>2. CASE UNCHANGED accessVars
  <2>1. UNCHANGED <<desk, req, code>>
    BY <1>2 DEF accessVars, requestVars, inviteVars
  <2> QED  BY <2>1, CodesStutter DEF CodesKept
<1> QED  BY <1>1, <1>2

(***************************************************************************)
(* The codes of the owner.  Each request that is to make one has counted   *)
(* below the cap: the codes of the hour and those yet to be made stay      *)
(* below the cap and the other requests.                                   *)
(***************************************************************************)

Issuing == {i \in Slots : req[i] # Idle /\ req[i].step = "issue"}

OwnerCodeRow == [at : 1..MaxTime, consumed : BOOLEAN]

OwnerRationInv ==
    /\ req = [i \in Slots |-> req[i]]
    /\ ownerCode \in Seq(OwnerCodeRow) /\ pending \in BOOLEAN
    /\ Cardinality(IssuedSince(HourAgo)) + Cardinality(Issuing) < OwnerCap + Cardinality(Slots)

OwnerRationKept ==
    /\ desk = "owners" => OwnerRationInv
    /\ desk # "owners" => ownerCode = <<>> /\ pending \in BOOLEAN

-----------------------------------------------------------------------------

LEMMA HourCounted ==
    ASSUME ownerCode \in Seq(OwnerCodeRow)
    PROVE  IsFiniteSet(IssuedSince(HourAgo)) /\ Cardinality(IssuedSince(HourAgo)) \in Nat
<1>1. DOMAIN ownerCode = 1..Len(ownerCode) /\ Len(ownerCode) \in Nat
  BY LenProperties
<1>2. IsFiniteSet(DOMAIN ownerCode)
  BY <1>1, FS_Interval
<1>3. IssuedSince(HourAgo) \subseteq DOMAIN ownerCode
  BY DEF IssuedSince
<1> QED  BY <1>2, <1>3, FS_Subset, FS_CardinalityType

LEMMA OwnersQuiet ==
    ASSUME OwnerRationInv, ClockOK, now' = now \/ now' = now + 1,
           ownerCode' \in Seq(OwnerCodeRow), pending' \in BOOLEAN, DOMAIN ownerCode' = DOMAIN ownerCode,
           \A c \in DOMAIN ownerCode : ownerCode'[c].at = ownerCode[c].at,
           req' = [i \in Slots |-> req'[i]], Issuing' \subseteq Issuing
    PROVE  OwnerRationInv'
<1>1. IssuedSince(HourAgo)' \subseteq IssuedSince(HourAgo)
  <2>1. HourAgo \in Nat /\ HourAgo' \in Nat /\ HourAgo <= HourAgo'
    BY MaxTimeNat, OwnerCapNat DEF HourAgo, ClockOK
  <2>2. ASSUME NEW c \in DOMAIN ownerCode PROVE ownerCode[c].at \in Nat
    <3>1. \A S : ownerCode \in Seq(S) => ownerCode[c] \in S
      OBVIOUS
    <3>2. ownerCode[c] \in OwnerCodeRow
      BY <3>1 DEF OwnerRationInv
    <3> QED  BY <3>2, MaxTimeNat DEF OwnerCodeRow
  <2> QED  BY <2>1, <2>2 DEF IssuedSince
<1>2. IsFiniteSet(IssuedSince(HourAgo)) /\ Cardinality(IssuedSince(HourAgo)) \in Nat
  BY HourCounted DEF OwnerRationInv
<1>3. /\ Cardinality(IssuedSince(HourAgo)') <= Cardinality(IssuedSince(HourAgo))
      /\ Cardinality(IssuedSince(HourAgo)') \in Nat
  <2>1. IsFiniteSet(IssuedSince(HourAgo)')
    BY <1>1, <1>2, FS_Subset
  <2> QED  BY <1>1, <1>2, <2>1, FS_Subset, FS_CardinalityType
<1>4. IsFiniteSet(Issuing) /\ Cardinality(Issuing) \in Nat /\ Cardinality(Issuing') \in Nat
  BY SlotsCounted DEF Issuing
<1>5. Cardinality(Issuing') <= Cardinality(Issuing)
  BY <1>4, FS_Subset
<1>6. Cardinality(IssuedSince(HourAgo)') + Cardinality(Issuing') < OwnerCap + Cardinality(Slots)
  BY <1>2, <1>3, <1>4, <1>5, SlotsCounted, OwnerCapNat DEF OwnerRationInv
<1> QED  BY <1>6 DEF OwnerRationInv

\* A request counts below the cap.
LEMMA OwnerCodeAsked ==
    ASSUME OwnerRationInv, NEW i \in Slots, SendOwnerEmailOtp(i)
    PROVE  OwnerRationInv'
<1>1. Cardinality(IssuedSince(HourAgo)) < OwnerCap /\ UNCHANGED <<ownerCode, pending, now>>
      /\ req' = [j \in Slots |-> req'[j]]
  BY DEF SendOwnerEmailOtp, Begin, ownerVars, OwnerRationInv
<1>2. IssuedSince(HourAgo)' = IssuedSince(HourAgo)
  BY <1>1 DEF IssuedSince, HourAgo
<1>3. Cardinality(Issuing') <= Cardinality(Slots) /\ Cardinality(Issuing') \in Nat /\ Cardinality(Slots) \in Nat
  BY SlotsCounted DEF Issuing
<1>4. Cardinality(IssuedSince(HourAgo)) \in Nat
  BY HourCounted DEF OwnerRationInv
<1> QED  BY <1>1, <1>2, <1>3, <1>4, OwnerCapNat DEF OwnerRationInv

\* The codes grow by one, the requests that are to make one dwindle by one.
LEMMA OwnerCodeIssued ==
    ASSUME OwnerRationInv, ClockOK, NEW i \in Slots, IssueOwnerCode(i)
    PROVE  OwnerRationInv'
<1> DEFINE row == [at |-> now, consumed |-> FALSE]
           n == Len(ownerCode)
<1>1. /\ req[i] # Idle /\ req[i].step = "issue" /\ req' = [req EXCEPT ![i] = Idle] /\ UNCHANGED <<pending, now>>
      /\ ownerCode' = ownerCode \/ ownerCode' = Append(ownerCode, row)
  BY DEF IssueOwnerCode, End, Proceed
<1>2. req' = [j \in Slots |-> req'[j]] /\ Issuing' \subseteq Issuing \ {i} /\ i \in Issuing
  BY <1>1 DEF OwnerRationInv, Issuing
<1>3. CASE ownerCode' = ownerCode
  BY <1>1, <1>2, <1>3, OwnersQuiet DEF OwnerRationInv
<1>4. CASE ownerCode' = Append(ownerCode, row)
  <2>1. row \in OwnerCodeRow /\ ownerCode \in Seq(OwnerCodeRow)
    BY DEF OwnerRationInv, OwnerCodeRow, ClockOK
  <2> HIDE DEF row
  <2>2. /\ ownerCode' \in Seq(OwnerCodeRow) /\ n \in Nat /\ DOMAIN ownerCode = 1..n
        /\ DOMAIN ownerCode' = 1..(n + 1) /\ \A c \in 1..n : ownerCode'[c] = ownerCode[c]
    BY <1>4, <2>1, AppendProperties, LenProperties
  <2>3. IssuedSince(HourAgo)' \subseteq IssuedSince(HourAgo) \cup {n + 1}
    BY <1>1, <2>2 DEF IssuedSince, HourAgo
  <2>4. IsFiniteSet(IssuedSince(HourAgo)) /\ Cardinality(IssuedSince(HourAgo)) \in Nat
    BY HourCounted DEF OwnerRationInv
  <2>5. /\ Cardinality(IssuedSince(HourAgo)') <= Cardinality(IssuedSince(HourAgo)) + 1
        /\ Cardinality(IssuedSince(HourAgo)') \in Nat
    <3> DEFINE more == IssuedSince(HourAgo) \cup {n + 1}
               more2 == IssuedSince(HourAgo)'
    <3>1. IsFiniteSet(more) /\ Cardinality(more) = IF n + 1 \in IssuedSince(HourAgo)
                                                   THEN Cardinality(IssuedSince(HourAgo))
                                                   ELSE Cardinality(IssuedSince(HourAgo)) + 1
      BY <2>4, FS_AddElement
    <3>2. Cardinality(more) \in Nat /\ Cardinality(more) <= Cardinality(IssuedSince(HourAgo)) + 1
      BY <2>4, <3>1, FS_CardinalityType
    <3>3. more2 \subseteq more
      BY <2>3
    <3> HIDE DEF more, more2
    <3>4. IsFiniteSet(more2) /\ Cardinality(more2) <= Cardinality(more)
      BY <3>1, <3>3, FS_Subset
    <3>5. Cardinality(more2) \in Nat
      BY <3>4, FS_CardinalityType
    <3> QED  BY <2>4, <3>2, <3>4, <3>5 DEF more2
  <2>6. /\ Cardinality(Issuing') <= Cardinality(Issuing) - 1
        /\ Cardinality(Issuing) \in Nat /\ Cardinality(Issuing') \in Nat
    <3>1. IsFiniteSet(Issuing) /\ Cardinality(Issuing) \in Nat /\ Cardinality(Issuing') \in Nat
      BY SlotsCounted DEF Issuing
    <3>2. IsFiniteSet(Issuing \ {i}) /\ Cardinality(Issuing \ {i}) = Cardinality(Issuing) - 1
      BY <1>2, <3>1, FS_RemoveElement
    <3>3. Cardinality(Issuing') <= Cardinality(Issuing \ {i})
      BY <1>2, <3>2, FS_Subset
    <3> QED  BY <3>1, <3>2, <3>3
  <2>7. Cardinality(IssuedSince(HourAgo)') + Cardinality(Issuing') < OwnerCap + Cardinality(Slots)
    BY <2>4, <2>5, <2>6, SlotsCounted, OwnerCapNat DEF OwnerRationInv
  <2> QED  BY <1>1, <1>2, <2>2, <2>7 DEF OwnerRationInv
<1> QED  BY <1>1, <1>3, <1>4

LEMMA OwnerRationStepKeeps ==
    ASSUME OwnerRationInv, ClockOK, OwnersNext
    PROVE  OwnerRationInv'
<1>1. ASSUME NEW i \in Slots, VerifyOwnerEmailOtp(i) PROVE OwnerRationInv'
  <2>1. PICK r : Begin(i, r) /\ UNCHANGED <<ownerCode, pending>> /\ r.step # "issue"
    BY <1>1 DEF VerifyOwnerEmailOtp, ownerVars
  <2>2. req' = [req EXCEPT ![i] = r] /\ now' = now
    BY <2>1 DEF Begin
  <2>3. req' = [j \in Slots |-> req'[j]] /\ Issuing' \subseteq Issuing
    BY <2>1, <2>2 DEF OwnerRationInv, Issuing
  <2> QED  BY <2>1, <2>2, <2>3, OwnersQuiet DEF OwnerRationInv
<1>2. ASSUME NEW i \in Slots, ConsumeOwnerCode(i) PROVE OwnerRationInv'
  <2> DEFINE k == req[i].code
             row == [ownerCode[k] EXCEPT !.consumed = TRUE]
  <2>1. /\ ownerCode' = [ownerCode EXCEPT ![k] = row] /\ pending' = FALSE /\ now' = now
        /\ req' = [req EXCEPT ![i] = Idle]
    BY <1>2 DEF ConsumeOwnerCode, End, Proceed
  <2>2. req' = [j \in Slots |-> req'[j]] /\ Issuing' \subseteq Issuing
    BY <2>1 DEF OwnerRationInv, Issuing
  <2>3. ownerCode \in Seq(OwnerCodeRow) /\ (k \in DOMAIN ownerCode => ownerCode[k] \in OwnerCodeRow)
    <3>1. \A S : ownerCode \in Seq(S) /\ k \in DOMAIN ownerCode => ownerCode[k] \in S
      OBVIOUS
    <3> QED  BY <3>1 DEF OwnerRationInv
  <2>4. k \in DOMAIN ownerCode => row \in OwnerCodeRow /\ row.at = ownerCode[k].at
    BY <2>3 DEF OwnerCodeRow
  <2> HIDE DEF row, k
  <2>5. /\ ownerCode' \in Seq(OwnerCodeRow) /\ DOMAIN ownerCode' = DOMAIN ownerCode
        /\ \A c \in DOMAIN ownerCode : ownerCode'[c].at = ownerCode[c].at
    <3>1. CASE k \in DOMAIN ownerCode
      <4>1. DOMAIN ownerCode = 1..Len(ownerCode)
        BY <2>3, LenProperties
      <4>2. /\ ownerCode' \in Seq(OwnerCodeRow) /\ Len(ownerCode') = Len(ownerCode)
            /\ \A c \in 1..Len(ownerCode) : ownerCode'[c] = IF c = k THEN row ELSE ownerCode[c]
        BY <2>1, <2>3, <2>4, <3>1, <4>1, ExceptSeq
      <4> QED  BY <2>4, <3>1, <4>1, <4>2, LenProperties
    <3>2. CASE k \notin DOMAIN ownerCode
      <4>1. ownerCode = [c \in DOMAIN ownerCode |-> ownerCode[c]]
        BY <2>3
      <4>2. ownerCode' = ownerCode
        BY <2>1, <3>2, <4>1
      <4> QED  BY <2>3, <4>2
    <3> QED  BY <3>1, <3>2
  <2> QED  BY <2>1, <2>2, <2>5, OwnersQuiet
<1>3. ASSUME NEW i \in Slots, Abort(i), UNCHANGED ownerVars PROVE OwnerRationInv'
  <2>1. req' = [req EXCEPT ![i] = Idle] /\ now' = now /\ UNCHANGED <<ownerCode, pending>>
    BY <1>3 DEF Abort, End, Proceed, ownerVars
  <2>2. req' = [j \in Slots |-> req'[j]] /\ Issuing' \subseteq Issuing
    BY <2>1 DEF OwnerRationInv, Issuing
  <2> QED  BY <2>1, <2>2, OwnersQuiet DEF OwnerRationInv
<1>4. ASSUME Tick, UNCHANGED ownerVars PROVE OwnerRationInv'
  <2>1. req' = req /\ now' = now + 1 /\ UNCHANGED <<ownerCode, pending>>
    BY <1>4 DEF Tick, ownerVars
  <2>2. Issuing' = Issuing
    BY <2>1 DEF Issuing
  <2> QED  BY <2>1, <2>2, OwnersQuiet DEF OwnerRationInv
<1> QED  BY <1>1, <1>2, <1>3, <1>4, OwnerCodeAsked, OwnerCodeIssued DEF OwnersNext

LEMMA OwnerRationInitially == Init => OwnerRationKept
<1> SUFFICES ASSUME Init PROVE OwnerRationKept
  OBVIOUS
<1>1. ownerCode = <<>> /\ pending = TRUE /\ req = [i \in Slots |-> Idle]
  BY DEF Init, OwnersInit, RequestsInit
<1>2. IssuedSince(HourAgo) = {} /\ Issuing = {}
  BY <1>1 DEF IssuedSince, Issuing
<1>3. ownerCode \in Seq(OwnerCodeRow)
  BY <1>1
<1> QED  BY <1>1, <1>2, <1>3, FS_EmptySet, SlotsCounted, OwnerCapNat DEF OwnerRationKept, OwnerRationInv

LEMMA OwnerRationStays == OwnerRationKept /\ ClockOK /\ [Next]_accessVars => OwnerRationKept'
<1> SUFFICES ASSUME OwnerRationKept, ClockOK, [Next]_accessVars PROVE OwnerRationKept'
  OBVIOUS
<1>1. CASE Next
  <2>1. desk' = desk /\ (desk = "owners" => OwnersNext) /\ (desk # "owners" => UNCHANGED ownerVars)
    BY <1>1 DEF Next, AtTheGate, AmongMembers, OfInvitations, OfSessions, UnderLimits, AtThePanel, OfOwners
  <2> QED  BY <2>1, OwnerRationStepKeeps DEF OwnerRationKept, ownerVars
<1>2. CASE UNCHANGED accessVars
  <2>1. UNCHANGED <<desk, req, now, ownerCode, pending>>
    BY <1>2 DEF accessVars, requestVars, ownerVars
  <2>2. Issuing' = Issuing
    BY <2>1 DEF Issuing
  <2> QED  BY <2>1, <2>2, OwnersQuiet DEF OwnerRationKept, OwnerRationInv
<1> QED  BY <1>1, <1>2

\* At a code there are never more wrong guesses than the limit and one for each other
\* request in flight, and in the hour of an owner never more codes than the cap and one
\* for each other request: the count that is stale when it is used is stale by no more.
THEOREM CodesStayRationed == Spec => []CodesAreRationed
<1>1. CodesKept => GuessesBounded
  <2>1. ASSUME NEW People, CodesInv(People) PROVE GuessesBounded
    <3> SUFFICES ASSUME NEW c \in DOMAIN code PROVE code[c].attempts < MaxAttempts + Cardinality(Slots)
      BY DEF GuessesBounded
    <3>1. code[c].attempts + Cardinality(Missing(c)) < MaxAttempts + Cardinality(Slots)
      BY <2>1 DEF CodesInv
    <3>2. Cardinality(Missing(c)) \in Nat /\ Cardinality(Slots) \in Nat
      BY SlotsCounted DEF Missing
    <3> QED  BY <2>1, <3>1, <3>2, CodeRows, MaxAttemptsNat DEF CodesInv
  <2>2. code = <<>> => GuessesBounded
    BY DEF GuessesBounded
  <2> QED  BY <2>1, <2>2 DEF CodesKept
<1>2. OwnerRationKept => OwnerCodesBounded
  <2>1. ASSUME OwnerRationInv PROVE OwnerCodesBounded
    <3>1. Cardinality(Issuing) \in Nat /\ Cardinality(Slots) \in Nat
      BY SlotsCounted DEF Issuing
    <3> QED  BY <2>1, <3>1, HourCounted, OwnerCapNat DEF OwnerRationInv, OwnerCodesBounded
  <2>2. ownerCode = <<>> => IssuedSince(HourAgo) = {}
    BY DEF IssuedSince
  <2>3. ownerCode = <<>> => OwnerCodesBounded
    BY <2>2, FS_EmptySet, SlotsCounted, OwnerCapNat DEF OwnerCodesBounded
  <2> QED  BY <2>1, <2>3 DEF OwnerRationKept
<1> QED  BY <1>1, <1>2, ClockRuns, CodesInitially, CodesStayKept, InvitesInitially, InvitesStayKept,
            OwnerRationInitially, OwnerRationStays, PTL DEF Spec, CodesAreRationed

(***************************************************************************)
(* The administrators' panel.  At an account outside contested there is    *)
(* one request at most, so the password and role a sign-in has read are    *)
(* still the account's, and an update that is to drop the sessions knows   *)
(* whether it changes anything; and with OperatorsRow uncontested there is *)
(* one update at most, whose actor is a super administrator still.         *)
(***************************************************************************)

OperatorRow == [role : PanelRoles, active : BOOLEAN, secret : 1..MaxSecret]
LogInRow == [admin : Admins, born : 1..MaxTime, verified : BOOLEAN, secret : 1..MaxSecret, role : PanelRoles]
LinkRow == [admin : Admins, born : 1..MaxTime, used : BOOLEAN]

Operates(a) == operator[a] # NoOperator

SuperOf(a) == Operates(a) /\ operator[a].active /\ operator[a].role = "SUPER_ADMIN"

CurrentOf(a) == \A s \in SignedIn(a) : /\ operator[a].active
                                       /\ login[s].secret = operator[a].secret
                                       /\ login[s].role = operator[a].role

\* A request about the account of an administrator.
AboutAdmin(i) == req[i].admin \in Admins /\ Operates(req[i].admin) /\ "admin" \in DOMAIN req[i]

PanelRequest(i) ==
    \/ req[i] = Idle
    \/ /\ req[i] # Idle /\ {"op", "rows", "step"} \subseteq DOMAIN req[i]
       /\ \/ /\ req[i].op = "login" /\ req[i].step = "login"
             /\ AboutAdmin(i) /\ req[i].rows = {req[i].admin}
             /\ req[i].secret \in 1..MaxSecret /\ req[i].role \in PanelRoles
          \/ /\ req[i].op = "verify" /\ req[i].step = "verify"
             /\ req[i].login \in LogIns /\ \E a \in Admins : req[i].rows = {a}
          \/ /\ req[i].op = "forgot" /\ req[i].step \in {"links", "link"}
             /\ AboutAdmin(i) /\ req[i].rows = {req[i].admin}
          \/ /\ req[i].op = "reset" /\ req[i].step = "reset" /\ req[i].link \in Links
             /\ AboutAdmin(i) /\ req[i].rows = {req[i].admin}
          \/ /\ req[i].op = "update" /\ req[i].step \in {"existing", "update", "drop"}
             /\ AboutAdmin(i) /\ req[i].rows = {OperatorsRow, req[i].admin} /\ req[i].write \in Changes
             /\ req[i].step = "existing" => req[i].actor \in Admins
             /\ req[i].step # "existing" => "drop" \in DOMAIN req[i] /\ "write" \in DOMAIN req[i]

Dropping(i, a) == req[i] # Idle /\ req[i].op = "update" /\ req[i].step = "drop" /\ req[i].admin = a

\* A sign-in has read what the account still is.
LogInFound(i) ==
    req[i] # Idle /\ req[i].op = "login" /\ req[i].admin \notin contested =>
        /\ operator[req[i].admin].active
        /\ req[i].secret = operator[req[i].admin].secret
        /\ req[i].role = operator[req[i].admin].role

\* An update that keeps the sessions changes nothing of the account.
DropFound(i) ==
    req[i] # Idle /\ req[i].op = "update" /\ req[i].step = "update" /\ req[i].admin \notin contested =>
        \/ req[i].drop
        \/ ~Alters(req[i].write, operator[req[i].admin])

\* An update leaves a super administrator: its actor, or whoever it is about.
SuperLeft(i) ==
    req[i] # Idle /\ req[i].op = "update" /\ OperatorsRow \notin contested =>
        /\ req[i].step = "existing" => SuperOf(req[i].actor)
        /\ req[i].step = "update" => \/ ~Alters(req[i].write, NewOperator("SUPER_ADMIN"))
                                     \/ \E a \in Admins : a # req[i].admin /\ SuperOf(a)

PanelRows ==
    /\ PanelTypeOK
    /\ operator = [a \in Admins |-> operator[a]] /\ login = [s \in LogIns |-> login[s]]
    /\ link = [k \in Links |-> link[k]]
    /\ \A s \in LogIns : login[s] # NoLogIn => Operates(login[s].admin)
    /\ \A k \in Links : link[k] # NoLink => Operates(link[k].admin)

PanelInv ==
    /\ PanelRows
    /\ req = [i \in Slots |-> req[i]]
    /\ \A i \in Slots : PanelRequest(i) /\ LogInFound(i) /\ DropFound(i) /\ SuperLeft(i)
    /\ OperatorsRow \notin contested => AloneAt(OperatorsRow) /\ \E a \in Admins : SuperOf(a)
    /\ \A a \in Admins \ contested : AloneAt(a) /\ (CurrentOf(a) \/ \E i \in Slots : Dropping(i, a))

\* At the other desks nobody signs in to the panel.
PanelKept ==
    /\ desk = "panel" => PanelInv
    /\ desk # "panel" => /\ PanelRows
                         /\ \E a \in Admins : SuperOf(a)
                         /\ \A s \in LogIns : login[s] = NoLogIn

-----------------------------------------------------------------------------

LEMMA PanelNothings == NoOperator \notin OperatorRow /\ NoLogIn \notin LogInRow /\ NoLink \notin LinkRow
<1>1. "active" \notin DOMAIN NoOperator /\ \A r \in OperatorRow : "active" \in DOMAIN r
  BY DEF NoOperator, OperatorRow
<1>2. "admin" \notin DOMAIN NoLogIn /\ \A r \in LogInRow : "admin" \in DOMAIN r
  BY DEF NoLogIn, LogInRow
<1>3. "admin" \notin DOMAIN NoLink /\ \A r \in LinkRow : "admin" \in DOMAIN r
  BY DEF NoLink, LinkRow
<1> QED  BY <1>1, <1>2, <1>3

\* A request at an account is about it, or verifies a session.
LEMMA PanelRequestRows ==
    ASSUME NEW i \in Slots, PanelRequest(i), req[i] # Idle
    PROVE  /\ req[i].op \in {"login", "forgot", "reset", "update"} => req[i].admin \in req[i].rows
           /\ req[i].op = "update" => OperatorsRow \in req[i].rows
           /\ \A a : Dropping(i, a) => a \in req[i].rows
BY DEF PanelRequest, Dropping

\* While the one request at an account drops no sessions, they are current.
LEMMA CurrentWhile ==
    ASSUME PanelInv, NEW i \in Slots, req[i] # Idle, NEW a \in Admins \ contested,
           a \in req[i].rows, ~Dropping(i, a)
    PROVE  CurrentOf(a)
<1> SUFFICES ASSUME NEW j \in Slots, Dropping(j, a) PROVE FALSE
  BY DEF PanelInv
<1>1. a \in req[j].rows /\ req[j] # Idle
  BY PanelRequestRows DEF PanelInv, Dropping
<1> QED  BY <1>1, AtRow DEF PanelInv, AloneAt

\* A request arrives, and has read.
LEMMA PanelBegins ==
    ASSUME PanelInv, UNCHANGED panelVars, NEW i \in Slots, NEW r, Begin(i, r),
           PanelRequest(i)', LogInFound(i)', DropFound(i)', SuperLeft(i)'
    PROVE  PanelInv'
<1>1. /\ req' = [j \in Slots |-> req'[j]] /\ contested \subseteq contested' /\ req[i] = Idle
      /\ \A j \in Slots : j # i => req'[j] = req[j]
      /\ \A row : AloneAt(row) /\ row \notin contested' => AloneAt(row)'
  BY BeginAlone DEF PanelInv
<1>2. UNCHANGED <<operator, login, link>>
  BY DEF panelVars
<1>3. PanelRows'
  BY <1>2 DEF PanelInv, PanelRows, PanelTypeOK, Operates
<1>4. \A a : /\ (SuperOf(a) => SuperOf(a)') /\ (CurrentOf(a) => CurrentOf(a)') /\ (Operates(a) => Operates(a)')
  BY <1>2 DEF SuperOf, CurrentOf, Operates, SignedIn
<1>5. ASSUME NEW j \in Slots PROVE (PanelRequest(j) /\ LogInFound(j) /\ DropFound(j) /\ SuperLeft(j))'
  <2>1. CASE j = i
    BY <2>1
  <2>2. CASE j # i
    <3>1. PanelRequest(j) /\ LogInFound(j) /\ DropFound(j) /\ SuperLeft(j) /\ req'[j] = req[j]
      BY <1>1, <2>2 DEF PanelInv
    <3>2. PanelRequest(j)'
      BY <1>2, <3>1 DEF PanelRequest, AboutAdmin, Operates
    <3>3. LogInFound(j)' /\ DropFound(j)'
      BY <1>1, <1>2, <3>1 DEF LogInFound, DropFound
    <3>4. SuperLeft(j)'
      BY <1>1, <1>2, <3>1 DEF SuperLeft, SuperOf, Operates
    <3> QED  BY <3>2, <3>3, <3>4
  <2> QED  BY <2>1, <2>2
<1>6. (OperatorsRow \notin contested => AloneAt(OperatorsRow) /\ \E a \in Admins : SuperOf(a))'
  BY <1>1, <1>4 DEF PanelInv
<1>7. ASSUME NEW a \in Admins, a \notin contested'
      PROVE  (AloneAt(a) /\ (CurrentOf(a) \/ \E j \in Slots : Dropping(j, a)))'
  <2>1. \A j \in Slots : Dropping(j, a) => Dropping(j, a)'
    BY <1>1 DEF Dropping
  <2> QED  BY <1>1, <1>4, <1>7, <2>1 DEF PanelInv
<1> QED  BY <1>1, <1>3, <1>5, <1>6, <1>7 DEF PanelInv

\* A request goes on or ends, having written at most its own accounts and their
\* sessions; the roles only if it is the one that updates them.
LEMMA PanelProceeds ==
    ASSUME PanelInv, NEW i \in Slots, NEW r, req[i] # Idle, Proceed(i, r), r = Idle \/ r.rows \subseteq req[i].rows,
           PanelRows', \A a \in Admins : Operates(a) => Operates(a)',
           \A a \in Admins : a \notin req[i].rows =>
              /\ operator'[a] = operator[a]
              /\ \A s \in LogIns : s \in SignedIn(a)' => s \in SignedIn(a) /\ login'[s].secret = login[s].secret
                                                         /\ login'[s].role = login[s].role,
           OperatorsRow \in req[i].rows \/ \A a \in Admins : SuperOf(a) => SuperOf(a)',
           OperatorsRow \notin contested => \E a \in Admins : SuperOf(a)',
           \A a \in Admins : a \in req[i].rows /\ a \notin contested => CurrentOf(a)' \/ Dropping(i, a)',
           PanelRequest(i)', LogInFound(i)', DropFound(i)', SuperLeft(i)'
    PROVE  PanelInv'
<1>1. /\ req' = [j \in Slots |-> req'[j]] /\ contested' = contested
      /\ \A j \in Slots : j # i => req'[j] = req[j]
      /\ \A row : AloneAt(row) => AloneAt(row)'
  BY ProceedAlone DEF PanelInv
<1>2. ASSUME NEW j \in Slots, j # i PROVE (PanelRequest(j) /\ LogInFound(j) /\ DropFound(j) /\ SuperLeft(j))'
  <2>1. PanelRequest(j) /\ LogInFound(j) /\ DropFound(j) /\ SuperLeft(j) /\ req'[j] = req[j]
    BY <1>1, <1>2 DEF PanelInv
  <2>2. PanelRequest(j)'
    BY <2>1 DEF PanelRequest, AboutAdmin
  <2>3. ASSUME req[j] # Idle, req[j].op \in {"login", "update"}, req[j].admin \notin contested
        PROVE  operator'[req[j].admin] = operator[req[j].admin]
    <3>1. req[j].admin \in req[j].rows /\ req[j].admin \in Admins
      BY <2>1, <2>3 DEF PanelRequest, AboutAdmin
    <3>2. req[j].admin \notin req[i].rows
      BY <1>2, <2>3, <3>1, AtRow DEF PanelInv, AloneAt
    <3> QED  BY <3>1, <3>2
  <2>4. LogInFound(j)' /\ DropFound(j)'
    BY <1>1, <2>1, <2>3 DEF LogInFound, DropFound
  <2>5. SuperLeft(j)'
    <3>1. CASE req[j] = Idle \/ req[j].op # "update" \/ OperatorsRow \in contested
      BY <1>1, <2>1, <3>1 DEF SuperLeft
    <3>2. CASE req[j] # Idle /\ req[j].op = "update" /\ OperatorsRow \notin contested
      <4>1. OperatorsRow \notin req[i].rows
        BY <1>2, <2>1, <3>2, PanelRequestRows, AtRow DEF PanelInv, AloneAt
      <4>2. \A a \in Admins : SuperOf(a) => SuperOf(a)'
        BY <4>1
      <4>3. req[j].step = "existing" => req[j].actor \in Admins
        BY <2>1, <3>2 DEF PanelRequest
      <4>4. req'[j].step = "existing" => \A a : a = req[j].actor => SuperOf(a)'
        BY <2>1, <3>2, <4>2, <4>3 DEF SuperLeft
      <4>5. (req[j].step = "existing" => SuperOf(req[j].actor))'
        BY <2>1, <4>4 DEF SuperOf, Operates
      <4>6. (req[j].step = "update" => \/ ~Alters(req[j].write, NewOperator("SUPER_ADMIN"))
                                       \/ \E a \in Admins : a # req[j].admin /\ SuperOf(a))'
        BY <2>1, <3>2, <4>2 DEF SuperLeft
      <4> QED  BY <4>5, <4>6 DEF SuperLeft
    <3> QED  BY <3>1, <3>2
  <2> QED  BY <2>2, <2>4, <2>5
<1>3. (OperatorsRow \notin contested => AloneAt(OperatorsRow) /\ \E a \in Admins : SuperOf(a))'
  BY <1>1 DEF PanelInv
<1>4. ASSUME NEW a \in Admins, a \notin contested
      PROVE  (AloneAt(a) /\ (CurrentOf(a) \/ \E j \in Slots : Dropping(j, a)))'
  <2>1. AloneAt(a)'
    BY <1>1, <1>4 DEF PanelInv
  <2>2. CASE a \in req[i].rows
    BY <1>4, <2>1, <2>2
  <2>3. CASE a \notin req[i].rows
    <3>1. operator'[a] = operator[a] /\ CurrentOf(a) => CurrentOf(a)'
      BY <2>3 DEF CurrentOf, SignedIn
    <3>2. \A j \in Slots : Dropping(j, a) => j # i
      BY <2>3, PanelRequestRows DEF PanelInv, Dropping
    <3>3. \A j \in Slots : Dropping(j, a) => Dropping(j, a)'
      BY <1>1, <3>2 DEF Dropping
    <3> QED  BY <1>4, <2>1, <2>3, <3>1, <3>3 DEF PanelInv
  <2> QED  BY <2>2, <2>3
<1> QED  BY <1>1, <1>2, <1>3, <1>4 DEF PanelInv

\* Sessions go or accounts come, with no request in between; or time passes.
LEMMA PanelRests ==
    ASSUME PanelInv, UNCHANGED req, contested \subseteq contested', PanelRows',
           \A a \in Admins : Operates(a) => operator'[a] = operator[a] /\ Operates(a)',
           \A a \in Admins, s \in LogIns : s \in SignedIn(a)' => s \in SignedIn(a) /\ login'[s] = login[s]
    PROVE  PanelInv'
<1>1. \A a \in Admins : (SuperOf(a) => SuperOf(a)') /\ (Operates(a) => Operates(a)')
  BY DEF SuperOf
<1>2. ASSUME NEW a \in Admins, CurrentOf(a) PROVE CurrentOf(a)'
  <2>1. \A s \in LogIns : s \in SignedIn(a) => Operates(a)
    BY DEF SignedIn, PanelInv, PanelRows
  <2> QED  BY <1>2, <2>1 DEF CurrentOf, SignedIn
<1>3. ASSUME NEW j \in Slots PROVE (PanelRequest(j) /\ LogInFound(j) /\ DropFound(j) /\ SuperLeft(j))'
  <2>1. PanelRequest(j) /\ LogInFound(j) /\ DropFound(j) /\ SuperLeft(j) /\ req'[j] = req[j]
    BY DEF PanelInv
  <2>2. PanelRequest(j)'
    BY <1>1, <2>1 DEF PanelRequest, AboutAdmin
  <2>3. req[j] # Idle /\ req[j].op \in {"login", "update"} => operator'[req[j].admin] = operator[req[j].admin]
    BY <2>1 DEF PanelRequest, AboutAdmin
  <2>4. LogInFound(j)' /\ DropFound(j)'
    BY <2>1, <2>3 DEF LogInFound, DropFound
  <2>5. req[j] # Idle /\ req[j].op = "update" /\ req[j].step = "existing" => req[j].actor \in Admins
    BY <2>1 DEF PanelRequest
  <2>6. req[j] # Idle /\ req[j].op = "update" /\ req[j].step = "existing" /\ OperatorsRow \notin contested'
          => \A a : a = req[j].actor => SuperOf(a)'
    BY <1>1, <2>1, <2>5 DEF SuperLeft
  <2>7. (req[j] # Idle /\ req[j].op = "update" /\ req[j].step = "existing" /\ OperatorsRow \notin contested
          => SuperOf(req[j].actor))'
    BY <2>1, <2>6 DEF SuperOf, Operates
  <2>8. SuperLeft(j)'
    BY <1>1, <2>1, <2>7 DEF SuperLeft
  <2> QED  BY <2>2, <2>4, <2>8
<1>4. \A row : AloneAt(row) => AloneAt(row)'
  BY DEF AloneAt, InFlight
<1>5. \A j \in Slots : \A a : Dropping(j, a) => Dropping(j, a)'
  BY DEF Dropping
<1>6. (OperatorsRow \notin contested => AloneAt(OperatorsRow) /\ \E a \in Admins : SuperOf(a))'
  BY <1>1, <1>4 DEF PanelInv
<1>7. (\A a \in Admins \ contested : AloneAt(a) /\ (CurrentOf(a) \/ \E i \in Slots : Dropping(i, a)))'
  BY <1>2, <1>4, <1>5 DEF PanelInv
<1>8. req' = [i \in Slots |-> req'[i]]
  BY DEF PanelInv
<1> QED  BY <1>3, <1>6, <1>7, <1>8 DEF PanelInv

LEMMA OperatorRows ==
    ASSUME PanelRows
    PROVE  /\ \A a \in Admins : Operates(a) => operator[a] \in OperatorRow
           /\ \A s \in LogIns : login[s] # NoLogIn => login[s] \in LogInRow
           /\ \A k \in Links : link[k] # NoLink => link[k] \in LinkRow
BY DEF PanelRows, PanelTypeOK, Operates, OperatorRow, LogInRow, LinkRow

LEMMA PanelArrivals ==
    ASSUME PanelInv, NEW i \in Slots, NEW a \in Admins, LogInRead(i, a) \/ RequestPasswordReset(i, a)
    PROVE  PanelInv'
<1>1. CASE LogInRead(i, a)
  <2> DEFINE r == [op |-> "login", rows |-> {a}, admin |-> a, step |-> "login",
                   secret |-> operator[a].secret, role |-> operator[a].role]
  <2>1. Begin(i, r) /\ UNCHANGED panelVars /\ Operates(a) /\ operator[a].active
    BY <1>1 DEF LogInRead, Operates
  <2>2. req'[i] = r /\ operator' = operator
    BY <2>1, BeginAlone DEF PanelInv, panelVars
  <2>3. operator[a] \in OperatorRow
    BY <2>1, OperatorRows DEF PanelInv
  <2>4. PanelRequest(i)'
    BY <2>1, <2>2, <2>3 DEF PanelRequest, AboutAdmin, Operates, OperatorRow
  <2>5. LogInFound(i)' /\ DropFound(i)' /\ SuperLeft(i)'
    BY <2>1, <2>2 DEF LogInFound, DropFound, SuperLeft
  <2> HIDE DEF r
  <2> QED  BY <2>1, <2>4, <2>5, PanelBegins
<1>2. CASE RequestPasswordReset(i, a)
  <2> DEFINE r == [op |-> "forgot", rows |-> {a}, admin |-> a, step |-> "links"]
  <2>1. Begin(i, r) /\ UNCHANGED panelVars /\ Operates(a)
    BY <1>2 DEF RequestPasswordReset, Operates
  <2>2. req'[i] = r /\ operator' = operator
    BY <2>1, BeginAlone DEF PanelInv, panelVars
  <2>3. PanelRequest(i)'
    BY <2>1, <2>2 DEF PanelRequest, AboutAdmin, Operates
  <2>4. LogInFound(i)' /\ DropFound(i)' /\ SuperLeft(i)'
    BY <2>1, <2>2 DEF LogInFound, DropFound, SuperLeft
  <2> HIDE DEF r
  <2> QED  BY <2>1, <2>3, <2>4, PanelBegins
<1> QED  BY <1>1, <1>2

LEMMA PanelTokens ==
    ASSUME PanelInv, NEW i \in Slots,
           (\E s \in LogIns : VerifyAdminOtp(i, s)) \/ (\E k \in Links : ResetRead(i, k))
    PROVE  PanelInv'
<1>1. ASSUME NEW s \in LogIns, VerifyAdminOtp(i, s) PROVE PanelInv'
  <2> DEFINE r == [op |-> "verify", rows |-> {login[s].admin}, login |-> s, step |-> "verify"]
  <2>1. Begin(i, r) /\ UNCHANGED panelVars /\ login[s] # NoLogIn
    BY <1>1 DEF VerifyAdminOtp
  <2>2. req'[i] = r
    BY <2>1, BeginAlone DEF PanelInv
  <2>3. login[s].admin \in Admins
    BY <2>1, OperatorRows DEF PanelInv, LogInRow
  <2>4. PanelRequest(i)'
    BY <2>1, <2>2, <2>3 DEF PanelRequest
  <2>5. LogInFound(i)' /\ DropFound(i)' /\ SuperLeft(i)'
    BY <2>1, <2>2 DEF LogInFound, DropFound, SuperLeft
  <2> HIDE DEF r
  <2> QED  BY <2>1, <2>4, <2>5, PanelBegins
<1>2. ASSUME NEW k \in Links, ResetRead(i, k) PROVE PanelInv'
  <2> DEFINE a == link[k].admin
             r == [op |-> "reset", rows |-> {a}, admin |-> a, link |-> k, step |-> "reset"]
  <2>1. Begin(i, r) /\ UNCHANGED panelVars /\ link[k] # NoLink
    BY <1>2 DEF ResetRead
  <2>2. req'[i] = r /\ operator' = operator
    BY <2>1, BeginAlone DEF PanelInv, panelVars
  <2>3. a \in Admins /\ Operates(a)
    BY <2>1, OperatorRows DEF PanelInv, PanelRows, LinkRow
  <2> HIDE DEF a
  <2>4. PanelRequest(i)'
    BY <2>1, <2>2, <2>3 DEF PanelRequest, AboutAdmin, Operates
  <2>5. LogInFound(i)' /\ DropFound(i)' /\ SuperLeft(i)'
    BY <2>1, <2>2 DEF LogInFound, DropFound, SuperLeft
  <2> HIDE DEF r
  <2> QED  BY <2>1, <2>4, <2>5, PanelBegins
<1> QED  BY <1>1, <1>2

\* The actor is a super administrator with a session of his own.
LEMMA PanelUpdates ==
    ASSUME PanelInv, NEW i \in Slots, NEW a \in Admins, NEW b \in Admins, UpdateAdminUser(i, a, b)
    PROVE  PanelInv'
<1>1. PICK w \in Changes :
        Begin(i, [op |-> "update", rows |-> {OperatorsRow, b}, actor |-> a, admin |-> b, write |-> w,
                  step |-> "existing"])
  BY DEF UpdateAdminUser
<1> DEFINE r == [op |-> "update", rows |-> {OperatorsRow, b}, actor |-> a, admin |-> b, write |-> w,
                 step |-> "existing"]
<1>2. Begin(i, r) /\ UNCHANGED panelVars /\ Operates(b)
  BY <1>1 DEF UpdateAdminUser, Operates
<1>3. req'[i] = r /\ operator' = operator
  BY <1>2, BeginAlone DEF PanelInv, panelVars
<1>4. SuperOf(a)
  BY DEF UpdateAdminUser, IsSuperAdmin, Admitted, SignedIn, SuperOf, PanelInv, PanelRows
<1>5. PanelRequest(i)'
  BY <1>2, <1>3 DEF PanelRequest, AboutAdmin, Operates
<1>6. LogInFound(i)' /\ DropFound(i)'
  BY <1>3 DEF LogInFound, DropFound
<1>7. SuperLeft(i)'
  BY <1>3, <1>4 DEF SuperLeft, SuperOf, Operates
<1> HIDE DEF r
<1> QED  BY <1>2, <1>5, <1>6, <1>7, PanelBegins

\* A request goes on or ends without a write.
LEMMA PanelQuiet ==
    ASSUME PanelInv, UNCHANGED panelVars, NEW i \in Slots, NEW r, req[i] # Idle, req[i].step # "drop",
           Proceed(i, r), r = Idle \/ r.rows \subseteq req[i].rows,
           PanelRequest(i)', LogInFound(i)', DropFound(i)', SuperLeft(i)'
    PROVE  PanelInv'
<1>1. UNCHANGED <<operator, login, link>> /\ contested' = contested
  BY DEF panelVars, Proceed
<1>2. PanelRows'
  BY <1>1 DEF PanelInv, PanelRows, PanelTypeOK, Operates
<1>3. \A a : /\ (SuperOf(a) => SuperOf(a)') /\ (CurrentOf(a) => CurrentOf(a)') /\ (Operates(a) => Operates(a)')
             /\ SignedIn(a)' = SignedIn(a)
  BY <1>1 DEF SuperOf, CurrentOf, Operates, SignedIn
<1>4. \A a \in Admins : a \in req[i].rows /\ a \notin contested => CurrentOf(a)'
  BY <1>3, CurrentWhile DEF Dropping
<1>5. OperatorsRow \notin contested => \E a \in Admins : SuperOf(a)'
  BY <1>3 DEF PanelInv
<1> QED  BY <1>1, <1>2, <1>3, <1>4, <1>5, PanelProceeds

LEMMA PanelGivesUp ==
    ASSUME PanelInv, UNCHANGED panelVars, NEW i \in Slots, req[i] # Idle, req[i].step # "drop", End(i)
    PROVE  PanelInv'
<1>1. req'[i] = Idle /\ Proceed(i, Idle)
  BY ProceedAlone DEF PanelInv, End
<1>2. PanelRequest(i)' /\ LogInFound(i)' /\ DropFound(i)' /\ SuperLeft(i)'
  BY <1>1 DEF PanelRequest, LogInFound, DropFound, SuperLeft
<1> QED  BY <1>1, <1>2, PanelQuiet

\* An update that is cut short leaves its account contested.
LEMMA PanelCut ==
    ASSUME PanelInv, UNCHANGED panelVars, NEW i \in Slots, req[i] # Idle, req[i].step = "drop", Cut(i)
    PROVE  PanelInv'
<1>1. /\ req' = [req EXCEPT ![i] = Idle] /\ contested' = contested \cup req[i].rows
      /\ UNCHANGED <<operator, login, link>>
  BY DEF Cut, panelVars
<1>2. req' = [j \in Slots |-> req'[j]] /\ req'[i] = Idle /\ \A j \in Slots : j # i => req'[j] = req[j]
  BY <1>1 DEF PanelInv
<1>3. PanelRows'
  BY <1>1 DEF PanelInv, PanelRows, PanelTypeOK, Operates
<1>4. \A row : AloneAt(row) => AloneAt(row)'
  BY <1>2 DEF AloneAt, InFlight
<1>5. ASSUME NEW j \in Slots PROVE (PanelRequest(j) /\ LogInFound(j) /\ DropFound(j) /\ SuperLeft(j))'
  <2>1. CASE j = i
    BY <1>2, <2>1 DEF PanelRequest, LogInFound, DropFound, SuperLeft
  <2>2. CASE j # i
    <3>1. PanelRequest(j) /\ LogInFound(j) /\ DropFound(j) /\ SuperLeft(j) /\ req'[j] = req[j]
      BY <1>2, <2>2 DEF PanelInv
    <3>2. PanelRequest(j)'
      BY <1>1, <3>1 DEF PanelRequest, AboutAdmin, Operates
    <3>3. LogInFound(j)' /\ DropFound(j)'
      BY <1>1, <3>1 DEF LogInFound, DropFound
    <3>4. SuperLeft(j)'
      BY <1>1, <3>1 DEF SuperLeft, SuperOf, Operates
    <3> QED  BY <3>2, <3>3, <3>4
  <2> QED  BY <2>1, <2>2
<1>6. (OperatorsRow \notin contested => AloneAt(OperatorsRow) /\ \E a \in Admins : SuperOf(a))'
  BY <1>1, <1>4 DEF PanelInv, SuperOf, Operates
<1>7. ASSUME NEW a \in Admins, a \notin contested'
      PROVE  (AloneAt(a) /\ (CurrentOf(a) \/ \E j \in Slots : Dropping(j, a)))'
  <2>1. a \notin contested /\ a \notin req[i].rows
    BY <1>1, <1>7
  <2>2. CurrentOf(a) => CurrentOf(a)'
    BY <1>1 DEF CurrentOf, SignedIn
  <2>3. \A j \in Slots : Dropping(j, a) => Dropping(j, a)'
    BY <1>2, <2>1, PanelRequestRows DEF PanelInv, Dropping
  <2> QED  BY <1>4, <2>1, <2>2, <2>3 DEF PanelInv
<1> QED  BY <1>2, <1>3, <1>5, <1>6, <1>7 DEF PanelInv

\* A request goes on or ends, having written sessions of its accounts, or links.
LEMMA PanelWrites ==
    ASSUME PanelInv, UNCHANGED operator, NEW i \in Slots, NEW r, req[i] # Idle,
           Proceed(i, r), r = Idle \/ r.rows \subseteq req[i].rows, PanelRows',
           \A a \in Admins : a \notin req[i].rows =>
              \A s \in LogIns : s \in SignedIn(a)' => s \in SignedIn(a) /\ login'[s].secret = login[s].secret
                                                      /\ login'[s].role = login[s].role,
           \A a \in Admins : a \in req[i].rows /\ a \notin contested => CurrentOf(a)',
           PanelRequest(i)', LogInFound(i)', DropFound(i)', SuperLeft(i)'
    PROVE  PanelInv'
<1>1. \A a : (SuperOf(a) => SuperOf(a)') /\ (Operates(a) => Operates(a)')
  BY DEF SuperOf, Operates
<1>2. OperatorsRow \notin contested => \E a \in Admins : SuperOf(a)'
  BY <1>1 DEF PanelInv
<1> QED  BY <1>1, <1>2, PanelProceeds

LEMMA PanelEnds ==
    ASSUME PanelInv, NEW i \in Slots, req[i] # Idle, End(i)
    PROVE  /\ Proceed(i, Idle) /\ PanelRequest(i)' /\ LogInFound(i)' /\ DropFound(i)' /\ SuperLeft(i)'
           /\ contested' = contested /\ now' = now
<1>1. req'[i] = Idle /\ Proceed(i, Idle) /\ contested' = contested /\ now' = now
  BY ProceedAlone DEF PanelInv, End, Proceed
<1> QED  BY <1>1 DEF PanelRequest, LogInFound, DropFound, SuperLeft

\* The sign-in makes a session of what it has read.
LEMMA PanelSignsIn ==
    ASSUME PanelInv, ClockOK, NEW i \in Slots, NEW s \in LogIns, CreateLogIn(i, s)
    PROVE  PanelInv'
<1> DEFINE b == req[i].admin
           row == [admin |-> b, born |-> now, verified |-> FALSE, secret |-> req[i].secret, role |-> req[i].role]
<1>1. /\ req[i] # Idle /\ req[i].step = "login" /\ login[s] = NoLogIn /\ login' = [login EXCEPT ![s] = row]
      /\ End(i) /\ UNCHANGED <<operator, link>>
  BY DEF CreateLogIn
<1>2. /\ req[i].op = "login" /\ b \in Admins /\ Operates(b) /\ req[i].rows = {b}
      /\ req[i].secret \in 1..MaxSecret /\ req[i].role \in PanelRoles /\ LogInFound(i)
  BY <1>1 DEF PanelInv, PanelRequest, AboutAdmin
<1>3. row \in LogInRow /\ row # NoLogIn /\ row.admin = b /\ row.secret = req[i].secret /\ row.role = req[i].role
  <2>1. row \in LogInRow
    BY <1>2 DEF LogInRow, ClockOK
  <2> QED  BY <2>1, PanelNothings
<1> HIDE DEF row
<1>4. login' = [x \in LogIns |-> IF x = s THEN row ELSE login[x]]
  BY <1>1 DEF PanelInv, PanelRows
<1>5. PanelRows'
  BY <1>1, <1>2, <1>3, <1>4 DEF PanelInv, PanelRows, PanelTypeOK, LogInRow, Operates
<1>6. ASSUME NEW a \in Admins, NEW x \in LogIns, x \in SignedIn(a)', a # b
      PROVE  x \in SignedIn(a) /\ login'[x] = login[x]
  BY <1>3, <1>4, <1>6 DEF SignedIn
<1>7. \A a \in Admins : a \in req[i].rows /\ a \notin contested => CurrentOf(a)'
  <2>1. \A a : a = b /\ a \notin contested => CurrentOf(a)'
    <3> SUFFICES ASSUME b \notin contested PROVE \A a : a = b => CurrentOf(a)'
      OBVIOUS
    <3>1. \A x \in LogIns : login'[x] # NoLogIn /\ login'[x].admin = b =>
             operator[b].active /\ login'[x].secret = operator[b].secret /\ login'[x].role = operator[b].role
      <4> SUFFICES ASSUME NEW x \in LogIns, login'[x] # NoLogIn, login'[x].admin = b
                   PROVE  operator[b].active /\ login'[x].secret = operator[b].secret
                          /\ login'[x].role = operator[b].role
        OBVIOUS
      <4>1. CurrentOf(b)
        BY <1>1, <1>2, CurrentWhile DEF Dropping
      <4>2. CASE x = s
        BY <1>1, <1>2, <1>3, <1>4, <4>2 DEF LogInFound
      <4>3. CASE x # s
        BY <1>4, <4>1, <4>3 DEF CurrentOf, SignedIn
      <4> QED  BY <4>2, <4>3
    <3> QED  BY <1>1, <3>1 DEF CurrentOf, SignedIn
  <2> QED  BY <1>2, <2>1
<1> QED  BY <1>1, <1>2, <1>5, <1>6, <1>7, PanelEnds, PanelWrites

\* A session is verified where it is.
LEMMA PanelVerifies ==
    ASSUME PanelInv, NEW i \in Slots, MarkVerified(i)
    PROVE  PanelInv'
<1> DEFINE s == req[i].login
           row == [login[s] EXCEPT !.verified = TRUE]
<1>1. /\ req[i] # Idle /\ req[i].step = "verify" /\ End(i) /\ UNCHANGED <<operator, link>>
      /\ login' = IF login[s] = NoLogIn THEN login ELSE [login EXCEPT ![s] = row]
  BY DEF MarkVerified
<1>2. s \in LogIns
  BY <1>1 DEF PanelInv, PanelRequest
<1>3. login[s] # NoLogIn => /\ row \in LogInRow /\ row # NoLogIn /\ row.admin = login[s].admin
                            /\ row.secret = login[s].secret /\ row.role = login[s].role
  <2>1. login[s] # NoLogIn => login[s] \in LogInRow
    BY <1>2, OperatorRows DEF PanelInv
  <2>2. login[s] # NoLogIn => row \in LogInRow /\ row.admin = login[s].admin
                              /\ row.secret = login[s].secret /\ row.role = login[s].role
    BY <2>1 DEF LogInRow
  <2> QED  BY <2>2, PanelNothings
<1> HIDE DEF row
<1>4. \A x \in LogIns : /\ login'[x] = NoLogIn <=> login[x] = NoLogIn
                        /\ login[x] # NoLogIn => /\ login'[x] \in LogInRow /\ login'[x].admin = login[x].admin
                                                 /\ login'[x].secret = login[x].secret
                                                 /\ login'[x].role = login[x].role
  BY <1>1, <1>2, <1>3, OperatorRows DEF PanelInv, PanelRows
<1>5. PanelRows'
  <2>1. login' = [x \in LogIns |-> login'[x]]
    BY <1>1 DEF PanelInv, PanelRows
  <2> QED  BY <1>1, <1>4, <2>1 DEF PanelInv, PanelRows, PanelTypeOK, LogInRow, Operates
<1>6. \A a \in Admins, x \in LogIns : x \in SignedIn(a)' => x \in SignedIn(a) /\ login'[x].secret = login[x].secret
                                                           /\ login'[x].role = login[x].role
  BY <1>4 DEF SignedIn
<1>7. \A a \in Admins : a \in req[i].rows /\ a \notin contested => CurrentOf(a)'
  <2>1. \A a \in Admins : a \in req[i].rows /\ a \notin contested => CurrentOf(a)
    BY <1>1, CurrentWhile DEF Dropping
  <2> QED  BY <1>1, <1>4, <2>1 DEF CurrentOf, SignedIn
<1> QED  BY <1>1, <1>5, <1>6, <1>7, PanelEnds, PanelWrites

\* Earlier links are dropped, and one is made.
LEMMA PanelLinks ==
    ASSUME PanelInv, ClockOK, NEW i \in Slots, DropLinks(i) \/ \E k \in Links : CreateLink(i, k)
    PROVE  PanelInv'
<1>1. UNCHANGED <<operator, login>> /\ req[i] # Idle /\ req[i].step \in {"links", "link"}
  BY DEF DropLinks, CreateLink
<1>2. req[i].op = "forgot" /\ AboutAdmin(i) /\ req[i].rows = {req[i].admin}
      /\ {"op", "rows", "step", "admin"} \subseteq DOMAIN req[i]
  BY <1>1 DEF PanelInv, PanelRequest, AboutAdmin
<1>3. \A a \in Admins, x \in LogIns : x \in SignedIn(a)' => x \in SignedIn(a) /\ login'[x] = login[x]
  BY <1>1 DEF SignedIn
<1>4. \A a \in Admins : a \in req[i].rows /\ a \notin contested => CurrentOf(a)'
  <2>1. \A a \in Admins : a \in req[i].rows /\ a \notin contested => CurrentOf(a)
    BY <1>1, CurrentWhile DEF Dropping
  <2> QED  BY <1>1, <2>1 DEF CurrentOf, SignedIn
<1>5. CASE DropLinks(i)
  <2> DEFINE r == [req[i] EXCEPT !.step = "link"]
  <2>1. Proceed(i, r) /\ link' = [k \in Links |-> IF k \in LiveLinks(req[i].admin) THEN NoLink ELSE link[k]]
    BY <1>5 DEF DropLinks
  <2>2. /\ DOMAIN r = DOMAIN req[i] /\ r.op = "forgot" /\ r.step = "link" /\ r.rows = req[i].rows
        /\ r.admin = req[i].admin
    BY <1>2
  <2> HIDE DEF r
  <2>3. req'[i] = r
    BY <1>1, <2>1, <2>2, ProceedAlone DEF PanelInv
  <2>4. r # Idle
    BY <2>2 DEF Idle
  <2>5. PanelRequest(i)' /\ LogInFound(i)' /\ DropFound(i)' /\ SuperLeft(i)'
    BY <1>1, <1>2, <2>2, <2>3, <2>4 DEF PanelRequest, AboutAdmin, Operates, LogInFound, DropFound, SuperLeft
  <2>6. PanelRows'
    BY <1>1, <2>1 DEF PanelInv, PanelRows, PanelTypeOK, Operates
  <2> QED  BY <1>1, <1>3, <1>4, <2>1, <2>2, <2>5, <2>6, PanelWrites
<1>6. ASSUME NEW k \in Links, CreateLink(i, k) PROVE PanelInv'
  <2> DEFINE row == [admin |-> req[i].admin, born |-> now, used |-> FALSE]
  <2>1. End(i) /\ link' = [link EXCEPT ![k] = row]
    BY <1>6 DEF CreateLink
  <2>2. row \in LinkRow /\ row.admin = req[i].admin
    BY <1>2 DEF LinkRow, AboutAdmin, ClockOK
  <2> HIDE DEF row
  <2>3. PanelRows'
    BY <1>1, <1>2, <2>1, <2>2 DEF PanelInv, PanelRows, PanelTypeOK, LinkRow, AboutAdmin, Operates
  <2> QED  BY <1>1, <1>3, <1>4, <2>1, <2>3, PanelEnds, PanelWrites
<1> QED  BY <1>5, <1>6

\* The sessions of the account are gone.
LEMMA PanelDrops ==
    ASSUME PanelInv, NEW i \in Slots, DropLogIns(i)
    PROVE  PanelInv'
<1> DEFINE b == req[i].admin
<1>1. /\ req[i] # Idle /\ req[i].step = "drop" /\ End(i) /\ UNCHANGED <<operator, link>>
      /\ login' = [s \in LogIns |-> IF s \in SignedIn(b) THEN NoLogIn ELSE login[s]]
  BY DEF DropLogIns
<1>2. b \in Admins /\ req[i].rows = {OperatorsRow, b}
  BY <1>1 DEF PanelInv, PanelRequest, AboutAdmin
<1>3. PanelRows'
  BY <1>1 DEF PanelInv, PanelRows, PanelTypeOK, Operates
<1>4. \A a \in Admins, x \in LogIns : x \in SignedIn(a)' => x \in SignedIn(a) /\ login'[x] = login[x]
  BY <1>1 DEF SignedIn
<1>5. \A a \in Admins : a \in req[i].rows /\ a \notin contested => CurrentOf(a)'
  <2> SUFFICES ASSUME NEW a \in Admins, a \in req[i].rows, a \notin contested PROVE CurrentOf(a)'
    OBVIOUS
  <2>1. CASE a = b
    <3>1. SignedIn(a)' = {}
      BY <1>1, <2>1 DEF SignedIn
    <3> QED  BY <3>1 DEF CurrentOf
  <2>2. CASE a # b
    <3>1. ~Dropping(i, a)
      BY <2>2 DEF Dropping
    <3>2. CurrentOf(a)
      BY <1>1, <3>1, CurrentWhile
    <3> QED  BY <1>1, <1>4, <3>2 DEF CurrentOf, SignedIn
  <2> QED  BY <2>1, <2>2
<1> QED  BY <1>1, <1>3, <1>4, <1>5, PanelEnds, PanelWrites

\* What an update leaves of an account.
LEMMA OperatorUpdate ==
    ASSUME NEW v \in OperatorRow, NEW w \in Changes
    PROVE  /\ Written(w, v) \in OperatorRow /\ Written(w, v).secret = v.secret
           /\ ~Alters(w, v) => Written(w, v).role = v.role /\ Written(w, v).active = v.active
           /\ ~Alters(w, NewOperator("SUPER_ADMIN")) /\ v.active /\ v.role = "SUPER_ADMIN" =>
                 Written(w, v).active /\ Written(w, v).role = "SUPER_ADMIN"
<1> DEFINE Secrets == 1..MaxSecret
<1>1. v \in [role : PanelRoles, active : BOOLEAN, secret : Secrets]
  BY DEF OperatorRow
<1> HIDE DEF Secrets
<1>2. /\ "role" \in DOMAIN w => w.role \in PanelRoles
      /\ "active" \in DOMAIN w => w.active \in BOOLEAN
      /\ DOMAIN w \subseteq {"role", "active"}
  BY DEF Changes
<1>3. /\ Written(w, v).secret = v.secret
      /\ Written(w, v).role = IF "role" \in DOMAIN w THEN w.role ELSE v.role
      /\ Written(w, v).active = IF "active" \in DOMAIN w THEN w.active ELSE v.active
  BY <1>1, <1>2 DEF Written
<1>4. Written(w, v) \in [role : PanelRoles, active : BOOLEAN, secret : Secrets]
  BY <1>1, <1>2 DEF Written
<1>5. Written(w, v) \in OperatorRow
  BY <1>4 DEF OperatorRow, Secrets
<1>6. ~Alters(w, v) => Written(w, v).role = v.role /\ Written(w, v).active = v.active
  BY <1>3 DEF Alters
<1>7. ~Alters(w, NewOperator("SUPER_ADMIN")) =>
          /\ "role" \in DOMAIN w => w.role = "SUPER_ADMIN"
          /\ "active" \in DOMAIN w => w.active = TRUE
  BY DEF Alters, NewOperator
<1> QED  BY <1>3, <1>5, <1>6, <1>7

\* The password changes, and the sessions go with it.
LEMMA PanelResets ==
    ASSUME PanelInv, NEW i \in Slots, ResetAdminPassword(i)
    PROVE  PanelInv'
<1> DEFINE b == req[i].admin
           row == [operator[b] EXCEPT !.secret = operator[b].secret + 1]
<1>1. req[i] # Idle /\ req[i].step = "reset" /\ End(i)
  BY DEF ResetAdminPassword
<1>2. b \in Admins /\ Operates(b) /\ req[i].rows = {b} /\ req[i].link \in Links
  BY <1>1 DEF PanelInv, PanelRequest, AboutAdmin
<1>3. CASE link[req[i].link] = NoLink
  <2>1. UNCHANGED panelVars
    BY <1>3 DEF ResetAdminPassword
  <2> QED  BY <1>1, <2>1, PanelGivesUp
<1>4. CASE link[req[i].link] # NoLink
  <2> DEFINE k == req[i].link
             used == [link[k] EXCEPT !.used = TRUE]
  <2>1. /\ operator' = [operator EXCEPT ![b] = row] /\ operator[b].secret < MaxSecret
        /\ login' = [s \in LogIns |-> IF s \in SignedIn(b) THEN NoLogIn ELSE login[s]]
        /\ link' = [link EXCEPT ![k] = used]
    BY <1>4 DEF ResetAdminPassword
  <2>2. operator[b] \in OperatorRow /\ link[k] \in LinkRow
    BY <1>2, <1>4, OperatorRows DEF PanelInv
  <2>3. row \in OperatorRow /\ row.active = operator[b].active /\ row.role = operator[b].role
    BY <2>1, <2>2, MaxSecretNat DEF OperatorRow
  <2>4. used \in LinkRow /\ used.admin = link[k].admin
    BY <2>2 DEF LinkRow
  <2>5. row # NoOperator
    BY <2>3, PanelNothings
  <2> HIDE DEF row, used, k, b
  <2>6. PanelRows'
    <3>1. \A a \in Admins : Operates(a) => Operates(a)'
      BY <2>1, <2>5 DEF Operates, PanelInv, PanelRows
    <3>2. PanelTypeOK'
      BY <2>1, <2>3, <2>4 DEF PanelInv, PanelRows, PanelTypeOK, OperatorRow, LinkRow
    <3>3. /\ \A s \in LogIns : login'[s] # NoLogIn => login[s] # NoLogIn /\ login'[s] = login[s]
          /\ \A x \in Links : link'[x] # NoLink => link[x] # NoLink /\ link'[x].admin = link[x].admin
      BY <1>4, <2>1, <2>4 DEF PanelInv, PanelRows, k
    <3>4. /\ \A s \in LogIns : login'[s] # NoLogIn => Operates(login[s].admin)'
          /\ \A x \in Links : link'[x] # NoLink => Operates(link[x].admin)'
      BY <3>1, <3>3, OperatorRows DEF PanelInv, PanelRows, LogInRow, LinkRow
    <3>5. /\ (\A s \in LogIns : login[s] # NoLogIn => Operates(login[s].admin))'
          /\ (\A x \in Links : link[x] # NoLink => Operates(link[x].admin))'
      BY <3>3, <3>4 DEF Operates
    <3>6. /\ operator' = [a \in Admins |-> operator'[a]] /\ login' = [s \in LogIns |-> login'[s]]
          /\ link' = [x \in Links |-> link'[x]]
      BY <2>1 DEF PanelInv, PanelRows
    <3> QED  BY <3>2, <3>5, <3>6 DEF PanelRows
  <2>7. \A a \in Admins : (Operates(a) => Operates(a)') /\ (SuperOf(a) => SuperOf(a)')
    BY <2>1, <2>3, <2>5 DEF Operates, SuperOf, PanelInv, PanelRows
  <2>8. \A a \in Admins : a \notin req[i].rows =>
           /\ operator'[a] = operator[a]
           /\ \A s \in LogIns : s \in SignedIn(a)' => s \in SignedIn(a) /\ login'[s].secret = login[s].secret
                                                      /\ login'[s].role = login[s].role
    BY <1>2, <2>1 DEF SignedIn, PanelInv, PanelRows, b
  <2>9. \A a \in Admins : a \in req[i].rows /\ a \notin contested => CurrentOf(a)' \/ Dropping(i, a)'
    <3>1. \A a : SignedIn(a)' = {} => CurrentOf(a)'
      BY DEF CurrentOf
    <3>2. \A a : a \in req[i].rows => a = b
      BY <1>2 DEF b
    <3>3. \A a : a = b => SignedIn(a)' = {}
      BY <2>1 DEF SignedIn
    <3> QED  BY <3>1, <3>2, <3>3
  <2>10. OperatorsRow \notin contested => \E a \in Admins : SuperOf(a)'
    BY <2>7 DEF PanelInv
  <2> QED  BY <1>1, <2>6, <2>7, <2>8, <2>9, <2>10, PanelEnds, PanelProceeds
<1> QED  BY <1>3, <1>4

\* Who is asked, refuses his own demotion; anyone else leaves the actor.
LEMMA PanelReads ==
    ASSUME PanelInv, NEW i \in Slots, ReadExisting(i)
    PROVE  PanelInv'
<1>1. req[i] # Idle /\ req[i].step = "existing" /\ UNCHANGED panelVars
  BY DEF ReadExisting
<1>2. /\ req[i].op = "update" /\ AboutAdmin(i) /\ req[i].rows = {OperatorsRow, req[i].admin}
      /\ req[i].write \in Changes /\ req[i].actor \in Admins /\ SuperLeft(i)
  BY <1>1 DEF PanelInv, PanelRequest
<1> DEFINE refused == req[i].actor = req[i].admin /\ Alters(req[i].write, NewOperator("SUPER_ADMIN"))
           drop == Alters(req[i].write, operator[req[i].admin])
           r == [op |-> "update", rows |-> req[i].rows, admin |-> req[i].admin, write |-> req[i].write,
                 drop |-> drop, step |-> "update"]
<1>3. CASE refused
  <2>1. End(i)
    BY <1>3 DEF ReadExisting
  <2> QED  BY <1>1, <2>1, PanelGivesUp
<1>4. CASE ~refused
  <2>1. Proceed(i, r)
    BY <1>4 DEF ReadExisting
  <2>2. req'[i] = r /\ contested' = contested /\ operator' = operator
    BY <1>1, <2>1, ProceedAlone DEF PanelInv, panelVars
  <2>3. drop \/ ~Alters(req[i].write, operator[req[i].admin])
    OBVIOUS
  <2> HIDE DEF drop
  <2>4. PanelRequest(i)'
    BY <1>2, <2>2 DEF PanelRequest, AboutAdmin, Operates
  <2>5. LogInFound(i)'
    BY <2>2 DEF LogInFound
  <2>6. DropFound(i)'
    BY <2>2, <2>3 DEF DropFound
  <2>7. SuperLeft(i)'
    <3>1. OperatorsRow \notin contested =>
             \/ ~Alters(req[i].write, NewOperator("SUPER_ADMIN"))
             \/ req[i].actor # req[i].admin /\ SuperOf(req[i].actor)
      BY <1>1, <1>2, <1>4 DEF SuperLeft
    <3>2. \A a : SuperOf(a) => SuperOf(a)'
      BY <2>2 DEF SuperOf, Operates
    <3>3. OperatorsRow \notin contested =>
             \/ ~Alters(req[i].write, NewOperator("SUPER_ADMIN"))
             \/ \E a \in Admins : a # req[i].admin /\ SuperOf(a)'
      BY <1>2, <3>1, <3>2
    <3>4. req'[i].write = req[i].write /\ req'[i].admin = req[i].admin /\ req'[i].step = "update"
      BY <2>2
    <3> QED  BY <2>2, <3>3, <3>4 DEF SuperLeft
  <2> HIDE DEF r
  <2>8. r.rows \subseteq req[i].rows
    BY DEF r
  <2> QED  BY <1>1, <2>1, <2>4, <2>5, <2>6, <2>7, <2>8, PanelQuiet
<1> QED  BY <1>3, <1>4

\* The account is written; its sessions go if anything of it changes.
LEMMA PanelUpdated ==
    ASSUME PanelInv, NEW i \in Slots, WriteOperator(i)
    PROVE  PanelInv'
<1> DEFINE b == req[i].admin
           w == req[i].write
           row == Written(w, operator[b])
           r == IF req[i].drop THEN [req[i] EXCEPT !.step = "drop"] ELSE Idle
<1>1. /\ req[i] # Idle /\ req[i].step = "update" /\ UNCHANGED <<login, link>>
      /\ operator' = [operator EXCEPT ![b] = row] /\ Proceed(i, r)
  BY DEF WriteOperator, End
<1>2. /\ req[i].op = "update" /\ b \in Admins /\ Operates(b) /\ req[i].rows = {OperatorsRow, b}
      /\ w \in Changes /\ {"op", "rows", "step", "admin", "write", "drop"} \subseteq DOMAIN req[i]
      /\ SuperLeft(i) /\ DropFound(i)
  BY <1>1 DEF PanelInv, PanelRequest, AboutAdmin
<1>3. operator[b] \in OperatorRow
  BY <1>2, OperatorRows DEF PanelInv
<1>4. /\ row \in OperatorRow /\ row.secret = operator[b].secret /\ row # NoOperator
      /\ ~Alters(w, operator[b]) => row.role = operator[b].role /\ row.active = operator[b].active
      /\ ~Alters(w, NewOperator("SUPER_ADMIN")) /\ operator[b].active /\ operator[b].role = "SUPER_ADMIN" =>
            row.active /\ row.role = "SUPER_ADMIN"
  BY <1>2, <1>3, OperatorUpdate, PanelNothings
<1>5. \/ r = Idle /\ ~req[i].drop
      \/ /\ r # Idle /\ r.op = "update" /\ r.step = "drop" /\ r.admin = b /\ r.rows = req[i].rows
         /\ r.write = w /\ DOMAIN r = DOMAIN req[i]
  BY <1>2 DEF Idle
<1> HIDE DEF row, r
<1>6. operator' = [a \in Admins |-> IF a = b THEN row ELSE operator[a]]
  BY <1>1, <1>2 DEF PanelInv, PanelRows
<1>7. \A a \in Admins : Operates(a) => Operates(a)'
  BY <1>4, <1>6 DEF Operates
<1>8. PanelRows'
  <2>1. PanelTypeOK'
    BY <1>1, <1>4, <1>6 DEF PanelInv, PanelRows, PanelTypeOK, OperatorRow
  <2>2. /\ \A s \in LogIns : login[s] # NoLogIn => \A a : a = login[s].admin => Operates(a)'
        /\ \A k \in Links : link[k] # NoLink => \A a : a = link[k].admin => Operates(a)'
    BY <1>7, OperatorRows DEF PanelInv, PanelRows, LogInRow, LinkRow
  <2>3. /\ (\A s \in LogIns : login[s] # NoLogIn => Operates(login[s].admin))'
        /\ (\A k \in Links : link[k] # NoLink => Operates(link[k].admin))'
    BY <1>1, <2>2 DEF Operates
  <2>4. /\ operator' = [a \in Admins |-> operator'[a]] /\ login' = [s \in LogIns |-> login'[s]]
        /\ link' = [x \in Links |-> link'[x]]
    BY <1>1, <1>6 DEF PanelInv, PanelRows
  <2> QED  BY <2>1, <2>3, <2>4 DEF PanelRows
<1>9. \A a \in Admins : a \notin req[i].rows =>
         /\ operator'[a] = operator[a]
         /\ \A s \in LogIns : s \in SignedIn(a)' => s \in SignedIn(a) /\ login'[s].secret = login[s].secret
                                                    /\ login'[s].role = login[s].role
  BY <1>1, <1>2, <1>6 DEF SignedIn
<1>10. OperatorsRow \notin contested => \E a \in Admins : SuperOf(a)'
  <2> SUFFICES ASSUME OperatorsRow \notin contested PROVE \E a \in Admins : SuperOf(a)'
    OBVIOUS
  <2>1. ASSUME NEW a \in Admins, a # b, SuperOf(a) PROVE \E x \in Admins : SuperOf(x)'
    <3>1. SuperOf(a)'
      BY <1>6, <2>1 DEF SuperOf, Operates
    <3> QED  BY <3>1
  <2>2. CASE \E a \in Admins : a # b /\ SuperOf(a)
    BY <2>1, <2>2
  <2>3. CASE ~\E a \in Admins : a # b /\ SuperOf(a)
    <3>1. SuperOf(b) /\ ~Alters(w, NewOperator("SUPER_ADMIN"))
      BY <1>1, <1>2, <2>3 DEF PanelInv, SuperLeft
    <3>2. row.active /\ row.role = "SUPER_ADMIN"
      BY <1>4, <3>1 DEF SuperOf
    <3>3. \A a \in Admins : a = b => SuperOf(a)'
      BY <1>4, <1>6, <3>2 DEF SuperOf, Operates
    <3> QED  BY <1>2, <3>3
  <2> QED  BY <2>2, <2>3
<1>11. req'[i] = r /\ contested' = contested
  BY <1>1, <1>5, ProceedAlone DEF PanelInv
<1>12. \A a \in Admins : a \in req[i].rows /\ a \notin contested => CurrentOf(a)' \/ Dropping(i, a)'
  <2> SUFFICES ASSUME NEW a \in Admins, a \in req[i].rows, a \notin contested
               PROVE  CurrentOf(a)' \/ Dropping(i, a)'
    OBVIOUS
  <2>1. CurrentOf(a)
    BY <1>1, CurrentWhile DEF Dropping
  <2>2. CASE a # b
    BY <1>1, <1>6, <2>1, <2>2 DEF CurrentOf, SignedIn
  <2>3. CASE a = b /\ r = Idle
    <3>1. ~Alters(w, operator[b])
      BY <1>1, <1>2, <1>5, <2>3 DEF DropFound
    <3>2. operator'[a].active = operator[a].active /\ operator'[a].role = operator[a].role
          /\ operator'[a].secret = operator[a].secret
      BY <1>4, <1>6, <2>3, <3>1
    <3> QED  BY <1>1, <2>1, <3>2 DEF CurrentOf, SignedIn
  <2>4. CASE a = b /\ r # Idle
    BY <1>5, <1>11, <2>4 DEF Dropping
  <2> QED  BY <2>2, <2>3, <2>4
<1>13. LogInFound(i)' /\ DropFound(i)' /\ SuperLeft(i)'
  BY <1>5, <1>11 DEF LogInFound, DropFound, SuperLeft
<1>14. PanelRequest(i)'
  <2>1. \A a \in Admins : a = b => Operates(a)'
    BY <1>2, <1>7
  <2>2. r # Idle => req'[i].admin = b /\ req'[i] = r
    BY <1>5, <1>11
  <2>3. r # Idle => AboutAdmin(i)'
    BY <1>2, <1>5, <2>1, <2>2 DEF AboutAdmin, Operates
  <2>4. r = Idle => PanelRequest(i)'
    BY <1>11 DEF PanelRequest
  <2>5. r # Idle => PanelRequest(i)'
    BY <1>2, <1>5, <2>2, <2>3 DEF PanelRequest
  <2> QED  BY <2>4, <2>5
<1>15. OperatorsRow \in req[i].rows
  BY <1>2
<1>16. r = Idle \/ r.rows \subseteq req[i].rows
  BY <1>5
<1> QED  BY <1>1, <1>7, <1>8, <1>9, <1>10, <1>12, <1>13, <1>14, <1>15, <1>16, PanelProceeds

\* An administrator comes.
LEMMA PanelGrows ==
    ASSUME PanelInv, NEW a \in Admins, CreateAdminUser(a)
    PROVE  PanelInv'
<1>1. PICK role \in PanelRoles : operator' = [operator EXCEPT ![a] = NewOperator(role)]
  BY DEF CreateAdminUser
<1>2. /\ operator[a] = NoOperator /\ UNCHANGED <<login, link>> /\ UNCHANGED req
      /\ contested \subseteq contested'
  BY MeetContests DEF CreateAdminUser, Once
<1>3. NewOperator(role) \in OperatorRow /\ NewOperator(role) # NoOperator
  <2>1. NewOperator(role) \in OperatorRow
    BY MaxSecretNat DEF NewOperator, OperatorRow
  <2> QED  BY <2>1, PanelNothings
<1>4. /\ operator' = [b \in Admins |-> operator'[b]]
      /\ \A b \in Admins : Operates(b) => operator'[b] = operator[b] /\ Operates(b)'
      /\ \A b \in Admins : operator'[b] = NoOperator \/ operator'[b] \in OperatorRow
  <2> DEFINE new == NewOperator(role)
  <2>1. operator' = [b \in Admins |-> IF b = a THEN new ELSE operator[b]]
    BY <1>1 DEF PanelInv, PanelRows
  <2> HIDE DEF new
  <2>2. \A b \in Admins : Operates(b) => b # a
    BY <1>2 DEF Operates
  <2>3. \A b \in Admins : operator[b] = NoOperator \/ operator[b] \in OperatorRow
    BY OperatorRows DEF PanelInv, Operates
  <2> QED  BY <1>3, <2>1, <2>2, <2>3 DEF Operates, new
<1>5. PanelRows'
  <2>1. PanelTypeOK'
    BY <1>2, <1>4 DEF PanelInv, PanelRows, PanelTypeOK, OperatorRow
  <2>2. /\ \A s \in LogIns : login[s] # NoLogIn => login[s].admin \in Admins /\ Operates(login[s].admin)
        /\ \A k \in Links : link[k] # NoLink => link[k].admin \in Admins /\ Operates(link[k].admin)
    BY OperatorRows DEF PanelInv, PanelRows, LogInRow, LinkRow
  <2>3. /\ \A s \in LogIns : login[s] # NoLogIn => \A b : b = login[s].admin => Operates(b)'
        /\ \A k \in Links : link[k] # NoLink => \A b : b = link[k].admin => Operates(b)'
    BY <1>4, <2>2
  <2>4. /\ (\A s \in LogIns : login[s] # NoLogIn => Operates(login[s].admin))'
        /\ (\A k \in Links : link[k] # NoLink => Operates(link[k].admin))'
    BY <1>2, <2>3 DEF Operates
  <2> QED  BY <1>2, <1>4, <2>1, <2>4 DEF PanelInv, PanelRows
<1>6. \A b \in Admins, s \in LogIns : s \in SignedIn(b)' => s \in SignedIn(b) /\ login'[s] = login[s]
  BY <1>2 DEF SignedIn
<1> QED  BY <1>2, <1>4, <1>5, <1>6, PanelRests

\* A session ends, or time passes.
LEMMA PanelWanes ==
    ASSUME PanelInv, (\E s \in LogIns : LogOut(s)) \/ (Tick /\ UNCHANGED panelVars)
    PROVE  PanelInv'
<1>1. CASE Tick /\ UNCHANGED panelVars
  <2>1. UNCHANGED <<req, contested, operator, login, link>>
    BY <1>1 DEF Tick, panelVars
  <2>2. PanelRows'
    BY <2>1 DEF PanelInv, PanelRows, PanelTypeOK, Operates
  <2> QED  BY <2>1, <2>2, PanelRests DEF Operates, SignedIn
<1>2. ASSUME NEW s \in LogIns, LogOut(s) PROVE PanelInv'
  <2>1. /\ login' = [login EXCEPT ![s] = NoLogIn] /\ UNCHANGED <<operator, link, req>>
        /\ contested \subseteq contested'
    BY <1>2, MeetContests DEF LogOut, Once
  <2>2. PanelRows'
    BY <2>1 DEF PanelInv, PanelRows, PanelTypeOK, Operates
  <2>3. \A a \in Admins, x \in LogIns : x \in SignedIn(a)' => x \in SignedIn(a) /\ login'[x] = login[x]
    BY <2>1 DEF SignedIn, PanelInv, PanelRows
  <2> QED  BY <2>1, <2>2, <2>3, PanelRests DEF Operates
<1> QED  BY <1>1, <1>2

LEMMA PanelStepKeeps ==
    ASSUME PanelInv, ClockOK, PanelNext
    PROVE  PanelInv'
<1>1. ASSUME NEW i \in Slots, CutShort(i), UNCHANGED panelVars PROVE PanelInv'
  <2>1. CASE req[i] # Idle /\ req[i].step = "drop"
    BY <1>1, <2>1, PanelCut DEF CutShort
  <2>2. CASE ~(req[i] # Idle /\ req[i].step = "drop")
    BY <1>1, <2>2, PanelGivesUp DEF CutShort, Abort
  <2> QED  BY <2>1, <2>2
<1>2. ASSUME NEW i \in Slots, PanelStep(i) PROVE PanelInv'
  BY <1>2, PanelArrivals, PanelUpdates, PanelSignsIn, PanelTokens, PanelLinks, PanelVerifies, PanelResets,
     PanelReads, PanelUpdated, PanelDrops DEF PanelStep
<1> QED  BY <1>1, <1>2, PanelGrows, PanelWanes DEF PanelNext

LEMMA PanelInitially == Init => PanelKept
<1> SUFFICES ASSUME Init PROVE PanelKept
  OBVIOUS
<1>1. PICK a \in Admins : operator = [b \in Admins |-> IF b = a THEN NewOperator("SUPER_ADMIN") ELSE NoOperator]
  BY DEF Init, PanelInit
<1>2. /\ login = [s \in LogIns |-> NoLogIn] /\ link = [k \in Links |-> NoLink]
      /\ req = [i \in Slots |-> Idle] /\ contested = {}
  BY DEF Init, PanelInit, RequestsInit
<1>3. /\ NewOperator("SUPER_ADMIN") \in OperatorRow /\ NewOperator("SUPER_ADMIN").active
      /\ NewOperator("SUPER_ADMIN").role = "SUPER_ADMIN" /\ NewOperator("SUPER_ADMIN") # NoOperator
  <2>1. /\ NewOperator("SUPER_ADMIN") \in OperatorRow /\ NewOperator("SUPER_ADMIN").active
        /\ NewOperator("SUPER_ADMIN").role = "SUPER_ADMIN"
    BY MaxSecretNat DEF NewOperator, OperatorRow, PanelRoles
  <2> QED  BY <2>1, PanelNothings
<1>4. SuperOf(a)
  BY <1>1, <1>3 DEF SuperOf, Operates
<1>5. PanelRows
  <2> DEFINE new == NewOperator("SUPER_ADMIN")
  <2>1. operator = [b \in Admins |-> IF b = a THEN new ELSE NoOperator] /\ new \in OperatorRow
    BY <1>1, <1>3
  <2> HIDE DEF new
  <2> QED  BY <1>2, <2>1 DEF PanelRows, PanelTypeOK, OperatorRow
<1>6. PanelInv
  <2>1. \A row : InFlight(row) = {}
    BY <1>2 DEF InFlight
  <2>2. \A row : AloneAt(row)
    BY <2>1 DEF AloneAt
  <2>3. \A b \in Admins : CurrentOf(b)
    BY <1>2 DEF CurrentOf, SignedIn
  <2> QED  BY <1>2, <1>4, <1>5, <2>2, <2>3 DEF PanelInv, PanelRequest, LogInFound, DropFound, SuperLeft
<1> QED  BY <1>2, <1>4, <1>5, <1>6 DEF PanelKept

LEMMA PanelStayKept == PanelKept /\ ClockOK /\ [Next]_accessVars => PanelKept'
<1> SUFFICES ASSUME PanelKept, ClockOK, [Next]_accessVars PROVE PanelKept'
  OBVIOUS
<1>1. CASE Next
  <2>1. desk' = desk /\ (desk = "panel" => PanelNext) /\ (desk # "panel" => UNCHANGED panelVars)
    BY <1>1 DEF Next, AtTheGate, AmongMembers, OfInvitations, OfSessions, UnderLimits, AtThePanel, OfOwners
  <2>2. CASE desk = "panel"
    BY <2>1, <2>2, PanelStepKeeps DEF PanelKept
  <2>3. CASE desk # "panel"
    <3>1. UNCHANGED <<operator, login, link>>
      BY <2>1, <2>3 DEF panelVars
    <3> QED  BY <2>1, <2>3, <3>1 DEF PanelKept, PanelRows, PanelTypeOK, Operates, SuperOf
  <2> QED  BY <2>2, <2>3
<1>2. CASE UNCHANGED accessVars
  <2>1. UNCHANGED <<desk, req, contested, operator, login, link>>
    BY <1>2 DEF accessVars, requestVars, panelVars
  <2>2. PanelRows => PanelRows'
    BY <2>1 DEF PanelRows, PanelTypeOK, Operates
  <2>3. desk = "panel" => PanelInv'
    BY <2>1, <2>2, PanelRests DEF PanelKept, PanelInv, Operates, SignedIn
  <2>4. (\E a \in Admins : SuperOf(a)) => (\E a \in Admins : SuperOf(a))'
    BY <2>1 DEF SuperOf, Operates
  <2>5. (\A s \in LogIns : login[s] = NoLogIn) => (\A s \in LogIns : login[s] = NoLogIn)'
    BY <2>1
  <2> QED  BY <2>1, <2>2, <2>3, <2>4, <2>5 DEF PanelKept
<1> QED  BY <1>1, <1>2

\* Of the administrators who demote and deactivate one another one super administrator
\* is always left, unless two such requests were ever in flight at the same time.
THEOREM AdministratorsRemain == Spec => []SuperAdminRemains
<1>1. PanelKept => SuperAdminRemains
  BY DEF PanelKept, PanelInv, SuperAdminRemains, SuperOf, Operates
<1> QED  BY <1>1, ClockRuns, PanelInitially, PanelStayKept, PTL DEF Spec

\* At an account whose requests came one after the other, every session was signed in to
\* with the password and the role that the account has, once no request is at it.
THEOREM SessionsOfThePanelAreCurrent == Spec => []LogInsAreCurrent
<1>1. PanelKept => LogInsAreCurrent
  <2> SUFFICES ASSUME PanelKept, NEW a \in Admins, a \notin contested, InFlight(a) = {}
               PROVE  CurrentOf(a)
    BY DEF LogInsAreCurrent, CurrentOf
  <2>1. CASE desk = "panel"
    <3>1. ASSUME NEW i \in Slots, Dropping(i, a) PROVE FALSE
      <4>1. a \in req[i].rows /\ req[i] # Idle
        BY <2>1, <3>1, PanelRequestRows DEF PanelKept, PanelInv, Dropping
      <4> QED  BY <4>1, AtRow
    <3> QED  BY <2>1, <3>1 DEF PanelKept, PanelInv
  <2>2. CASE desk # "panel"
    BY <2>2 DEF PanelKept, CurrentOf, SignedIn
  <2> QED  BY <2>1, <2>2
<1> QED  BY <1>1, ClockRuns, PanelInitially, PanelStayKept, PTL DEF Spec


(***************************************************************************)
(* The types of the tables.  Those of the gate, the members, the panel and *)
(* the owners are part of what was shown above; the counts, the sessions   *)
(* and the lengths of the two logs follow here.                            *)
(***************************************************************************)

HeldRows == [Kinds -> 0..MaxHeld]

\* The counts a creation has read are counts the workspace may have had.
LimitsTyped ==
    /\ LimitsTypeOK
    /\ desk = "limits" => \A i \in Slots : req[i] # Idle /\ req[i].step = "cache" => req[i].held \in HeldRows

DeviceRow == [user : Accounts, born : 1..MaxTime, until : 1..(MaxTime + DeviceLife)]
ChallengeRow == [until : 1..(MaxTime + ChallengeLife), cached : BOOLEAN]

\* The counter a passkey is to have, and the second of a revocation half way, were read
\* or taken from the clock.
SessionStepTyped(r) ==
    r # Idle => /\ r.step = "counter" => r.count \in 1..MaxCount
                /\ r.step = "devices" => r.at \in 1..MaxTime

SessionsTyped ==
    /\ SessionsTypeOK
    /\ desk = "sessions" => \A i \in Slots : SessionStepTyped(req[i])

LogsBounded == Len(invite) <= MaxInvites /\ Len(code) <= MaxCodes

-----------------------------------------------------------------------------

\* A request goes on to r, or another does nothing.
LEMMA CountsCarried ==
    ASSUME LimitsTyped, desk = "limits", desk' = desk, req = [j \in Slots |-> req[j]], LimitsTypeOK',
           NEW i \in Slots, NEW r, req' = [req EXCEPT ![i] = r],
           r # Idle /\ r.step = "cache" => r.held \in HeldRows
    PROVE  LimitsTyped'
<1>1. req'[i] = r /\ \A j \in Slots : j # i => req'[j] = req[j]
  OBVIOUS
<1>2. ASSUME NEW j \in Slots, req'[j] # Idle, req'[j].step = "cache" PROVE req'[j].held \in HeldRows
  <2>1. CASE j = i
    BY <1>1, <1>2, <2>1
  <2>2. CASE j # i
    BY <1>1, <1>2, <2>2 DEF LimitsTyped
  <2> QED  BY <2>1, <2>2
<1> QED  BY <1>2 DEF LimitsTyped, HeldRows

LEMMA LimitsStepTyped ==
    ASSUME LimitsTyped, LimitsInv, ClockOK, desk = "limits", desk' = desk, LimitsNext
    PROVE  LimitsTyped'
<1>1. req = [j \in Slots |-> req[j]] /\ LimitsTypeOK
  BY DEF LimitsInv, LimitRequests, LimitsTyped
<1>2. UNCHANGED limitVars => LimitsTypeOK'
  BY <1>1 DEF limitVars, LimitsTypeOK
<1>3. ASSUME NEW i \in Slots, NEW k \in Kinds, EntitlementsGuard(i, k) PROVE LimitsTyped'
  <2>1. PICK s \in {"count", "check", "create"} :
          Begin(i, [op |-> "create", rows |-> {k}, kind |-> k, step |-> s])
    BY <1>3 DEF EntitlementsGuard, AfterGuard
  <2>2. LimitsTypeOK'
    BY <1>2, <1>3 DEF EntitlementsGuard
  <2> QED  BY <1>1, <2>1, <2>2, CountsCarried DEF Begin
<1>4. ASSUME NEW i \in Slots, CountUsage(i) PROVE LimitsTyped'
  <2> DEFINE r == [op |-> "create", rows |-> req[i].rows, kind |-> req[i].kind, step |-> "cache", held |-> held]
  <2>1. Proceed(i, r) /\ LimitsTypeOK'
    BY <1>2, <1>4 DEF CountUsage
  <2>2. r.held \in HeldRows
    BY <1>1 DEF LimitsTypeOK, HeldRows
  <2> HIDE DEF r
  <2> QED  BY <1>1, <2>1, <2>2, CountsCarried DEF Proceed
<1>5. ASSUME NEW i \in Slots, ComputeAndCache(i) PROVE LimitsTyped'
  <2>1. req[i] # Idle /\ req[i].step = "cache" /\ usage' = [until |-> now + CacheLife, held |-> req[i].held] /\ held' = held
    BY <1>5 DEF ComputeAndCache
  <2>2. req[i].held \in HeldRows
    BY <2>1 DEF LimitsTyped
  <2>3. now + CacheLife \in 1..(MaxTime + CacheLife)
    BY MaxHeldNat, MaxTimeNat DEF ClockOK
  <2>4. LimitsTypeOK'
    BY <1>1, <2>1, <2>2, <2>3 DEF LimitsTypeOK, HeldRows
  <2>5. \/ Proceed(i, Idle)
        \/ \E s \in {"check", "create"} :
              Proceed(i, [op |-> "create", rows |-> req[i].rows, kind |-> req[i].kind, step |-> s])
    BY <1>5 DEF ComputeAndCache, End, AfterGuard
  <2> QED  BY <1>1, <2>4, <2>5, CountsCarried DEF Proceed
<1>6. ASSUME NEW i \in Slots, AssertPlanLimit(i) PROVE LimitsTyped'
  <2> DEFINE r == [req[i] EXCEPT !.step = "create"]
  <2>1. req[i] # Idle /\ req[i].step = "check" /\ LimitsTypeOK' /\ (Proceed(i, Idle) \/ Proceed(i, r))
    BY <1>2, <1>6 DEF AssertPlanLimit, End
  <2>2. Creating(req[i], req[i].kind, {"check"})
    BY <2>1, WhichCreation DEF LimitsInv
  <2>3. r.step = "create"
    BY <2>2 DEF Creating
  <2> HIDE DEF r
  <2> QED  BY <1>1, <2>1, <2>3, CountsCarried DEF Proceed
<1>7. ASSUME NEW i \in Slots, CreateRow(i) PROVE LimitsTyped'
  <2>1. req[i] # Idle /\ held[req[i].kind] < MaxHeld /\ held' = [held EXCEPT ![req[i].kind] = @ + 1]
        /\ End(i) /\ usage' = usage
    BY <1>7 DEF CreateRow
  <2>2. req[i].kind \in Kinds
    BY <2>1, WhichCreation DEF LimitsInv
  <2>3. held \in [Kinds -> 0..MaxHeld]
    BY <1>1 DEF LimitsTypeOK
  <2>4. held[req[i].kind] + 1 \in 0..MaxHeld
    BY <2>1, <2>2, <2>3, MaxHeldNat
  <2>5. held' \in [Kinds -> 0..MaxHeld]
    BY <2>1, <2>2, <2>3, <2>4
  <2>6. LimitsTypeOK'
    BY <1>1, <2>1, <2>5 DEF LimitsTypeOK
  <2> QED  BY <1>1, <2>1, <2>6, CountsCarried DEF End, Proceed
<1>8. ASSUME NEW k \in Kinds, DeleteRow(k) PROVE LimitsTyped'
  <2>1. held[k] > 0 /\ held' = [held EXCEPT ![k] = @ - 1] /\ usage' = usage /\ req' = req
    BY <1>8 DEF DeleteRow, Once
  <2>2. held \in [Kinds -> 0..MaxHeld]
    BY <1>1 DEF LimitsTypeOK
  <2>3. held[k] - 1 \in 0..MaxHeld
    BY <2>1, <2>2, MaxHeldNat
  <2>4. held' \in [Kinds -> 0..MaxHeld]
    BY <2>1, <2>2, <2>3
  <2>5. LimitsTypeOK'
    BY <1>1, <2>1, <2>4 DEF LimitsTypeOK
  <2> QED  BY <2>1, <2>5 DEF LimitsTyped, HeldRows
<1>9. ASSUME CacheBust PROVE LimitsTyped'
  <2>1. usage' = NoUsage /\ UNCHANGED <<req, held>>
    BY <1>9 DEF CacheBust, requestVars
  <2>2. LimitsTypeOK'
    BY <1>1, <2>1 DEF LimitsTypeOK
  <2> QED  BY <2>1, <2>2 DEF LimitsTyped, HeldRows
<1>10. ASSUME Tick, UNCHANGED limitVars PROVE LimitsTyped'
  BY <1>2, <1>10 DEF Tick, LimitsTyped, HeldRows
<1>11. ASSUME NEW i \in Slots, Abort(i), UNCHANGED limitVars PROVE LimitsTyped'
  BY <1>1, <1>2, <1>11, CountsCarried DEF Abort, End, Proceed
<1> QED  BY <1>3, <1>4, <1>5, <1>6, <1>7, <1>8, <1>9, <1>10, <1>11 DEF LimitsNext, LimitsStep

LEMMA LimitsInitiallyTyped == Init => LimitsTyped
<1> SUFFICES ASSUME Init PROVE LimitsTyped
  OBVIOUS
<1>1. held = [k \in Kinds |-> 0] /\ usage = NoUsage /\ req = [i \in Slots |-> Idle]
  BY DEF Init, LimitsInit, RequestsInit
<1>2. 0 \in 0..MaxHeld
  BY MaxHeldNat
<1>3. LimitsTypeOK
  BY <1>1, <1>2 DEF LimitsTypeOK
<1> QED  BY <1>1, <1>3 DEF LimitsTyped

LEMMA LimitsStayTyped == LimitsTyped /\ LimitsKept /\ ClockOK /\ [Next]_accessVars => LimitsTyped'
<1> SUFFICES ASSUME LimitsTyped, LimitsKept, ClockOK, [Next]_accessVars PROVE LimitsTyped'
  OBVIOUS
<1>1. UNCHANGED limitVars => LimitsTypeOK'
  BY DEF limitVars, LimitsTyped, LimitsTypeOK
<1>2. CASE Next
  <2>1. desk' = desk /\ (desk = "limits" => LimitsNext) /\ (desk # "limits" => UNCHANGED limitVars)
    BY <1>2 DEF Next, AtTheGate, AmongMembers, OfInvitations, OfSessions, UnderLimits, AtThePanel, OfOwners
  <2>2. CASE desk = "limits"
    BY <2>1, <2>2, LimitsStepTyped DEF LimitsKept
  <2>3. CASE desk # "limits"
    BY <1>1, <2>1, <2>3 DEF LimitsTyped
  <2> QED  BY <2>2, <2>3
<1>3. CASE UNCHANGED accessVars
  <2>1. UNCHANGED <<desk, req, limitVars>>
    BY <1>3 DEF accessVars, requestVars
  <2> QED  BY <1>1, <2>1 DEF LimitsTyped, HeldRows
<1> QED  BY <1>2, <1>3


-----------------------------------------------------------------------------

LEMMA SessionSteps ==
    ASSUME SessionsTyped, desk = "sessions", desk' = desk, req = [j \in Slots |-> req[j]], SessionsTypeOK',
           NEW i \in Slots, NEW r, req' = [req EXCEPT ![i] = r], SessionStepTyped(r)
    PROVE  SessionsTyped'
<1>1. req'[i] = r /\ \A j \in Slots : j # i => req'[j] = req[j]
  OBVIOUS
<1>2. ASSUME NEW j \in Slots PROVE SessionStepTyped(req[j])'
  <2>1. CASE j = i
    BY <1>1, <2>1 DEF SessionStepTyped
  <2>2. CASE j # i
    BY <1>1, <2>2 DEF SessionsTyped, SessionStepTyped
  <2> QED  BY <2>1, <2>2
<1> QED  BY <1>2 DEF SessionsTyped

\* Nothing is written: the tables keep their types.
LEMMA SessionsUntouched ==
    ASSUME SessionsTypeOK, UNCHANGED sessionVars PROVE SessionsTypeOK'
BY DEF SessionsTypeOK, sessionVars

\* The steps a request may be at, and what it takes along.
LEMMA PlainSteps ==
    /\ SessionStepTyped(Idle)
    /\ \A r : "step" \in DOMAIN r /\ r.step \notin {"counter", "devices"} => SessionStepTyped(r)
BY DEF SessionStepTyped

LEMMA SessionArrivals ==
    ASSUME SessionsTyped, SessionsInv, desk = "sessions", desk' = desk, NEW i \in Slots,
           \/ \E u \in Accounts : SendLoginOtp(i, u) \/ VerifyLoginOtp(i, u) \/ RevokeAllSessions(i, u)
           \/ \E d \in Devices : VerifyDevice(i, d)
    PROVE  SessionsTyped'
<1>1. UNCHANGED sessionVars
  BY DEF SendLoginOtp, VerifyLoginOtp, RevokeAllSessions, VerifyDevice, sessionAll
<1>2. SessionsTypeOK' /\ req = [j \in Slots |-> req[j]]
  BY <1>1, SessionsUntouched DEF SessionsTyped, SessionsInv, SessionRequests
<1>3. ASSUME NEW u \in Accounts, SendLoginOtp(i, u) PROVE SessionsTyped'
  <2> DEFINE r == [op |-> "send", rows |-> {u}, user |-> u, step |-> "issue"]
  <2>1. req' = [req EXCEPT ![i] = r] /\ SessionStepTyped(r)
    BY <1>3, PlainSteps DEF SendLoginOtp, SendCode, Begin
  <2> HIDE DEF r
  <2> QED  BY <1>2, <2>1, SessionSteps
<1>4. ASSUME NEW u \in Accounts, VerifyLoginOtp(i, u) PROVE SessionsTyped'
  <2> DEFINE r == [op |-> "login", rows |-> {u}, user |-> u, step |-> "code", code |-> 0]
  <2>1. req' = [req EXCEPT ![i] = r] /\ SessionStepTyped(r)
    BY <1>4, PlainSteps DEF VerifyLoginOtp, Begin
  <2> HIDE DEF r
  <2> QED  BY <1>2, <2>1, SessionSteps
<1>5. ASSUME NEW u \in Accounts, RevokeAllSessions(i, u) PROVE SessionsTyped'
  <2> DEFINE r == [op |-> "revoke", rows |-> {u}, user |-> u, step |-> "touch"]
  <2>1. req' = [req EXCEPT ![i] = r] /\ SessionStepTyped(r)
    BY <1>5, PlainSteps DEF RevokeAllSessions, Begin
  <2> HIDE DEF r
  <2> QED  BY <1>2, <2>1, SessionSteps
<1>6. ASSUME NEW d \in Devices, VerifyDevice(i, d) PROVE SessionsTyped'
  <2> DEFINE r(s) == [op |-> "device", rows |-> {device[d].user}, user |-> device[d].user, device |-> d, step |-> s]
  <2>1. PICK s \in {"forget", "refresh"} : req' = [req EXCEPT ![i] = r(s)]
    BY <1>6 DEF VerifyDevice, Begin
  <2>2. SessionStepTyped(r(s))
    BY PlainSteps
  <2> HIDE DEF r
  <2> QED  BY <1>2, <2>1, <2>2, SessionSteps
<1> QED  BY <1>3, <1>4, <1>5, <1>6

LEMMA SessionCodes ==
    ASSUME SessionsTyped, SessionsInv, desk = "sessions", desk' = desk, NEW i \in Slots,
           CodeStep(i), UNCHANGED sessionVars
    PROVE  SessionsTyped'
<1>1. SessionsTypeOK' /\ req = [j \in Slots |-> req[j]]
  BY SessionsUntouched DEF SessionsTyped, SessionsInv, SessionRequests
<1>2. CASE End(i)
  BY <1>1, <1>2, SessionSteps, PlainSteps DEF End, Proceed
<1>3. CASE ReadCode(i) /\ ~End(i)
  <2> DEFINE c == Max(Usable(req[i].user))
  <2>1. PICK step \in {"burn", "miss", "spend"} : Proceed(i, [req[i] EXCEPT !.step = step, !.code = c])
    BY <1>3 DEF ReadCode
  <2> HIDE DEF c
  <2> DEFINE r == [req[i] EXCEPT !.step = step, !.code = c]
  <2>2. LoggingIn(req[i], {"code"})
    BY <1>3, InFlightIsRequest, AtAwait DEF SessionsInv, ReadCode
  <2>3. "step" \in DOMAIN r /\ r.step = step
    BY <2>2 DEF LoggingIn
  <2>4. req' = [req EXCEPT ![i] = r] /\ SessionStepTyped(r)
    BY <2>1, <2>3, PlainSteps DEF Proceed
  <2> HIDE DEF r
  <2> QED  BY <1>1, <2>4, SessionSteps
<1>4. CASE SpendCode(i)
  <2> DEFINE r == [req[i] EXCEPT !.step = "grant"]
  <2>1. LoggingIn(req[i], {"spend"}) /\ Proceed(i, r)
    BY <1>4, InFlightIsRequest, AtAwait DEF SessionsInv, SpendCode
  <2>2. "step" \in DOMAIN r /\ r.step = "grant"
    BY <2>1 DEF LoggingIn
  <2>3. req' = [req EXCEPT ![i] = r] /\ SessionStepTyped(r)
    BY <2>1, <2>2, PlainSteps DEF Proceed
  <2> HIDE DEF r
  <2> QED  BY <1>1, <2>3, SessionSteps
<1> QED  BY <1>2, <1>3, <1>4 DEF CodeStep, IssueCode, BurnCode, MissCode

LEMMA SessionDevices ==
    ASSUME SessionsTyped, SessionsInv, ClockOK, desk = "sessions", desk' = desk, NEW i \in Slots,
           CreateSession(i) \/ RefreshDevice(i) \/ ForgetDevice(i)
    PROVE  SessionsTyped'
<1>1. SessionsTypeOK /\ req = [j \in Slots |-> req[j]]
  BY DEF SessionsTyped, SessionsInv, SessionRequests
<1>2. SessionStepTyped(Idle)
  BY PlainSteps
<1>3. CASE CreateSession(i)
  <2>1. /\ req[i] # Idle /\ req' = [req EXCEPT ![i] = Idle] /\ UNCHANGED <<touched, device, passkey, challenge, revoked>>
        /\ token' = token \cup {[user |-> req[i].user, iat |-> now]}
    BY <1>3 DEF CreateSession, End, Proceed
  <2>2. req[i].user \in Accounts
    BY <2>1, InFlightIsRequest, AtAwait DEF SessionsInv
  <2>3. SessionsTypeOK'
    BY <1>1, <2>1, <2>2 DEF SessionsTypeOK, ClockOK
  <2> QED  BY <1>1, <1>2, <2>1, <2>3, SessionSteps
<1>4. CASE RefreshDevice(i)
  <2> DEFINE d == req[i].device
             r == [req[i] EXCEPT !.step = "grant"]
  <2>1. ByDevice(req[i], {"refresh"}) /\ UNCHANGED <<touched, token, passkey, challenge, revoked>>
    BY <1>4, InFlightIsRequest, AtAwait DEF SessionsInv, RefreshDevice
  <2>2. "step" \in DOMAIN r /\ r.step = "grant" /\ d \in Devices
    BY <2>1 DEF ByDevice
  <2>3. SessionStepTyped(r)
    BY <2>2, PlainSteps
  <2> HIDE DEF r
  <2>4. CASE device[d] = NoDevice
    <3>1. req' = [req EXCEPT ![i] = Idle] /\ device' = device
      BY <1>4, <2>4 DEF RefreshDevice, End, Proceed
    <3>2. SessionsTypeOK'
      BY <1>1, <2>1, <3>1 DEF SessionsTypeOK
    <3> QED  BY <1>1, <1>2, <3>1, <3>2, SessionSteps
  <2>5. CASE device[d] # NoDevice
    <3>1. req' = [req EXCEPT ![i] = r] /\ device' = [device EXCEPT ![d].until = now + DeviceLife]
      BY <1>4, <2>5 DEF RefreshDevice, Proceed, r
    <3>2. device[d] \in DeviceRow /\ now + DeviceLife \in 1..(MaxTime + DeviceLife)
      BY <1>1, <2>2, <2>5, LivesAreNat, MaxTimeNat DEF SessionsTypeOK, ClockOK, DeviceRow
    <3>3. [device[d] EXCEPT !.until = now + DeviceLife] \in DeviceRow
      BY <3>2 DEF DeviceRow
    <3>4. device = [x \in Devices |-> device[x]]
      BY DEF SessionsInv, SessionRows
    <3>5. device'[d] \in DeviceRow /\ \A x \in Devices : x # d => device'[x] = device[x]
      BY <2>2, <3>1, <3>3, <3>4
    <3>6. \A x \in Devices : device'[x] = NoDevice \/ device'[x] \in DeviceRow
      BY <1>1, <3>5 DEF SessionsTypeOK, DeviceRow
    <3>7. SessionsTypeOK'
      BY <1>1, <2>1, <3>6 DEF SessionsTypeOK, DeviceRow
    <3> QED  BY <1>1, <2>3, <3>1, <3>7, SessionSteps
  <2> QED  BY <2>4, <2>5
<1>5. CASE ForgetDevice(i)
  <2>1. /\ req' = [req EXCEPT ![i] = Idle] /\ UNCHANGED <<touched, token, passkey, challenge, revoked>>
        /\ device' = [device EXCEPT ![req[i].device] = NoDevice]
    BY <1>5 DEF ForgetDevice, End, Proceed
  <2>2. device = [x \in Devices |-> device[x]]
    BY DEF SessionsInv, SessionRows
  <2>3. \A x \in Devices : device'[x] = NoDevice \/ device'[x] = device[x]
    BY <2>1, <2>2
  <2>4. SessionsTypeOK'
    BY <1>1, <2>1, <2>3 DEF SessionsTypeOK
  <2> QED  BY <1>1, <1>2, <2>1, <2>4, SessionSteps
<1> QED  BY <1>3, <1>4, <1>5

LEMMA SessionRevocations ==
    ASSUME SessionsTyped, SessionsInv, ClockOK, desk = "sessions", desk' = desk, NEW i \in Slots,
           TouchUser(i) \/ DeleteDevices(i)
    PROVE  SessionsTyped'
<1>1. SessionsTypeOK /\ req = [j \in Slots |-> req[j]]
  BY DEF SessionsTyped, SessionsInv, SessionRequests
<1>2. CASE TouchUser(i)
  <2> DEFINE r == [op |-> "revoke", rows |-> req[i].rows, user |-> req[i].user, step |-> "devices", at |-> now]
  <2>1. /\ req' = [req EXCEPT ![i] = r] /\ touched' = [touched EXCEPT ![req[i].user] = now]
        /\ UNCHANGED <<token, device, passkey, challenge, revoked>>
    BY <1>2 DEF TouchUser, Proceed
  <2>2. SessionStepTyped(r)
    BY DEF SessionStepTyped, ClockOK
  <2> HIDE DEF r
  <2>3. SessionsTypeOK'
    BY <1>1, <2>1 DEF SessionsTypeOK, ClockOK
  <2> QED  BY <1>1, <2>1, <2>2, <2>3, SessionSteps
<1>3. CASE DeleteDevices(i)
  <2> DEFINE u == req[i].user
             m == Max({revoked[u], req[i].at})
  <2>1. /\ req[i] # Idle /\ req[i].step = "devices" /\ req' = [req EXCEPT ![i] = Idle]
        /\ device' = [d \in Devices |-> IF device[d] # NoDevice /\ device[d].user = u
                                        THEN NoDevice ELSE device[d]]
        /\ revoked' = [revoked EXCEPT ![u] = m]
        /\ UNCHANGED <<touched, token, passkey, challenge>>
    BY <1>3 DEF DeleteDevices, End, Proceed
  <2>2. req[i].at \in 1..MaxTime
    BY <2>1 DEF SessionsTyped, SessionStepTyped
  <2>3. u \in Accounts
    BY <2>1, InFlightIsRequest, AtAwait DEF SessionsInv
  <2>4. revoked[u] \in Never..MaxTime
    BY <1>1, <2>3 DEF SessionsTypeOK
  <2>5. m \in Never..MaxTime
    <3>1. \A a, b \in Nat : \E x \in {a, b} : \A y \in {a, b} : x >= y
      OBVIOUS
    <3>2. m \in {revoked[u], req[i].at}
      BY <2>2, <2>4, <3>1 DEF Max, Never
    <3> QED  BY <2>2, <2>4, <3>2 DEF Never
  <2> HIDE DEF m
  <2>6. \A d \in Devices : device'[d] = NoDevice \/ device'[d] = device[d]
    BY <2>1
  <2>7. revoked' \in [Accounts -> Never..MaxTime]
    BY <1>1, <2>1, <2>5 DEF SessionsTypeOK
  <2>8. SessionsTypeOK'
    BY <1>1, <2>1, <2>6, <2>7 DEF SessionsTypeOK
  <2> QED  BY <1>1, <2>1, <2>8, SessionSteps, PlainSteps
<1> QED  BY <1>2, <1>3


\* A log that grows by a row, or has one replaced, is one of the same rows.
LEMMA LogOfRows ==
    ASSUME NEW S, NEW s \in Seq(S), NEW e \in S
    PROVE  /\ Append(s, e) \in Seq(S) /\ Len(Append(s, e)) = Len(s) + 1
           /\ \A k \in DOMAIN s : s[k] \in S /\ [s EXCEPT ![k] = e] \in Seq(S)
OBVIOUS

LEMMA SessionAnswers ==
    ASSUME SessionsTyped, SessionsInv, desk = "sessions", desk' = desk, NEW i \in Slots,
           \/ \E u \in Accounts, c \in DOMAIN challenge : ConfirmAuthentication(i, u, c)
           \/ VerifyAssertion(i) \/ UpdateCounter(i)
    PROVE  SessionsTyped'
<1>1. SessionsTypeOK /\ req = [j \in Slots |-> req[j]]
  BY DEF SessionsTyped, SessionsInv, SessionRequests
<1>2. ASSUME NEW u \in Accounts, NEW c \in DOMAIN challenge, ConfirmAuthentication(i, u, c) PROVE SessionsTyped'
  <2> DEFINE r == [op |-> "passkey", rows |-> {u}, user |-> u, challenge |-> c, step |-> "passkey"]
             row == [challenge[c] EXCEPT !.cached = FALSE]
  <2>1. /\ req' = [req EXCEPT ![i] = r] /\ challenge' = [challenge EXCEPT ![c].cached = FALSE]
        /\ UNCHANGED <<touched, token, device, passkey, revoked>>
    BY <1>2 DEF ConfirmAuthentication, Begin
  <2>2. challenge' = [challenge EXCEPT ![c] = row]
    BY <2>1
  <2>3. challenge \in Seq(ChallengeRow)
    BY <1>1 DEF SessionsTypeOK, ChallengeRow
  <2>4. challenge[c] \in ChallengeRow
    BY <2>3, LogOfRows
  <2>5. row \in ChallengeRow
    BY <2>4 DEF ChallengeRow
  <2> HIDE DEF row
  <2>6. challenge' \in Seq(ChallengeRow)
    BY <2>2, <2>3, <2>5, LogOfRows
  <2>7. SessionsTypeOK'
    BY <1>1, <2>1, <2>6 DEF SessionsTypeOK, ChallengeRow
  <2>8. SessionStepTyped(r)
    BY PlainSteps
  <2> HIDE DEF r
  <2> QED  BY <1>1, <2>1, <2>7, <2>8, SessionSteps
<1>3. CASE VerifyAssertion(i)
  <2> DEFINE r(n) == [op |-> "passkey", rows |-> req[i].rows, user |-> req[i].user,
                      challenge |-> req[i].challenge, step |-> "counter", count |-> n]
  <2>1. /\ SessionsTypeOK'
        /\ \/ req' = [req EXCEPT ![i] = Idle]
           \/ \E n \in 1..MaxCount : req' = [req EXCEPT ![i] = r(n)]
    BY <1>1, <1>3, SessionsUntouched DEF VerifyAssertion, End, Proceed, sessionAll
  <2>2. \A n \in 1..MaxCount : SessionStepTyped(r(n))
    BY DEF SessionStepTyped
  <2> HIDE DEF r
  <2> QED  BY <1>1, <2>1, <2>2, SessionSteps, PlainSteps
<1>4. CASE UpdateCounter(i)
  <2> DEFINE r == [req[i] EXCEPT !.step = "grant"]
  <2>1. /\ req[i] # Idle /\ req[i].step = "counter" /\ UNCHANGED <<touched, token, device, challenge, revoked>>
        /\ \/ req' = [req EXCEPT ![i] = Idle] /\ passkey' = passkey
           \/ req' = [req EXCEPT ![i] = r] /\ passkey' = [passkey EXCEPT ![req[i].user] = req[i].count]
    BY <1>4 DEF UpdateCounter, End, Proceed
  <2>2. Answered(req[i], {"counter"})
    BY <2>1, InFlightIsRequest, AtAwait DEF SessionsInv
  <2>3. "step" \in DOMAIN r /\ r.step = "grant"
    BY <2>2 DEF Answered
  <2>4. SessionStepTyped(r)
    BY <2>3, PlainSteps
  <2> HIDE DEF r
  <2>5. req[i].count \in 0..NoPasskey
    BY <2>1, MaxCountNat DEF SessionsTyped, SessionStepTyped, NoPasskey
  <2>6. SessionsTypeOK'
    BY <1>1, <2>1, <2>5 DEF SessionsTypeOK, NoPasskey
  <2> QED  BY <1>1, <2>1, <2>4, <2>6, SessionSteps, PlainSteps
<1> QED  BY <1>2, <1>3, <1>4

\* The writes of a single statement, and the challenges issued.
LEMMA SessionWrites ==
    ASSUME SessionsTyped, SessionsInv, ClockOK, desk = "sessions", desk' = desk,
           \/ \E u \in Accounts : \/ SyncUserPhone(u) \/ ConfirmRegistration(u) \/ RemovePasskey(u)
                                  \/ \E d \in Devices : RegisterDevice(u, d)
           \/ \E d \in Devices : RemoveDevice(d)
           \/ GetAuthenticationOptions
    PROVE  SessionsTyped'
<1>1. SessionsTypeOK /\ req' = req
  BY DEF SessionsTyped, SyncUserPhone, ConfirmRegistration, RemovePasskey, RegisterDevice, RemoveDevice,
         GetAuthenticationOptions, requestVars, Once
<1>2. SessionsTypeOK' => SessionsTyped'
  BY <1>1 DEF SessionsTyped
<1>3. ASSUME NEW u \in Accounts, SyncUserPhone(u) PROVE SessionsTypeOK'
  BY <1>1, <1>3 DEF SyncUserPhone, SessionsTypeOK, ClockOK
<1>4. ASSUME NEW u \in Accounts, ConfirmRegistration(u) PROVE SessionsTypeOK'
  <2>1. 0 \in 0..NoPasskey
    BY MaxCountNat DEF NoPasskey
  <2> QED  BY <1>1, <1>4, <2>1 DEF ConfirmRegistration, SessionsTypeOK
<1>5. ASSUME NEW u \in Accounts, RemovePasskey(u) PROVE SessionsTypeOK'
  <2>1. NoPasskey \in 0..NoPasskey
    BY MaxCountNat DEF NoPasskey
  <2> QED  BY <1>1, <1>5, <2>1 DEF RemovePasskey, SessionsTypeOK
<1>6. device = [x \in Devices |-> device[x]]
  BY DEF SessionsInv, SessionRows
<1>7. ASSUME NEW u \in Accounts, NEW d \in Devices, RegisterDevice(u, d) PROVE SessionsTypeOK'
  <2> DEFINE row == [user |-> u, born |-> now, until |-> now + DeviceLife]
  <2>1. device' = [device EXCEPT ![d] = row] /\ UNCHANGED <<touched, token, passkey, challenge, revoked>>
    BY <1>7 DEF RegisterDevice
  <2>2. row \in DeviceRow
    BY LivesAreNat, MaxTimeNat DEF ClockOK, DeviceRow
  <2> HIDE DEF row
  <2>3. \A x \in Devices : device'[x] = NoDevice \/ device'[x] \in DeviceRow
    BY <1>1, <1>6, <2>1, <2>2 DEF SessionsTypeOK, DeviceRow
  <2> QED  BY <1>1, <2>1, <2>3 DEF SessionsTypeOK, DeviceRow
<1>8. ASSUME NEW d \in Devices, RemoveDevice(d) PROVE SessionsTypeOK'
  <2>1. device' = [device EXCEPT ![d] = NoDevice] /\ UNCHANGED <<touched, token, passkey, challenge, revoked>>
    BY <1>8 DEF RemoveDevice
  <2>2. \A x \in Devices : device'[x] = NoDevice \/ device'[x] = device[x]
    BY <1>6, <2>1
  <2> QED  BY <1>1, <2>1, <2>2 DEF SessionsTypeOK
<1>9. ASSUME GetAuthenticationOptions PROVE SessionsTypeOK'
  <2> DEFINE row == [until |-> now + ChallengeLife, cached |-> TRUE]
  <2>1. challenge' = Append(challenge, row) /\ UNCHANGED <<touched, token, device, passkey, revoked>>
    BY <1>9 DEF GetAuthenticationOptions
  <2>2. row \in ChallengeRow
    BY LivesAreNat, MaxTimeNat DEF ClockOK, ChallengeRow
  <2> HIDE DEF row
  <2>3. challenge \in Seq(ChallengeRow)
    BY <1>1 DEF SessionsTypeOK, ChallengeRow
  <2>4. challenge' \in Seq(ChallengeRow)
    BY <2>1, <2>2, <2>3, LogOfRows
  <2> QED  BY <1>1, <2>1, <2>4 DEF SessionsTypeOK, ChallengeRow
<1> QED  BY <1>2, <1>3, <1>4, <1>5, <1>7, <1>8, <1>9

LEMMA SessionsStepTyped ==
    ASSUME SessionsTyped, SessionsInv, ClockOK, desk = "sessions", desk' = desk, SessionsNext
    PROVE  SessionsTyped'
<1>1. ASSUME NEW i \in Slots, SessionsStep(i) PROVE SessionsTyped'
  BY <1>1, SessionArrivals, SessionCodes, SessionDevices, SessionRevocations, SessionAnswers DEF SessionsStep
<1>2. CASE Tick /\ UNCHANGED sessionAll
  <2>1. SessionsTypeOK' /\ req' = req
    BY <1>2, SessionsUntouched DEF Tick, sessionAll, SessionsTyped
  <2> QED  BY <2>1 DEF SessionsTyped
<1>3. ASSUME NEW i \in Slots, Abort(i), UNCHANGED sessionAll PROVE SessionsTyped'
  <2>1. SessionsTypeOK' /\ req' = [req EXCEPT ![i] = Idle] /\ req = [j \in Slots |-> req[j]]
    BY <1>3, SessionsUntouched DEF Abort, End, Proceed, sessionAll, SessionsTyped, SessionsInv, SessionRequests
  <2> QED  BY <2>1, SessionSteps, PlainSteps
<1> QED  BY <1>1, <1>2, <1>3, SessionWrites DEF SessionsNext

LEMMA SessionsInitiallyTyped == Init => SessionsTyped
<1> SUFFICES ASSUME Init PROVE SessionsTyped
  OBVIOUS
<1>1. /\ req = [i \in Slots |-> Idle] /\ touched = [u \in Accounts |-> 1] /\ token = {}
      /\ device = [d \in Devices |-> NoDevice] /\ passkey = [u \in Accounts |-> NoPasskey]
      /\ challenge = <<>> /\ revoked = [u \in Accounts |-> Never]
  BY DEF Init, SessionsInit, RequestsInit
<1>2. 1 \in 1..MaxTime /\ Never \in Never..MaxTime /\ NoPasskey \in 0..NoPasskey
  BY MaxTimeNat, MaxCountNat DEF Never, NoPasskey
<1>3. \A S : <<>> \in Seq(S)
  OBVIOUS
<1>4. SessionsTypeOK
  BY <1>1, <1>2, <1>3 DEF SessionsTypeOK
<1> QED  BY <1>1, <1>4, PlainSteps DEF SessionsTyped

LEMMA SessionsStayTyped == SessionsTyped /\ SessionsKept /\ ClockOK /\ [Next]_accessVars => SessionsTyped'
<1> SUFFICES ASSUME SessionsTyped, SessionsKept, ClockOK, [Next]_accessVars PROVE SessionsTyped'
  OBVIOUS
<1>1. UNCHANGED sessionVars => SessionsTypeOK'
  BY SessionsUntouched DEF SessionsTyped
<1>2. CASE Next
  <2>1. desk' = desk /\ (desk = "sessions" => SessionsNext) /\ (desk # "sessions" => UNCHANGED sessionVars)
    BY <1>2 DEF Next, AtTheGate, AmongMembers, OfInvitations, OfSessions, UnderLimits, AtThePanel, OfOwners
  <2>2. CASE desk = "sessions"
    BY <2>1, <2>2, SessionsStepTyped DEF SessionsKept
  <2>3. CASE desk # "sessions"
    BY <1>1, <2>1, <2>3 DEF SessionsTyped
  <2> QED  BY <2>2, <2>3
<1>3. CASE UNCHANGED accessVars
  <2>1. UNCHANGED <<desk, req, sessionVars>>
    BY <1>3 DEF accessVars, requestVars
  <2> QED  BY <1>1, <2>1 DEF SessionsTyped
<1> QED  BY <1>2, <1>3


-----------------------------------------------------------------------------

LEMMA SameLength ==
    ASSUME NEW S, NEW s \in Seq(S), NEW t \in Seq(S), DOMAIN t = DOMAIN s PROVE Len(t) = Len(s)
<1>1. /\ DOMAIN s = 1..Len(s) /\ DOMAIN t = 1..Len(t) /\ Len(s) \in Nat /\ Len(t) \in Nat
  OBVIOUS
<1>2. \A m, n \in Nat : 1..m = 1..n => m = n
  OBVIOUS
<1> QED  BY <1>1, <1>2

\* A log grows by a row at a time, and no further than its bound.
Grows(log, bound) == Len(log) < bound /\ \E row : log' = Append(log, row)

LEMMA InviteLogGrows ==
    ASSUME InvitesNext PROVE DOMAIN invite' = DOMAIN invite \/ Grows(invite, MaxInvites)
<1>1. ASSUME NEW i \in Slots, InsertInvite(i) PROVE Grows(invite, MaxInvites)
  BY <1>1 DEF InsertInvite, Grows
<1>2. ASSUME NEW i \in Slots, ExpireOpenInvites(i) \/ WriteRevocation(i) \/ GrantMembership(i)
      PROVE  DOMAIN invite' = DOMAIN invite
  BY <1>2 DEF ExpireOpenInvites, WriteRevocation, GrantMembership
<1>3. ASSUME NEW i \in Slots,
             \/ \E u \in Invitees : CreateTenantInvite(i, u)
             \/ \E k \in DOMAIN invite : \/ ResendTenantInvite(i, k) \/ RevokeTenantInvite(i, k)
                                         \/ BeginAcceptTenantInvite(i, k) \/ AcceptTenantInvite(i, k)
      PROVE  invite' = invite
  BY <1>3 DEF CreateTenantInvite, ResendTenantInvite, SendInvite, RevokeTenantInvite, BeginAcceptTenantInvite,
              AcceptTenantInvite, inviteVars
<1>4. ASSUME NEW i \in Slots, InvitesStep(i) PROVE DOMAIN invite' = DOMAIN invite \/ Grows(invite, MaxInvites)
  BY <1>1, <1>2, <1>3, <1>4 DEF InvitesStep
<1> QED  BY <1>4 DEF InvitesNext, inviteVars

LEMMA CodeLogGrows ==
    ASSUME NEW i \in Slots, CodeStep(i) PROVE DOMAIN code' = DOMAIN code \/ Grows(code, MaxCodes)
BY DEF CodeStep, IssueCode, ReadCode, BurnCode, MissCode, SpendCode, Grows

LEMMA CodesOfDesksGrow ==
    ASSUME InvitesNext \/ SessionsNext PROVE DOMAIN code' = DOMAIN code \/ Grows(code, MaxCodes)
<1>1. ASSUME NEW i \in Slots, InvitesStep(i), ~CodeStep(i) PROVE code' = code
  BY <1>1 DEF InvitesStep, CreateTenantInvite, ResendTenantInvite, SendInvite, RevokeTenantInvite,
              BeginAcceptTenantInvite, SendCode, AcceptTenantInvite, ExpireOpenInvites, InsertInvite,
              WriteRevocation, GrantMembership, inviteVars
<1>2. ASSUME NEW i \in Slots, SessionsStep(i), ~CodeStep(i) PROVE code' = code
  BY <1>2 DEF SessionsStep, SendLoginOtp, SendCode, VerifyLoginOtp, RevokeAllSessions, ConfirmAuthentication,
              VerifyDevice, CreateSession, RefreshDevice, ForgetDevice, TouchUser, DeleteDevices,
              VerifyAssertion, UpdateCounter, sessionAll
<1>3. CASE InvitesNext
  BY <1>1, <1>3, CodeLogGrows DEF InvitesNext, inviteVars
<1>4. CASE SessionsNext
  BY <1>2, <1>4, CodeLogGrows DEF SessionsNext, SyncUserPhone, ConfirmRegistration, RemovePasskey, RegisterDevice,
                                  RemoveDevice, GetAuthenticationOptions, sessionAll
<1> QED  BY <1>3, <1>4

LEMMA LogStays ==
    ASSUME NEW S, NEW s \in Seq(S), NEW t \in Seq(S), NEW bound \in Nat, Len(s) <= bound,
           DOMAIN t = DOMAIN s \/ (Len(s) < bound /\ \E row : t = Append(s, row))
    PROVE  Len(t) <= bound
<1>1. CASE DOMAIN t = DOMAIN s
  BY <1>1, SameLength
<1>2. CASE Len(s) < bound /\ \E row : t = Append(s, row)
  <2>1. Len(t) = Len(s) + 1 /\ Len(s) \in Nat
    BY <1>2
  <2> QED  BY <1>2, <2>1
<1> QED  BY <1>1, <1>2

LEMMA LogsStayBounded ==
    LogsBounded /\ InvitesKept /\ InvitesKept' /\ CodesKept /\ CodesKept' /\ [Next]_accessVars => LogsBounded'
<1> SUFFICES ASSUME LogsBounded, InvitesKept, InvitesKept', CodesKept, CodesKept', [Next]_accessVars
             PROVE  LogsBounded'
  OBVIOUS
<1>1. /\ desk' = desk
      /\ desk # "invites" => UNCHANGED invite
      /\ desk \notin {"invites", "sessions"} => UNCHANGED code
      /\ desk = "invites" => InvitesNext \/ UNCHANGED <<invite, code>>
      /\ desk = "sessions" => SessionsNext \/ UNCHANGED code
  BY DEF Next, AtTheGate, AmongMembers, OfInvitations, OfSessions, UnderLimits, AtThePanel, OfOwners,
         inviteVars, accessVars
<1>2. Len(invite') <= MaxInvites
  <2>1. CASE desk = "invites"
    <3>1. invite \in Seq(InviteRow) /\ invite' \in Seq(InviteRow)
      BY <1>1, <2>1 DEF InvitesKept, InvitesInv, InviteRow
    <3>2. DOMAIN invite' = DOMAIN invite \/ (Len(invite) < MaxInvites /\ \E row : invite' = Append(invite, row))
      BY <1>1, <2>1, InviteLogGrows DEF Grows
    <3> QED  BY <3>1, <3>2, LogStays, MaxInvitesNat DEF LogsBounded
  <2>2. CASE desk # "invites"
    BY <1>1, <2>2 DEF LogsBounded
  <2> QED  BY <2>1, <2>2
<1>3. Len(code') <= MaxCodes
  <2>1. CASE desk \in {"invites", "sessions"}
    <3>1. PICK People : code \in Seq(CodeRow(People)) /\ code' \in Seq(CodeRow(People))
      BY <1>1, <2>1 DEF CodesKept, CodesInv, CodeRow
    <3>2. DOMAIN code' = DOMAIN code \/ (Len(code) < MaxCodes /\ \E row : code' = Append(code, row))
      BY <1>1, <2>1, CodesOfDesksGrow DEF Grows
    <3> QED  BY <3>1, <3>2, LogStays, MaxCodesNat DEF LogsBounded
  <2>2. CASE desk \notin {"invites", "sessions"}
    BY <1>1, <2>2 DEF LogsBounded
  <2> QED  BY <2>1, <2>2
<1> QED  BY <1>2, <1>3 DEF LogsBounded

LEMMA LogsInitially == Init => LogsBounded
<1> SUFFICES ASSUME Init PROVE LogsBounded
  OBVIOUS
<1>1. invite = <<>> /\ code = <<>>
  BY DEF Init, InvitesInit, CodesInit
<1> QED  BY <1>1, MaxInvitesNat, MaxCodesNat DEF LogsBounded

\* The tables hold what they may hold: dates from the clock, roles and accounts that there
\* are, counters and counts within their bounds, and in a request in flight what the write
\* it is about to make may put there.
THEOREM AccessIsTyped == Spec => []TypeOK
<1> DEFINE Kept == /\ ClockOK /\ VisitorsKept /\ MembersKept /\ InvitesKept /\ CodesKept
                   /\ SessionsTyped /\ LimitsTyped /\ PanelKept /\ OwnerRationKept /\ LogsBounded
<1>1. ASSUME Kept PROVE TypeOK
  <2>1. VisitorsTypeOK
    <3>1. CASE desk = "visitors"
      BY <1>1, <3>1 DEF VisitorsKept, VisitorsInv
    <3>2. CASE desk # "visitors"
      BY <1>1, <3>2 DEF VisitorsKept, VisitorsTypeOK
    <3> QED  BY <3>1, <3>2
  <2>2. MembersTypeOK
    BY <1>1 DEF MembersKept, SeatsInv, InvitesKept, InvitesInv
  <2>3. desk = "invites" => InvitesTypeOK
    BY <1>1 DEF InvitesKept, InvitesInv, CodesKept, CodesInv, LogsBounded, InvitesTypeOK
  <2>4. PanelTypeOK
    BY <1>1 DEF PanelKept, PanelInv, PanelRows
  <2>5. OwnersTypeOK
    <3>1. \A S : <<>> \in Seq(S)
      OBVIOUS
    <3> QED  BY <1>1, <3>1 DEF OwnerRationKept, OwnerRationInv, OwnerCodeRow, OwnersTypeOK
  <2> QED  BY <1>1, <2>1, <2>2, <2>3, <2>4, <2>5 DEF TypeOK, ClockOK, SessionsTyped, LimitsTyped
<1>2. Init => ClockOK
  BY MaxTimeNat DEF Init, RequestsInit, ClockOK
<1>3. Init => MembersKept
  BY MembersInitially
<1> HIDE DEF Kept
<1>4. Spec => []Kept
  BY <1>2, <1>3, ClockStep, VisitorsInitially, VisitorsStayKept, MembersStayKept, InvitesInitially, InvitesStayKept,
     CodesInitially, CodesStayKept, SessionsInitially, SessionsStayKept, SessionsInitiallyTyped, SessionsStayTyped,
     LimitsInitially, LimitsStayKept, LimitsInitiallyTyped, LimitsStayTyped, PanelInitially, PanelStayKept,
     OwnerRationInitially, OwnerRationStays, LogsInitially, LogsStayBounded, PTL DEF Spec, Kept
<1> QED  BY <1>1, <1>4, PTL

=============================================================================
