---------------------------- MODULE AccessProofs ----------------------------
(***************************************************************************)
(* Theorems about Access, for every number of accounts, devices, kinds and *)
(* requests in flight, every limit and every length of a life.             *)
(***************************************************************************)
EXTENDS Access, RequestsProofs, FiniteSetTheorems, SequenceTheorems

(***************************************************************************)
(* Limits.  A creation that has passed the count of the service is alone   *)
(* at its kind until it is made, if the kind is not contested.             *)
(***************************************************************************)

\* A creation at the given await.
Creating(r, k, steps) == \E s \in steps : r = [op |-> "create", rows |-> {k}, kind |-> k, step |-> s]

\* The same with the counts it has read.
Caching(r, k) ==
    \E h : r = [op |-> "create", rows |-> {k}, kind |-> k, step |-> "cache", held |-> h]

LimitRequests ==
    /\ req = [i \in Slots |-> req[i]]
    /\ \A i \in Slots : req[i] = Idle \/ \E k \in Kinds : Creating(req[i], k, {"count", "check", "create"})
                                                       \/ Caching(req[i], k)

\* What the count of the service has found is still so.
RoomFound(i) ==
    req[i] # Idle /\ req[i].step = "create" /\ req[i].kind \in Checked \ contested
        => held[req[i].kind] < Limit

LimitsInv ==
    /\ held \in [Kinds -> Nat]
    /\ LimitRequests
    /\ \A k \in Kinds \ contested : AloneAt(k)
    /\ \A i \in Slots : RoomFound(i)
    /\ LimitsHold

LimitsKept ==
    /\ desk = "limits" => LimitsInv
    /\ desk # "limits" => held = [k \in Kinds |-> 0]

-----------------------------------------------------------------------------

\* The columns of a creation.
LEMMA CreationColumns ==
    ASSUME NEW r, NEW k
    PROVE  /\ \A S : Creating(r, k, S) => /\ r # Idle /\ r.rows = {k} /\ r.kind = k
                                          /\ r.step \in S
           /\ Caching(r, k) => r # Idle /\ r.rows = {k} /\ r.kind = k /\ r.step = "cache"
           /\ Idle.op = "idle"
<1>1. \A s : [op |-> "create", rows |-> {k}, kind |-> k, step |-> s].op # Idle.op
  BY DEF Idle
<1>2. \A h : [op |-> "create", rows |-> {k}, kind |-> k, step |-> "cache", held |-> h].op # Idle.op
  BY DEF Idle
<1>3. ASSUME NEW S, Creating(r, k, S)
      PROVE  r # Idle /\ r.rows = {k} /\ r.kind = k /\ r.step \in S
  BY <1>1, <1>3 DEF Creating
<1>4. ASSUME Caching(r, k) PROVE r # Idle /\ r.rows = {k} /\ r.kind = k /\ r.step = "cache"
  BY <1>2, <1>4 DEF Caching
<1> QED  BY <1>3, <1>4 DEF Idle

\* A request in flight for one kind is a creation of it.
LEMMA WhichCreation ==
    ASSUME LimitRequests, NEW i \in Slots, req[i] # Idle
    PROVE  /\ req[i].kind \in Kinds /\ req[i].rows = {req[i].kind}
           /\ req[i].step # "cache" => Creating(req[i], req[i].kind, {req[i].step})
<1>1. PICK k \in Kinds : Creating(req[i], k, {"count", "check", "create"}) \/ Caching(req[i], k)
  BY DEF LimitRequests
<1>2. req[i].rows = {k} /\ req[i].kind = k
  BY <1>1, CreationColumns
<1>3. ASSUME req[i].step # "cache" PROVE Creating(req[i], k, {req[i].step})
  <2>1. Creating(req[i], k, {"count", "check", "create"})
    BY <1>1, <1>3, CreationColumns
  <2>2. PICK s \in {"count", "check", "create"} :
          req[i] = [op |-> "create", rows |-> {k}, kind |-> k, step |-> s]
    BY <2>1 DEF Creating
  <2> QED  BY <2>2 DEF Creating
<1> QED  BY <1>2, <1>3

\* A request steps to r, or ends, and leaves the rows alone: if it has found room, there is.
LEMMA CreationMoves ==
    ASSUME LimitsInv, UNCHANGED held, NEW i \in Slots, NEW k \in Kinds, NEW r,
           \/ Begin(i, r)
           \/ req[i] # Idle /\ req[i].kind = k /\ Proceed(i, r),
           r = Idle \/ Caching(r, k) \/ Creating(r, k, {"count", "check", "create"}),
           r # Idle /\ r.step = "create" /\ k \in Checked => held[k] < Limit
    PROVE  LimitsInv'
<1> USE CreationColumns
<1>1. /\ req'[i] = r /\ req' = [j \in Slots |-> req'[j]]
      /\ \A j \in Slots : j # i => req'[j] = req[j]
      /\ contested \subseteq contested'
      /\ \A row : AloneAt(row) /\ row \notin contested' => AloneAt(row)'
  <2>1. CASE Begin(i, r)
    BY <2>1, BeginAlone DEF LimitsInv, LimitRequests
  <2>2. CASE req[i] # Idle /\ req[i].kind = k /\ Proceed(i, r)
    <3>1. req[i].rows = {k}
      BY <2>2, WhichCreation DEF LimitsInv
    <3>2. r = Idle \/ r.rows \subseteq req[i].rows
      BY <3>1
    <3> QED  BY <2>2, <3>2, ProceedAlone DEF LimitsInv, LimitRequests
  <2> QED  BY <2>1, <2>2
<1>2. LimitRequests'
  BY <1>1 DEF LimitsInv, LimitRequests
<1>3. \A a \in Kinds \ contested' : AloneAt(a)'
  BY <1>1 DEF LimitsInv
<1>4. ASSUME NEW j \in Slots PROVE RoomFound(j)'
  <2>1. CASE j = i
    <3>1. r # Idle => r.kind = k
      BY CreationColumns
    <3> QED  BY <1>1, <2>1, <3>1 DEF RoomFound
  <2>2. CASE j # i
    BY <1>1, <2>2 DEF LimitsInv, RoomFound
  <2> QED  BY <2>1, <2>2
<1>5. LimitsHold'
  BY <1>1 DEF LimitsInv, LimitsHold
<1> QED  BY <1>2, <1>3, <1>4, <1>5 DEF LimitsInv

LEMMA GuardMoves ==
    ASSUME LimitsInv, NEW i \in Slots, NEW k \in Kinds, EntitlementsGuard(i, k)
    PROVE  LimitsInv'
<1>1. PICK s \in {"count", "check", "create"} :
        /\ Begin(i, [op |-> "create", rows |-> {k}, kind |-> k, step |-> s])
        /\ s = "create" => k \notin Checked
  BY DEF EntitlementsGuard, AfterGuard
<1> DEFINE r == [op |-> "create", rows |-> {k}, kind |-> k, step |-> s]
<1>2. Creating(r, k, {"count", "check", "create"}) /\ r.step = s
  BY DEF Creating
<1>3. UNCHANGED held
  BY DEF EntitlementsGuard, limitVars
<1>4. Begin(i, r)
  BY <1>1
<1> HIDE DEF r
<1> QED  BY <1>1, <1>2, <1>3, <1>4, CreationMoves

LEMMA CountMoves ==
    ASSUME LimitsInv, NEW i \in Slots, CountUsage(i)
    PROVE  LimitsInv'
<1> DEFINE k == req[i].kind
           r == [op |-> "create", rows |-> req[i].rows, kind |-> k, step |-> "cache", held |-> held]
<1>1. req[i] # Idle /\ Proceed(i, r) /\ UNCHANGED held
  BY DEF CountUsage, limitVars
<1>2. k \in Kinds /\ req[i].rows = {k}
  BY <1>1, WhichCreation DEF LimitsInv
<1>3. Caching(r, k)
  BY <1>2 DEF Caching
<1>4. r # Idle /\ r.step = "cache"
  BY <1>3, CreationColumns
<1> HIDE DEF r
<1> QED  BY <1>1, <1>2, <1>3, <1>4, CreationMoves

LEMMA CacheMoves ==
    ASSUME LimitsInv, NEW i \in Slots, ComputeAndCache(i)
    PROVE  LimitsInv'
<1> DEFINE k == req[i].kind
           r == [op |-> "create", rows |-> req[i].rows, kind |-> k, step |-> AfterGuard(k)]
<1>1. req[i] # Idle /\ (Proceed(i, r) \/ Proceed(i, Idle)) /\ UNCHANGED held
  BY DEF ComputeAndCache, End
<1>2. k \in Kinds /\ req[i].rows = {k}
  BY <1>1, WhichCreation DEF LimitsInv
<1>3. Creating(r, k, {"count", "check", "create"}) /\ r.step = AfterGuard(k)
  BY <1>2 DEF Creating, AfterGuard
<1>4. r.step = "create" => k \notin Checked
  BY <1>3 DEF AfterGuard
<1> HIDE DEF r, k
<1> QED  BY <1>1, <1>2, <1>3, <1>4, CreationMoves DEF k

LEMMA CheckMoves ==
    ASSUME LimitsInv, NEW i \in Slots, AssertPlanLimit(i)
    PROVE  LimitsInv'
<1> DEFINE k == req[i].kind
           r == [req[i] EXCEPT !.step = "create"]
<1>1. /\ req[i] # Idle /\ req[i].step = "check" /\ UNCHANGED held
      /\ Proceed(i, Idle) \/ (Proceed(i, r) /\ ~(held[k] >= Limit))
  BY DEF AssertPlanLimit, limitVars, End
<1>2. k \in Kinds /\ Creating(req[i], k, {"check"})
  BY <1>1, WhichCreation DEF LimitsInv
<1>3. Creating(r, k, {"count", "check", "create"})
  BY <1>2 DEF Creating
<1>4. ~(held[k] >= Limit) => held[k] < Limit
  BY <1>2, LimitNat DEF LimitsInv
<1> HIDE DEF r, k
<1> QED  BY <1>1, <1>2, <1>3, <1>4, CreationMoves DEF k

\* A row more: nobody else was at the kind, so that nobody else has found room.
LEMMA CreationKeeps ==
    ASSUME LimitsInv, NEW i \in Slots, CreateRow(i)
    PROVE  LimitsInv'
<1> DEFINE k == req[i].kind
<1>1. req[i] # Idle /\ req[i].step = "create" /\ Proceed(i, Idle)
      /\ held' = [held EXCEPT ![k] = @ + 1]
  BY DEF CreateRow, End
<1>2. k \in Kinds /\ req[i].rows = {k}
  BY <1>1, WhichCreation DEF LimitsInv
<1>3. /\ req'[i] = Idle /\ req' = [j \in Slots |-> req'[j]] /\ contested' = contested
      /\ \A j \in Slots : j # i => req'[j] = req[j]
      /\ \A row : AloneAt(row) => AloneAt(row)'
  BY <1>1, ProceedAlone DEF LimitsInv, LimitRequests
<1>4. held' \in [Kinds -> Nat] /\ held'[k] = held[k] + 1 /\ \A x \in Kinds : x # k => held'[x] = held[x]
  BY <1>1, <1>2 DEF LimitsInv
<1>5. LimitRequests'
  BY <1>3 DEF LimitsInv, LimitRequests
<1>6. \A a \in Kinds \ contested' : AloneAt(a)'
  BY <1>3 DEF LimitsInv
<1>7. ASSUME NEW j \in Slots PROVE RoomFound(j)'
  <2>1. CASE j = i
    BY <1>3, <2>1 DEF RoomFound
  <2>2. CASE j # i /\ req[j] # Idle
    <3>1. req[j].kind \in Kinds /\ req[j].rows = {req[j].kind}
      BY <2>2, WhichCreation DEF LimitsInv
    <3>2. k \notin contested => req[j].kind # k
      BY <1>1, <1>2, <2>2, <3>1, AtRow DEF LimitsInv, AloneAt
    <3>3. RoomFound(j)
      BY DEF LimitsInv
    <3> QED  BY <1>3, <1>4, <2>2, <3>1, <3>2, <3>3 DEF RoomFound
  <2>3. CASE j # i /\ req[j] = Idle
    BY <1>3, <2>3 DEF RoomFound
  <2> QED  BY <2>1, <2>2, <2>3
<1>8. LimitsHold'
  <2>1. RoomFound(i)
    BY DEF LimitsInv
  <2>2. k \in Checked \ contested => held'[k] <= Limit
    BY <1>1, <1>2, <1>4, <2>1, LimitNat DEF RoomFound, LimitsInv
  <2> QED  BY <1>2, <1>3, <1>4, <2>2, CheckedAreKinds DEF LimitsInv, LimitsHold
<1> QED  BY <1>4, <1>5, <1>6, <1>7, <1>8 DEF LimitsInv

LEMMA DeletionKeeps ==
    ASSUME LimitsInv, NEW k \in Kinds, DeleteRow(k)
    PROVE  LimitsInv'
<1>1. held[k] > 0 /\ held' = [held EXCEPT ![k] = @ - 1] /\ req' = req /\ contested \subseteq contested'
  BY MeetContests DEF DeleteRow, Once
<1>2. held' \in [Kinds -> Nat] /\ \A x \in Kinds : held'[x] <= held[x]
  BY <1>1 DEF LimitsInv
<1>3. LimitRequests' /\ \A a \in Kinds \ contested' : AloneAt(a)'
  BY <1>1 DEF LimitsInv, LimitRequests, AloneAt, InFlight
<1>4. ASSUME NEW i \in Slots PROVE RoomFound(i)'
  <2>1. RoomFound(i)
    BY DEF LimitsInv
  <2>2. req[i] # Idle => req[i].kind \in Kinds
    BY WhichCreation DEF LimitsInv
  <2>3. \A x \in Kinds : held[x] < Limit => held'[x] < Limit
    BY <1>2, LimitNat DEF LimitsInv
  <2> QED  BY <1>1, <2>1, <2>2, <2>3 DEF RoomFound
<1>5. LimitsHold'
  <2>1. \A x \in Kinds : held[x] <= Limit => held'[x] <= Limit
    BY <1>2, LimitNat DEF LimitsInv
  <2> QED  BY <1>1, <2>1, CheckedAreKinds DEF LimitsInv, LimitsHold
<1> QED  BY <1>2, <1>3, <1>4, <1>5 DEF LimitsInv

LEMMA LimitsStutter ==
    ASSUME LimitsInv, UNCHANGED <<req, contested, held>>
    PROVE  LimitsInv'
BY DEF LimitsInv, LimitRequests, RoomFound, AloneAt, InFlight, LimitsHold

LEMMA LimitsStepKeeps ==
    ASSUME LimitsInv, LimitsNext
    PROVE  LimitsInv'
<1>1. ASSUME NEW i \in Slots, LimitsStep(i) PROVE LimitsInv'
  BY <1>1, GuardMoves, CountMoves, CacheMoves, CheckMoves, CreationKeeps DEF LimitsStep
<1>2. ASSUME NEW k \in Kinds, DeleteRow(k) PROVE LimitsInv'
  BY <1>2, DeletionKeeps
<1>3. ASSUME CacheBust PROVE LimitsInv'
  BY <1>3, LimitsStutter DEF CacheBust, requestVars
<1>4. ASSUME Tick, UNCHANGED limitVars PROVE LimitsInv'
  BY <1>4, LimitsStutter DEF Tick, limitVars
<1>5. ASSUME NEW i \in Slots, Abort(i), UNCHANGED limitVars PROVE LimitsInv'
  <2>1. req[i] # Idle /\ Proceed(i, Idle) /\ UNCHANGED held
    BY <1>5 DEF Abort, End, limitVars
  <2>2. req[i].kind \in Kinds
    BY <2>1, WhichCreation DEF LimitsInv
  <2> QED  BY <2>1, <2>2, CreationMoves
<1> QED  BY <1>1, <1>2, <1>3, <1>4, <1>5 DEF LimitsNext

LEMMA LimitsInitially == Init => LimitsKept
<1> SUFFICES ASSUME Init PROVE LimitsKept
  OBVIOUS
<1>1. held = [k \in Kinds |-> 0] /\ req = [i \in Slots |-> Idle]
  BY DEF Init, LimitsInit, RequestsInit
<1>2. LimitRequests /\ (\A k : AloneAt(k)) /\ \A i \in Slots : RoomFound(i)
  BY <1>1 DEF LimitRequests, AloneAt, InFlight, RoomFound
<1>3. LimitsHold
  BY <1>1, LimitNat, CheckedAreKinds DEF LimitsHold
<1> QED  BY <1>1, <1>2, <1>3 DEF LimitsKept, LimitsInv

\* At the other desks nobody creates anything.
LEMMA LimitsStayKept == LimitsKept /\ [Next]_accessVars => LimitsKept'
<1> SUFFICES ASSUME LimitsKept, [Next]_accessVars PROVE LimitsKept'
  OBVIOUS
<1>1. CASE Next
  <2>1. desk' = desk /\ (desk = "limits" => LimitsNext) /\ (desk # "limits" => UNCHANGED held)
    BY <1>1 DEF Next, AtTheGate, AmongMembers, OfInvitations, OfSessions, UnderLimits, AtThePanel, OfOwners, limitVars
  <2> QED  BY <2>1, LimitsStepKeeps DEF LimitsKept
<1>2. CASE UNCHANGED accessVars
  <2>1. UNCHANGED <<desk, req, contested, held>>
    BY <1>2 DEF accessVars, requestVars, limitVars
  <2> QED  BY <2>1, LimitsStutter DEF LimitsKept
<1> QED  BY <1>1, <1>2

\* However old the counts the middleware judges by, a kind the service counts again
\* never passes the limit of the plan, unless two creations of it count together.
THEOREM LimitsRespected == Spec => []LimitsHold
<1>1. LimitsKept => LimitsHold
  BY LimitNat, CheckedAreKinds DEF LimitsKept, LimitsInv, LimitsHold
<1> QED  BY <1>1, LimitsInitially, LimitsStayKept, PTL DEF Spec

(***************************************************************************)
(* Sessions.  What a request in flight may be, at each await; nobody is    *)
(* alone here, and no row needs to be.                                     *)
(***************************************************************************)

Sending(r) == r \in [op : {"send"}, rows : {r.rows}, user : Accounts, step : {"issue"}]

LoggingIn(r, steps) ==
    r \in [op : {"login"}, rows : {r.rows}, user : Accounts, step : steps, code : {r.code}]

ByDevice(r, steps) ==
    r \in [op : {"device"}, rows : {r.rows}, user : Accounts, device : Devices, step : steps]

Revoking(r) == r \in [op : {"revoke"}, rows : {r.rows}, user : Accounts, step : {"touch"}]

\* A revocation half way: the user was touched when it says, or later.
HalfRevoked(r, since) ==
    /\ r \in [op : {"revoke"}, rows : {r.rows}, user : Accounts, step : {"devices"}, at : Nat]
    /\ r.at <= since[r.user]

Answering(r) ==
    r \in [op : {"passkey"}, rows : {r.rows}, user : Accounts, challenge : {r.challenge},
           step : {"passkey"}]

Answered(r, steps) ==
    r \in [op : {"passkey"}, rows : {r.rows}, user : Accounts, challenge : {r.challenge},
           step : steps, count : {r.count}]

SessionRequest(r, since) ==
    \/ Sending(r)
    \/ LoggingIn(r, {"code", "burn", "miss", "spend", "grant"})
    \/ ByDevice(r, {"forget", "refresh", "grant"})
    \/ Revoking(r)
    \/ HalfRevoked(r, since)
    \/ Answering(r)
    \/ Answered(r, {"counter", "grant"})

\* A request that answers a challenge has taken it from the cache.
Spent(r) == r.op = "passkey" => r.challenge \in DOMAIN challenge /\ ~challenge[r.challenge].cached

SessionRequests ==
    /\ req = [i \in Slots |-> req[i]]
    /\ \A i \in Slots : req[i] = Idle \/ SessionRequest(req[i], touched)
    /\ \A i \in Slots : Spent(req[i])
    /\ \A i, j \in Slots :
          req[i].op = "passkey" /\ req[j].op = "passkey" /\ req[i].challenge = req[j].challenge => i = j

\* A user row is touched no earlier than the last revocation that completed, and no
\* device is older than that.
SessionRows ==
    /\ now \in Nat
    /\ touched \in [Accounts -> Nat] /\ revoked \in [Accounts -> Nat]
    /\ \A u \in Accounts : revoked[u] <= touched[u] /\ touched[u] <= now
    /\ token \subseteq [user : Accounts, iat : Nat]
    /\ device \in [Devices -> [user : Accounts, born : Nat, until : Nat] \cup {NoDevice}]
    /\ \A d \in Devices : device[d] # NoDevice => revoked[device[d].user] <= device[d].born
    /\ challenge \in Seq([until : Nat, cached : BOOLEAN])

SessionsInv == SessionRequests /\ SessionRows

SessionsKept ==
    /\ desk = "sessions" => SessionsInv
    /\ desk # "sessions" => revoked = [u \in Accounts |-> Never] /\ challenge = <<>>

-----------------------------------------------------------------------------

LEMMA IdleOp == Idle.op = "idle"
BY DEF Idle

\* Which request is at which await.
LEMMA AtAwait ==
    ASSUME NEW r, NEW since, SessionRequest(r, since)
    PROVE  /\ r # Idle /\ r.user \in Accounts
           /\ r.step \in {"code", "burn", "miss", "spend"} => LoggingIn(r, {r.step})
           /\ r.step \in {"forget", "refresh"} => ByDevice(r, {r.step})
           /\ r.step = "touch" => Revoking(r)
           /\ r.step = "devices" => HalfRevoked(r, since)
           /\ r.step = "passkey" => Answering(r)
           /\ r.step = "counter" => Answered(r, {r.step})
<1>1. CASE Sending(r)
  BY <1>1, IdleOp DEF Sending
<1>2. CASE LoggingIn(r, {"code", "burn", "miss", "spend", "grant"})
  BY <1>2, IdleOp DEF LoggingIn
<1>3. CASE ByDevice(r, {"forget", "refresh", "grant"})
  BY <1>3, IdleOp DEF ByDevice
<1>4. CASE Revoking(r)
  BY <1>4, IdleOp DEF Revoking
<1>5. CASE HalfRevoked(r, since)
  BY <1>5, IdleOp DEF HalfRevoked
<1>6. CASE Answering(r)
  BY <1>6, IdleOp DEF Answering
<1>7. CASE Answered(r, {"counter", "grant"})
  BY <1>7, IdleOp DEF Answered
<1> QED  BY <1>1, <1>2, <1>3, <1>4, <1>5, <1>6, <1>7 DEF SessionRequest

LEMMA InFlightIsRequest ==
    ASSUME SessionRequests, NEW i \in Slots, req[i] # Idle
    PROVE  SessionRequest(req[i], touched)
BY DEF SessionRequests

\* Touching users and issuing or spending challenges leaves every request what it is.
Onward ==
    /\ \A u \in Accounts : touched[u] \in Nat /\ touched'[u] \in Nat /\ touched[u] <= touched'[u]
    /\ \A c \in DOMAIN challenge :
          c \in DOMAIN challenge' /\ (~challenge[c].cached => ~challenge'[c].cached)

LEMMA RequestStays ==
    ASSUME Onward, NEW r, SessionRequest(r, touched)
    PROVE  SessionRequest(r, touched')
<1>1. HalfRevoked(r, touched) => HalfRevoked(r, touched')
  BY DEF HalfRevoked, Onward
<1> QED  BY <1>1 DEF SessionRequest, Sending, LoggingIn, ByDevice, Revoking, Answering, Answered

LEMMA RequestsStay ==
    ASSUME SessionRequests, Onward, UNCHANGED req
    PROVE  SessionRequests'
<1>1. \A i \in Slots : req[i] = Idle \/ SessionRequest(req[i], touched')
  BY RequestStays DEF SessionRequests
<1> QED  BY <1>1 DEF SessionRequests, Onward, Spent

\* A request begins, goes on or ends: whoever answers a challenge has just taken it from
\* the cache or had it before.
LEMMA RequestMoves ==
    ASSUME SessionRequests, Onward, NEW i \in Slots, NEW r, Begin(i, r) \/ Proceed(i, r),
           r = Idle \/ SessionRequest(r, touched'),
           r.op = "passkey" =>
              /\ r.challenge \in DOMAIN challenge /\ ~challenge'[r.challenge].cached
              /\ \/ challenge[r.challenge].cached
                 \/ req[i].op = "passkey" /\ req[i].challenge = r.challenge
    PROVE  SessionRequests'
<1>1. req' = [req EXCEPT ![i] = r]
  BY DEF Begin, Proceed
<1>2. req'[i] = r /\ req' = [j \in Slots |-> req'[j]] /\ \A j \in Slots : j # i => req'[j] = req[j]
  BY <1>1 DEF SessionRequests
<1>3. \A j \in Slots : req'[j] = Idle \/ SessionRequest(req'[j], touched')
  <2> SUFFICES ASSUME NEW j \in Slots PROVE req'[j] = Idle \/ SessionRequest(req'[j], touched')
    OBVIOUS
  <2>1. CASE j = i
    BY <1>2, <2>1
  <2>2. CASE j # i
    <3>1. req'[j] = req[j]
      BY <1>2, <2>2
    <3>2. req[j] = Idle \/ SessionRequest(req[j], touched')
      BY RequestStays DEF SessionRequests
    <3> QED  BY <3>1, <3>2
  <2> QED  BY <2>1, <2>2
<1>4. \A j \in Slots : Spent(req[j])'
  BY <1>2 DEF SessionRequests, Spent, Onward
<1>5. \A j, k \in Slots :
        req'[j].op = "passkey" /\ req'[k].op = "passkey" /\ req'[j].challenge = req'[k].challenge => j = k
  BY <1>2 DEF SessionRequests, Spent
<1> QED  BY <1>2, <1>3, <1>4, <1>5 DEF SessionRequests

LEMMA StillOnward ==
    ASSUME SessionRows, UNCHANGED <<touched, challenge>>
    PROVE  Onward
BY DEF SessionRows, Onward

\* A request that moves and touches no table.
LEMMA QuietMove ==
    ASSUME SessionsInv, NEW i \in Slots, NEW r, Begin(i, r) \/ Proceed(i, r), UNCHANGED sessionVars,
           r = Idle \/ SessionRequest(r, touched),
           r.op = "passkey" => req[i].op = "passkey" /\ req[i].challenge = r.challenge
    PROVE  SessionsInv'
<1>1. UNCHANGED <<now, touched, token, device, challenge, revoked>>
  BY DEF Begin, Proceed, sessionVars
<1>2. SessionRows'
  BY <1>1 DEF SessionsInv, SessionRows
<1>3. Onward
  BY <1>1, StillOnward DEF SessionsInv
<1>4. r = Idle \/ SessionRequest(r, touched')
  BY <1>1
<1>5. r.op = "passkey" =>
        /\ r.challenge \in DOMAIN challenge /\ ~challenge'[r.challenge].cached
        /\ req[i].op = "passkey" /\ req[i].challenge = r.challenge
  BY <1>1 DEF SessionsInv, SessionRequests, Spent
<1>6. SessionRequests'
  BY <1>3, <1>4, <1>5, RequestMoves DEF SessionsInv
<1> QED  BY <1>2, <1>6 DEF SessionsInv

\* The requests that end, with their effect on the tables still to say.
LEMMA EndMove ==
    ASSUME SessionRequests, Onward, NEW i \in Slots, Proceed(i, Idle)
    PROVE  SessionRequests'
BY RequestMoves, IdleOp

LEMMA Beginnings ==
    ASSUME SessionsInv, NEW i \in Slots,
           \/ \E u \in Accounts : SendLoginOtp(i, u) \/ VerifyLoginOtp(i, u) \/ RevokeAllSessions(i, u)
           \/ \E d \in Devices : VerifyDevice(i, d)
    PROVE  SessionsInv'
<1>1. ASSUME NEW u \in Accounts, SendLoginOtp(i, u) PROVE SessionsInv'
  <2> DEFINE r == [op |-> "send", rows |-> {u}, user |-> u, step |-> "issue"]
  <2>1. Begin(i, r) /\ UNCHANGED sessionVars
    BY <1>1 DEF SendLoginOtp, SendCode
  <2>2. SessionRequest(r, touched) /\ r.op = "send"
    BY DEF SessionRequest, Sending
  <2> QED  BY <2>1, <2>2, QuietMove
<1>2. ASSUME NEW u \in Accounts, VerifyLoginOtp(i, u) PROVE SessionsInv'
  <2> DEFINE r == [op |-> "login", rows |-> {u}, user |-> u, step |-> "code", code |-> 0]
  <2>1. Begin(i, r) /\ UNCHANGED sessionVars
    BY <1>2 DEF VerifyLoginOtp, sessionAll
  <2>2. SessionRequest(r, touched) /\ r.op = "login"
    BY DEF SessionRequest, LoggingIn
  <2> QED  BY <2>1, <2>2, QuietMove
<1>3. ASSUME NEW u \in Accounts, RevokeAllSessions(i, u) PROVE SessionsInv'
  <2> DEFINE r == [op |-> "revoke", rows |-> {u}, user |-> u, step |-> "touch"]
  <2>1. Begin(i, r) /\ UNCHANGED sessionVars
    BY <1>3 DEF RevokeAllSessions, sessionAll
  <2>2. SessionRequest(r, touched) /\ r.op = "revoke"
    BY DEF SessionRequest, Revoking
  <2> QED  BY <2>1, <2>2, QuietMove
<1>4. ASSUME NEW d \in Devices, VerifyDevice(i, d) PROVE SessionsInv'
  <2> DEFINE r(s) == [op |-> "device", rows |-> {device[d].user}, user |-> device[d].user,
                      device |-> d, step |-> s]
  <2>1. PICK s \in {"forget", "refresh"} : Begin(i, r(s)) /\ UNCHANGED sessionVars
    BY <1>4 DEF VerifyDevice, sessionAll
  <2>2. device[d].user \in Accounts
    BY <1>4 DEF VerifyDevice, SessionsInv, SessionRows
  <2>3. SessionRequest(r(s), touched) /\ r(s).op = "device"
    BY <2>2 DEF SessionRequest, ByDevice
  <2> QED  BY <2>1, <2>3, QuietMove
<1> QED  BY <1>1, <1>2, <1>3, <1>4

LEMMA CodeMoves ==
    ASSUME SessionsInv, NEW i \in Slots, CodeStep(i), UNCHANGED sessionVars
    PROVE  SessionsInv'
<1> USE IdleOp
<1>1. CASE IssueCode(i)
  BY <1>1, QuietMove DEF IssueCode, End
<1>2. CASE ReadCode(i)
  <2>1. req[i] # Idle /\ req[i].step = "code"
    BY <1>2 DEF ReadCode
  <2>2. LoggingIn(req[i], {"code"})
    BY <2>1, InFlightIsRequest, AtAwait DEF SessionsInv
  <2>3. \/ Proceed(i, Idle)
        \/ \E step \in {"burn", "spend", "miss"} : \E c : Proceed(i, [req[i] EXCEPT !.step = step, !.code = c])
    BY <1>2 DEF ReadCode, End
  <2>4. ASSUME NEW step \in {"burn", "spend", "miss"}, NEW c,
               Proceed(i, [req[i] EXCEPT !.step = step, !.code = c])
        PROVE  SessionsInv'
    <3> DEFINE r == [req[i] EXCEPT !.step = step, !.code = c]
    <3>1. LoggingIn(r, {"burn", "spend", "miss"})
      BY <2>2 DEF LoggingIn
    <3>2. SessionRequest(r, touched) /\ r.op = "login"
      BY <3>1 DEF SessionRequest, LoggingIn
    <3> QED  BY <2>4, <3>2, QuietMove
  <2> QED  BY <2>3, <2>4, QuietMove
<1>3. CASE BurnCode(i)
  BY <1>3, QuietMove DEF BurnCode, End
<1>4. CASE MissCode(i)
  BY <1>4, QuietMove DEF MissCode, End
<1>5. CASE SpendCode(i)
  <2> DEFINE r == [req[i] EXCEPT !.step = "grant"]
  <2>1. req[i] # Idle /\ req[i].step = "spend" /\ Proceed(i, r)
    BY <1>5 DEF SpendCode
  <2>2. LoggingIn(req[i], {"spend"})
    BY <2>1, InFlightIsRequest, AtAwait DEF SessionsInv
  <2>3. LoggingIn(r, {"grant"})
    BY <2>2 DEF LoggingIn
  <2>4. SessionRequest(r, touched) /\ r.op = "login"
    BY <2>3 DEF SessionRequest, LoggingIn
  <2> QED  BY <2>1, <2>4, QuietMove
<1> QED  BY <1>1, <1>2, <1>3, <1>4, <1>5 DEF CodeStep

\* A device remembered or refreshed is no older than the last revocation.
LEMMA DeviceMoves ==
    ASSUME SessionsInv, NEW i \in Slots, CreateSession(i) \/ RefreshDevice(i) \/ ForgetDevice(i)
    PROVE  SessionsInv'
<1> USE IdleOp
<1>1. CASE CreateSession(i)
  <2>1. req[i] # Idle /\ Proceed(i, Idle) /\ UNCHANGED <<touched, device, challenge, revoked>>
        /\ token' = token \cup {[user |-> req[i].user, iat |-> now]}
    BY <1>1 DEF CreateSession, End
  <2>2. req[i].user \in Accounts
    BY <2>1, InFlightIsRequest, AtAwait DEF SessionsInv
  <2>3. SessionRows'
    BY <2>1, <2>2 DEF SessionsInv, SessionRows, Proceed
  <2> QED  BY <2>1, <2>3, StillOnward, EndMove DEF SessionsInv
<1>2. CASE RefreshDevice(i)
  <2> DEFINE d == req[i].device
             r == [req[i] EXCEPT !.step = "grant"]
  <2>1. req[i] # Idle /\ req[i].step = "refresh" /\ UNCHANGED <<touched, token, challenge, revoked>>
    BY <1>2 DEF RefreshDevice
  <2>2. ByDevice(req[i], {"refresh"})
    BY <2>1, InFlightIsRequest, AtAwait DEF SessionsInv
  <2>3. CASE device[d] = NoDevice
    <3>1. Proceed(i, Idle) /\ UNCHANGED device
      BY <1>2, <2>3 DEF RefreshDevice, End
    <3>2. SessionRows'
      BY <2>1, <3>1 DEF SessionsInv, SessionRows, Proceed
    <3> QED  BY <2>1, <3>1, <3>2, StillOnward, EndMove DEF SessionsInv
  <2>4. CASE device[d] # NoDevice
    <3>1. Proceed(i, r) /\ device' = [device EXCEPT ![d].until = now + DeviceLife]
      BY <1>2, <2>4 DEF RefreshDevice
    <3>2. ByDevice(r, {"grant"}) /\ d \in Devices
      BY <2>2 DEF ByDevice
    <3>3. SessionRequest(r, touched') /\ r.op = "device"
      BY <3>2 DEF SessionRequest, ByDevice
    <3>4. now + DeviceLife \in Nat
      BY LivesAreNat DEF SessionsInv, SessionRows
    <3>5. device[d] \in [user : Accounts, born : Nat, until : Nat]
      BY <2>4, <3>2 DEF SessionsInv, SessionRows
    <3>6. /\ device'[d] = [device[d] EXCEPT !.until = now + DeviceLife]
          /\ \A x \in Devices : x # d => device'[x] = device[x]
          /\ device' \in [Devices -> [user : Accounts, born : Nat, until : Nat] \cup {NoDevice}]
      BY <3>1, <3>2, <3>4, <3>5 DEF SessionsInv, SessionRows
    <3>7. device'[d].user = device[d].user /\ device'[d].born = device[d].born
      BY <3>5, <3>6
    <3>8. \A x \in Devices : device'[x] # NoDevice => revoked'[device'[x].user] <= device'[x].born
      BY <2>1, <2>4, <3>6, <3>7 DEF SessionsInv, SessionRows
    <3>9. SessionRows'
      BY <2>1, <3>1, <3>6, <3>8 DEF SessionsInv, SessionRows, Proceed
    <3> QED  BY <2>1, <3>1, <3>3, <3>9, StillOnward, RequestMoves DEF SessionsInv
  <2> QED  BY <2>3, <2>4
<1>3. CASE ForgetDevice(i)
  <2>1. Proceed(i, Idle) /\ UNCHANGED <<touched, token, challenge, revoked>>
        /\ device' = [device EXCEPT ![req[i].device] = NoDevice]
    BY <1>3 DEF ForgetDevice, End
  <2>2. SessionRows'
    BY <2>1 DEF SessionsInv, SessionRows, Proceed
  <2> QED  BY <2>1, <2>2, StillOnward, EndMove DEF SessionsInv
<1> QED  BY <1>1, <1>2, <1>3

\* A revocation touches the user, then deletes the devices of before.
LEMMA RevocationMoves ==
    ASSUME SessionsInv, NEW i \in Slots, TouchUser(i) \/ DeleteDevices(i)
    PROVE  SessionsInv'
<1>1. CASE TouchUser(i)
  <2> DEFINE u == req[i].user
             r == [op |-> "revoke", rows |-> req[i].rows, user |-> u, step |-> "devices", at |-> now]
  <2>1. req[i] # Idle /\ Proceed(i, r) /\ touched' = [touched EXCEPT ![u] = now]
        /\ UNCHANGED <<token, device, challenge, revoked>>
    BY <1>1 DEF TouchUser
  <2>2. u \in Accounts
    BY <2>1, InFlightIsRequest, AtAwait DEF SessionsInv
  <2>3. /\ touched' \in [Accounts -> Nat] /\ touched'[u] = now /\ now \in Nat /\ now' = now
        /\ \A x \in Accounts : touched[x] <= touched'[x] /\ touched'[x] <= now
    BY <2>1, <2>2 DEF SessionsInv, SessionRows, Proceed
  <2>4. SessionRows'
    BY <2>1, <2>3 DEF SessionsInv, SessionRows
  <2>5. Onward
    BY <2>1, <2>3 DEF SessionsInv, SessionRows, Onward
  <2>6. HalfRevoked(r, touched') /\ r.op = "revoke"
    BY <2>2, <2>3 DEF HalfRevoked
  <2>7. SessionRequest(r, touched')
    BY <2>6 DEF SessionRequest
  <2> HIDE DEF r
  <2> QED  BY <2>1, <2>4, <2>5, <2>6, <2>7, RequestMoves DEF SessionsInv
<1>2. CASE DeleteDevices(i)
  <2> DEFINE u == req[i].user
             m == Max({revoked[u], req[i].at})
  <2>1. /\ req[i] # Idle /\ req[i].step = "devices" /\ Proceed(i, Idle)
        /\ device' = [d \in Devices |-> IF device[d] # NoDevice /\ device[d].user = u
                                        THEN NoDevice ELSE device[d]]
        /\ revoked' = [revoked EXCEPT ![u] = m]
        /\ UNCHANGED <<touched, token, challenge>>
    BY <1>2 DEF DeleteDevices, End
  <2>2. HalfRevoked(req[i], touched)
    BY <2>1, InFlightIsRequest, AtAwait DEF SessionsInv
  <2>3. /\ u \in Accounts /\ req[i].at \in Nat /\ req[i].at <= touched[u]
        /\ revoked[u] \in Nat /\ revoked[u] <= touched[u] /\ touched[u] \in Nat
    BY <2>2 DEF HalfRevoked, SessionsInv, SessionRows
  <2>4. m \in {revoked[u], req[i].at}
    <3>1. \A a, b \in Nat : \E x \in {a, b} : \A y \in {a, b} : x >= y
      OBVIOUS
    <3> QED  BY <2>3, <3>1 DEF Max
  <2>5. m \in Nat /\ m <= touched[u]
    BY <2>3, <2>4
  <2> HIDE DEF m
  <2>6. revoked' \in [Accounts -> Nat] /\ \A x \in Accounts : revoked'[x] <= touched[x]
    BY <2>1, <2>3, <2>5 DEF SessionsInv, SessionRows
  <2>7. \A d \in Devices : device'[d] # NoDevice =>
          device'[d] = device[d] /\ device[d] # NoDevice /\ device[d].user # u /\ device[d].user \in Accounts
    BY <2>1 DEF SessionsInv, SessionRows
  <2>8. \A d \in Devices : device'[d] # NoDevice => revoked'[device'[d].user] <= device'[d].born
    BY <2>1, <2>7 DEF SessionsInv, SessionRows
  <2>9. device' \in [Devices -> [user : Accounts, born : Nat, until : Nat] \cup {NoDevice}]
    BY <2>1 DEF SessionsInv, SessionRows
  <2>10. SessionRows'
    BY <2>1, <2>6, <2>8, <2>9 DEF SessionsInv, SessionRows, Proceed
  <2> QED  BY <2>1, <2>10, StillOnward, EndMove DEF SessionsInv
<1> QED  BY <1>1, <1>2

\* A passkey challenge leaves the cache for the one request that answers it.
LEMMA ChallengeMoves ==
    ASSUME SessionsInv, NEW i \in Slots, NEW u \in Accounts, NEW c \in DOMAIN challenge,
           ConfirmAuthentication(i, u, c)
    PROVE  SessionsInv'
<1> DEFINE r == [op |-> "passkey", rows |-> {u}, user |-> u, challenge |-> c, step |-> "passkey"]
<1>1. /\ challenge[c].cached /\ challenge' = [challenge EXCEPT ![c].cached = FALSE]
      /\ Begin(i, r) /\ UNCHANGED <<touched, token, device, revoked>>
  BY DEF ConfirmAuthentication
<1>2. now' = now
  BY <1>1 DEF Begin
<1>3. /\ challenge' \in Seq([until : Nat, cached : BOOLEAN]) /\ DOMAIN challenge' = DOMAIN challenge
      /\ ~challenge'[c].cached /\ \A x \in DOMAIN challenge : x # c => challenge'[x] = challenge[x]
  <2>1. challenge \in Seq([until : Nat, cached : BOOLEAN])
    BY DEF SessionsInv, SessionRows
  <2>2. challenge[c] \in [until : Nat, cached : BOOLEAN]
    <3>1. DOMAIN challenge = 1..Len(challenge)
      BY <2>1
    <3> QED  BY <2>1, <3>1, ElementOfSeq
  <2>3. [challenge[c] EXCEPT !.cached = FALSE] \in [until : Nat, cached : BOOLEAN]
    BY <2>2
  <2> QED  BY <1>1, <2>1, <2>2, <2>3
<1>4. SessionRows'
  BY <1>1, <1>2, <1>3 DEF SessionsInv, SessionRows
<1>5. Onward
  BY <1>1, <1>3 DEF SessionsInv, SessionRows, Onward
<1>6. Answering(r) /\ r.op = "passkey" /\ r.challenge = c
  BY DEF Answering
<1>7. SessionRequest(r, touched')
  BY <1>6 DEF SessionRequest
<1> HIDE DEF r
<1> QED  BY <1>1, <1>3, <1>4, <1>5, <1>6, <1>7, RequestMoves DEF SessionsInv

LEMMA AnswerMoves ==
    ASSUME SessionsInv, NEW i \in Slots, VerifyAssertion(i) \/ UpdateCounter(i)
    PROVE  SessionsInv'
<1> USE IdleOp
<1>1. CASE VerifyAssertion(i)
  <2> DEFINE r(n) == [op |-> "passkey", rows |-> req[i].rows, user |-> req[i].user,
                      challenge |-> req[i].challenge, step |-> "counter", count |-> n]
  <2>1. req[i] # Idle /\ req[i].step = "passkey" /\ UNCHANGED sessionVars
        /\ (Proceed(i, Idle) \/ \E n \in 1..MaxCount : Proceed(i, r(n)))
    BY <1>1 DEF VerifyAssertion, End, sessionAll
  <2>2. Answering(req[i])
    BY <2>1, InFlightIsRequest, AtAwait DEF SessionsInv
  <2>3. ASSUME NEW n, Proceed(i, r(n)) PROVE SessionsInv'
    <3>1. Answered(r(n), {"counter"})
      BY <2>2 DEF Answering, Answered
    <3>2. SessionRequest(r(n), touched)
      BY <3>1 DEF SessionRequest, Answered
    <3>3. req[i].op = "passkey" /\ r(n).challenge = req[i].challenge
      BY <2>2 DEF Answering
    <3> HIDE DEF r
    <3> QED  BY <2>1, <2>3, <3>2, <3>3, QuietMove
  <2> QED  BY <2>1, <2>3, QuietMove
<1>2. CASE UpdateCounter(i)
  <2> DEFINE r == [req[i] EXCEPT !.step = "grant"]
  <2>1. req[i] # Idle /\ req[i].step = "counter" /\ (Proceed(i, Idle) \/ Proceed(i, r))
        /\ UNCHANGED <<touched, token, device, challenge, revoked>>
    BY <1>2 DEF UpdateCounter, End
  <2>2. SessionRows'
    BY <2>1 DEF SessionsInv, SessionRows, Proceed
  <2>3. Onward
    BY <2>1, StillOnward DEF SessionsInv
  <2>4. Answered(req[i], {"counter"})
    BY <2>1, InFlightIsRequest, AtAwait DEF SessionsInv
  <2>5. Answered(r, {"grant"}) /\ r.challenge = req[i].challenge /\ req[i].op = "passkey"
    BY <2>4 DEF Answered
  <2>6. SessionRequest(r, touched')
    BY <2>5 DEF SessionRequest, Answered
  <2>7. req[i].challenge \in DOMAIN challenge /\ ~challenge[req[i].challenge].cached
    BY <2>5 DEF SessionsInv, SessionRequests, Spent
  <2> HIDE DEF r
  <2> QED  BY <2>1, <2>2, <2>3, <2>5, <2>6, <2>7, EndMove, RequestMoves DEF SessionsInv
<1> QED  BY <1>1, <1>2

\* The writes of a single statement, and the challenges issued.
LEMMA SingleWrites ==
    ASSUME SessionsInv,
           \/ \E u \in Accounts : \/ SyncUserPhone(u) \/ ConfirmRegistration(u) \/ RemovePasskey(u)
                                  \/ \E d \in Devices : RegisterDevice(u, d)
           \/ \E d \in Devices : RemoveDevice(d)
           \/ GetAuthenticationOptions
    PROVE  SessionsInv'
<1> USE DEF SessionsInv
<1>1. ASSUME NEW u \in Accounts, SyncUserPhone(u) PROVE SessionsInv'
  <2>1. touched' = [touched EXCEPT ![u] = now] /\ UNCHANGED <<req, now, token, device, challenge, revoked>>
    BY <1>1 DEF SyncUserPhone, Once
  <2>2. touched' \in [Accounts -> Nat]
        /\ \A x \in Accounts : touched[x] <= touched'[x] /\ touched'[x] <= now
    BY <2>1 DEF SessionRows
  <2>3. SessionRows' /\ Onward
    BY <2>1, <2>2 DEF SessionRows, Onward
  <2> QED  BY <2>1, <2>3, RequestsStay
<1>2. ASSUME UNCHANGED <<req, now, touched, token, device, challenge, revoked>> PROVE SessionsInv'
  <2>1. SessionRows'
    BY <1>2 DEF SessionRows
  <2> QED  BY <1>2, <2>1, StillOnward, RequestsStay
<1>3. ASSUME NEW u \in Accounts, NEW d \in Devices, RegisterDevice(u, d) PROVE SessionsInv'
  <2> DEFINE row == [user |-> u, born |-> now, until |-> now + DeviceLife]
  <2>1. device' = [device EXCEPT ![d] = row] /\ UNCHANGED <<req, now, touched, token, challenge, revoked>>
    BY <1>3 DEF RegisterDevice, Once
  <2>2. row \in [user : Accounts, born : Nat, until : Nat] /\ row.user = u /\ row.born = now
        /\ revoked[u] <= now
    BY LivesAreNat DEF SessionRows
  <2> HIDE DEF row
  <2>3. /\ device' \in [Devices -> [user : Accounts, born : Nat, until : Nat] \cup {NoDevice}]
        /\ \A x \in Devices : device'[x] # NoDevice => revoked[device'[x].user] <= device'[x].born
    BY <2>1, <2>2 DEF SessionRows
  <2>4. SessionRows'
    BY <2>1, <2>3 DEF SessionRows
  <2> QED  BY <2>1, <2>4, StillOnward, RequestsStay
<1>4. ASSUME NEW d \in Devices, RemoveDevice(d) PROVE SessionsInv'
  <2>1. device' = [device EXCEPT ![d] = NoDevice] /\ UNCHANGED <<req, now, touched, token, challenge, revoked>>
    BY <1>4 DEF RemoveDevice, Once
  <2>2. SessionRows'
    BY <2>1 DEF SessionRows
  <2> QED  BY <2>1, <2>2, StillOnward, RequestsStay
<1>5. ASSUME GetAuthenticationOptions PROVE SessionsInv'
  <2> DEFINE fresh == [until |-> now + ChallengeLife, cached |-> TRUE]
  <2>1. challenge' = Append(challenge, fresh) /\ UNCHANGED <<req, now, touched, token, device, revoked>>
    BY <1>5 DEF GetAuthenticationOptions, requestVars
  <2>2. fresh \in [until : Nat, cached : BOOLEAN]
    BY LivesAreNat DEF SessionRows
  <2> HIDE DEF fresh
  <2>3. challenge' \in Seq([until : Nat, cached : BOOLEAN])
        /\ \A c \in DOMAIN challenge : c \in DOMAIN challenge' /\ challenge'[c] = challenge[c]
    BY <2>1, <2>2 DEF SessionRows
  <2>4. SessionRows' /\ Onward
    BY <2>1, <2>3 DEF SessionRows, Onward
  <2> QED  BY <2>1, <2>4, RequestsStay
<1>6. ASSUME NEW u \in Accounts, ConfirmRegistration(u) \/ RemovePasskey(u) PROVE SessionsInv'
  BY <1>2, <1>6 DEF ConfirmRegistration, RemovePasskey, Once
<1> QED  BY <1>1, <1>3, <1>4, <1>5, <1>6

LEMMA SessionsStutter ==
    ASSUME SessionsInv, UNCHANGED <<req, sessionVars>>, now' = now \/ now' = now + 1
    PROVE  SessionsInv'
<1>1. SessionRows'
  BY DEF SessionsInv, SessionRows, sessionVars
<1> QED  BY <1>1, StillOnward, RequestsStay DEF SessionsInv, sessionVars

LEMMA SessionsStepKeeps ==
    ASSUME SessionsInv, SessionsNext
    PROVE  SessionsInv'
<1>1. ASSUME NEW i \in Slots, SessionsStep(i) PROVE SessionsInv'
  BY <1>1, Beginnings, CodeMoves, DeviceMoves, RevocationMoves, ChallengeMoves, AnswerMoves
     DEF SessionsStep
<1>2. CASE Tick /\ UNCHANGED sessionAll
  BY <1>2, SessionsStutter DEF Tick, sessionAll
<1>3. ASSUME NEW i \in Slots, Abort(i), UNCHANGED sessionAll PROVE SessionsInv'
  BY <1>3, QuietMove, IdleOp DEF Abort, End, sessionAll
<1> QED  BY <1>1, <1>2, <1>3, SingleWrites DEF SessionsNext

LEMMA SessionsInitially == Init => SessionsKept
<1> SUFFICES ASSUME Init PROVE SessionsKept
  OBVIOUS
<1>1. /\ req = [i \in Slots |-> Idle] /\ now = 1 /\ touched = [u \in Accounts |-> 1] /\ token = {}
      /\ device = [d \in Devices |-> NoDevice] /\ challenge = <<>>
      /\ revoked = [u \in Accounts |-> Never]
  BY DEF Init, SessionsInit, RequestsInit
<1>2. SessionRequests
  BY <1>1, IdleOp DEF SessionRequests, Spent
<1>3. SessionRows
  BY <1>1 DEF SessionRows, Never
<1> QED  BY <1>1, <1>2, <1>3 DEF SessionsKept, SessionsInv

\* At the other desks nobody signs in.
LEMMA SessionsStayKept == SessionsKept /\ [Next]_accessVars => SessionsKept'
<1> SUFFICES ASSUME SessionsKept, [Next]_accessVars PROVE SessionsKept'
  OBVIOUS
<1>1. CASE Next
  <2>1. desk' = desk /\ (desk = "sessions" => SessionsNext)
        /\ (desk # "sessions" => UNCHANGED sessionVars)
    BY <1>1 DEF Next, AtTheGate, AmongMembers, OfInvitations, OfSessions, UnderLimits, AtThePanel, OfOwners
  <2> QED  BY <2>1, SessionsStepKeeps DEF SessionsKept, sessionVars
<1>2. CASE UNCHANGED accessVars
  <2>1. UNCHANGED <<desk, req, now, sessionVars>>
    BY <1>2 DEF accessVars, requestVars
  <2> QED  BY <2>1, SessionsStutter DEF SessionsKept, sessionVars
<1> QED  BY <1>1, <1>2

\* Once a revocation has completed, the guard accepts no token older than a second before
\* it, and no device remembered before it is left, whatever was in flight at the time:
\* the row it touched is never touched earlier again.
THEOREM RevocationsHold == Spec => []RevocationHolds
<1>1. ASSUME SessionsKept PROVE RevocationHolds
  <2>1. CASE desk = "sessions"
    <3>1. ASSUME NEW u \in Accounts, NEW t \in token, t.user = u, GuardAccepts(t)
          PROVE  t.iat + 1 >= revoked[u]
      BY <1>1, <2>1, <3>1 DEF SessionsKept, SessionsInv, SessionRows, GuardAccepts, AssertTokenNotRevoked
    <3>2. ASSUME NEW u \in Accounts, NEW d \in Devices, device[d] # NoDevice, device[d].user = u
          PROVE  device[d].born >= revoked[u]
      BY <1>1, <2>1, <3>2 DEF SessionsKept, SessionsInv, SessionRows
    <3> QED  BY <3>1, <3>2 DEF RevocationHolds
  <2>2. CASE desk # "sessions"
    BY <1>1, <2>2 DEF SessionsKept, RevocationHolds
  <2> QED  BY <2>1, <2>2
<1> QED  BY <1>1, SessionsInitially, SessionsStayKept, PTL DEF Spec

\* A passkey challenge serves one attempt, however many requests answer it at once and
\* whatever happens to the one that got it.
THEOREM ChallengesSpentOnce == Spec => []ChallengeSpentOnce
<1>1. ASSUME SessionsKept PROVE ChallengeSpentOnce
  <2> SUFFICES ASSUME NEW c \in DOMAIN challenge
               PROVE  Cardinality({i \in Slots : req[i].op = "passkey" /\ req[i].challenge = c})
                         + (IF challenge[c].cached THEN 1 ELSE 0) <= 1
    BY DEF ChallengeSpentOnce
  <2> DEFINE holders == {i \in Slots : req[i].op = "passkey" /\ req[i].challenge = c}
  <2>1. SessionRequests
    <3>1. desk # "sessions" => challenge = <<>>
      BY <1>1 DEF SessionsKept
    <3> QED  BY <1>1, <3>1 DEF SessionsKept, SessionsInv
  <2>2. CASE holders = {}
    <3>1. Cardinality(holders) = 0
      BY <2>2, FS_EmptySet
    <3> QED  BY <3>1
  <2>3. CASE holders # {}
    <3>1. PICK i \in Slots : req[i].op = "passkey" /\ req[i].challenge = c
      BY <2>3
    <3>2. holders = {i}
      BY <2>1, <3>1 DEF SessionRequests
    <3>3. ~challenge[c].cached
      BY <2>1, <3>1 DEF SessionRequests, Spent
    <3>4. Cardinality(holders) = 1
      BY <3>2, FS_Singleton
    <3> QED  BY <3>3, <3>4
  <2> QED  BY <2>2, <2>3
<1> QED  BY <1>1, SessionsInitially, SessionsStayKept, PTL DEF Spec

(***************************************************************************)
(* Owner codes.  They lie in the order of time, so that the latest of      *)
(* those not used tells how long ago any of them was sent.                 *)
(***************************************************************************)

OwnerCode == [at : Nat, consumed : BOOLEAN]

\* A set of codes has a latest; carried along, since it is true of finite sets only.
LatestExists == \A S \in SUBSET DOMAIN ownerCode : S # {} => \E m \in S : \A c \in S : m >= c

OwnersInv ==
    /\ now \in Nat
    /\ ownerCode \in Seq(OwnerCode)
    /\ \A c \in DOMAIN ownerCode : ownerCode[c].at <= now
    /\ \A c, d \in DOMAIN ownerCode : c < d => ownerCode[c].at <= ownerCode[d].at
    /\ LatestExists
    /\ OwnerCodesApart

OwnersKept ==
    /\ desk = "owners" => OwnersInv
    /\ desk # "owners" => ownerCode = <<>>

-----------------------------------------------------------------------------

\* One code more than n leaves every set of codes a latest.
LEMMA LatestOfOneMore ==
    ASSUME NEW n \in Nat,
           \A S \in SUBSET (1..n) : S # {} => \E m \in S : \A c \in S : m >= c,
           NEW S \in SUBSET (1..(n + 1)), S # {}
    PROVE  \E m \in S : \A c \in S : m >= c
<1>1. CASE n + 1 \in S
  <2>1. \A c \in S : n + 1 >= c
    OBVIOUS
  <2> QED  BY <1>1, <2>1
<1>2. CASE n + 1 \notin S
  <2>1. S \in SUBSET (1..n)
    BY <1>2
  <2> QED  BY <2>1
<1> QED  BY <1>1, <1>2

\* If the latest code not used lies OwnerGap back, they all do.
LEMMA GapOfAll ==
    ASSUME OwnersInv, Unconsumed # {}, ~(now - ownerCode[Max(Unconsumed)].at < OwnerGap),
           NEW c \in Unconsumed
    PROVE  now - ownerCode[c].at >= OwnerGap
<1>1. Unconsumed \in SUBSET DOMAIN ownerCode
  BY DEF Unconsumed
<1>2. \E m \in Unconsumed : \A d \in Unconsumed : m >= d
  BY <1>1 DEF OwnersInv, LatestExists
<1> DEFINE m == Max(Unconsumed)
<1>3. m \in Unconsumed /\ \A d \in Unconsumed : m >= d
  BY <1>2 DEF Max
<1> HIDE DEF m
<1>4. m \in Nat /\ c \in Nat /\ m >= c /\ m \in DOMAIN ownerCode /\ c \in DOMAIN ownerCode
  BY <1>1, <1>3 DEF OwnersInv
<1>5. /\ ownerCode[c].at \in Nat /\ ownerCode[m].at \in Nat
      /\ ownerCode[c].at <= ownerCode[m].at
  <2>1. ownerCode[c] \in OwnerCode /\ ownerCode[m] \in OwnerCode
    BY <1>4 DEF OwnersInv
  <2>2. ownerCode[c].at \in Nat /\ ownerCode[m].at \in Nat
    BY <2>1 DEF OwnerCode
  <2>3. c = m \/ c < m
    BY <1>4
  <2> QED  BY <1>4, <2>2, <2>3 DEF OwnersInv
<1>6. ~(now - ownerCode[m].at < OwnerGap)
  BY DEF m
<1> QED  BY <1>5, <1>6, OwnerGapNat DEF OwnersInv

LEMMA IssueKeeps ==
    ASSUME OwnersInv, NEW i \in Slots, IssueOwnerCode(i)
    PROVE  OwnersInv'
<1> DEFINE n == Len(ownerCode)
           row == [at |-> now, consumed |-> FALSE]
<1>1. CASE ownerCode' = ownerCode
  BY <1>1 DEF IssueOwnerCode, End, Proceed, OwnersInv, LatestExists, OwnerCodesApart
<1>2. CASE ownerCode' = Append(ownerCode, row)
           /\ ~(Unconsumed # {} /\ now - ownerCode[Max(Unconsumed)].at < OwnerGap)
  <2>1. /\ now' = now /\ n \in Nat /\ DOMAIN ownerCode = 1..n /\ DOMAIN ownerCode' = 1..(n + 1)
        /\ ownerCode'[n + 1] = row /\ \A c \in 1..n : ownerCode'[c] = ownerCode[c]
        /\ ownerCode' \in Seq(OwnerCode)
    <3>1. row \in OwnerCode
      BY DEF OwnersInv, OwnerCode
    <3>2. ownerCode \in Seq(OwnerCode) /\ ownerCode' = Append(ownerCode, row) /\ now' = now
      BY <1>2 DEF IssueOwnerCode, End, Proceed, OwnersInv
    <3> HIDE DEF row
    <3> QED  BY <3>1, <3>2
  <2>2. row.at = now /\ now \in Nat
    BY DEF OwnersInv
  <2>3. \A c \in 1..(n + 1) : c = n + 1 \/ c \in 1..n
    BY <2>1
  <2>4. \A c \in DOMAIN ownerCode' : ownerCode'[c].at <= now'
    BY <2>1, <2>2, <2>3 DEF OwnersInv
  <2>5. \A c, d \in DOMAIN ownerCode' : c < d => ownerCode'[c].at <= ownerCode'[d].at
    BY <2>1, <2>2, <2>3 DEF OwnersInv
  <2>6. LatestExists'
    BY <2>1, LatestOfOneMore DEF OwnersInv, LatestExists
  <2>7. OwnerCodesApart'
    <3> SUFFICES ASSUME NEW c \in 1..(n + 1), NEW d \in 1..(n + 1), c < d
                 PROVE  \/ ownerCode'[d].at - ownerCode'[c].at >= OwnerGap
                        \/ ownerCode'[c].consumed
      BY <2>1 DEF OwnerCodesApart
    <3>1. c \in 1..n
      BY <2>1
    <3>2. CASE d = n + 1
      <4>1. ownerCode[c].consumed \/ c \in Unconsumed
        BY <2>1, <3>1 DEF Unconsumed
      <4> QED  BY <1>2, <2>1, <2>2, <3>1, <3>2, <4>1, GapOfAll
    <3>3. CASE d \in 1..n
      BY <2>1, <3>1, <3>3 DEF OwnersInv, OwnerCodesApart
    <3> QED  BY <2>3, <3>2, <3>3
  <2> HIDE DEF row
  <2> QED  BY <2>1, <2>2, <2>4, <2>5, <2>6, <2>7 DEF OwnersInv
<1> QED  BY <1>1, <1>2 DEF IssueOwnerCode

\* Using a code up leaves its date.
LEMMA ConsumeKeeps ==
    ASSUME OwnersInv, NEW i \in Slots, ConsumeOwnerCode(i)
    PROVE  OwnersInv'
<1> DEFINE k == req[i].code
<1>1. ownerCode' = [ownerCode EXCEPT ![k].consumed = TRUE] /\ now' = now
  BY DEF ConsumeOwnerCode, End, Proceed
<1> HIDE DEF k
<1>2. /\ ownerCode' \in Seq(OwnerCode) /\ DOMAIN ownerCode' = DOMAIN ownerCode
      /\ \A c \in DOMAIN ownerCode : /\ ownerCode'[c].at = ownerCode[c].at
                                     /\ ownerCode[c].consumed => ownerCode'[c].consumed
  <2> DEFINE row == [ownerCode[k] EXCEPT !.consumed = TRUE]
  <2>1. ownerCode' = [ownerCode EXCEPT ![k] = row] /\ ownerCode \in Seq(OwnerCode)
    BY <1>1 DEF OwnersInv
  <2>2. \A c \in DOMAIN ownerCode : ownerCode[c] \in OwnerCode
    BY <2>1
  <2>3. k \in DOMAIN ownerCode => /\ row \in OwnerCode /\ row.at = ownerCode[k].at
                                 /\ row.consumed = TRUE
    BY <2>2 DEF OwnerCode
  <2> HIDE DEF row
  <2>4. ownerCode' \in Seq(OwnerCode) /\ DOMAIN ownerCode' = DOMAIN ownerCode
    <3>1. CASE k \in DOMAIN ownerCode
      BY <2>1, <2>3, <3>1
    <3>2. CASE k \notin DOMAIN ownerCode
      <4>1. ownerCode' = ownerCode
        BY <2>1, <3>2
      <4> QED  BY <2>1, <4>1
    <3> QED  BY <3>1, <3>2
  <2>5. \A c \in DOMAIN ownerCode : ownerCode'[c] = IF c = k THEN row ELSE ownerCode[c]
    BY <2>1
  <2> QED  BY <2>3, <2>4, <2>5
<1>3. OwnerCodesApart'
  BY <1>2 DEF OwnersInv, OwnerCodesApart
<1> QED  BY <1>1, <1>2, <1>3 DEF OwnersInv, LatestExists

LEMMA OwnersStutter ==
    ASSUME OwnersInv, UNCHANGED ownerCode, now' = now \/ now' = now + 1
    PROVE  OwnersInv'
<1>1. \A c \in DOMAIN ownerCode : ownerCode[c].at \in Nat
  <2>1. \A c \in DOMAIN ownerCode : ownerCode[c] \in OwnerCode
    BY DEF OwnersInv
  <2> QED  BY <2>1 DEF OwnerCode
<1> QED  BY <1>1 DEF OwnersInv, LatestExists, OwnerCodesApart

LEMMA OwnersStepKeeps ==
    ASSUME OwnersInv, OwnersNext
    PROVE  OwnersInv'
<1>1. ASSUME NEW i \in Slots, SendOwnerEmailOtp(i) \/ VerifyOwnerEmailOtp(i) PROVE OwnersInv'
  BY <1>1, OwnersStutter DEF SendOwnerEmailOtp, VerifyOwnerEmailOtp, Begin, ownerVars
<1>2. ASSUME NEW i \in Slots, Abort(i), UNCHANGED ownerVars PROVE OwnersInv'
  BY <1>2, OwnersStutter DEF Abort, End, Proceed, ownerVars
<1>3. CASE Tick /\ UNCHANGED ownerVars
  BY <1>3, OwnersStutter DEF Tick, ownerVars
<1> QED  BY <1>1, <1>2, <1>3, IssueKeeps, ConsumeKeeps DEF OwnersNext

LEMMA OwnersInitially == Init => OwnersKept
<1> SUFFICES ASSUME Init PROVE OwnersKept
  OBVIOUS
<1>1. ownerCode = <<>> /\ now = 1
  BY DEF Init, OwnersInit, RequestsInit
<1>2. ownerCode \in Seq(OwnerCode) /\ DOMAIN ownerCode = {}
  BY <1>1
<1> QED  BY <1>1, <1>2 DEF OwnersKept, OwnersInv, LatestExists, OwnerCodesApart

\* At the other desks no owner is verified.
LEMMA OwnersStayKept == OwnersKept /\ [Next]_accessVars => OwnersKept'
<1> SUFFICES ASSUME OwnersKept, [Next]_accessVars PROVE OwnersKept'
  OBVIOUS
<1>1. CASE Next
  <2>1. desk' = desk /\ (desk = "owners" => OwnersNext) /\ (desk # "owners" => UNCHANGED ownerCode)
    BY <1>1 DEF Next, AtTheGate, AmongMembers, OfInvitations, OfSessions, UnderLimits, AtThePanel, OfOwners, ownerVars
  <2> QED  BY <2>1, OwnersStepKeeps DEF OwnersKept
<1>2. CASE UNCHANGED accessVars
  <2>1. UNCHANGED <<desk, now, ownerCode>>
    BY <1>2 DEF accessVars, requestVars, ownerVars
  <2> QED  BY <2>1, OwnersStutter DEF OwnersKept
<1> QED  BY <1>1, <1>2

\* However many requests for a code are in flight, no two codes go out within OwnerGap of
\* each other, unless the first was used.
THEOREM OwnerCodesStayApart == Spec => []OwnerCodesApart
<1>1. OwnersKept => OwnerCodesApart
  BY DEF OwnersKept, OwnersInv, OwnerCodesApart
<1> QED  BY <1>1, OwnersInitially, OwnersStayKept, PTL DEF Spec

=============================================================================
