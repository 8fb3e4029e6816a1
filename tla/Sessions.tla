------------------------------ MODULE Sessions ------------------------------
(***************************************************************************)
(* Signing in (auth.service.ts, trusted-device.service.ts,                 *)
(* passkey.service.ts): by a mailed code, by a remembered device or by a   *)
(* passkey; the bearer tokens this yields; and the revocation of them all, *)
(* which works by touching the user row: the guard refuses a token minted  *)
(* more than a second before the row was last updated.  The clock counts   *)
(* seconds; the other durations are scaled down.                           *)
(***************************************************************************)
EXTENDS OneTimeCodes

CONSTANTS Accounts, Devices, TokenLife, DeviceLife, ChallengeLife, MaxChallenges, MaxCount

ASSUME LivesAreNat == TokenLife \in Nat /\ DeviceLife \in Nat /\ ChallengeLife \in Nat
ASSUME MaxCountNat == MaxCount \in Nat

VARIABLES
    touched,     \* per account: the second of user.updatedAt
    token,       \* the bearer tokens minted: they are signed, not stored
    device,      \* the trustedDevice rows
    passkey,     \* per account: the counter of its passkey, or NoPasskey
    challenge,   \* the passkey challenges issued: until when, and whether in the cache
    revoked      \* per account: the second of the last revocation that completed

sessionVars == <<touched, token, device, passkey, challenge, revoked>>
sessionAll == <<code, sessionVars>>

NoDevice == [user |-> "none"]
NoPasskey == MaxCount + 1

SessionsInit ==
    /\ touched = [u \in Accounts |-> 1]
    /\ token = {}
    /\ device = [d \in Devices |-> NoDevice]
    /\ passkey = [u \in Accounts |-> NoPasskey]
    /\ challenge = <<>>
    /\ revoked = [u \in Accounts |-> Never]

VerifyToken(t) == t.iat + TokenLife >= now

\* Mutant: a tolerance of two seconds.
AssertTokenNotRevokedMutant(t) == touched[t.user] <= t.iat + 2

AssertTokenNotRevoked(t) == touched[t.user] <= t.iat + 1

GuardAccepts(t) == VerifyToken(t) /\ AssertTokenNotRevoked(t)

BearerOf(u) == \E t \in token : t.user = u /\ VerifyToken(t)

\* Every update of a user row touches it: the phone copied from a resident's record,
\* a name given when staff is added, an address verified.
SyncUserPhone(u) ==
    /\ touched' = [touched EXCEPT ![u] = now]
    /\ Once(u)
    /\ UNCHANGED <<code, token, device, passkey, challenge, revoked>>

\* The last await of every way in: the memberships are read, the token is signed.
CreateSession(i) ==
    LET r == req[i] IN
    /\ r # Idle /\ r.step = "grant"
    /\ token' = token \cup {[user |-> r.user, iat |-> now]}
    /\ End(i)
    /\ UNCHANGED <<code, touched, device, passkey, challenge, revoked>>

SendLoginOtp(i, u) == SendCode(i, u) /\ UNCHANGED sessionVars

VerifyLoginOtp(i, u) ==
    /\ Begin(i, [op |-> "login", rows |-> {u}, user |-> u, step |-> "code", code |-> 0])
    /\ UNCHANGED sessionAll

RegisterDevice(u, d) ==
    /\ BearerOf(u)
    /\ device[d] = NoDevice
    /\ device' = [device EXCEPT ![d] = [user |-> u, born |-> now, until |-> now + DeviceLife]]
    /\ Once(u)
    /\ UNCHANGED <<code, touched, token, passkey, challenge, revoked>>

VerifyDevice(i, d) ==
    /\ device[d] # NoDevice
    /\ Begin(i, [op |-> "device", rows |-> {device[d].user}, user |-> device[d].user, device |-> d,
                 step |-> IF now > device[d].until THEN "forget" ELSE "refresh"])
    /\ UNCHANGED sessionAll

\* The refresh is by id: it fails when the row is gone, and with it the sign-in.
RefreshDevice(i) ==
    LET r == req[i] IN
    /\ r # Idle /\ r.step = "refresh"
    /\ IF device[r.device] = NoDevice
       THEN End(i) /\ UNCHANGED device
       ELSE /\ device' = [device EXCEPT ![r.device].until = now + DeviceLife]
            /\ Proceed(i, [r EXCEPT !.step = "grant"])
    /\ UNCHANGED <<code, touched, token, passkey, challenge, revoked>>

ForgetDevice(i) ==
    /\ req[i] # Idle /\ req[i].step = "forget"
    /\ device' = [device EXCEPT ![req[i].device] = NoDevice]
    /\ End(i)
    /\ UNCHANGED <<code, touched, token, passkey, challenge, revoked>>

RemoveDevice(d) ==
    /\ device[d] # NoDevice /\ BearerOf(device[d].user)
    /\ device' = [device EXCEPT ![d] = NoDevice]
    /\ Once(device[d].user)
    /\ UNCHANGED <<code, touched, token, passkey, challenge, revoked>>

RevokeAllSessions(i, u) ==
    /\ \E t \in token : t.user = u /\ GuardAccepts(t)
    /\ Begin(i, [op |-> "revoke", rows |-> {u}, user |-> u, step |-> "touch"])
    /\ UNCHANGED sessionAll

TouchUser(i) ==
    LET r == req[i] IN
    /\ r # Idle /\ r.step = "touch"
    /\ touched' = [touched EXCEPT ![r.user] = now]
    /\ Proceed(i, [op |-> "revoke", rows |-> r.rows, user |-> r.user, step |-> "devices", at |-> now])
    /\ UNCHANGED <<code, token, device, passkey, challenge, revoked>>

DeleteDevices(i) ==
    LET r == req[i] IN
    /\ r # Idle /\ r.step = "devices"
    /\ device' = [d \in Devices |-> IF device[d] # NoDevice /\ device[d].user = r.user
                                    THEN NoDevice ELSE device[d]]
    /\ revoked' = [revoked EXCEPT ![r.user] = Max({@, r.at})]
    /\ End(i)
    /\ UNCHANGED <<code, touched, token, passkey, challenge>>

\* Registering a passkey ends with its row; a passkey already there is refused.
ConfirmRegistration(u) ==
    /\ BearerOf(u)
    /\ passkey[u] = NoPasskey
    /\ passkey' = [passkey EXCEPT ![u] = 0]
    /\ Once(u)
    /\ UNCHANGED <<code, touched, token, device, challenge, revoked>>

GetAuthenticationOptions ==
    /\ Len(challenge) < MaxChallenges
    /\ challenge' = Append(challenge, [until |-> now + ChallengeLife, cached |-> TRUE])
    /\ UNCHANGED <<requestVars, code, touched, token, device, passkey, revoked>>

\* Mutant: the challenge is dropped after the verification, not before it.
ConfirmAuthenticationMutant(i, u, c) ==
    /\ challenge[c].cached /\ challenge[c].until >= now
    /\ Begin(i, [op |-> "passkey", rows |-> {u}, user |-> u, challenge |-> c, step |-> "passkey"])
    /\ UNCHANGED sessionAll

\* The challenge is looked up and dropped in one go, before the first await.
ConfirmAuthentication(i, u, c) ==
    /\ challenge[c].cached /\ challenge[c].until >= now
    /\ challenge' = [challenge EXCEPT ![c].cached = FALSE]
    /\ Begin(i, [op |-> "passkey", rows |-> {u}, user |-> u, challenge |-> c, step |-> "passkey"])
    /\ UNCHANGED <<code, touched, token, device, passkey, revoked>>

\* The assertion is verified against the counter that was read.
VerifyAssertion(i) ==
    LET r == req[i] IN
    /\ r # Idle /\ r.step = "passkey"
    /\ IF passkey[r.user] = NoPasskey THEN End(i)
       ELSE \E n \in 1..MaxCount :
               IF n > passkey[r.user]
               THEN Proceed(i, [op |-> "passkey", rows |-> r.rows, user |-> r.user,
                                challenge |-> r.challenge, step |-> "counter", count |-> n])
               ELSE End(i)
    /\ UNCHANGED sessionAll

UpdateCounter(i) ==
    LET r == req[i] IN
    /\ r # Idle /\ r.step = "counter"
    /\ IF passkey[r.user] = NoPasskey
       THEN End(i) /\ UNCHANGED passkey
       ELSE /\ passkey' = [passkey EXCEPT ![r.user] = r.count]
            /\ Proceed(i, [r EXCEPT !.step = "grant"])
    /\ UNCHANGED <<code, touched, token, device, challenge, revoked>>

RemovePasskey(u) ==
    /\ BearerOf(u)
    /\ passkey[u] # NoPasskey
    /\ passkey' = [passkey EXCEPT ![u] = NoPasskey]
    /\ Once(u)
    /\ UNCHANGED <<code, touched, token, device, challenge, revoked>>

SessionsStep(i) ==
    \/ \E u \in Accounts :
          \/ SendLoginOtp(i, u)
          \/ VerifyLoginOtp(i, u)
          \/ RevokeAllSessions(i, u)
          \/ \E c \in DOMAIN challenge : ConfirmAuthentication(i, u, c)
    \/ \E d \in Devices : VerifyDevice(i, d)
    \/ CodeStep(i) /\ UNCHANGED sessionVars
    \/ CreateSession(i)
    \/ RefreshDevice(i)
    \/ ForgetDevice(i)
    \/ TouchUser(i)
    \/ DeleteDevices(i)
    \/ VerifyAssertion(i)
    \/ UpdateCounter(i)

SessionsNext ==
    \/ \E i \in Slots : SessionsStep(i)
    \/ \E u \in Accounts :
          \/ SyncUserPhone(u)
          \/ ConfirmRegistration(u)
          \/ RemovePasskey(u)
          \/ \E d \in Devices : RegisterDevice(u, d)
    \/ \E d \in Devices : RemoveDevice(d)
    \/ GetAuthenticationOptions
    \/ (Tick \/ \E i \in Slots : Abort(i)) /\ UNCHANGED sessionAll

-----------------------------------------------------------------------------

SessionsTypeOK ==
    /\ touched \in [Accounts -> 1..MaxTime]
    /\ token \subseteq [user : Accounts, iat : 1..MaxTime]
    /\ \A d \in Devices : device[d] = NoDevice
          \/ device[d] \in [user : Accounts, born : 1..MaxTime, until : 1..(MaxTime + DeviceLife)]
    /\ passkey \in [Accounts -> 0..NoPasskey]
    /\ challenge \in Seq([until : 1..(MaxTime + ChallengeLife), cached : BOOLEAN])
    /\ revoked \in [Accounts -> Never..MaxTime]

\* A revocation that has completed leaves no token the guard accepts that is older
\* than a second before it, and no device remembered before it: not even one in the
\* middle of signing in, which keeps at most a session minted after the revocation.
RevocationHolds ==
    \A u \in Accounts : revoked[u] # Never =>
        /\ \A t \in token : t.user = u /\ GuardAccepts(t) => t.iat + 1 >= revoked[u]
        /\ \A d \in Devices : device[d] # NoDevice /\ device[d].user = u
              => device[d].born >= revoked[u]

\* A passkey challenge serves one attempt: it is in the cache, or in one request, or
\* spent, however many requests answer it at once.
ChallengeSpentOnce ==
    \A c \in DOMAIN challenge :
        LET holders == {i \in Slots : req[i].op = "passkey" /\ req[i].challenge = c}
        IN Cardinality(holders) + (IF challenge[c].cached THEN 1 ELSE 0) <= 1

=============================================================================
