------------------------------- MODULE Invites -------------------------------
(***************************************************************************)
(* Invitations to a workspace (onboarding.service.ts): sending one expires *)
(* the open ones of the same address and role; accepting one takes a code  *)
(* sent to its address, and the membership and acceptedAt are written in   *)
(* one transaction.  The invitation itself is checked once, when the       *)
(* request arrives.                                                        *)
(***************************************************************************)
EXTENDS Members, OneTimeCodes

CONSTANTS Invitees, InviteRoles, InviteLife, MaxInvites

ASSUME InviteesAreUsers == Invitees \subseteq Users
ASSUME InviteRolesOK == InviteRoles \subseteq Roles \ {"OWNER_ADMIN"}
ASSUME InviteLifeNat == InviteLife \in Nat
ASSUME MaxInvitesNat == MaxInvites \in Nat

VARIABLES invite      \* the rows in the order of their creation

inviteVars == <<invite, code, memberVars>>

InviteRow == [user : Invitees, role : Roles \ {"OWNER_ADMIN"}, at : 1..MaxTime,
              until : 1..(MaxTime + InviteLife), accepted : Never..MaxTime]

InvitesInit == invite = <<>>

Open(k) == invite[k].accepted = Never /\ invite[k].until > now

AssertInviteManager == \E u \in Users : member[u].active /\ member[u].role \in {"OWNER_ADMIN", "STAFF"}

SendInvite(i, u, role) ==
    /\ AssertInviteManager
    /\ Begin(i, [op |-> "invite", rows |-> {u}, user |-> u, role |-> role, step |-> "expire"])
    /\ UNCHANGED inviteVars

CreateTenantInvite(i, u) == \E role \in InviteRoles : SendInvite(i, u, role)

ResendTenantInvite(i, k) ==
    /\ invite[k].accepted = Never
    /\ SendInvite(i, invite[k].user, invite[k].role)

\* Mutant: the open invitations are left as they are.
ExpireOpenInvitesMutant(i) ==
    /\ req[i] # Idle /\ req[i].step = "expire"
    /\ Proceed(i, [req[i] EXCEPT !.step = "create"])
    /\ UNCHANGED inviteVars

ExpireOpenInvites(i) ==
    LET r == req[i]
        old == {k \in DOMAIN invite : Open(k) /\ invite[k].user = r.user /\ invite[k].role = r.role}
    IN /\ r # Idle /\ r.step = "expire"
       /\ invite' = [k \in DOMAIN invite |->
                        IF k \in old THEN [invite[k] EXCEPT !.until = now] ELSE invite[k]]
       /\ Proceed(i, [r EXCEPT !.step = "create"])
       /\ UNCHANGED <<code, memberVars>>

InsertInvite(i) ==
    LET r == req[i] IN
    /\ r # Idle /\ r.step = "create"
    /\ Len(invite) < MaxInvites
    /\ invite' = Append(invite, [user |-> r.user, role |-> r.role, at |-> now,
                                 until |-> now + InviteLife, accepted |-> Never])
    /\ End(i)
    /\ UNCHANGED <<code, memberVars>>

RevokeTenantInvite(i, k) ==
    /\ AssertInviteManager
    /\ invite[k].accepted = Never
    /\ Begin(i, [op |-> "revoke", rows |-> {invite[k].user}, user |-> invite[k].user,
                 invite |-> k, step |-> "revoke"])
    /\ UNCHANGED inviteVars

WriteRevocation(i) ==
    /\ req[i] # Idle /\ req[i].step = "revoke"
    /\ invite' = [invite EXCEPT ![req[i].invite].until = now]
    /\ End(i)
    /\ UNCHANGED <<code, memberVars>>

BeginAcceptTenantInvite(i, k) ==
    /\ Open(k)
    /\ SendCode(i, invite[k].user)
    /\ UNCHANGED <<invite, memberVars>>

\* Mutant: an invitation that was revoked or replaced is accepted like an open one.
AcceptTenantInviteMutant(i, k) ==
    /\ invite[k].accepted = Never
    /\ Begin(i, [op |-> "accept", rows |-> {invite[k].user}, user |-> invite[k].user,
                 invite |-> k, step |-> "code", code |-> 0])
    /\ UNCHANGED inviteVars

AcceptTenantInvite(i, k) ==
    /\ Open(k)
    /\ Begin(i, [op |-> "accept", rows |-> {invite[k].user}, user |-> invite[k].user,
                 invite |-> k, step |-> "code", code |-> 0])
    /\ UNCHANGED inviteVars

\* The transaction: the membership takes the role of the invitation, which is
\* accepted.  No seat is counted for a manager.
GrantMembership(i) ==
    LET r == req[i]
        row == Upserted(r.user, [role |-> invite[r.invite].role, active |-> TRUE])
    IN /\ r # Idle /\ r.op = "accept" /\ r.step = "grant"
       /\ row.id <= MaxRows
       /\ member' = [member EXCEPT ![r.user] = row]
       /\ unchecked' = Unchecked(r.user, row, FALSE)
       /\ invite' = [invite EXCEPT ![r.invite].accepted = now]
       /\ End(i)
       /\ UNCHANGED code

InvitesStep(i) ==
    \/ \E u \in Invitees : CreateTenantInvite(i, u)
    \/ \E k \in DOMAIN invite :
          \/ ResendTenantInvite(i, k)
          \/ RevokeTenantInvite(i, k)
          \/ BeginAcceptTenantInvite(i, k)
          \/ AcceptTenantInvite(i, k)
    \/ ExpireOpenInvites(i)
    \/ InsertInvite(i)
    \/ WriteRevocation(i)
    \/ CodeStep(i) /\ UNCHANGED <<invite, memberVars>>
    \/ GrantMembership(i)
    \/ /\ (\E u \in Invitees : RemoveWorkspaceMember(i, u)) \/ DeleteMember(i)
       /\ UNCHANGED <<invite, code>>

InvitesNext ==
    \/ \E i \in Slots : InvitesStep(i)
    \/ (Tick \/ \E i \in Slots : Abort(i)) /\ UNCHANGED inviteVars

-----------------------------------------------------------------------------

InvitesTypeOK ==
    /\ invite \in Seq(InviteRow) /\ Len(invite) <= MaxInvites
    /\ code \in Seq(CodeRow(Invitees)) /\ Len(code) <= MaxCodes

\* At most one invitation of an address and a role is open, unless two were sent at
\* the same time: expiring the open ones and creating the new one are two calls.
OneOpenInvite ==
    \A j, k \in DOMAIN invite :
        /\ j # k /\ Open(j) /\ Open(k) /\ invite[j].role = invite[k].role
        /\ invite[j].user = invite[k].user
        => invite[k].user \in contested

\* An invitation admits once, and never after it was revoked or replaced, except to a
\* request that had read it before: what an invitation gave is not given again after
\* the member was removed.
InviteAdmitsOnce ==
    [][\A k \in DOMAIN invite :
          invite'[k].accepted # invite[k].accepted
            => \/ invite[k].user \in contested
               \/ /\ invite[k].accepted = Never
                  /\ invite[k].until = invite[k].at + InviteLife]_invite

=============================================================================
