------------------------------- MODULE Access -------------------------------
(***************************************************************************)
(* Who gets into a workspace: visitors at the gate, its members and their  *)
(* seats, invitations, sessions, what the plan lets it hold, the owner who *)
(* is verified, and the administrators beside them all.  These desks share *)
(* nothing but the process, the clock and the one-time codes: a behaviour  *)
(* of this specification is the work of one of them, which desk names,     *)
(* with any number of requests in flight there.                            *)
(***************************************************************************)
EXTENDS Visitors, Invites, Sessions, Limits, Panel, OwnerCodes

CONSTANTS Desks, Timeless

VARIABLES desk

accessVars ==
    <<desk, requestVars, pass, inviteVars, sessionVars, limitVars, panelVars, ownerVars>>

Init ==
    /\ desk \in Desks
    /\ RequestsInit
    /\ VisitorsInit
    /\ MembersInit
    /\ CodesInit
    /\ InvitesInit
    /\ SessionsInit
    /\ LimitsInit
    /\ PanelInit
    /\ OwnersInit

\* A bound: where the clock stands still.
Clocked == desk \in Timeless => UNCHANGED now

AtTheGate ==
    /\ desk = "visitors" /\ VisitorsNext /\ Clocked
    /\ UNCHANGED <<desk, inviteVars, sessionVars, limitVars, panelVars, ownerVars>>

AmongMembers ==
    /\ desk = "members" /\ MembersNext /\ Clocked
    /\ UNCHANGED <<desk, pass, invite, code, sessionVars, limitVars, panelVars, ownerVars>>

OfInvitations ==
    /\ desk = "invites" /\ InvitesNext /\ Clocked
    /\ UNCHANGED <<desk, pass, sessionVars, limitVars, panelVars, ownerVars>>

OfSessions ==
    /\ desk = "sessions" /\ SessionsNext /\ Clocked
    /\ UNCHANGED <<desk, pass, invite, memberVars, limitVars, panelVars, ownerVars>>

UnderLimits ==
    /\ desk = "limits" /\ LimitsNext /\ Clocked
    /\ UNCHANGED <<desk, pass, inviteVars, sessionVars, panelVars, ownerVars>>

AtThePanel ==
    /\ desk = "panel" /\ PanelNext /\ Clocked
    /\ UNCHANGED <<desk, pass, inviteVars, sessionVars, limitVars, ownerVars>>

OfOwners ==
    /\ desk = "owners" /\ OwnersNext /\ Clocked
    /\ UNCHANGED <<desk, pass, inviteVars, sessionVars, limitVars, panelVars>>

Next ==
    \/ AtTheGate
    \/ AmongMembers
    \/ OfInvitations
    \/ OfSessions
    \/ UnderLimits
    \/ AtThePanel
    \/ OfOwners

Spec == Init /\ [][Next]_accessVars

-----------------------------------------------------------------------------

TypeOK ==
    /\ now \in 1..MaxTime
    /\ VisitorsTypeOK
    /\ MembersTypeOK
    /\ desk = "invites" => InvitesTypeOK
    /\ SessionsTypeOK
    /\ LimitsTypeOK
    /\ PanelTypeOK
    /\ OwnersTypeOK

\* Codes are rationed: at any login code there are no more guesses, and in the hour of an
\* owner no more codes, than the limit and one for each other request that was in flight
\* when it was reached.  Both limits are looked at before the calls that count.
CodesAreRationed ==
    /\ GuessesBounded
    /\ OwnerCodesBounded

=============================================================================
