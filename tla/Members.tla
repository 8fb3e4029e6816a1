------------------------------ MODULE Members -------------------------------
(***************************************************************************)
(* The members of one workspace (auth.service.ts): the staff a workspace   *)
(* adds, the changes of role and status, the removals, the manager seats   *)
(* of the plan.  STAFF stands for STAFF, GUARD and TECHNICIAN, which these *)
(* operations treat alike.                                                 *)
(*                                                                         *)
(* A member is a row with an id: a request that read a row writes it by    *)
(* that id and fails if the row has been deleted, even if the user has     *)
(* been added again since.                                                 *)
(***************************************************************************)
EXTENDS Requests

CONSTANTS Users, Owner, Seats, MaxRows

ASSUME OwnerIsUser == Owner \in Users
ASSUME SeatsNat == Seats \in Nat
ASSUME MaxRowsNat == MaxRows \in Nat \ {0}

VARIABLES
    member,      \* per user: the row's id, role and active flag; role "none" after a delete
    unchecked    \* users made active managers without a count of the seats

memberVars == <<member, unchecked>>

Roles == {"OWNER_ADMIN", "MANAGER", "STAFF", "RESIDENT"}

SeatRow == "seats"          \* contested by requests that count the seats

ASSUME SeatRowIsNoUser == SeatRow \notin Users

Present(u) == member[u].role # "none"

ActiveManagers == {u \in Users : member[u].role = "MANAGER" /\ member[u].active}

MembersInit ==
    /\ member = [u \in Users |-> IF u = Owner THEN [id |-> 1, role |-> "OWNER_ADMIN", active |-> TRUE]
                                 ELSE [id |-> 0, role |-> "none", active |-> FALSE]]
    /\ unchecked = {}

\* The role the access guard found for the user who calls.
ActorRole == {member[u].role : u \in {v \in Users : member[v].active}} \cap {"OWNER_ADMIN", "MANAGER"}

\* Seats are counted on the way to making a manager of a row that is not one.
NeedsSeat(role, was) == role = "MANAGER" /\ was # "MANAGER"

StepFor(role, was) == IF NeedsSeat(role, was) THEN "count" ELSE "write"

RowsFor(u, role, was) == {u} \cup IF NeedsSeat(role, was) THEN {SeatRow} ELSE {}

CreateWorkspaceStaff(i, u) ==
    /\ member[u].role \notin {"OWNER_ADMIN", "RESIDENT"}
    /\ \E actor \in ActorRole, role \in {"MANAGER", "STAFF"} :
          /\ ~(actor = "MANAGER" /\ role = "MANAGER")
          /\ Begin(i, [op |-> "staff", user |-> u, step |-> StepFor(role, member[u].role),
                       rows |-> RowsFor(u, role, member[u].role),
                       write |-> [role |-> role, active |-> TRUE]])
    /\ UNCHANGED memberVars

\* A manager may only remove or restore staff.  The role is written with the status,
\* as given or as it was read.
UpdateWorkspaceMember(i, u) ==
    /\ Present(u)
    /\ member[u].role # "OWNER_ADMIN"
    /\ \E actor \in ActorRole, role \in Roles, active \in BOOLEAN :
          /\ role # member[u].role \/ active # member[u].active
          /\ actor = "MANAGER" => member[u].role = "STAFF" /\ role = "STAFF"
          /\ Begin(i, [op |-> "update", user |-> u, id |-> member[u].id,
                       step |-> StepFor(role, member[u].role),
                       rows |-> RowsFor(u, role, member[u].role),
                       write |-> IF active = member[u].active THEN [role |-> role]
                                 ELSE [role |-> role, active |-> active]])
    /\ UNCHANGED memberVars

RemoveWorkspaceMember(i, u) ==
    /\ Present(u)
    /\ member[u].role # "OWNER_ADMIN"
    /\ Begin(i, [op |-> "remove", user |-> u, id |-> member[u].id, step |-> "write", rows |-> {u}])
    /\ UNCHANGED memberVars

\* Mutant: the seats are compared with > in place of >=.
AssertManagerCapacityMutant(i) ==
    /\ req[i] # Idle /\ req[i].step = "count"
    /\ IF Cardinality(ActiveManagers) > Seats
       THEN End(i)
       ELSE Proceed(i, [req[i] EXCEPT !.step = "write"])
    /\ UNCHANGED memberVars

AssertManagerCapacity(i) ==
    /\ req[i] # Idle /\ req[i].step = "count"
    /\ IF Cardinality(ActiveManagers) >= Seats
       THEN End(i)
       ELSE Proceed(i, [req[i] EXCEPT !.step = "write"])
    /\ UNCHANGED memberVars

\* The upsert of a row: an update of what is there, or a new row.
Upserted(u, w) ==
    Written(w, IF Present(u) THEN member[u] ELSE [member[u] EXCEPT !.id = @ + 1])

\* A manager nobody counted a seat for: one restored, or one an invitation made.
Unchecked(u, row, counted) ==
    IF row.role = "MANAGER" /\ row.active
    THEN IF u \in ActiveManagers THEN unchecked
         ELSE IF counted THEN unchecked \ {u} ELSE unchecked \cup {u}
    ELSE unchecked \ {u}

WriteMember(i) ==
    LET r == req[i]
        u == r.user
        row == Upserted(u, r.write)
    IN /\ r # Idle /\ r.step = "write" /\ r.op \in {"staff", "update"}
       /\ r.op = "update" => Present(u) /\ member[u].id = r.id
       /\ row.id <= MaxRows
       /\ member' = [member EXCEPT ![u] = row]
       /\ unchecked' = Unchecked(u, row, SeatRow \in r.rows)
       /\ End(i)

DeleteMember(i) ==
    LET r == req[i] IN
    /\ r # Idle /\ r.op = "remove"
    /\ Present(r.user) /\ member[r.user].id = r.id
    /\ member' = [member EXCEPT ![r.user] = [@ EXCEPT !.role = "none", !.active = FALSE]]
    /\ unchecked' = unchecked \ {r.user}
    /\ End(i)

MembersStep(i) ==
    \/ \E u \in Users :
          \/ CreateWorkspaceStaff(i, u)
          \/ UpdateWorkspaceMember(i, u)
          \/ RemoveWorkspaceMember(i, u)
    \/ AssertManagerCapacity(i)
    \/ WriteMember(i)
    \/ DeleteMember(i)

MembersNext ==
    \E i \in Slots : MembersStep(i) \/ (Abort(i) /\ UNCHANGED memberVars)

-----------------------------------------------------------------------------

MembersTypeOK ==
    /\ member \in [Users -> [id : 0..MaxRows, role : Roles \cup {"none"}, active : BOOLEAN]]
    /\ unchecked \subseteq Users

\* The active managers never outnumber the seats of the plan, but for two ways past
\* the count: two requests that count together, and a manager who comes back: the
\* seats are counted only for a row that was not a manager's.
SeatsHold ==
    SeatRow \in contested \/ Cardinality(ActiveManagers \ unchecked) <= Seats

=============================================================================
