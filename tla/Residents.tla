------------------------------ MODULE Residents ------------------------------
(***************************************************************************)
(* Units and their residents (apartment.service.ts, and the bulk upload of *)
(* onboarding.service.ts).  A unit has at most one active resident, and    *)
(* its status is copied from its residents after every change of one: a    *)
(* check, the write and the copy are separate calls.  A unit under         *)
(* maintenance is like a vacant one here.                                  *)
(***************************************************************************)
EXTENDS Requests

CONSTANTS Units, People, NoUnit

ASSUME NoUnitIsNone == NoUnit \notin Units

VARIABLES
    unit,        \* the status of each unit row; "none" when there is no row
    resident,    \* the resident rows
    manual,      \* units whose status somebody set by hand since it was last copied
    unlooked     \* residents made active in a unit nobody looked into

residentVars == <<unit, resident, manual, unlooked>>

NoResident == [status |-> "none", unit |-> NoUnit]

Exists(r) == resident[r].status # "none"

Active(u) == {r \in People : resident[r] = [status |-> "ACTIVE", unit |-> u]}

ResidentsInit ==
    /\ unit = [u \in Units |-> "VACANT"]
    /\ resident = [r \in People |-> NoResident]
    /\ manual = {}
    /\ unlooked = {}

\* What is in the unit column of a write, and what the unit is now.
Places == {u \in Units : unit[u] # "none"} \cup {NoUnit}

RowsOf(r, us) == {r} \cup (us \ {NoUnit})

\* The write of a resident's row, then the copies of the units it touched.
Write(i, r, w, us, looked) ==
    /\ Begin(i, [op |-> "resident", rows |-> RowsOf(r, us), resident |-> r, write |-> w,
                 copy |-> us \ {NoUnit}, looked |-> looked, step |-> "write"])
    /\ UNCHANGED residentVars

\* Mutant: nobody looks whether the unit has a resident.
CreateResidentMutant(i, r) ==
    /\ ~Exists(r) /\ Fresh(r)
    /\ \E u \in Places, s \in {"ACTIVE", "INACTIVE"} :
          Write(i, r, [status |-> s, unit |-> u], {u}, TRUE)

CreateResident(i, r) ==
    /\ ~Exists(r) /\ Fresh(r)
    /\ \E u \in Places, s \in {"ACTIVE", "INACTIVE"} :
          /\ u # NoUnit => Active(u) = {}
          /\ Write(i, r, [status |-> s, unit |-> u], {u}, TRUE)

\* The unit is looked into when the change names one: not when only the status changes.
UpdateResident(i, r) ==
    LET old == resident[r] IN
    /\ Exists(r)
    /\ \/ \E u \in Places, s \in {old.status, "ACTIVE", "INACTIVE"} :
             /\ u # NoUnit => Active(u) \subseteq {r}
             /\ Write(i, r, [status |-> s, unit |-> u], {old.unit, u}, TRUE)
       \/ \E s \in {"ACTIVE", "INACTIVE"} :
             Write(i, r, [status |-> s, unit |-> old.unit], {old.unit}, FALSE)

\* Mutant: the unit of a resident who is deleted is not looked after.
DeleteResidentMutant(i, r) ==
    /\ Exists(r)
    /\ \E w \in {NoResident, [status |-> "INACTIVE", unit |-> NoUnit]} : Write(i, r, w, {}, TRUE)

\* Deleted, or archived when requests refer to the resident.
DeleteResident(i, r) ==
    /\ Exists(r)
    /\ \E w \in {NoResident, [status |-> "INACTIVE", unit |-> NoUnit]} :
          Write(i, r, w, {resident[r].unit}, TRUE)

WriteResident(i) ==
    LET q == req[i]
        r == q.resident
    IN /\ q # Idle /\ q.op = "resident" /\ q.step = "write"
       /\ resident' = [resident EXCEPT ![r] = q.write]
       /\ unlooked' = IF q.looked \/ q.write.status # "ACTIVE" THEN unlooked \ {r}
                      ELSE IF resident[r].status = "ACTIVE" THEN unlooked ELSE unlooked \cup {r}
       /\ Proceed(i, [op |-> "resident", rows |-> q.rows, copy |-> q.copy, step |-> "count"])
       /\ UNCHANGED <<unit, manual>>

\* syncUnitOccupancy: the status and the active residents are read, then the status
\* is written if it differs.
CountActive(i) ==
    LET q == req[i] IN
    /\ q # Idle /\ q.op = "resident" /\ q.step = "count"
    /\ IF q.copy = {} THEN End(i)
       ELSE \E u \in q.copy :
               Proceed(i, [op |-> "resident", rows |-> q.rows, copy |-> q.copy \ {u}, step |-> "sync",
                           unit |-> u, status |-> IF Active(u) # {} THEN "OCCUPIED" ELSE "VACANT"])
    /\ UNCHANGED residentVars

SyncUnitOccupancy(i) ==
    LET q == req[i] IN
    /\ q # Idle /\ q.op = "resident" /\ q.step = "sync"
    /\ unit' = IF unit[q.unit] = "none" THEN unit ELSE [unit EXCEPT ![q.unit] = q.status]
    /\ manual' = manual \ {q.unit}
    /\ Proceed(i, [op |-> "resident", rows |-> q.rows, copy |-> q.copy, step |-> "count"])
    /\ UNCHANGED <<resident, unlooked>>

\* The bulk upload: the rows are judged once, against the units occupied before it;
\* then each row creates a resident and marks the unit.
CommitBulkTenantInvites(i) ==
    \E new \in SUBSET {r \in People : ~Exists(r) /\ Fresh(r)} \ {{}} :
    \E rows \in [new -> {u \in Units : unit[u] # "none" /\ Active(u) = {}}] :
        /\ Begin(i, [op |-> "bulk", rows |-> DOMAIN rows \cup {rows[r] : r \in DOMAIN rows},
                     todo |-> rows, left |-> DOMAIN rows, taken |-> {}, step |-> "create"])
        /\ UNCHANGED residentVars

CreateBulkResident(i) ==
    LET q == req[i] IN
    /\ q # Idle /\ q.op = "bulk" /\ q.step = "create"
    /\ \E r \in q.left :
          /\ ~Exists(r)
          /\ resident' = [resident EXCEPT ![r] = [status |-> "ACTIVE", unit |-> q.todo[r]]]
          /\ unlooked' = IF q.todo[r] \in q.taken THEN unlooked \cup {r} ELSE unlooked \ {r}
          /\ Proceed(i, [q EXCEPT !.step = "mark", !.left = @ \ {r}, !.taken = @ \cup {q.todo[r]}])
    /\ UNCHANGED <<unit, manual>>

MarkOccupied(i) ==
    LET q == req[i] IN
    /\ q # Idle /\ q.op = "bulk" /\ q.step = "mark"
    /\ unit' = [u \in Units |-> IF u \in q.taken /\ unit[u] # "none" THEN "OCCUPIED" ELSE unit[u]]
    /\ manual' = manual \ q.taken
    /\ IF q.left = {} THEN End(i) ELSE Proceed(i, [q EXCEPT !.step = "create"])
    /\ UNCHANGED <<resident, unlooked>>

CreateUnit(u) ==
    /\ unit[u] = "none" /\ Fresh(u)
    /\ \E s \in {"VACANT", "OCCUPIED"} : unit' = [unit EXCEPT ![u] = s]
    /\ manual' = manual \cup {u}
    /\ Once(u)
    /\ UNCHANGED <<resident, unlooked>>

UpdateUnit(u) ==
    /\ unit[u] # "none"
    /\ \E s \in {"VACANT", "OCCUPIED"} : unit' = [unit EXCEPT ![u] = s]
    /\ manual' = manual \cup {u}
    /\ Once(u)
    /\ UNCHANGED <<resident, unlooked>>

DeleteUnit(i, u) ==
    /\ unit[u] # "none"
    /\ \A r \in People : resident[r].unit # u
    /\ Begin(i, [op |-> "deleteUnit", rows |-> {u}, unit |-> u, step |-> "delete"])
    /\ UNCHANGED residentVars

\* The database empties the unit column of the residents left behind.
RemoveUnit(i) ==
    LET q == req[i] IN
    /\ q # Idle /\ q.op = "deleteUnit"
    /\ unit' = [unit EXCEPT ![q.unit] = "none"]
    /\ resident' = [r \in People |-> IF resident[r].unit = q.unit
                                     THEN [resident[r] EXCEPT !.unit = NoUnit] ELSE resident[r]]
    /\ manual' = manual \ {q.unit}
    /\ End(i)
    /\ UNCHANGED unlooked

ResidentsStep(i) ==
    \/ \E r \in People : CreateResident(i, r) \/ UpdateResident(i, r) \/ DeleteResident(i, r)
    \/ WriteResident(i)
    \/ CountActive(i)
    \/ SyncUnitOccupancy(i)
    \/ CommitBulkTenantInvites(i)
    \/ CreateBulkResident(i)
    \/ MarkOccupied(i)
    \/ \E u \in Units : DeleteUnit(i, u)
    \/ RemoveUnit(i)

ResidentsNext ==
    \/ \E i \in Slots : ResidentsStep(i) \/ (Cut(i) /\ UNCHANGED residentVars)
    \/ \E u \in Units : CreateUnit(u) \/ UpdateUnit(u)

-----------------------------------------------------------------------------

ResidentsTypeOK ==
    /\ unit \in [Units -> {"none", "VACANT", "OCCUPIED"}]
    /\ resident \in [People -> [status : {"none", "ACTIVE", "INACTIVE"}, unit : Units \cup {NoUnit}]]
    /\ manual \subseteq Units
    /\ unlooked \subseteq People

\* A unit has one active resident at most, but for residents made active without a
\* look into the unit: one who is only set ACTIVE again, and the second of two rows
\* of one upload that name the same unit.
OneActivePerUnit ==
    \A u \in Units \ contested : Cardinality(Active(u) \ unlooked) <= 1

\* A unit says OCCUPIED exactly while it has an active resident, whenever no request
\* on it is in flight and nobody set its status by hand since.
OccupancyFollowsResidents ==
    \A u \in Units \ (contested \cup manual) :
        unit[u] # "none" /\ InFlight(u) = {} => (unit[u] = "OCCUPIED" <=> Active(u) # {})

=============================================================================
