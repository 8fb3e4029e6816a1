------------------------------ MODULE Premises ------------------------------
(***************************************************************************)
(* The running of the premises: amenities, the registry of residents,      *)
(* units, work orders, charges, leases and meters of estates and           *)
(* apartments, the areas, assets and tickets of offices, notices and       *)
(* inspections.  These desks work on tables of their own; a behaviour of   *)
(* this specification is the work of one of them, which desk names, with   *)
(* any number of requests and runs of its jobs in flight there.            *)
(***************************************************************************)
EXTENDS Bookings, Registry, Residents, WorkOrders, EstateCharges, Leases, Meters,
        Tickets, Office, Maintenance, Equipment, Notices, Filing

CONSTANTS Desks

VARIABLES desk

premisesVars ==
    <<desk, requestVars, bookingVars, entry, residentVars, workVars, chargeVars, lease, meter,
      ticket, officeVars, maintenanceVars, machine, noticeVars, filed>>

Init ==
    /\ desk \in Desks
    /\ RequestsInit
    /\ BookingsInit
    /\ RegistryInit
    /\ ResidentsInit
    /\ WorkInit
    /\ ChargesInit
    /\ LeasesInit
    /\ MetersInit
    /\ TicketsInit
    /\ OfficeInit
    /\ MaintenanceInit
    /\ EquipmentInit
    /\ NoticesInit
    /\ FilingInit

At(d, vars) == IF desk = d THEN TRUE ELSE UNCHANGED vars

\* The desk that works is d; the tables of the others stay as they are.
Works(d) ==
    /\ desk = d
    /\ UNCHANGED desk
    /\ At("bookings", bookingVars)
    /\ At("registry", entry)
    /\ At("residents", residentVars)
    /\ At("work", workVars)
    /\ At("charges", chargeVars)
    /\ At("leases", lease)
    /\ At("meters", meter)
    /\ At("tickets", ticket)
    /\ At("office", officeVars)
    /\ At("maintenance", maintenanceVars)
    /\ At("equipment", machine)
    /\ At("notices", noticeVars)
    /\ At("filing", filed)

BookingsWork == Works("bookings") /\ BookingsNext
RegistryWorks == Works("registry") /\ RegistryNext
ResidentsMove == Works("residents") /\ ResidentsNext
OrdersWork == Works("work") /\ WorkNext
ChargesWork == Works("charges") /\ ChargesNext
LeasesWork == Works("leases") /\ LeasesNext
MetersWork == Works("meters") /\ MetersNext
TicketsWork == Works("tickets") /\ TicketsNext
OfficeWorks == Works("office") /\ OfficeNext
MaintenanceWorks == Works("maintenance") /\ MaintenanceNext
EquipmentWorks == Works("equipment") /\ EquipmentNext
NoticesWork == Works("notices") /\ NoticesNext
FilingWorks == Works("filing") /\ FilingNext

Next ==
    \/ BookingsWork
    \/ RegistryWorks
    \/ ResidentsMove
    \/ OrdersWork
    \/ ChargesWork
    \/ LeasesWork
    \/ MetersWork
    \/ TicketsWork
    \/ OfficeWorks
    \/ MaintenanceWorks
    \/ EquipmentWorks
    \/ NoticesWork
    \/ FilingWorks

Spec == Init /\ [][Next]_premisesVars

-----------------------------------------------------------------------------

TypeOK ==
    /\ now \in 1..MaxTime
    /\ BookingsTypeOK
    /\ RegistryTypeOK
    /\ ResidentsTypeOK
    /\ WorkTypeOK
    /\ ChargesTypeOK
    /\ LeasesTypeOK
    /\ MetersTypeOK
    /\ TicketsTypeOK
    /\ OfficeTypeOK
    /\ MaintenanceTypeOK
    /\ EquipmentTypeOK
    /\ NoticesTypeOK
    /\ FilingTypeOK

\* The books balance: a charge is paid up to its amount, says PAID when it is, stays
\* void once void, and the totals a manager reads add up; a meter bills no usage twice.
\* Two requests, or a request and the reminder job, at one row at once may break it.
BooksBalance ==
    [][CASE desk = "charges" -> RowsBalance' /\ VoidStays
         [] desk = "meters" -> UsageBilledOnce'
         [] OTHER -> TRUE]_<<requestVars, chargeVars, meter>>

\* A reminder of one kind goes out once for a charge or a lease, and an alert once for a
\* breach of a deadline, over all runs of the jobs and whatever is edited between them,
\* unless two runs overlap or one ends between the message and the log or the mark.
RemindedOnce ==
    /\ AlertedOncePerBreach
    /\ ChargesRemindedOnce
    /\ LeasesRemindedOnce

\* What somebody handed in is not lost without a word nor doubled: a request with the
\* area it was filed in, an acknowledgement that was there before, what came of an
\* inspection unless a manager writes its result anew, a request a manager files twice,
\* a decision by an edit of the text beside it.
NothingIsLost ==
    [][CASE desk = "office" -> RequestsKept
         [] desk = "notices" -> AcksKept'
         [] desk = "filing" -> FiledOnce'
         [] desk = "tickets" -> EditsKeepTheDecision
         [] OTHER -> TRUE]_<<requestVars, officeVars, noticeVars, filed, ticket>>

\* The dates of service are right: of a machine the next one follows the last by the
\* interval; for an office asset the job opens one order per due date.
ServiceDatesHold ==
    [][CASE desk = "equipment" -> NextServiceFollows'
         [] desk = "maintenance" -> PmOncePerDueDate
         [] OTHER -> TRUE]_<<requestVars, machine, maintenanceVars>>

=============================================================================
