------------------------------ MODULE Tickets ------------------------------
(***************************************************************************)
(* Rows somebody works off: office requests and work orders                *)
(* (office.service.ts), apartment and estate requests                      *)
(* (apartment.service.ts, tenant.service.ts), violations, approvals and    *)
(* inspections (estate-ops.service.ts, operations.service.ts) and parcels  *)
(* (property.service.ts).  Every update reads the row, works out a status  *)
(* and a date from what it read and what the caller named, and writes it   *)
(* by id.  The handlers differ in which columns they write back.  A        *)
(* status in between (IN_PROGRESS, ACKNOWLEDGED) is treated like the first *)
(* one and left out.                                                       *)
(***************************************************************************)
EXTENDS Requests

CONSTANTS Tickets, TicketKinds

VARIABLES ticket

NoTicket == [kind |-> "none"]

Filed == {k \in Tickets : ticket[k] # NoTicket}

\* The status a kind starts with, and those of its work done.
FirstStatus ==
    [officeRequest |-> "PENDING", officeOrder |-> "OPEN", estateRequest |-> "PENDING",
     apartmentRequest |-> "PENDING", violation |-> "OPEN", approval |-> "PENDING",
     inspection |-> "SCHEDULED", parcel |-> "RECEIVED"]

DoneStatuses ==
    [officeRequest |-> {"RESOLVED", "CLOSED"}, officeOrder |-> {"CLOSED"},
     estateRequest |-> {"RESOLVED", "CLOSED"}, apartmentRequest |-> {"RESOLVED", "CLOSED"},
     violation |-> {"RESOLVED", "CLOSED"}, approval |-> {"APPROVED", "REJECTED"},
     inspection |-> {"COMPLETED"}, parcel |-> {"NOTIFIED", "PICKED_UP", "RETURNED"}]

StatusesOf(kind) == {FirstStatus[kind]} \cup DoneStatuses[kind]

ASSUME TicketKindsKnown == TicketKinds \subseteq DOMAIN FirstStatus

\* The date columns: parcels have one per status, the others one for the work done.
Columns == {"done", "NOTIFIED", "PICKED_UP", "RETURNED"}

Unstamped == [c \in Columns |-> Never]

Same == "same"              \* the caller names no status

TicketsInit == ticket = [k \in Tickets |-> NoTicket]

\* What each handler writes, of the row t it read and the status s the caller named.
Named(t, s) == IF s = Same THEN t.status ELSE s

UpdateOfficeRequest(t, s) ==
    [status |-> s,
     at |-> IF s = "RESOLVED" /\ t.at.done = Never THEN [done |-> now] ELSE <<>>]

UpdateOfficeOrder(t, s) ==
    [status |-> s,
     at |-> IF s = "CLOSED" /\ t.at.done = Never THEN [done |-> now] ELSE <<>>]

UpdateEstateRequest(t, s) ==
    [status |-> s,
     at |-> CASE s = Same -> <<>>
              [] s \in {"RESOLVED", "CLOSED"} ->
                    [done |-> IF t.at.done = Never THEN now ELSE t.at.done]
              [] OTHER -> [done |-> Never]]

UpdateApartmentRequest(t, s) == [status |-> s, at |-> <<>>]

UpdateViolation(t, s) ==
    LET next == Named(t, s) IN
    [status |-> next,
     at |-> [done |-> IF next \in {"RESOLVED", "CLOSED"} /\ t.at.done = Never THEN now ELSE t.at.done]]

UpdateApprovalRequest(t, s) ==
    LET next == Named(t, s) IN
    [status |-> next,
     at |-> [done |-> IF next # "PENDING" THEN now ELSE t.at.done]]

UpdateInspection(t, s) ==
    LET next == Named(t, s) IN
    [status |-> next,
     at |-> [done |-> IF next = "COMPLETED" /\ t.at.done = Never THEN now ELSE t.at.done]]

\* The same rows through the operations endpoint, which knows no date.  The result that
\* both endpoints may write beside the status is a column of Notices (UpdateInspectionResult).
UpdateOperationsInspection(t, s) == [status |-> s, at |-> <<>>]

\* Mutant: the hand-over stamps the date of the notification.
UpdateParcelMutant(t, s) ==
    LET next == Named(t, s) IN
    [status |-> next,
     at |-> IF next \in Columns /\ t.at[next] = Never THEN [NOTIFIED |-> now] ELSE <<>>]

UpdateParcel(t, s) ==
    LET next == Named(t, s) IN
    [status |-> next,
     at |-> IF next \in Columns /\ t.at[next] = Never THEN [c \in {next} |-> now] ELSE <<>>]

Answers(t, s) ==
    CASE t.kind = "officeRequest" -> {UpdateOfficeRequest(t, s)}
      [] t.kind = "officeOrder" -> {UpdateOfficeOrder(t, s)}
      [] t.kind = "estateRequest" -> {UpdateEstateRequest(t, s)}
      [] t.kind = "apartmentRequest" -> {UpdateApartmentRequest(t, s)}
      [] t.kind = "violation" -> {UpdateViolation(t, s)}
      [] t.kind = "approval" -> {UpdateApprovalRequest(t, s)}
      [] t.kind = "inspection" -> {UpdateInspection(t, s), UpdateOperationsInspection(t, s)}
      [] t.kind = "parcel" -> {UpdateParcel(t, s)}

\* A row filed with its work done has the date with it, where its kind has one.
File(k, kind, s) ==
    /\ ticket[k] = NoTicket
    /\ kind \in TicketKinds
    /\ ticket' = [ticket EXCEPT ![k] =
          [kind |-> kind, status |-> s,
           at |-> IF s \in DoneStatuses[kind] /\ kind # "apartmentRequest"
                  THEN [Unstamped EXCEPT !.done = now] ELSE Unstamped]]
    /\ Once(k)

CreateViolation(k) == File(k, "violation", FirstStatus.violation)
CreateApprovalRequest(k) == File(k, "approval", FirstStatus.approval)
CreateParcel(k) == File(k, "parcel", FirstStatus.parcel)
FileOfficeTicket(k) == \E kind \in {"officeRequest", "officeOrder"} : File(k, kind, FirstStatus[kind])

\* These creations may be given a status.
FileUnitRequest(k) ==
    \E kind \in {"estateRequest", "apartmentRequest"} : \E s \in StatusesOf(kind) : File(k, kind, s)

ScheduleInspection(k) == \E s \in StatusesOf("inspection") : File(k, "inspection", s)

FileTicket(k) ==
    \/ CreateViolation(k)
    \/ CreateApprovalRequest(k)
    \/ CreateParcel(k)
    \/ FileOfficeTicket(k)
    \/ FileUnitRequest(k)
    \/ ScheduleInspection(k)

BeginUpdate(i, k, s, w) ==
    /\ Begin(i, [op |-> "ticket", rows |-> {k}, ticket |-> k, named |-> s, write |-> w])
    /\ UNCHANGED ticket

UpdateTicket(i, k) ==
    \E s \in StatusesOf(ticket[k].kind) \cup {Same} :
        \E w \in Answers(ticket[k], s) : BeginUpdate(i, k, s, w)

\* The resident's answer to a resolved request: the status and nothing else.
Confirmable(k) ==
    ticket[k].kind \in {"estateRequest", "apartmentRequest"} /\ ticket[k].status = "RESOLVED"

ConfirmMyRequest(i, k) ==
    /\ Confirmable(k)
    /\ BeginUpdate(i, k, "CLOSED", [status |-> "CLOSED", at |-> <<>>])

ReopenMyRequest(i, k) ==
    /\ Confirmable(k)
    /\ BeginUpdate(i, k, "PENDING", [status |-> "PENDING", at |-> <<>>])

WriteTicket(i) ==
    LET r == req[i]
        t == ticket[r.ticket]
    IN /\ r # Idle
       /\ ticket' = [ticket EXCEPT ![r.ticket] =
             [t EXCEPT !.status = IF r.write.status = Same THEN @ ELSE r.write.status,
                       !.at = Written(r.write.at, @)]]
       /\ End(i)

TicketsStep(i) ==
    \/ \E k \in Filed : UpdateTicket(i, k) \/ ConfirmMyRequest(i, k) \/ ReopenMyRequest(i, k)
    \/ WriteTicket(i)

TicketsNext ==
    \/ \E k \in Tickets : FileTicket(k)
    \/ \E i \in Slots : TicketsStep(i)
    \/ (Tick \/ \E i \in Slots : Abort(i)) /\ UNCHANGED ticket

-----------------------------------------------------------------------------

TicketsTypeOK ==
    \A k \in Tickets :
        \/ ticket[k] = NoTicket
        \/ /\ ticket[k].kind \in TicketKinds
           /\ ticket[k].status \in StatusesOf(ticket[k].kind)
           /\ ticket[k].at \in [Columns -> Never..MaxTime]

\* Every row whose work is done says since when, in whatever order the requests that
\* touch it read and write: reports count on it.  An estate request can lose the date
\* to a request that overtakes a reopening; an office request has a date for RESOLVED
\* only, an apartment request none, and an inspection closed through the operations
\* endpoint none either.
DoneIsStamped ==
    \A k \in Filed :
        LET t == ticket[k]
            column == IF t.kind = "parcel" THEN t.status ELSE "done"
        IN /\ t.status \in DoneStatuses[t.kind]
           /\ t.kind \notin {"apartmentRequest", "inspection"}
           /\ t.kind = "officeRequest" => t.status = "RESOLVED"
           /\ t.kind = "estateRequest" => k \notin contested
           => t.at[column] # Never

\* A part of NothingIsLost: an update that names no status leaves the status as it is,
\* unless another one was in flight with it: violations, approvals, inspections and
\* parcels write back the status they read.
EditsKeepTheDecision ==
    \A k \in Filed \ contested', i \in Slots :
       req[i] # Idle /\ req'[i] = Idle /\ req[i].ticket = k /\ req[i].named = Same
         => ticket'[k].status = ticket[k].status

=============================================================================
