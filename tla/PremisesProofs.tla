--------------------------- MODULE PremisesProofs ---------------------------
(***************************************************************************)
(* Theorems about Premises, for every number of amenities, bookings and    *)
(* requests in flight and whatever windows are asked for.                  *)
(***************************************************************************)
EXTENDS Premises, RequestsProofs, FiniteSetTheorems

BookingRow == [amenity : Amenities, window : Windows, status : BookingStatuses]

BookRequest ==
    [op : {"book"}, rows : {{a} : a \in Amenities}, amenity : Amenities, window : Windows,
     status : Live]

RebookRequest ==
    [op : {"rebook"}, rows : {{a, b} : a \in Amenities, b \in Bookings}, booking : Bookings,
     moved : BOOLEAN, window : Windows, status : BookingStatuses]

BookingTypes ==
    /\ booking \in [Bookings -> BookingRow \cup {NoBooking}]
    /\ req \in [Slots -> {Idle} \cup BookRequest \cup RebookRequest]

\* A request holds the amenity it books, and the one its booking is of.
HoldsItsRows ==
    \A i \in Slots :
        /\ req[i] \in BookRequest => req[i].amenity \in req[i].rows
        /\ req[i] \in RebookRequest =>
              /\ req[i].booking \in Booked
              /\ booking[req[i].booking].amenity \in req[i].rows

\* What a request has read of an amenity nobody else is at is still so.
StillFree(i) ==
    LET r == req[i] IN
    /\ r \in BookRequest /\ r.amenity \notin contested => ~Taken(r.amenity, r.window, {})
    /\ r \in RebookRequest /\ booking[r.booking].amenity \notin contested =>
          /\ r.status \in Live => ~Taken(booking[r.booking].amenity, r.window, {r.booking})
          /\ ~r.moved => booking[r.booking].window = r.window

BookingInv ==
    /\ BookingTypes
    /\ HoldsItsRows
    /\ \A a \in Amenities \ contested : AloneAt(a)
    /\ \A i \in Slots : StillFree(i)
    /\ NoDoubleBooking

\* Without the desk there is no booking.
BookingsKept ==
    /\ desk = "bookings" => BookingInv
    /\ desk # "bookings" => booking = [b \in Bookings |-> NoBooking]

-----------------------------------------------------------------------------

LEMMA RequestsDiffer ==
    /\ Idle \notin BookRequest /\ Idle \notin RebookRequest
    /\ \A r \in BookRequest : r.op = "book" /\ r \notin RebookRequest
    /\ \A r \in RebookRequest : r.op = "rebook"
    /\ Idle.op = "idle"
<1>1. Idle.op = "idle"
  BY DEF Idle
<1>2. \A r \in BookRequest : r.op = "book"
  BY DEF BookRequest
<1>3. \A r \in RebookRequest : r.op = "rebook"
  BY DEF RebookRequest
<1> QED  BY <1>1, <1>2, <1>3

LEMMA RowsDiffer == NoBooking \notin BookingRow
BY DEF NoBooking, BookingRow, BookingStatuses, Live

\* When the bookings stay as they are, what a request knows stays so: it may begin
\* only where nobody else is, and end at any time.
LEMMA BeginKeeps ==
    ASSUME BookingInv, NEW i \in Slots, NEW r \in BookRequest \cup RebookRequest, Begin(i, r),
           UNCHANGED booking,
           r \in BookRequest => r.amenity \in r.rows /\ ~Taken(r.amenity, r.window, {}),
           r \in RebookRequest =>
              /\ r.booking \in Booked /\ booking[r.booking].amenity \in r.rows
              /\ r.status \in Live => ~Taken(booking[r.booking].amenity, r.window, {r.booking})
              /\ ~r.moved => booking[r.booking].window = r.window
    PROVE  BookingInv'
<1> USE RequestsDiffer
<1>1. /\ req[i] = Idle /\ req'[i] = r
      /\ \A j \in Slots : j # i => req'[j] = req[j]
      /\ contested \subseteq contested'
      /\ \A a : AloneAt(a) /\ a \notin contested' => AloneAt(a)'
  BY BeginAlone DEF BookingInv, BookingTypes
<1>4. BookingTypes'
  BY DEF Begin, BookingInv, BookingTypes
<1>5. Booked' = Booked /\ \A a, w, e : Taken(a, w, e)' = Taken(a, w, e)
  BY DEF Booked, Taken
<1>6. HoldsItsRows'
  BY <1>1, <1>5 DEF BookingInv, HoldsItsRows
<1>7. \A a \in Amenities \ contested' : AloneAt(a)'
  BY <1>1 DEF BookingInv
<1>8. ASSUME NEW j \in Slots PROVE StillFree(j)'
  <2>1. StillFree(j)
    BY DEF BookingInv
  <2>2. CASE j = i
    BY <1>1, <1>5, <2>2 DEF StillFree
  <2>3. CASE j # i
    BY <1>1, <1>5, <2>1, <2>3 DEF StillFree
  <2> QED  BY <2>2, <2>3
<1>9. NoDoubleBooking'
  BY <1>1, <1>5 DEF BookingInv, NoDoubleBooking
<1> QED  BY <1>4, <1>6, <1>7, <1>8, <1>9 DEF BookingInv

LEMMA EndKeeps ==
    ASSUME BookingInv, NEW i \in Slots, req[i] # Idle, End(i), UNCHANGED booking
    PROVE  BookingInv'
<1> USE RequestsDiffer
<1>1. req' = [req EXCEPT ![i] = Idle] /\ contested' = contested
  BY DEF End, Proceed
<1>2. /\ req'[i] = Idle /\ \A j \in Slots : j # i => req'[j] = req[j]
      /\ \A a : AloneAt(a) => AloneAt(a)'
  BY ProceedAlone DEF End, BookingInv, BookingTypes
<1>3. BookingTypes'
  BY <1>1 DEF BookingInv, BookingTypes
<1>4. Booked' = Booked /\ \A a, w, e : Taken(a, w, e)' = Taken(a, w, e)
  BY DEF Booked, Taken
<1>5. HoldsItsRows'
  BY <1>2, <1>4 DEF BookingInv, HoldsItsRows
<1>6. \A a \in Amenities \ contested' : AloneAt(a)'
  BY <1>1, <1>2 DEF BookingInv
<1>7. ASSUME NEW j \in Slots PROVE StillFree(j)'
  <2>1. StillFree(j)
    BY DEF BookingInv
  <2> QED  BY <1>1, <1>2, <1>4, <2>1 DEF StillFree
<1>8. NoDoubleBooking'
  BY <1>1, <1>4 DEF BookingInv, NoDoubleBooking
<1> QED  BY <1>3, <1>5, <1>6, <1>7, <1>8 DEF BookingInv

-----------------------------------------------------------------------------

LEMMA CreateBegins ==
    ASSUME BookingInv, NEW i \in Slots, NEW a \in Amenities, CreateAmenityBooking(i, a)
    PROVE  BookingInv'
<1>1. PICK w \in Windows :
        /\ ~Taken(a, w, {})
        /\ Begin(i, [op |-> "book", rows |-> {a}, amenity |-> a, window |-> w,
                     status |-> IF amenity[a].approval THEN "REQUESTED" ELSE "APPROVED"])
  BY DEF CreateAmenityBooking
<1> DEFINE r == [op |-> "book", rows |-> {a}, amenity |-> a, window |-> w,
                 status |-> IF amenity[a].approval THEN "REQUESTED" ELSE "APPROVED"]
<1>2. r \in BookRequest
  BY DEF BookRequest, Live
<1>3. r.amenity \in r.rows /\ r.amenity = a /\ r.window = w
  OBVIOUS
<1>4. UNCHANGED booking
  BY DEF CreateAmenityBooking, bookingVars
<1>5. Begin(i, r)
  BY <1>1
<1> HIDE DEF r
<1> QED  BY <1>1, <1>2, <1>3, <1>4, <1>5, BeginKeeps, RequestsDiffer

LEMMA UpdateBegins ==
    ASSUME BookingInv, NEW i \in Slots, NEW b \in Booked, UpdateAmenityBooking(i, b)
    PROVE  BookingInv'
<1> DEFINE old == booking[b]
<1>1. PICK w \in Windows, s \in BookingStatuses :
        /\ s \in Live => ~Taken(old.amenity, w, {b})
        /\ Begin(i, [op |-> "rebook", rows |-> {old.amenity, b}, booking |-> b,
                     moved |-> w # old.window, window |-> w, status |-> s])
  BY DEF UpdateAmenityBooking
<1> DEFINE r == [op |-> "rebook", rows |-> {old.amenity, b}, booking |-> b,
                 moved |-> w # old.window, window |-> w, status |-> s]
<1>2. b \in Bookings /\ old \in BookingRow
  BY DEF Booked, BookingInv, BookingTypes
<1>3. old.amenity \in Amenities
  BY <1>2 DEF BookingRow
<1> HIDE DEF old
<1>4. r \in RebookRequest
  BY <1>2, <1>3 DEF RebookRequest
<1>5. /\ r.booking = b /\ old.amenity \in r.rows /\ r.status = s /\ r.window = w
      /\ ~r.moved => old.window = w
  OBVIOUS
<1>6. UNCHANGED booking
  BY DEF UpdateAmenityBooking, bookingVars
<1>7. Begin(i, r)
  BY <1>1
<1> HIDE DEF r
<1> USE DEF old
<1> QED  BY <1>1, <1>4, <1>5, <1>6, <1>7, BeginKeeps, RequestsDiffer

\* A write puts into the row of a booking what its request found free.
LEMMA WriteKeeps ==
    ASSUME BookingInv, NEW i \in Slots, NEW b \in Bookings, NEW a \in Amenities, NEW v \in BookingRow,
           req[i] # Idle, a \in req[i].rows, End(i),
           v.amenity = a, booking[b] # NoBooking => booking[b].amenity = a,
           a \notin contested /\ v.status \in Live => ~Taken(a, v.window, {b}),
           booking' = [booking EXCEPT ![b] = v]
    PROVE  BookingInv'
<1> USE RequestsDiffer, RowsDiffer
<1>1. req' = [req EXCEPT ![i] = Idle] /\ contested' = contested
  BY DEF End, Proceed
<1>2. /\ req'[i] = Idle /\ \A j \in Slots : j # i => req'[j] = req[j]
      /\ \A x : AloneAt(x) => AloneAt(x)'
  BY ProceedAlone DEF End, BookingInv, BookingTypes
<1>3. booking'[b] = v /\ \A c \in Bookings : c # b => booking'[c] = booking[c]
  BY DEF BookingInv, BookingTypes
<1>4. BookingTypes'
  BY <1>1 DEF BookingInv, BookingTypes
<1>5. Booked' = Booked \cup {b}
  BY <1>3 DEF Booked
<1>6. \A c \in Booked : booking'[c].amenity = booking[c].amenity
  BY <1>3 DEF Booked
<1>7. HoldsItsRows'
  BY <1>2, <1>5, <1>6 DEF BookingInv, HoldsItsRows
<1>8. \A x \in Amenities \ contested' : AloneAt(x)'
  BY <1>1, <1>2 DEF BookingInv
<1>9. \A x, w, e : x # a => Taken(x, w, e)' = Taken(x, w, e)
  BY <1>3, <1>5 DEF Taken, Booked
<1>10. ASSUME NEW j \in Slots PROVE StillFree(j)'
  <2>1. StillFree(j) /\ HoldsItsRows /\ (a \notin contested => AloneAt(a))
    BY DEF BookingInv
  <2>2. CASE j = i
    BY <1>2, <2>2 DEF StillFree
  <2>3. CASE j # i
    <3>1. req'[j] = req[j]
      BY <1>2, <2>3
    <3>2. a \notin contested /\ req[j] # Idle => a \notin req[j].rows
      BY <2>1, <2>3, AtRow DEF AloneAt
    <3>3. ASSUME req[j] \in BookRequest, req[j].amenity \notin contested
          PROVE ~Taken(req[j].amenity, req[j].window, {})'
      <4>1. req[j].amenity # a
        BY <2>1, <3>2, <3>3 DEF HoldsItsRows
      <4>2. ~Taken(req[j].amenity, req[j].window, {})
        BY <2>1, <3>3 DEF StillFree
      <4> QED  BY <1>9, <3>1, <4>1, <4>2
    <3>4. ASSUME req[j] \in RebookRequest, booking'[req[j].booking].amenity \notin contested
          PROVE /\ req[j].status \in Live
                      => ~Taken(booking[req[j].booking].amenity, req[j].window, {req[j].booking})'
                /\ ~req[j].moved => booking'[req[j].booking].window = req[j].window
      <4>1. req[j].booking \in Booked /\ booking[req[j].booking].amenity \in req[j].rows
        BY <2>1, <3>4 DEF HoldsItsRows
      <4>2. booking'[req[j].booking].amenity = booking[req[j].booking].amenity
        BY <1>6, <4>1
      <4>3. booking[req[j].booking].amenity # a
        BY <3>2, <3>4, <4>1, <4>2
      <4>4. req[j].booking # b
        BY <4>1, <4>3 DEF Booked
      <4>5. booking'[req[j].booking] = booking[req[j].booking]
        BY <1>3, <4>1, <4>4 DEF Booked
      <4> QED  BY <1>9, <2>1, <3>1, <3>4, <4>2, <4>3, <4>5 DEF StillFree
    <3> QED  BY <1>1, <3>1, <3>3, <3>4 DEF StillFree
  <2> QED  BY <2>2, <2>3
<1>11. NoDoubleBooking'
  <2> SUFFICES ASSUME NEW c \in Booked', NEW d \in Booked', c # d,
                      booking'[c].amenity = booking'[d].amenity,
                      booking'[c].status \in Live, booking'[d].status \in Live,
                      booking'[c].amenity \notin contested
               PROVE  ~Overlaps(booking'[c].window, booking'[d].window)
    BY <1>1 DEF NoDoubleBooking, Live, Overlaps
  <2>1. CASE c # b /\ d # b
    <3>1. c \in Booked /\ d \in Booked /\ booking'[c] = booking[c] /\ booking'[d] = booking[d]
      BY <1>3, <1>5, <2>1 DEF Booked
    <3> QED  BY <3>1 DEF BookingInv, NoDoubleBooking
  <2>2. ASSUME NEW x \in Booked, x # b, booking[x].amenity = a, booking[x].status \in Live,
               a \notin contested, v.status \in Live
        PROVE  ~Overlaps(booking[x].window, v.window)
    BY <2>2 DEF Taken
  <2>3. CASE c = b
    <3>1. d \in Booked /\ booking'[d] = booking[d]
      BY <1>3, <1>5, <2>3 DEF Booked
    <3> QED  BY <1>3, <2>2, <2>3, <3>1 DEF Overlaps
  <2>4. CASE d = b
    <3>1. c \in Booked /\ booking'[c] = booking[c]
      BY <1>3, <1>5, <2>4 DEF Booked
    <3> QED  BY <1>3, <2>2, <2>4, <3>1 DEF Overlaps
  <2> QED  BY <2>1, <2>3, <2>4
<1> QED  BY <1>4, <1>7, <1>8, <1>10, <1>11 DEF BookingInv

-----------------------------------------------------------------------------

LEMMA BookingsInitially == Init => BookingsKept
<1> SUFFICES ASSUME Init PROVE BookingsKept
  OBVIOUS
<1> USE RequestsDiffer
<1>1. /\ booking = [b \in Bookings |-> NoBooking] /\ req = [i \in Slots |-> Idle]
  BY DEF Init, BookingsInit, RequestsInit
<1>2. Booked = {}
  BY <1>1 DEF Booked
<1>3. BookingTypes
  BY <1>1 DEF BookingTypes
<1>4. HoldsItsRows /\ (\A a : AloneAt(a)) /\ \A i \in Slots : StillFree(i)
  BY <1>1 DEF HoldsItsRows, AloneAt, InFlight, StillFree
<1>5. NoDoubleBooking
  BY <1>2 DEF NoDoubleBooking
<1> QED  BY <1>1, <1>3, <1>4, <1>5 DEF BookingsKept, BookingInv

\* Nobody is disturbed by a change of an amenity, which is one statement.
LEMMA AmenitiesKeep ==
    ASSUME BookingInv, NEW a \in Amenities, CreateAmenity(a) \/ UpdateAmenity(a)
    PROVE  BookingInv'
<1>1. UNCHANGED <<req, booking>> /\ contested \subseteq contested'
  <2>1. CASE CreateAmenity(a)
    BY <2>1 DEF CreateAmenity, requestVars
  <2>2. CASE UpdateAmenity(a)
    BY <2>2, MeetContests DEF UpdateAmenity, Once
  <2> QED  BY <2>1, <2>2
<1>2. Booked' = Booked /\ \A b, w, e : Taken(b, w, e)' = Taken(b, w, e)
  BY <1>1 DEF Booked, Taken
<1>3. BookingTypes' /\ HoldsItsRows'
  BY <1>1, <1>2 DEF BookingInv, BookingTypes, HoldsItsRows
<1>4. \A b \in Amenities \ contested' : AloneAt(b)'
  BY <1>1 DEF BookingInv, AloneAt, InFlight
<1>5. \A i \in Slots : StillFree(i)'
  BY <1>1, <1>2 DEF BookingInv, StillFree
<1>6. NoDoubleBooking'
  BY <1>1, <1>2 DEF BookingInv, NoDoubleBooking
<1> QED  BY <1>3, <1>4, <1>5, <1>6 DEF BookingInv

LEMMA BookingsStep ==
    ASSUME BookingInv, BookingsNext
    PROVE  BookingInv'
<1> USE RequestsDiffer
<1>1. ASSUME NEW a \in Amenities, CreateAmenity(a) \/ UpdateAmenity(a) PROVE BookingInv'
  BY <1>1, AmenitiesKeep
<1>2. ASSUME NEW i \in Slots, NEW a \in Amenities, CreateAmenityBooking(i, a) PROVE BookingInv'
  BY <1>2, CreateBegins
<1>3. ASSUME NEW i \in Slots, WriteBooking(i) PROVE BookingInv'
  <2>1. req[i] \in BookRequest
    BY <1>3 DEF WriteBooking, BookingInv, BookingTypes
  <2>2. PICK b \in Bookings :
          /\ booking[b] = NoBooking
          /\ booking' = [booking EXCEPT ![b] = [amenity |-> req[i].amenity, window |-> req[i].window,
                                                status |-> req[i].status]]
    BY <1>3 DEF WriteBooking
  <2> DEFINE v == [amenity |-> req[i].amenity, window |-> req[i].window, status |-> req[i].status]
  <2>3. req[i].amenity \in Amenities /\ req[i].window \in Windows /\ req[i].status \in Live
    BY <2>1 DEF BookRequest
  <2>4. v \in BookingRow /\ v.amenity = req[i].amenity /\ v.window = req[i].window
    BY <2>3 DEF BookingRow, BookingStatuses
  <2>5. req[i] # Idle /\ End(i)
    BY <1>3 DEF WriteBooking
  <2>6. req[i].amenity \in req[i].rows
    BY <2>1 DEF BookingInv, HoldsItsRows
  <2>7. req[i].amenity \notin contested => ~Taken(req[i].amenity, req[i].window, {b})
    <3>1. StillFree(i)
      BY DEF BookingInv
    <3>2. req[i].amenity \notin contested => ~Taken(req[i].amenity, req[i].window, {})
      BY <2>1, <3>1 DEF StillFree
    <3> QED  BY <3>2 DEF Taken
  <2>8. booking' = [booking EXCEPT ![b] = v]
    BY <2>2
  <2> HIDE DEF v
  <2> QED  BY <2>2, <2>3, <2>4, <2>5, <2>6, <2>7, <2>8, WriteKeeps
<1>4. ASSUME NEW i \in Slots, NEW b \in Booked, UpdateAmenityBooking(i, b) PROVE BookingInv'
  BY <1>4, UpdateBegins
<1>5. ASSUME NEW i \in Slots, RewriteBooking(i) PROVE BookingInv'
  <2> DEFINE b == req[i].booking
             old == booking[b]
             v == [old EXCEPT !.window = IF req[i].moved THEN req[i].window ELSE @,
                              !.status = req[i].status]
  <2>1. req[i] \in RebookRequest
    BY <1>5 DEF RewriteBooking, BookingInv, BookingTypes
  <2>2. b \in Booked /\ old.amenity \in req[i].rows
    BY <2>1 DEF BookingInv, HoldsItsRows
  <2>3. b \in Bookings /\ old \in BookingRow
    BY <2>2 DEF Booked, BookingInv, BookingTypes
  <2>4. req[i].window \in Windows /\ req[i].status \in BookingStatuses /\ req[i].moved \in BOOLEAN
    BY <2>1 DEF RebookRequest
  <2>5. booking' = [booking EXCEPT ![b] = v] /\ req[i] # Idle /\ End(i)
    BY <1>5 DEF RewriteBooking
  <2>6. old.amenity \in Amenities
    BY <2>3 DEF BookingRow
  <2> HIDE DEF b, old
  <2>7. v \in BookingRow /\ v.amenity = old.amenity /\ v.status = req[i].status
        /\ v.window = IF req[i].moved THEN req[i].window ELSE old.window
    BY <2>3, <2>4 DEF BookingRow
  <2> HIDE DEF v
  <2>8. old.amenity \notin contested /\ v.status \in Live => ~Taken(old.amenity, v.window, {b})
    <3>1. StillFree(i)
      BY DEF BookingInv
    <3> QED  BY <2>1, <2>7, <3>1 DEF StillFree, old, b
  <2>9. booking[b] # NoBooking => booking[b].amenity = old.amenity
    BY DEF old
  <2> QED  BY <2>2, <2>3, <2>5, <2>6, <2>7, <2>8, <2>9, WriteKeeps
<1>6. ASSUME NEW i \in Slots, Abort(i), UNCHANGED bookingVars PROVE BookingInv'
  BY <1>6, EndKeeps DEF Abort, bookingVars
<1> QED  BY <1>1, <1>2, <1>3, <1>4, <1>5, <1>6 DEF BookingsNext

\* The desk that works takes a step of its own, and the others leave their tables alone.
LEMMA DesksApart ==
    ASSUME Next
    PROVE  /\ desk' = desk
           /\ IF desk = "bookings" THEN BookingsNext ELSE UNCHANGED bookingVars
           /\ IF desk = "registry" THEN RegistryNext ELSE UNCHANGED entry
           /\ IF desk = "residents" THEN ResidentsNext ELSE UNCHANGED residentVars
           /\ IF desk = "work" THEN WorkNext ELSE UNCHANGED workVars
           /\ IF desk = "charges" THEN ChargesNext ELSE UNCHANGED chargeVars
           /\ IF desk = "leases" THEN LeasesNext ELSE UNCHANGED lease
           /\ IF desk = "meters" THEN MetersNext ELSE UNCHANGED meter
           /\ IF desk = "tickets" THEN TicketsNext ELSE UNCHANGED ticket
           /\ IF desk = "office" THEN OfficeNext ELSE UNCHANGED officeVars
           /\ IF desk = "maintenance" THEN MaintenanceNext ELSE UNCHANGED maintenanceVars
           /\ IF desk = "equipment" THEN EquipmentNext ELSE UNCHANGED machine
           /\ IF desk = "notices" THEN NoticesNext ELSE UNCHANGED noticeVars
           /\ IF desk = "filing" THEN FilingNext ELSE UNCHANGED filed
BY DEF Next, Works, At, BookingsWork, RegistryWorks, ResidentsMove, OrdersWork,
       ChargesWork, LeasesWork, MetersWork, TicketsWork, OfficeWorks, MaintenanceWorks,
       EquipmentWorks, NoticesWork, FilingWorks

LEMMA BookingsStayKept == BookingsKept /\ [Next]_premisesVars => BookingsKept'
<1> SUFFICES ASSUME BookingsKept, [Next]_premisesVars PROVE BookingsKept'
  OBVIOUS
<1>1. CASE Next
  <2>1. CASE desk = "bookings"
    BY <1>1, <2>1, DesksApart, BookingsStep DEF BookingsKept
  <2>2. CASE desk # "bookings"
    BY <1>1, <2>2, DesksApart DEF BookingsKept, bookingVars
  <2> QED  BY <2>1, <2>2
<1>2. CASE UNCHANGED premisesVars
  <2>1. UNCHANGED <<desk, req, contested, booking>>
    BY <1>2 DEF premisesVars, requestVars, bookingVars
  <2> QED  BY <2>1 DEF BookingsKept, BookingInv, BookingTypes, HoldsItsRows, AloneAt, InFlight,
                       StillFree, Taken, Booked, NoDoubleBooking
<1> QED  BY <1>1, <1>2

\* Two live bookings of one amenity never share time unless two requests were in
\* flight for it at once, for any number of amenities, bookings and requests.
THEOREM BookingsApart == Spec => []NoDoubleBooking
<1>1. BookingsKept => NoDoubleBooking
  BY DEF BookingsKept, BookingInv, NoDoubleBooking, Booked
<1> QED  BY <1>1, BookingsInitially, BookingsStayKept, PTL DEF Spec

-----------------------------------------------------------------------------

(***************************************************************************)
(* The registry of a resident.  A request that is to mark its row has      *)
(* removed the other marks of the kind, and while nobody else is at the    *)
(* kind they stay removed.                                                 *)
(***************************************************************************)

EntryRow == [plate : Plates \cup {NoPlate}, primary : BOOLEAN]
EntryKinds == {"household", "vehicle"}

RegisterRequest ==
    [op : {"register"}, rows : {{kind} : kind \in EntryKinds}, plate : Plates \cup {NoPlate},
     primary : BOOLEAN, clear : BOOLEAN]

ReregisterRequest ==
    [op : {"reregister"}, rows : {{kind} : kind \in EntryKinds}, entry : Entries,
     plate : Plates \cup {NoPlate}, primary : BOOLEAN, clear : BOOLEAN]

IsKind(e, kind) == entry[e] # NoEntry /\ Kind(entry[e].plate) = kind

\* The kind is the one of the plate, and of the row that is there.
AboutItsKind(i) ==
    req[i] # Idle =>
        /\ req[i].rows = {Kind(req[i].plate)}
        /\ req[i] \in ReregisterRequest /\ entry[req[i].entry] # NoEntry =>
              Kind(entry[req[i].entry].plate) = Kind(req[i].plate)

\* Nobody is marked but the row about to be.
MarksGone(i) ==
    req[i] # Idle /\ ~req[i].clear /\ req[i].primary =>
        \A kind \in req[i].rows \ contested : \A e \in Entries :
            IsKind(e, kind) /\ entry[e].primary => req[i] \in ReregisterRequest /\ e = req[i].entry

OnePrimaryOf(kind) ==
    \A e, f \in Entries : e # f /\ IsKind(e, kind) /\ IsKind(f, kind) => ~(entry[e].primary /\ entry[f].primary)

RegistryInv ==
    /\ entry \in [Entries -> EntryRow \cup {NoEntry}]
    /\ req \in [Slots -> {Idle} \cup RegisterRequest \cup ReregisterRequest]
    /\ \A i \in Slots : AboutItsKind(i) /\ MarksGone(i)
    /\ \A kind \in EntryKinds \ contested : AloneAt(kind) /\ OnePrimaryOf(kind)

RegistryKept ==
    /\ desk = "registry" => RegistryInv
    /\ desk # "registry" => entry = [e \in Entries |-> NoEntry]

-----------------------------------------------------------------------------

LEMMA RegistryRecords ==
    /\ NoEntry \notin EntryRow
    /\ Idle \notin RegisterRequest /\ Idle \notin ReregisterRequest
    /\ \A r \in RegisterRequest : r \notin ReregisterRequest /\ r.op = "register"
    /\ \A r \in ReregisterRequest : r.op = "reregister"
    /\ \A plate : Kind(plate) \in EntryKinds
<1>1. "primary" \notin DOMAIN NoEntry /\ \A r \in EntryRow : "primary" \in DOMAIN r
  BY DEF NoEntry, EntryRow
<1>2. Idle.op = "idle" /\ (\A r \in RegisterRequest : r.op = "register") /\ \A r \in ReregisterRequest : r.op = "reregister"
  BY DEF Idle, RegisterRequest, ReregisterRequest
<1>3. \A plate : Kind(plate) \in EntryKinds
  BY DEF Kind, EntryKinds
<1> QED  BY <1>1, <1>2, <1>3

\* A request arrives; the marks are still to be removed, or none is to be set.
LEMMA RegistryBegins ==
    ASSUME RegistryInv, UNCHANGED entry, NEW i \in Slots, NEW r \in RegisterRequest \cup ReregisterRequest,
           Begin(i, r), r.clear \/ ~r.primary, r.rows = {Kind(r.plate)},
           r \in ReregisterRequest /\ entry[r.entry] # NoEntry => Kind(entry[r.entry].plate) = Kind(r.plate)
    PROVE  RegistryInv'
<1>1. /\ req[i] = Idle /\ req'[i] = r /\ contested \subseteq contested'
      /\ \A j \in Slots : j # i => req'[j] = req[j]
      /\ \A row : AloneAt(row) /\ row \notin contested' => AloneAt(row)'
  BY BeginAlone DEF RegistryInv
<1>2. req' \in [Slots -> {Idle} \cup RegisterRequest \cup ReregisterRequest]
  BY DEF RegistryInv, Begin
<1>3. ASSUME NEW j \in Slots PROVE (AboutItsKind(j) /\ MarksGone(j))'
  <2>1. CASE j = i
    BY <1>1, <2>1 DEF AboutItsKind, MarksGone
  <2>2. CASE j # i
    BY <1>1, <2>2 DEF RegistryInv, AboutItsKind, MarksGone, IsKind
  <2> QED  BY <2>1, <2>2
<1>4. \A kind : OnePrimaryOf(kind) => OnePrimaryOf(kind)'
  BY DEF OnePrimaryOf, IsKind
<1> QED  BY <1>1, <1>2, <1>3, <1>4 DEF RegistryInv

\* A request goes on or ends, having written rows of its kind.
LEMMA RegistryProceeds ==
    ASSUME RegistryInv, NEW i \in Slots, NEW r \in {Idle} \cup RegisterRequest \cup ReregisterRequest,
           req[i] # Idle, Proceed(i, r),
           r # Idle => /\ r.rows = req[i].rows /\ r.plate = req[i].plate
                       /\ r \in ReregisterRequest => req[i] \in ReregisterRequest /\ r.entry = req[i].entry,
           entry' \in [Entries -> EntryRow \cup {NoEntry}],
           \A e \in Entries : entry'[e] # NoEntry =>
              IF entry[e] = NoEntry
              THEN Kind(entry'[e].plate) \in req[i].rows /\ \A j \in Slots : req[j] \in ReregisterRequest => req[j].entry # e
              ELSE /\ Kind(entry'[e].plate) = Kind(entry[e].plate)
                   /\ Kind(entry[e].plate) \notin req[i].rows => entry'[e] = entry[e],
           \A kind \in req[i].rows : kind \notin contested => OnePrimaryOf(kind)',
           MarksGone(i)'
    PROVE  RegistryInv'
<1> USE RegistryRecords
<1>1. /\ req'[i] = r /\ contested' = contested
      /\ \A j \in Slots : j # i => req'[j] = req[j]
      /\ \A row : AloneAt(row) => AloneAt(row)'
  <2>1. r = Idle \/ r.rows \subseteq req[i].rows
    OBVIOUS
  <2> QED  BY <2>1, ProceedAlone DEF RegistryInv
<1>2. req' \in [Slots -> {Idle} \cup RegisterRequest \cup ReregisterRequest]
  BY DEF RegistryInv, Proceed
<1>3. ASSUME NEW e \in Entries, NEW kind, kind \notin req[i].rows, entry'[e] # NoEntry, Kind(entry'[e].plate) = kind
      PROVE  IsKind(e, kind) /\ entry'[e] = entry[e]
  BY <1>3 DEF IsKind
<1>4. ASSUME NEW j \in Slots PROVE AboutItsKind(j)'
  <2>1. CASE req'[j] = Idle
    BY <2>1 DEF AboutItsKind
  <2>2. CASE req'[j] # Idle
    <3>1. /\ req[j] # Idle /\ req'[j].rows = req[j].rows /\ req'[j].plate = req[j].plate
          /\ req'[j] \in ReregisterRequest => req[j] \in ReregisterRequest /\ req'[j].entry = req[j].entry
      BY <1>1, <2>2
    <3>2. AboutItsKind(j)
      BY DEF RegistryInv
    <3>3. req[j] \in ReregisterRequest => req[j].entry \in Entries
      BY DEF ReregisterRequest
    <3> QED  BY <3>1, <3>2, <3>3 DEF AboutItsKind
  <2> QED  BY <2>1, <2>2
<1>5. ASSUME NEW j \in Slots PROVE MarksGone(j)'
  <2>1. CASE j = i
    BY <2>1
  <2>2. CASE j # i
    <3> SUFFICES ASSUME req[j] # Idle, ~req[j].clear, req[j].primary, NEW kind \in req[j].rows \ contested,
                        NEW e \in Entries, entry'[e] # NoEntry, Kind(entry'[e].plate) = kind, entry'[e].primary
                 PROVE  req[j] \in ReregisterRequest /\ e = req[j].entry
      BY <1>1, <2>2 DEF MarksGone, IsKind
    <3>1. kind \in EntryKinds
      BY DEF RegistryInv, AboutItsKind
    <3>2. kind \notin req[i].rows
      BY <2>2, <3>1, AtRow DEF RegistryInv, AloneAt
    <3>3. IsKind(e, kind) /\ entry[e].primary
      BY <1>3, <3>2
    <3>4. MarksGone(j)
      BY DEF RegistryInv
    <3> QED  BY <3>3, <3>4 DEF MarksGone
  <2> QED  BY <2>1, <2>2
<1>6. ASSUME NEW kind \in EntryKinds \ contested PROVE (AloneAt(kind) /\ OnePrimaryOf(kind))'
  <2>1. AloneAt(kind)'
    BY <1>1 DEF RegistryInv
  <2>2. kind \notin req[i].rows => OnePrimaryOf(kind)'
    <3>1. OnePrimaryOf(kind)
      BY DEF RegistryInv
    <3> QED  BY <1>3, <3>1 DEF OnePrimaryOf, IsKind
  <2> QED  BY <2>1, <2>2
<1> QED  BY <1>1, <1>2, <1>4, <1>5, <1>6 DEF RegistryInv

LEMMA EntryBegins ==
    ASSUME RegistryInv, NEW i \in Slots,
           \/ \E plate \in Plates \cup {NoPlate}, primary \in BOOLEAN : CreateEntry(i, plate, primary)
           \/ \E e \in Registered : UpdateEntry(i, e)
    PROVE  RegistryInv'
<1> USE RegistryRecords
<1>1. ASSUME NEW plate \in Plates \cup {NoPlate}, NEW primary \in BOOLEAN, CreateEntry(i, plate, primary)
      PROVE  RegistryInv'
  <2> DEFINE r == [op |-> "register", rows |-> {Kind(plate)}, plate |-> plate, primary |-> primary,
                   clear |-> primary]
  <2>1. Begin(i, r) /\ UNCHANGED entry
    BY <1>1 DEF CreateEntry
  <2>2. r \in RegisterRequest
    BY DEF RegisterRequest
  <2>3. (r.clear \/ ~r.primary) /\ r.rows = {Kind(r.plate)}
    OBVIOUS
  <2> HIDE DEF r
  <2> QED  BY <2>1, <2>2, <2>3, RegistryBegins
<1>2. ASSUME NEW e \in Registered, UpdateEntry(i, e) PROVE RegistryInv'
  <2>1. PICK plate \in (IF entry[e].plate = NoPlate THEN {NoPlate} ELSE Plates), primary \in BOOLEAN :
          /\ Begin(i, [op |-> "reregister", rows |-> {Kind(plate)}, entry |-> e, plate |-> plate,
                       primary |-> primary, clear |-> primary])
          /\ UNCHANGED entry
    BY <1>2 DEF UpdateEntry
  <2> DEFINE r == [op |-> "reregister", rows |-> {Kind(plate)}, entry |-> e, plate |-> plate,
                   primary |-> primary, clear |-> primary]
  <2>2. e \in Entries /\ plate \in Plates \cup {NoPlate} /\ Kind(entry[e].plate) = Kind(plate)
    BY NoPlateIsNoPlate DEF Registered, Kind
  <2>3. r \in ReregisterRequest
    BY <2>2 DEF ReregisterRequest
  <2>4. (r.clear \/ ~r.primary) /\ r.rows = {Kind(r.plate)} /\ r.entry = e /\ r.plate = plate
    OBVIOUS
  <2>5. Begin(i, r)
    BY <2>1
  <2> HIDE DEF r
  <2> QED  BY <2>1, <2>2, <2>3, <2>4, <2>5, RegistryBegins
<1> QED  BY <1>1, <1>2

LEMMA MarksClear ==
    ASSUME RegistryInv, NEW i \in Slots, ClearMarks(i)
    PROVE  RegistryInv'
<1> USE RegistryRecords
<1> DEFINE r == [req[i] EXCEPT !.clear = FALSE]
           others == Alike(req[i].plate) \ (IF req[i].op = "reregister" THEN {req[i].entry} ELSE {})
<1>1. /\ req[i] # Idle /\ Proceed(i, r)
      /\ entry' = [e \in Entries |-> IF e \in others THEN [entry[e] EXCEPT !.primary = FALSE] ELSE entry[e]]
  BY DEF ClearMarks
<1>2. req[i] \in RegisterRequest \cup ReregisterRequest /\ req[i].rows = {Kind(req[i].plate)}
  BY <1>1 DEF RegistryInv, AboutItsKind
<1>3. /\ req[i] \in RegisterRequest => r \in RegisterRequest
      /\ req[i] \in ReregisterRequest => r \in ReregisterRequest /\ r.entry = req[i].entry
      /\ r.rows = req[i].rows /\ r.plate = req[i].plate /\ r.primary = req[i].primary
  BY <1>2 DEF RegisterRequest, ReregisterRequest
<1>4. \A e \in Entries : e \in others <=> /\ IsKind(e, Kind(req[i].plate))
                                          /\ req[i] \in ReregisterRequest => e # req[i].entry
  BY <1>2 DEF Alike, Registered, IsKind
<1>5. \A e \in Entries : e \in others => /\ [entry[e] EXCEPT !.primary = FALSE] \in EntryRow
                                         /\ [entry[e] EXCEPT !.primary = FALSE].plate = entry[e].plate
                                         /\ [entry[e] EXCEPT !.primary = FALSE].primary = FALSE
  <2>1. \A v \in EntryRow : /\ [v EXCEPT !.primary = FALSE] \in EntryRow
                           /\ [v EXCEPT !.primary = FALSE].plate = v.plate
                           /\ [v EXCEPT !.primary = FALSE].primary = FALSE
    BY DEF EntryRow
  <2>2. \A e \in Entries : e \in others => entry[e] \in EntryRow
    BY <1>4 DEF RegistryInv, IsKind
  <2> HIDE DEF others
  <2> QED  BY <2>1, <2>2
<1> HIDE DEF others, r
<1>6. \A e \in Entries : /\ entry'[e] # NoEntry <=> entry[e] # NoEntry
                         /\ entry[e] # NoEntry => entry'[e].plate = entry[e].plate
                         /\ e \notin others => entry'[e] = entry[e]
                         /\ e \in others => ~entry'[e].primary /\ IsKind(e, Kind(req[i].plate))
  BY <1>1, <1>4, <1>5 DEF IsKind
<1>7. entry' \in [Entries -> EntryRow \cup {NoEntry}]
  BY <1>1, <1>5 DEF RegistryInv
<1>8. req'[i] = r /\ contested' = contested
  BY <1>1, <1>3, ProceedAlone DEF RegistryInv
<1>9. MarksGone(i)'
  BY <1>2, <1>3, <1>4, <1>6, <1>8 DEF MarksGone, IsKind
<1>10. \A kind \in req[i].rows : kind \notin contested => OnePrimaryOf(kind)'
  <2> SUFFICES ASSUME NEW kind \in req[i].rows, kind \notin contested PROVE OnePrimaryOf(kind)'
    OBVIOUS
  <2>1. \A e \in Entries : entry'[e] # NoEntry /\ Kind(entry'[e].plate) = kind /\ entry'[e].primary =>
           req[i] \in ReregisterRequest /\ e = req[i].entry
    BY <1>2, <1>4, <1>6 DEF IsKind
  <2> QED  BY <2>1 DEF OnePrimaryOf, IsKind
<1>11. \A e \in Entries : entry'[e] # NoEntry =>
          IF entry[e] = NoEntry
          THEN Kind(entry'[e].plate) \in req[i].rows /\ \A j \in Slots : req[j] \in ReregisterRequest => req[j].entry # e
          ELSE /\ Kind(entry'[e].plate) = Kind(entry[e].plate)
               /\ Kind(entry[e].plate) \notin req[i].rows => entry'[e] = entry[e]
  BY <1>2, <1>6 DEF IsKind
<1>12. r \in {Idle} \cup RegisterRequest \cup ReregisterRequest
       /\ (r \in ReregisterRequest => req[i] \in ReregisterRequest)
  BY <1>2, <1>3
<1> QED  BY <1>1, <1>3, <1>7, <1>9, <1>10, <1>11, <1>12, RegistryProceeds

LEMMA EntryWrites ==
    ASSUME RegistryInv, NEW i \in Slots, WriteEntry(i)
    PROVE  RegistryInv'
<1> USE RegistryRecords
<1> DEFINE row == [plate |-> req[i].plate, primary |-> req[i].primary]
           kind == Kind(req[i].plate)
<1>1. PICK e \in Entries :
        /\ entry' = [entry EXCEPT ![e] = row]
        /\ \/ req[i] \in RegisterRequest /\ entry[e] = NoEntry /\ e \notin Known
           \/ req[i] \in ReregisterRequest /\ entry[e] # NoEntry /\ e = req[i].entry
  BY DEF WriteEntry, RegistryInv, Registered
<1>2. req[i] # Idle /\ ~req[i].clear /\ End(i)
  BY DEF WriteEntry
<1>3. req[i] \in RegisterRequest \cup ReregisterRequest /\ req[i].rows = {kind} /\ MarksGone(i)
      /\ (req[i] \in ReregisterRequest /\ entry[req[i].entry] # NoEntry => Kind(entry[req[i].entry].plate) = kind)
  BY <1>2 DEF RegistryInv, AboutItsKind
<1>4. row \in EntryRow /\ row # NoEntry /\ row.plate = req[i].plate /\ row.primary = req[i].primary
  BY <1>3 DEF RegisterRequest, ReregisterRequest, EntryRow
<1> HIDE DEF row
<1>5. \A x \in Entries : entry'[x] = IF x = e THEN row ELSE entry[x]
  BY <1>1 DEF RegistryInv
<1>6. entry' \in [Entries -> EntryRow \cup {NoEntry}]
  BY <1>1, <1>4 DEF RegistryInv
<1>7. Proceed(i, Idle) /\ req'[i] = Idle
  BY <1>2, ProceedAlone DEF End, RegistryInv
<1>8. \A x \in Entries : entry'[x] # NoEntry =>
         IF entry[x] = NoEntry
         THEN Kind(entry'[x].plate) \in req[i].rows /\ \A j \in Slots : req[j] \in ReregisterRequest => req[j].entry # x
         ELSE /\ Kind(entry'[x].plate) = Kind(entry[x].plate)
              /\ Kind(entry[x].plate) \notin req[i].rows => entry'[x] = entry[x]
  BY <1>1, <1>3, <1>4, <1>5 DEF Known
<1>9. ASSUME kind \notin contested PROVE \A k : k = kind => OnePrimaryOf(k)'
  <2>1. kind \in EntryKinds
    OBVIOUS
  <2>2. OnePrimaryOf(kind)
    BY <1>9, <2>1 DEF RegistryInv
  <2>3. \A x \in Entries : req[i].primary /\ IsKind(x, kind) /\ entry[x].primary => x = e
    BY <1>1, <1>2, <1>3, <1>9 DEF MarksGone
  <2>4. \A x \in Entries : x # e /\ entry'[x] # NoEntry /\ Kind(entry'[x].plate) = kind => IsKind(x, kind) /\ entry'[x] = entry[x]
    BY <1>5 DEF IsKind
  <2>5. \A x, y \in Entries : /\ x # y /\ entry'[x] # NoEntry /\ Kind(entry'[x].plate) = kind
                              /\ entry'[y] # NoEntry /\ Kind(entry'[y].plate) = kind
                              => ~(entry'[x].primary /\ entry'[y].primary)
    <3> SUFFICES ASSUME NEW x \in Entries, NEW y \in Entries, x # y, entry'[x] # NoEntry, Kind(entry'[x].plate) = kind,
                        entry'[y] # NoEntry, Kind(entry'[y].plate) = kind, entry'[x].primary, entry'[y].primary
                 PROVE  FALSE
      OBVIOUS
    <3>1. CASE x = e \/ y = e
      BY <1>4, <1>5, <2>3, <2>4, <3>1
    <3>2. CASE x # e /\ y # e
      BY <2>2, <2>4, <3>2 DEF OnePrimaryOf
    <3> QED  BY <3>1, <3>2
  <2> QED  BY <2>5 DEF OnePrimaryOf, IsKind
<1>10. \A k \in req[i].rows : k \notin contested => OnePrimaryOf(k)'
  BY <1>3, <1>9
<1>11. MarksGone(i)'
  BY <1>7 DEF MarksGone
<1> QED  BY <1>2, <1>6, <1>7, <1>8, <1>10, <1>11, RegistryProceeds

\* A row goes.
LEMMA EntryGoes ==
    ASSUME RegistryInv, NEW e \in Entries, DeleteEntry(e)
    PROVE  RegistryInv'
<1>1. entry' = [entry EXCEPT ![e] = NoEntry] /\ UNCHANGED req /\ contested \subseteq contested'
  BY MeetContests DEF DeleteEntry, Once
<1>2. \A x \in Entries : entry'[x] = IF x = e THEN NoEntry ELSE entry[x]
  BY <1>1 DEF RegistryInv
<1>3. ASSUME NEW j \in Slots PROVE (AboutItsKind(j) /\ MarksGone(j))'
  <2>1. AboutItsKind(j) /\ MarksGone(j) /\ req'[j] = req[j]
    BY <1>1 DEF RegistryInv
  <2>2. req[j] \in ReregisterRequest => req[j].entry \in Entries
    BY DEF ReregisterRequest
  <2>3. AboutItsKind(j)'
    BY <1>2, <2>1, <2>2 DEF AboutItsKind
  <2>4. MarksGone(j)'
    BY <1>1, <1>2, <2>1 DEF MarksGone, IsKind
  <2> QED  BY <2>3, <2>4
<1>4. \A kind : (AloneAt(kind) => AloneAt(kind)') /\ (OnePrimaryOf(kind) => OnePrimaryOf(kind)')
  BY <1>1, <1>2 DEF AloneAt, InFlight, OnePrimaryOf, IsKind
<1>5. entry' \in [Entries -> EntryRow \cup {NoEntry}]
  BY <1>1 DEF RegistryInv
<1> QED  BY <1>1, <1>3, <1>4, <1>5 DEF RegistryInv

LEMMA RegistryStepKeeps ==
    ASSUME RegistryInv, RegistryNext
    PROVE  RegistryInv'
<1>1. ASSUME NEW i \in Slots, Abort(i), UNCHANGED entry PROVE RegistryInv'
  <2>1. req[i] # Idle /\ Proceed(i, Idle) /\ req'[i] = Idle
    BY <1>1, ProceedAlone DEF Abort, End, RegistryInv
  <2>2. \A kind \in req[i].rows : kind \notin contested => OnePrimaryOf(kind)'
    <3>1. req[i].rows \subseteq EntryKinds
      BY <2>1 DEF RegistryInv, RegisterRequest, ReregisterRequest
    <3> QED  BY <1>1, <3>1 DEF RegistryInv, OnePrimaryOf, IsKind
  <2>3. MarksGone(i)'
    BY <2>1 DEF MarksGone
  <2>4. entry' \in [Entries -> EntryRow \cup {NoEntry}]
    BY <1>1 DEF RegistryInv
  <2> QED  BY <1>1, <2>1, <2>2, <2>3, <2>4, RegistryProceeds
<1> QED  BY <1>1, EntryBegins, MarksClear, EntryWrites, EntryGoes DEF RegistryNext, RegistryStep

LEMMA RegistryInitially == Init => RegistryKept
<1> SUFFICES ASSUME Init PROVE RegistryKept
  OBVIOUS
<1>1. entry = [e \in Entries |-> NoEntry] /\ req = [i \in Slots |-> Idle] /\ contested = {}
  BY DEF Init, RegistryInit, RequestsInit
<1>2. (\A kind : AloneAt(kind) /\ OnePrimaryOf(kind)) /\ \A i \in Slots : AboutItsKind(i) /\ MarksGone(i)
  BY <1>1 DEF AloneAt, InFlight, OnePrimaryOf, IsKind, AboutItsKind, MarksGone
<1> QED  BY <1>1, <1>2 DEF RegistryKept, RegistryInv

LEMMA RegistryStaysKept == RegistryKept /\ [Next]_premisesVars => RegistryKept'
<1> SUFFICES ASSUME RegistryKept, [Next]_premisesVars PROVE RegistryKept'
  OBVIOUS
<1>1. CASE Next
  BY <1>1, DesksApart, RegistryStepKeeps DEF RegistryKept
<1>2. CASE UNCHANGED premisesVars
  <2>1. UNCHANGED <<desk, req, contested, entry>>
    BY <1>2 DEF premisesVars, requestVars
  <2> QED  BY <2>1 DEF RegistryKept, RegistryInv, AloneAt, InFlight, OnePrimaryOf, IsKind, AboutItsKind, MarksGone
<1> QED  BY <1>1, <1>2

\* A resident never has two primary household members or two primary vehicles, unless two
\* requests that could mark one were in flight at once: for any number of entries, plates
\* and requests, and wherever a request between its two statements is cut short.
THEOREM PrimariesAreOne == Spec => []OnePrimary
<1>1. RegistryKept => OnePrimary
  <2>1. \A plate : Kind(plate) \in EntryKinds
    BY RegistryRecords
  <2> QED  BY <2>1 DEF RegistryKept, RegistryInv, OnePrimary, OnePrimaryOf, IsKind, Registered
<1> QED  BY <1>1, RegistryInitially, RegistryStaysKept, PTL DEF Spec

-----------------------------------------------------------------------------

(***************************************************************************)
(* Units and residents.  Two requests with a row in common contest all     *)
(* their rows, so that at a unit outside contested what the one request    *)
(* has read is still so, of the unit and of the resident it moves; and a   *)
(* unit whose status is not that of its residents is one that a request    *)
(* still has to copy.                                                      *)
(***************************************************************************)

ResidentRow == [status : {"none", "ACTIVE", "INACTIVE"}, unit : Units \cup {NoUnit}]

OneActive(u) == \A r, s \in Active(u) \ unlooked : r = s

Right(u) == unit[u] = "none" \/ (unit[u] = "OCCUPIED" <=> Active(u) # {})

Doing(i, op, step) == req[i] # Idle /\ req[i].op = op /\ req[i].step = step

ResidentShape(i) ==
    \/ req[i] = Idle
    \/ /\ req[i] # Idle /\ {"op", "rows", "step"} \subseteq DOMAIN req[i]
       /\ \/ /\ req[i].op = "resident" /\ req[i].step = "write"
             /\ req[i].resident \in People /\ req[i].write \in ResidentRow
             /\ req[i].write.status = "none" => req[i].write.unit = NoUnit
             /\ req[i].copy \subseteq Units /\ req[i].rows = {req[i].resident} \cup req[i].copy
             /\ req[i].write.unit \in req[i].copy \cup {NoUnit}
          \/ /\ req[i].op = "resident" /\ req[i].step = "count"
             /\ req[i].copy \subseteq Units /\ req[i].copy \subseteq req[i].rows
          \/ /\ req[i].op = "resident" /\ req[i].step = "sync"
             /\ req[i].copy \subseteq Units /\ req[i].copy \subseteq req[i].rows
             /\ req[i].unit \in Units /\ req[i].unit \in req[i].rows
             /\ req[i].status \in {"OCCUPIED", "VACANT"}
          \/ /\ req[i].op = "bulk" /\ req[i].step \in {"create", "mark"}
             /\ {"left", "taken", "todo"} \subseteq DOMAIN req[i]
             /\ req[i].left \subseteq People /\ req[i].left \subseteq req[i].rows
             /\ \A r \in req[i].left : req[i].todo[r] \in Units /\ req[i].todo[r] \in req[i].rows
             /\ req[i].taken \subseteq Units /\ req[i].taken \subseteq req[i].rows
          \/ /\ req[i].op = "deleteUnit" /\ req[i].step = "delete"
             /\ req[i].unit \in Units /\ req[i].rows = {req[i].unit}

\* The resident a request is to write is in a unit it will copy, and the unit he is to
\* be active in holds nobody else; or he is in that unit already.
MoveFound(i) ==
    Doing(i, "resident", "write") =>
        /\ resident[req[i].resident].unit \in req[i].copy \cup {NoUnit} \cup contested
        /\ req[i].write.status = "ACTIVE" /\ req[i].write.unit \notin contested \cup {NoUnit} =>
              IF req[i].looked THEN Active(req[i].write.unit) \subseteq {req[i].resident}
              ELSE resident[req[i].resident].unit = req[i].write.unit

CountFound(i) ==
    Doing(i, "resident", "sync") /\ req[i].unit \notin contested =>
        (req[i].status = "OCCUPIED" <=> Active(req[i].unit) # {})

BulkFound(i) ==
    req[i] # Idle /\ req[i].op = "bulk" =>
        /\ \A r \in req[i].left : req[i].todo[r] \notin contested \cup req[i].taken => Active(req[i].todo[r]) = {}
        /\ \A u \in req[i].taken \ contested : Active(u) # {}

\* The request will still copy the residents of the unit into its status.
Owes(i, u) ==
    \/ Doing(i, "resident", "write") /\ u \in req[i].copy
    \/ Doing(i, "resident", "count") /\ u \in req[i].copy
    \/ Doing(i, "resident", "sync") /\ u \in req[i].copy \cup {req[i].unit}
    \/ Doing(i, "bulk", "mark") /\ u \in req[i].taken

Meeting(i, j) == req[i] # Idle /\ req[j] # Idle /\ req[i].rows \cap req[j].rows # {}

ResidentsInv ==
    /\ ResidentsTypeOK
    /\ \A r \in People : resident[r].status = "none" => resident[r].unit = NoUnit
    /\ req = [i \in Slots |-> req[i]]
    /\ \A i \in Slots : ResidentShape(i) /\ MoveFound(i) /\ CountFound(i) /\ BulkFound(i)
    /\ \A i, j \in Slots : i # j /\ Meeting(i, j) => req[i].rows \subseteq contested
    /\ \A u \in Units \ contested : OneActive(u)
    /\ \A u \in Units \ (contested \cup manual) : Right(u) \/ \E i \in Slots : Owes(i, u)

ResidentsKept ==
    /\ desk = "residents" => ResidentsInv
    /\ desk # "residents" => /\ unit = [u \in Units |-> "VACANT"]
                             /\ resident = [r \in People |-> NoResident]

-----------------------------------------------------------------------------

\* Whoever meets another request contests all its rows, and the other's.
LEMMA MeetingContests ==
    ASSUME NEW rows, Meet(rows), NEW j \in Slots, req[j] # Idle, req[j].rows \cap rows # {}
    PROVE  rows \subseteq contested' /\ req[j].rows \subseteq contested'
<1> DEFINE met == UNION {InFlight(r) : r \in rows}
<1>1. j \in met
  BY DEF InFlight
<1>2. contested' = IF met = {} THEN contested
                   ELSE contested \cup rows \cup UNION {req[i].rows : i \in met}
  BY DEF Meet
<1> HIDE DEF met
<1> QED  BY <1>1, <1>2

LEMMA OwesItsRows ==
    ASSUME NEW i \in Slots, ResidentShape(i), NEW u, Owes(i, u)
    PROVE  u \in req[i].rows /\ req[i] # Idle
BY DEF ResidentShape, Owes, Doing

\* At a unit nobody contests, the request that is there is the one that owes.
LEMMA OwesAlone ==
    ASSUME ResidentsInv, NEW i \in Slots, req[i] # Idle, NEW u \in Units, u \in req[i].rows,
           u \notin contested, u \notin manual
    PROVE  Right(u) \/ Owes(i, u)
<1> SUFFICES ASSUME NEW j \in Slots, Owes(j, u), j # i PROVE FALSE
  BY DEF ResidentsInv
<1>1. u \in req[j].rows /\ req[j] # Idle
  BY OwesItsRows DEF ResidentsInv
<1> QED  BY <1>1 DEF ResidentsInv, Meeting

LEMMA WhoIsActive ==
    ASSUME ResidentsTypeOK, NEW u
    PROVE  \A r : r \in Active(u) <=> r \in People /\ resident[r].status = "ACTIVE" /\ resident[r].unit = u
BY DEF ResidentsTypeOK, Active

LEMMA ResidentsBegin ==
    ASSUME ResidentsInv, UNCHANGED residentVars, NEW i \in Slots, NEW r, Begin(i, r), r # Idle,
           (ResidentShape(i) /\ MoveFound(i) /\ CountFound(i) /\ BulkFound(i))'
    PROVE  ResidentsInv'
<1>1. /\ req[i] = Idle /\ req'[i] = r /\ req' = [j \in Slots |-> req'[j]] /\ contested \subseteq contested'
      /\ \A j \in Slots : j # i => req'[j] = req[j]
  BY BeginAlone DEF ResidentsInv
<1>2. UNCHANGED <<unit, resident, manual, unlooked>> /\ \A u : Active(u)' = Active(u)
  BY DEF residentVars, Active
<1>3. ASSUME NEW j \in Slots PROVE (ResidentShape(j) /\ MoveFound(j) /\ CountFound(j) /\ BulkFound(j))'
  <2>1. CASE j = i
    BY <2>1
  <2>2. CASE j # i
    <3>1. ResidentShape(j) /\ MoveFound(j) /\ CountFound(j) /\ BulkFound(j) /\ req'[j] = req[j]
      BY <1>1, <2>2 DEF ResidentsInv
    <3>2. ResidentShape(j)'
      BY <3>1 DEF ResidentShape
    <3>3. MoveFound(j)'
      BY <1>1, <1>2, <3>1 DEF MoveFound, Doing, Active
    <3>4. CountFound(j)' /\ BulkFound(j)'
      BY <1>1, <1>2, <3>1 DEF CountFound, BulkFound, Doing, Active
    <3> QED  BY <3>2, <3>3, <3>4
  <2> QED  BY <2>1, <2>2
<1>4. ASSUME NEW j \in Slots, NEW k \in Slots, j # k, Meeting(j, k)' PROVE req'[j].rows \subseteq contested'
  <2>1. Meet(r.rows)
    BY DEF Begin
  <2>2. CASE j = i
    BY <1>1, <1>4, <2>1, <2>2, MeetingContests DEF Meeting
  <2>3. CASE k = i
    BY <1>1, <1>4, <2>1, <2>3, MeetingContests DEF Meeting
  <2>4. CASE j # i /\ k # i
    BY <1>1, <1>4, <2>4 DEF Meeting, ResidentsInv
  <2> QED  BY <2>2, <2>3, <2>4
<1>5. \A u \in Units \ contested' : OneActive(u)'
  BY <1>1, <1>2 DEF ResidentsInv, OneActive
<1>6. ASSUME NEW u \in Units, u \notin contested', u \notin manual' PROVE Right(u)' \/ \E j \in Slots : Owes(j, u)'
  <2>1. Right(u) \/ \E j \in Slots : Owes(j, u)
    BY <1>1, <1>2, <1>6 DEF ResidentsInv
  <2>2. Right(u) => Right(u)'
    BY <1>2 DEF Right
  <2>3. ASSUME NEW j \in Slots, Owes(j, u) PROVE Owes(j, u)'
    <3>1. j # i
      BY <1>1, <2>3 DEF Owes, Doing
    <3> QED  BY <1>1, <2>3, <3>1 DEF Owes, Doing
  <2> QED  BY <2>1, <2>2, <2>3
<1>7. ResidentsTypeOK' /\ \A p \in People : resident'[p].status = "none" => resident'[p].unit = NoUnit
  BY <1>2 DEF ResidentsInv, ResidentsTypeOK
<1> QED  BY <1>1, <1>3, <1>4, <1>5, <1>6, <1>7 DEF ResidentsInv

\* A request goes on, ends or is cut short; of what nobody contests it has written its
\* own residents and units at most, and those who have left a unit of its.
LEMMA ResidentsProceed ==
    ASSUME ResidentsInv, NEW i \in Slots, NEW r, req[i] # Idle, req' = [req EXCEPT ![i] = r],
           contested \subseteq contested', r = Idle \/ r.rows \subseteq req[i].rows,
           ResidentsTypeOK', \A p \in People : resident'[p].status = "none" => resident'[p].unit = NoUnit,
           \A p \in People : resident'[p] # resident[p] =>
              \/ p \in req[i].rows /\ resident'[p].unit \in req[i].rows \cup {NoUnit} \cup contested
              \/ resident[p].unit \in req[i].rows /\ resident'[p].unit = NoUnit,
           \A u \in Units : u \notin contested' /\ u \notin req[i].rows =>
              Active(u)' = Active(u) /\ unit'[u] = unit[u] /\ (u \in manual => u \in manual'),
           \A u \in Units : u \notin contested' => OneActive(u)',
           \A u \in Units : u \notin contested' /\ u \notin manual' /\ u \in req[i].rows => Right(u)' \/ Owes(i, u)',
           (ResidentShape(i) /\ MoveFound(i) /\ CountFound(i) /\ BulkFound(i))'
    PROVE  ResidentsInv'
<1>1. req'[i] = r /\ req' = [j \in Slots |-> req'[j]] /\ \A j \in Slots : j # i => req'[j] = req[j]
  BY DEF ResidentsInv
<1>2. ASSUME NEW j \in Slots, j # i PROVE (ResidentShape(j) /\ MoveFound(j) /\ CountFound(j) /\ BulkFound(j))'
  <2>1. ResidentShape(j) /\ MoveFound(j) /\ CountFound(j) /\ BulkFound(j) /\ req'[j] = req[j]
    BY <1>1, <1>2 DEF ResidentsInv
  <2>2. ResidentShape(j)'
    BY <2>1 DEF ResidentShape
  <2>3. req[j] # Idle => \A u \in Units : u \in req[j].rows /\ u \notin contested' =>
                            Active(u)' = Active(u) /\ u \notin req[i].rows
    BY <1>2 DEF ResidentsInv, Meeting
  <2>4. CASE Doing(j, "resident", "write")
    <3> DEFINE p == req[j].resident
               w == req[j].write
    <3>1. /\ p \in People /\ p \in req[j].rows /\ req[j].copy \subseteq req[j].rows
          /\ w.unit \in req[j].copy \cup {NoUnit} /\ w.unit \in Units \cup {NoUnit}
      BY <2>1, <2>4 DEF ResidentShape, Doing, ResidentRow
    <3>2. resident'[p].unit \in req[j].copy \cup {NoUnit} \cup contested'
      <4>1. CASE resident'[p] = resident[p]
        BY <2>1, <2>4, <4>1 DEF MoveFound
      <4>2. CASE resident'[p] # resident[p] /\ p \in req[i].rows /\ resident'[p].unit \in req[i].rows \cup {NoUnit} \cup contested
        <5>1. req[i].rows \subseteq contested
          BY <1>2, <2>4, <3>1, <4>2 DEF ResidentsInv, Meeting, Doing
        <5> QED  BY <4>2, <5>1
      <4>3. CASE resident'[p].unit = NoUnit
        BY <4>3
      <4> QED  BY <3>1, <4>1, <4>2, <4>3
    <3>3. ASSUME w.status = "ACTIVE", w.unit \notin contested', w.unit # NoUnit
          PROVE  IF req[j].looked THEN \A u : u = w.unit => Active(u)' \subseteq {p} ELSE resident'[p].unit = w.unit
      <4>1. w.unit \in Units /\ w.unit \in req[j].rows /\ req[j] # Idle
        BY <2>4, <3>1, <3>3 DEF Doing
      <4>2. IF req[j].looked THEN Active(w.unit) \subseteq {p} ELSE resident[p].unit = w.unit
        BY <2>1, <2>4, <3>3 DEF MoveFound
      <4>3. \A u : u = w.unit => Active(u)' = Active(u)
        BY <2>3, <3>3, <4>1
      <4>4. ~req[j].looked => resident'[p] = resident[p]
        <5> SUFFICES ASSUME ~req[j].looked, resident'[p] # resident[p] PROVE FALSE
          OBVIOUS
        <5>1. p \in req[i].rows \/ resident[p].unit \in req[i].rows
          BY <3>1
        <5>2. p \in req[j].rows /\ resident[p].unit \in req[j].rows
          BY <3>1, <4>1, <4>2
        <5>3. req[j].rows \subseteq contested
          BY <1>2, <4>1, <5>1, <5>2 DEF ResidentsInv, Meeting
        <5> QED  BY <3>3, <4>1, <5>3
      <4> QED  BY <4>2, <4>3, <4>4
    <3>4. MoveFound(j)'
      <4>1. req'[j] = req[j]
        BY <2>1
      <4> QED  BY <3>2, <3>3, <4>1 DEF MoveFound, Active
    <3>5. CountFound(j)' /\ BulkFound(j)'
      BY <2>1, <2>4 DEF CountFound, BulkFound, Doing
    <3> QED  BY <2>2, <3>4, <3>5
  <2>5. CASE ~Doing(j, "resident", "write")
    <3>1. MoveFound(j)'
      BY <2>1, <2>5 DEF MoveFound, Doing
    <3>2. Doing(j, "resident", "sync") /\ req[j].unit \notin contested' =>
             \A u : u = req[j].unit => (req[j].status = "OCCUPIED" <=> Active(u)' # {})
      BY <2>1, <2>3 DEF CountFound, ResidentShape, Doing
    <3>3. CountFound(j)'
      BY <2>1, <3>2 DEF CountFound, Doing, Active
    <3>4. req[j] # Idle /\ req[j].op = "bulk" =>
             /\ \A p \in req[j].left : req[j].todo[p] \notin contested' \cup req[j].taken =>
                   \A u : u = req[j].todo[p] => Active(u)' = {}
             /\ \A u \in req[j].taken \ contested' : Active(u)' # {}
      BY <2>1, <2>3 DEF BulkFound, ResidentShape
    <3>5. BulkFound(j)'
      BY <2>1, <3>4 DEF BulkFound, Active
    <3> QED  BY <2>2, <3>1, <3>3, <3>5
  <2> QED  BY <2>4, <2>5
<1>3. ASSUME NEW j \in Slots, NEW k \in Slots, j # k, Meeting(j, k)' PROVE req'[j].rows \subseteq contested'
  BY <1>1, <1>3 DEF Meeting, ResidentsInv
<1>4. ASSUME NEW u \in Units, u \notin contested', u \notin manual' PROVE Right(u)' \/ \E j \in Slots : Owes(j, u)'
  <2>1. CASE u \in req[i].rows
    BY <1>4, <2>1
  <2>2. CASE u \notin req[i].rows
    <3>1. Right(u) \/ \E j \in Slots : Owes(j, u)
      BY <1>4, <2>2 DEF ResidentsInv
    <3>2. Right(u) => Right(u)'
      BY <1>4, <2>2 DEF Right
    <3>3. ASSUME NEW j \in Slots, Owes(j, u) PROVE Owes(j, u)'
      <4>1. j # i
        BY <2>2, <3>3, OwesItsRows DEF ResidentsInv
      <4> QED  BY <1>1, <3>3, <4>1 DEF Owes, Doing
    <3> QED  BY <3>1, <3>2, <3>3
  <2> QED  BY <2>1, <2>2
<1> QED  BY <1>1, <1>2, <1>3, <1>4 DEF ResidentsInv

\* A resident is read, to be written.
LEMMA MoveBegins ==
    ASSUME ResidentsInv, NEW i \in Slots, NEW p \in People, NEW w \in ResidentRow, NEW us, NEW looked,
           Write(i, p, w, us, looked), us \subseteq Units \cup {NoUnit}, w.unit \in us \cup {NoUnit},
           w.status = "none" => w.unit = NoUnit, resident[p].unit \in us \cup {NoUnit},
           w.status = "ACTIVE" /\ w.unit # NoUnit =>
              IF looked THEN Active(w.unit) \subseteq {p} ELSE resident[p].unit = w.unit
    PROVE  ResidentsInv'
<1> DEFINE copy == us \ {NoUnit}
           r == [op |-> "resident", rows |-> {p} \cup copy, resident |-> p, write |-> w,
                 copy |-> copy, looked |-> looked, step |-> "write"]
<1>1. Begin(i, r) /\ UNCHANGED residentVars
  BY DEF Write, RowsOf
<1>2. copy \subseteq Units /\ w.unit \in copy \cup {NoUnit} /\ resident[p].unit \in copy \cup {NoUnit}
  BY NoUnitIsNone
<1> HIDE DEF copy
<1>3. r # Idle
  BY DEF Idle
<1>4. req'[i] = r /\ resident' = resident
  BY <1>1, BeginAlone DEF ResidentsInv, residentVars
<1>5. ResidentShape(i)'
  BY <1>2, <1>3, <1>4 DEF ResidentShape
<1>6. MoveFound(i)'
  <2>1. contested \subseteq contested'
    BY <1>1, BeginAlone DEF ResidentsInv
  <2>2. /\ req'[i].resident = p /\ req'[i].write = w /\ req'[i].copy = copy /\ req'[i].looked = looked
    BY <1>4
  <2> QED  BY <1>2, <1>4, <2>1, <2>2 DEF MoveFound, Active
<1>7. CountFound(i)' /\ BulkFound(i)'
  BY <1>4 DEF CountFound, BulkFound, Doing
<1> HIDE DEF r
<1> QED  BY <1>1, <1>3, <1>5, <1>6, <1>7, ResidentsBegin

LEMMA ResidentMoves ==
    ASSUME ResidentsInv, NEW i \in Slots, NEW p \in People,
           CreateResident(i, p) \/ UpdateResident(i, p) \/ DeleteResident(i, p)
    PROVE  ResidentsInv'
<1>1. resident[p] \in ResidentRow /\ (~Exists(p) => resident[p].unit = NoUnit) /\ Places \subseteq Units \cup {NoUnit}
  BY DEF ResidentsInv, ResidentsTypeOK, ResidentRow, Exists, Places
<1>2. resident[p].unit \in Units \cup {NoUnit} /\ resident[p].status \in {"none", "ACTIVE", "INACTIVE"}
  BY <1>1 DEF ResidentRow
<1>3. \A s, u : s \in {"none", "ACTIVE", "INACTIVE"} /\ u \in Units \cup {NoUnit} => [status |-> s, unit |-> u] \in ResidentRow
  BY DEF ResidentRow
<1>4. CASE CreateResident(i, p)
  <2>1. PICK u \in Places, s \in {"ACTIVE", "INACTIVE"} :
          /\ u # NoUnit => Active(u) = {}
          /\ Write(i, p, [status |-> s, unit |-> u], {u}, TRUE)
    BY <1>4 DEF CreateResident
  <2> DEFINE w == [status |-> s, unit |-> u]
  <2>2. w \in ResidentRow /\ w.unit = u /\ w.status # "none" /\ ~Exists(p)
    BY <1>1, <1>3, <1>4 DEF CreateResident
  <2>3. Write(i, p, w, {u}, TRUE)
    BY <2>1
  <2>4. {u} \subseteq Units \cup {NoUnit} /\ w.unit \in {u} \cup {NoUnit} /\ resident[p].unit \in {u} \cup {NoUnit}
    BY <1>1, <2>1, <2>2
  <2> HIDE DEF w
  <2>5. w.unit # NoUnit => Active(w.unit) \subseteq {p}
    BY <2>1, <2>2
  <2> QED  BY <2>2, <2>3, <2>4, <2>5, MoveBegins
<1>5. CASE UpdateResident(i, p)
  <2>1. ASSUME NEW u \in Places, NEW s \in {resident[p].status, "ACTIVE", "INACTIVE"},
               u # NoUnit => Active(u) \subseteq {p},
               Write(i, p, [status |-> s, unit |-> u], {resident[p].unit, u}, TRUE)
        PROVE  ResidentsInv'
    <3> DEFINE w == [status |-> s, unit |-> u]
    <3>1. w \in ResidentRow /\ w.unit = u /\ w.status # "none"
      BY <1>1, <1>2, <1>3, <1>5 DEF UpdateResident, Exists
    <3>2. Write(i, p, w, {resident[p].unit, u}, TRUE)
      BY <2>1
    <3> HIDE DEF w
    <3>3. w.unit # NoUnit => Active(w.unit) \subseteq {p}
      BY <2>1, <3>1
    <3> DEFINE us == {resident[p].unit, u}
    <3>4. us \subseteq Units \cup {NoUnit} /\ w.unit \in us \cup {NoUnit} /\ resident[p].unit \in us \cup {NoUnit}
      BY <1>1, <1>2, <2>1, <3>1
    <3>5. Write(i, p, w, us, TRUE)
      BY <3>2
    <3> HIDE DEF us
    <3> QED  BY <3>1, <3>3, <3>4, <3>5, MoveBegins
  <2>2. ASSUME NEW s \in {"ACTIVE", "INACTIVE"},
               Write(i, p, [status |-> s, unit |-> resident[p].unit], {resident[p].unit}, FALSE)
        PROVE  ResidentsInv'
    <3> DEFINE w == [status |-> s, unit |-> resident[p].unit]
    <3>1. w \in ResidentRow /\ w.unit = resident[p].unit /\ w.status # "none"
      BY <1>2, <1>3
    <3>2. Write(i, p, w, {resident[p].unit}, FALSE)
      BY <2>2
    <3> HIDE DEF w
    <3> QED  BY <1>2, <3>1, <3>2, MoveBegins
  <2> QED  BY <1>5, <2>1, <2>2 DEF UpdateResident
<1>6. CASE DeleteResident(i, p)
  <2>1. PICK w \in {NoResident, [status |-> "INACTIVE", unit |-> NoUnit]} : Write(i, p, w, {resident[p].unit}, TRUE)
    BY <1>6 DEF DeleteResident
  <2>2. w \in ResidentRow /\ w.unit = NoUnit
    BY <1>3 DEF NoResident
  <2> QED  BY <1>2, <2>1, <2>2, MoveBegins
<1> QED  BY <1>4, <1>5, <1>6

\* The other requests that only read.
LEMMA ResidentArrivals ==
    ASSUME ResidentsInv, NEW i \in Slots, CommitBulkTenantInvites(i) \/ \E u \in Units : DeleteUnit(i, u)
    PROVE  ResidentsInv'
<1>1. CASE CommitBulkTenantInvites(i)
  <2>0. PICK new \in SUBSET {r \in People : ~Exists(r) /\ Fresh(r)} \ {{}} :
          \E rows \in [new -> {u \in Units : unit[u] # "none" /\ Active(u) = {}}] :
          /\ Begin(i, [op |-> "bulk", rows |-> DOMAIN rows \cup {rows[r] : r \in DOMAIN rows},
                       todo |-> rows, left |-> DOMAIN rows, taken |-> {}, step |-> "create"])
          /\ UNCHANGED residentVars
    BY <1>1 DEF CommitBulkTenantInvites
  <2>1. PICK rows \in [new -> {u \in Units : unit[u] # "none" /\ Active(u) = {}}] :
          /\ Begin(i, [op |-> "bulk", rows |-> DOMAIN rows \cup {rows[r] : r \in DOMAIN rows},
                       todo |-> rows, left |-> DOMAIN rows, taken |-> {}, step |-> "create"])
          /\ UNCHANGED residentVars
    BY <2>0
  <2> DEFINE at == DOMAIN rows \cup {rows[r] : r \in DOMAIN rows}
             q == [op |-> "bulk", rows |-> at, todo |-> rows, left |-> new, taken |-> {}, step |-> "create"]
  <2>2. new \subseteq People /\ new \subseteq at /\ \A r \in new : rows[r] \in Units /\ rows[r] \in at /\ Active(rows[r]) = {}
    BY <2>1
  <2>3. Begin(i, q) /\ UNCHANGED resident
    BY <2>1 DEF residentVars
  <2> HIDE DEF at
  <2>4. q # Idle
    BY DEF Idle
  <2>5. req'[i] = q
    BY <2>3, BeginAlone DEF ResidentsInv
  <2>6. ResidentShape(i)'
    BY <2>2, <2>4, <2>5 DEF ResidentShape
  <2>7. MoveFound(i)' /\ CountFound(i)'
    BY <2>5 DEF MoveFound, CountFound, Doing
  <2>8. BulkFound(i)'
    <3>1. \A u : Active(u)' = Active(u)
      BY <2>3 DEF Active
    <3>2. req'[i].left = new /\ req'[i].taken = {} /\ req'[i].todo = rows
      BY <2>5
    <3>3. \A r \in new : rows[r] \in Units /\ {p \in People : resident'[p] = [status |-> "ACTIVE", unit |-> rows[r]]} = {}
      BY <2>2, <2>3 DEF Active
    <3> QED  BY <3>2, <3>3 DEF BulkFound, Active
  <2> HIDE DEF q
  <2> QED  BY <2>1, <2>3, <2>4, <2>6, <2>7, <2>8, ResidentsBegin
<1>2. ASSUME NEW u \in Units, DeleteUnit(i, u) PROVE ResidentsInv'
  <2> DEFINE q == [op |-> "deleteUnit", rows |-> {u}, unit |-> u, step |-> "delete"]
  <2>1. Begin(i, q) /\ UNCHANGED residentVars
    BY <1>2 DEF DeleteUnit
  <2>2. q # Idle
    BY DEF Idle
  <2>3. req'[i] = q
    BY <2>1, BeginAlone DEF ResidentsInv
  <2>4. ResidentShape(i)'
    BY <2>2, <2>3 DEF ResidentShape
  <2>5. MoveFound(i)' /\ CountFound(i)' /\ BulkFound(i)'
    BY <2>3 DEF MoveFound, CountFound, BulkFound, Doing
  <2> HIDE DEF q
  <2> QED  BY <2>1, <2>2, <2>4, <2>5, ResidentsBegin
<1> QED  BY <1>1, <1>2

\* The row of the resident is written.
LEMMA ResidentWrites ==
    ASSUME ResidentsInv, NEW i \in Slots, WriteResident(i)
    PROVE  ResidentsInv'
<1> DEFINE p == req[i].resident
           w == req[i].write
           copy == req[i].copy
           q == [op |-> "resident", rows |-> req[i].rows, copy |-> copy, step |-> "count"]
<1>1. /\ req[i] # Idle /\ req[i].op = "resident" /\ req[i].step = "write"
      /\ resident' = [resident EXCEPT ![p] = w] /\ UNCHANGED <<unit, manual>>
      /\ unlooked' = IF req[i].looked \/ w.status # "ACTIVE" THEN unlooked \ {p}
                     ELSE IF resident[p].status = "ACTIVE" THEN unlooked ELSE unlooked \cup {p}
      /\ req' = [req EXCEPT ![i] = q] /\ contested' = contested
  BY DEF WriteResident, Proceed
<1>2. /\ p \in People /\ w \in ResidentRow /\ (w.status = "none" => w.unit = NoUnit)
      /\ copy \subseteq Units /\ req[i].rows = {p} \cup copy /\ w.unit \in copy \cup {NoUnit} /\ MoveFound(i)
  BY <1>1 DEF ResidentsInv, ResidentShape
<1>3. /\ resident[p].unit \in copy \cup {NoUnit} \cup contested
      /\ w.status = "ACTIVE" /\ w.unit \notin contested \cup {NoUnit} =>
            IF req[i].looked THEN Active(w.unit) \subseteq {p} ELSE resident[p].unit = w.unit
  BY <1>1, <1>2 DEF MoveFound, Doing
<1> HIDE DEF p, w, copy
<1>4. \A r \in People : resident'[r] = IF r = p THEN w ELSE resident[r]
  BY <1>1, <1>2 DEF ResidentsInv, ResidentsTypeOK
<1>5. ResidentsTypeOK'
  BY <1>1, <1>2 DEF ResidentsInv, ResidentsTypeOK, ResidentRow
<1>6. \A u : /\ \A r : r \in Active(u)' <=> IF r = p THEN w.status = "ACTIVE" /\ w.unit = u ELSE r \in Active(u)
             /\ \A r : r \in Active(u) <=> r \in People /\ resident[r].status = "ACTIVE" /\ resident[r].unit = u
  <2>1. \A u : \A r : r \in Active(u) <=> r \in People /\ resident[r].status = "ACTIVE" /\ resident[r].unit = u
    BY WhoIsActive DEF ResidentsInv
  <2>2. \A u : \A r : r \in Active(u)' <=> r \in People /\ resident'[r].status = "ACTIVE" /\ resident'[r].unit = u
    BY <1>5 DEF ResidentsTypeOK, Active
  <2> QED  BY <1>2, <1>4, <2>1, <2>2
<1>7. \A u \in Units : u \notin contested /\ u \notin req[i].rows => Active(u)' = Active(u)
  <2> SUFFICES ASSUME NEW u \in Units, u \notin contested, u \notin req[i].rows PROVE Active(u)' = Active(u)
    OBVIOUS
  <2>1. p \notin Active(u) /\ w.unit # u
    BY <1>2, <1>3, <1>6, NoUnitIsNone
  <2>2. \A r : r \in Active(u)' <=> r \in Active(u)
    BY <1>6, <2>1
  <2> QED  BY <2>2
<1>8. ASSUME NEW u \in Units, u \notin contested PROVE OneActive(u)'
  <2> SUFFICES ASSUME NEW r, NEW s, r \in Active(u)', s \in Active(u)', r \notin unlooked', s \notin unlooked', r # s
               PROVE  FALSE
    BY DEF OneActive
  <2>1. OneActive(u)
    BY <1>8 DEF ResidentsInv
  <2>2. CASE r # p /\ s # p
    <3>1. r \notin unlooked /\ s \notin unlooked
      BY <1>1, <2>2
    <3> QED  BY <1>6, <2>1, <2>2, <3>1 DEF OneActive
  <2>3. CASE r = p \/ s = p
    <3>1. w.status = "ACTIVE" /\ w.unit = u /\ u # NoUnit /\ p \notin unlooked'
      BY <1>6, <2>3, NoUnitIsNone
    <3>2. CASE req[i].looked
      BY <1>3, <1>6, <1>8, <2>3, <3>1, <3>2
    <3>3. CASE ~req[i].looked
      <4>1. resident[p].unit = u /\ resident[p].status = "ACTIVE" /\ unlooked' = unlooked
        BY <1>1, <1>3, <1>8, <3>1, <3>3
      <4>2. p \in Active(u)
        BY <1>2, <1>6, <4>1
      <4> QED  BY <1>6, <2>1, <4>1, <4>2 DEF OneActive
    <3> QED  BY <3>2, <3>3
  <2> QED  BY <2>2, <2>3
<1>9. q # Idle
  BY DEF Idle
<1>10. req'[i] = q /\ q.rows \subseteq req[i].rows
  BY <1>1 DEF ResidentsInv
<1>11. ResidentShape(i)' /\ MoveFound(i)' /\ CountFound(i)' /\ BulkFound(i)'
  BY <1>2, <1>9, <1>10 DEF ResidentShape, MoveFound, CountFound, BulkFound, Doing
<1>12. ASSUME NEW u \in Units, u \notin contested, u \notin manual, u \in req[i].rows PROVE Right(u)' \/ Owes(i, u)'
  <2>1. CASE u \in copy
    BY <1>9, <1>10, <2>1 DEF Owes, Doing
  <2>2. CASE u \notin copy
    <3>1. ~Owes(i, u)
      BY <1>1, <2>2 DEF Owes, Doing, copy
    <3>2. Right(u)
      BY <1>1, <1>12, <3>1, OwesAlone
    <3>3. p \notin Active(u) /\ w.unit # u
      BY <1>2, <1>3, <1>6, <1>12, <2>2, NoUnitIsNone
    <3>4. Active(u)' = Active(u)
      BY <1>6, <3>3
    <3> QED  BY <1>1, <3>2, <3>4 DEF Right
  <2> QED  BY <2>1, <2>2
<1>13. \A r \in People : resident'[r] # resident[r] =>
          r \in req[i].rows /\ resident'[r].unit \in req[i].rows \cup {NoUnit} \cup contested
  BY <1>2, <1>4
<1>14. \A r \in People : resident'[r].status = "none" => resident'[r].unit = NoUnit
  BY <1>2, <1>4 DEF ResidentsInv
<1> HIDE DEF q
<1> QED  BY <1>1, <1>5, <1>7, <1>8, <1>10, <1>11, <1>12, <1>13, <1>14, ResidentsProceed

\* A request goes on, ends or is cut short with nothing written: what it owes it owes
\* still, or the unit is right.
LEMMA ResidentsQuiet ==
    ASSUME ResidentsInv, UNCHANGED residentVars, NEW i \in Slots, NEW r, req[i] # Idle,
           req' = [req EXCEPT ![i] = r], contested \subseteq contested', r = Idle \/ r.rows \subseteq req[i].rows,
           \A u \in Units : Owes(i, u) => u \in contested' \/ Owes(i, u)' \/ Right(u),
           (ResidentShape(i) /\ MoveFound(i) /\ CountFound(i) /\ BulkFound(i))'
    PROVE  ResidentsInv'
<1>1. UNCHANGED <<unit, resident, manual, unlooked>> /\ \A u : Active(u)' = Active(u)
  BY DEF residentVars, Active
<1>2. ResidentsTypeOK' /\ \A p \in People : resident'[p].status = "none" => resident'[p].unit = NoUnit
  BY <1>1 DEF ResidentsInv, ResidentsTypeOK
<1>3. \A u : (OneActive(u) => OneActive(u)') /\ (Right(u) => Right(u)')
  BY <1>1 DEF OneActive, Right
<1>4. \A u \in Units : u \notin contested' /\ u \notin manual' /\ u \in req[i].rows => Right(u)' \/ Owes(i, u)'
  BY <1>1, <1>3, OwesAlone
<1>5. \A u \in Units : u \notin contested' => OneActive(u)'
  BY <1>3 DEF ResidentsInv
<1> QED  BY <1>1, <1>2, <1>4, <1>5, ResidentsProceed

LEMMA ResidentsCount ==
    ASSUME ResidentsInv, NEW i \in Slots, CountActive(i)
    PROVE  ResidentsInv'
<1>1. /\ req[i] # Idle /\ req[i].op = "resident" /\ req[i].step = "count" /\ UNCHANGED residentVars
      /\ \A u \in Units : Owes(i, u) => u \in req[i].copy
  BY DEF CountActive, Owes, Doing
<1>2. req[i].copy \subseteq Units /\ req[i].copy \subseteq req[i].rows
  BY <1>1 DEF ResidentsInv, ResidentShape
<1>3. CASE req[i].copy = {}
  <2>1. req' = [req EXCEPT ![i] = Idle] /\ contested' = contested
    BY <1>3 DEF CountActive, End, Proceed
  <2>2. req'[i] = Idle
    BY <2>1 DEF ResidentsInv
  <2>3. (ResidentShape(i) /\ MoveFound(i) /\ CountFound(i) /\ BulkFound(i))'
    BY <2>2 DEF ResidentShape, MoveFound, CountFound, BulkFound, Doing
  <2> QED  BY <1>1, <1>3, <2>1, <2>3, ResidentsQuiet
<1>4. CASE req[i].copy # {}
  <2>1. PICK u \in req[i].copy :
          Proceed(i, [op |-> "resident", rows |-> req[i].rows, copy |-> req[i].copy \ {u}, step |-> "sync",
                      unit |-> u, status |-> IF Active(u) # {} THEN "OCCUPIED" ELSE "VACANT"])
    BY <1>4 DEF CountActive
  <2> DEFINE status == IF Active(u) # {} THEN "OCCUPIED" ELSE "VACANT"
             r == [op |-> "resident", rows |-> req[i].rows, copy |-> req[i].copy \ {u}, step |-> "sync",
                   unit |-> u, status |-> status]
  <2>2. req' = [req EXCEPT ![i] = r] /\ contested' = contested
    BY <2>1 DEF Proceed
  <2>3. status \in {"OCCUPIED", "VACANT"} /\ (status = "OCCUPIED" <=> Active(u) # {})
    OBVIOUS
  <2> HIDE DEF status
  <2>4. req'[i] = r /\ r # Idle
    BY <2>2 DEF ResidentsInv, Idle
  <2>5. ResidentShape(i)'
    BY <1>2, <2>3, <2>4 DEF ResidentShape
  <2>6. MoveFound(i)' /\ BulkFound(i)'
    BY <2>4 DEF MoveFound, BulkFound, Doing
  <2>7. CountFound(i)'
    <3>1. Active(u)' = Active(u) /\ req'[i].unit = u /\ req'[i].status = status
      BY <1>1, <2>4 DEF residentVars, Active
    <3> QED  BY <2>3, <3>1 DEF CountFound, Active
  <2>8. \A v \in Units : Owes(i, v) => Owes(i, v)'
    BY <1>1, <2>4 DEF Owes, Doing
  <2>9. r.rows = req[i].rows
    OBVIOUS
  <2> HIDE DEF r
  <2> QED  BY <1>1, <2>2, <2>5, <2>6, <2>7, <2>8, <2>9, ResidentsQuiet
<1> QED  BY <1>3, <1>4

\* The status is copied.
LEMMA ResidentsSync ==
    ASSUME ResidentsInv, NEW i \in Slots, SyncUnitOccupancy(i)
    PROVE  ResidentsInv'
<1> DEFINE v == req[i].unit
           r == [op |-> "resident", rows |-> req[i].rows, copy |-> req[i].copy, step |-> "count"]
<1>1. /\ req[i] # Idle /\ req[i].op = "resident" /\ req[i].step = "sync" /\ UNCHANGED <<resident, unlooked>>
      /\ unit' = IF unit[v] = "none" THEN unit ELSE [unit EXCEPT ![v] = req[i].status]
      /\ manual' = manual \ {v} /\ req' = [req EXCEPT ![i] = r] /\ contested' = contested
  BY DEF SyncUnitOccupancy, Proceed
<1>2. /\ req[i].copy \subseteq Units /\ req[i].copy \subseteq req[i].rows /\ v \in Units /\ v \in req[i].rows
      /\ req[i].status \in {"OCCUPIED", "VACANT"} /\ CountFound(i)
  BY <1>1 DEF ResidentsInv, ResidentShape
<1>3. req'[i] = r /\ r # Idle /\ r.rows = req[i].rows
  BY <1>1 DEF ResidentsInv, Idle
<1>4. (ResidentShape(i) /\ MoveFound(i) /\ CountFound(i) /\ BulkFound(i))'
  BY <1>2, <1>3 DEF ResidentShape, MoveFound, CountFound, BulkFound, Doing
<1>5. \A u : Active(u)' = Active(u)
  BY <1>1 DEF Active
<1>6. ResidentsTypeOK' /\ \A p \in People : resident'[p].status = "none" => resident'[p].unit = NoUnit
  BY <1>1, <1>2 DEF ResidentsInv, ResidentsTypeOK
<1>7. \A u \in Units : u \notin contested => OneActive(u)'
  BY <1>1, <1>5 DEF ResidentsInv, OneActive
<1>8. ASSUME NEW u \in Units, u \notin contested, u \notin manual', u \in req[i].rows PROVE Right(u)' \/ Owes(i, u)'
  <2>1. CASE u = v
    <3>1. req[i].status = "OCCUPIED" <=> Active(v) # {}
      BY <1>1, <1>2, <1>8, <2>1 DEF CountFound, Doing
    <3>2. unit'[u] = IF unit[v] = "none" THEN "none" ELSE req[i].status
      BY <1>1, <1>2, <2>1 DEF ResidentsInv, ResidentsTypeOK
    <3>3. Active(u)' = Active(v)
      BY <1>5, <2>1
    <3> HIDE DEF v
    <3> QED  BY <1>2, <3>1, <3>2, <3>3 DEF Right
  <2>2. CASE u # v
    <3>1. Right(u) \/ Owes(i, u)
      BY <1>1, <1>8, <2>2, OwesAlone
    <3>2. Right(u) => Right(u)'
      BY <1>1, <1>5, <2>2 DEF Right, ResidentsInv, ResidentsTypeOK
    <3>3. Owes(i, u) => Owes(i, u)'
      BY <1>1, <1>3, <2>2 DEF Owes, Doing
    <3> QED  BY <3>1, <3>2, <3>3
  <2> QED  BY <2>1, <2>2
<1>9. \A u \in Units : u \notin contested /\ u \notin req[i].rows =>
         Active(u)' = Active(u) /\ unit'[u] = unit[u] /\ (u \in manual => u \in manual')
  BY <1>1, <1>2, <1>5 DEF ResidentsInv, ResidentsTypeOK
<1> HIDE DEF r
<1> QED  BY <1>1, <1>3, <1>4, <1>6, <1>7, <1>8, <1>9, ResidentsProceed

\* A row of the upload becomes a resident.
LEMMA BulkCreates ==
    ASSUME ResidentsInv, NEW i \in Slots, CreateBulkResident(i)
    PROVE  ResidentsInv'
<1>1. PICK p \in req[i].left :
        /\ ~Exists(p)
        /\ resident' = [resident EXCEPT ![p] = [status |-> "ACTIVE", unit |-> req[i].todo[p]]]
        /\ unlooked' = IF req[i].todo[p] \in req[i].taken THEN unlooked \cup {p} ELSE unlooked \ {p}
        /\ Proceed(i, [req[i] EXCEPT !.step = "mark", !.left = @ \ {p}, !.taken = @ \cup {req[i].todo[p]}])
  BY DEF CreateBulkResident
<1> DEFINE v == req[i].todo[p]
           row == [status |-> "ACTIVE", unit |-> v]
           r == [req[i] EXCEPT !.step = "mark", !.left = req[i].left \ {p}, !.taken = req[i].taken \cup {v}]
<1>2. /\ req[i] # Idle /\ req[i].op = "bulk" /\ req[i].step = "create" /\ UNCHANGED <<unit, manual>>
      /\ resident' = [resident EXCEPT ![p] = row] /\ req' = [req EXCEPT ![i] = r] /\ contested' = contested
  BY <1>1 DEF CreateBulkResident, Proceed
<1>3. /\ {"op", "rows", "step", "left", "taken", "todo"} \subseteq DOMAIN req[i]
      /\ req[i].left \subseteq People /\ req[i].left \subseteq req[i].rows
      /\ \A x \in req[i].left : req[i].todo[x] \in Units /\ req[i].todo[x] \in req[i].rows
      /\ req[i].taken \subseteq Units /\ req[i].taken \subseteq req[i].rows /\ BulkFound(i)
  BY <1>2 DEF ResidentsInv, ResidentShape
<1>4. /\ DOMAIN r = DOMAIN req[i] /\ r.op = "bulk" /\ r.step = "mark" /\ r.rows = req[i].rows
      /\ r.left = req[i].left \ {p} /\ r.taken = req[i].taken \cup {v} /\ r.todo = req[i].todo
  BY <1>2, <1>3
<1>5. p \in People /\ p \in req[i].rows /\ v \in Units /\ v \in req[i].rows /\ row \in ResidentRow
      /\ row.status = "ACTIVE" /\ row.unit = v
  BY <1>3 DEF ResidentRow
<1> HIDE DEF r, row
<1>6. req'[i] = r /\ r # Idle
  BY <1>2, <1>4 DEF ResidentsInv, Idle
<1>7. \A x \in People : resident'[x] = IF x = p THEN row ELSE resident[x]
  BY <1>2, <1>5 DEF ResidentsInv, ResidentsTypeOK
<1>8. ResidentsTypeOK' /\ \A x \in People : resident'[x].status = "none" => resident'[x].unit = NoUnit
  <2>1. unlooked' \subseteq People
    BY <1>1, <1>5 DEF ResidentsInv, ResidentsTypeOK
  <2> QED  BY <1>2, <1>5, <1>7, <2>1 DEF ResidentsInv, ResidentsTypeOK, ResidentRow
<1>9. resident[p].status = "none" /\ resident[p].unit = NoUnit
  BY <1>1, <1>5 DEF Exists, ResidentsInv
<1>10. \A u : \A x : x \in Active(u)' <=> (x = p /\ u = v) \/ (x # p /\ x \in Active(u))
  <2>1. \A u : \A x : x \in Active(u) <=> x \in People /\ resident[x].status = "ACTIVE" /\ resident[x].unit = u
    BY WhoIsActive DEF ResidentsInv
  <2>2. \A u : \A x : x \in Active(u)' <=> x \in People /\ resident'[x].status = "ACTIVE" /\ resident'[x].unit = u
    BY <1>8 DEF ResidentsTypeOK, Active
  <2> HIDE DEF v
  <2> QED  BY <1>5, <1>7, <2>1, <2>2
<1>11. \A u : p \notin Active(u)
  BY <1>9, WhoIsActive DEF ResidentsInv
<1>12. \A u : u # v => Active(u)' = Active(u)
  <2> SUFFICES ASSUME NEW u, u # v PROVE Active(u)' = Active(u)
    OBVIOUS
  <2>1. \A x : x \in Active(u)' <=> x \in Active(u)
    BY <1>10, <1>11
  <2> QED  BY <2>1
<1>13. \A u \in Units : u \notin contested => OneActive(u)'
  <2> SUFFICES ASSUME NEW u \in Units, u \notin contested, NEW x, NEW y, x \in Active(u)', y \in Active(u)',
                      x \notin unlooked', y \notin unlooked', x # y
               PROVE  FALSE
    BY DEF OneActive
  <2>1. OneActive(u)
    BY DEF ResidentsInv
  <2>2. CASE u # v \/ v \in req[i].taken
    <3>1. x # p /\ y # p
      BY <1>1, <1>10, <2>2
    <3>2. x \in Active(u) /\ y \in Active(u) /\ x \notin unlooked /\ y \notin unlooked
      BY <1>1, <1>10, <3>1
    <3> QED  BY <2>1, <3>2 DEF OneActive
  <2>3. CASE u = v /\ v \notin req[i].taken
    <3>1. Active(v) = {}
      BY <1>2, <1>3, <2>3 DEF BulkFound
    <3> QED  BY <1>10, <2>3, <3>1
  <2> QED  BY <2>2, <2>3
<1>14. ResidentShape(i)'
  BY <1>3, <1>4, <1>5, <1>6 DEF ResidentShape
<1>15. MoveFound(i)' /\ CountFound(i)'
  BY <1>4, <1>6 DEF MoveFound, CountFound, Doing
<1>16. BulkFound(i)'
  <2>1. ASSUME NEW x \in req[i].left \ {p}, req[i].todo[x] \notin contested \cup req[i].taken \cup {v}
        PROVE  \A u : u = req[i].todo[x] => Active(u)' = {}
    <3>1. Active(req[i].todo[x]) = {}
      BY <1>2, <1>3, <2>1 DEF BulkFound
    <3> QED  BY <1>12, <2>1, <3>1
  <2>2. \A u \in (req[i].taken \cup {v}) \ contested : Active(u)' # {}
    <3>1. \A u \in req[i].taken \ contested : Active(u) # {}
      BY <1>2, <1>3 DEF BulkFound
    <3>2. \A u : u = v => p \in Active(u)'
      BY <1>10
    <3> QED  BY <1>12, <3>1, <3>2
  <2>3. req'[i].left = req[i].left \ {p} /\ req'[i].taken = req[i].taken \cup {v} /\ req'[i].todo = req[i].todo
    BY <1>4, <1>6
  <2>4. \A x \in req'[i].left : req'[i].todo[x] \notin contested' \cup req'[i].taken => \A u : u = req'[i].todo[x] => Active(u)' = {}
    BY <1>2, <2>1, <2>3
  <2>5. \A u \in req'[i].taken \ contested' : Active(u)' # {}
    BY <1>2, <2>2, <2>3
  <2> QED  BY <2>4, <2>5 DEF BulkFound, Active
<1>17. ASSUME NEW u \in Units, u \notin contested, u \notin manual', u \in req[i].rows PROVE Right(u)' \/ Owes(i, u)'
  <2>1. CASE u = v
    BY <1>4, <1>6, <2>1 DEF Owes, Doing
  <2>2. CASE u # v
    <3>1. ~Owes(i, u)
      BY <1>2 DEF Owes, Doing
    <3>2. Right(u)
      BY <1>2, <1>17, <3>1, OwesAlone
    <3> QED  BY <1>2, <1>12, <2>2, <3>2 DEF Right
  <2> QED  BY <2>1, <2>2
<1>18. \A x \in People : resident'[x] # resident[x] =>
          x \in req[i].rows /\ resident'[x].unit \in req[i].rows \cup {NoUnit} \cup contested
  BY <1>5, <1>7
<1>19. \A u \in Units : u \notin contested /\ u \notin req[i].rows => Active(u)' = Active(u)
  BY <1>5, <1>12
<1> QED  BY <1>2, <1>4, <1>8, <1>13, <1>14, <1>15, <1>16, <1>17, <1>18, <1>19, ResidentsProceed

\* The units of the rows written so far are marked.
LEMMA BulkMarks ==
    ASSUME ResidentsInv, NEW i \in Slots, MarkOccupied(i)
    PROVE  ResidentsInv'
<1> DEFINE r == [req[i] EXCEPT !.step = "create"]
           q == IF req[i].left = {} THEN Idle ELSE r
<1>1. /\ req[i] # Idle /\ req[i].op = "bulk" /\ req[i].step = "mark" /\ UNCHANGED <<resident, unlooked>>
      /\ unit' = [u \in Units |-> IF u \in req[i].taken /\ unit[u] # "none" THEN "OCCUPIED" ELSE unit[u]]
      /\ manual' = manual \ req[i].taken /\ req' = [req EXCEPT ![i] = q] /\ contested' = contested
  <2>1. req[i].left = {} => req' = [req EXCEPT ![i] = Idle] /\ contested' = contested
    BY DEF MarkOccupied, End, Proceed
  <2>2. req[i].left # {} => req' = [req EXCEPT ![i] = r] /\ contested' = contested
    BY DEF MarkOccupied, Proceed
  <2> HIDE DEF r
  <2>3. req' = [req EXCEPT ![i] = q] /\ contested' = contested
    BY <2>1, <2>2
  <2> HIDE DEF q
  <2> QED  BY <2>3 DEF MarkOccupied
<1>2. /\ {"op", "rows", "step", "left", "taken", "todo"} \subseteq DOMAIN req[i]
      /\ req[i].left \subseteq People /\ req[i].left \subseteq req[i].rows
      /\ \A x \in req[i].left : req[i].todo[x] \in Units /\ req[i].todo[x] \in req[i].rows
      /\ req[i].taken \subseteq Units /\ req[i].taken \subseteq req[i].rows /\ BulkFound(i)
  BY <1>1 DEF ResidentsInv, ResidentShape
<1>3. /\ DOMAIN r = DOMAIN req[i] /\ r.op = "bulk" /\ r.step = "create" /\ r.rows = req[i].rows
      /\ r.left = req[i].left /\ r.taken = req[i].taken /\ r.todo = req[i].todo
  BY <1>1, <1>2
<1> HIDE DEF r
<1>4. r # Idle
  BY <1>3 DEF Idle
<1>5. req'[i] = q /\ (q = Idle \/ q = r)
  BY <1>1 DEF ResidentsInv
<1>6. \A u : Active(u)' = Active(u)
  BY <1>1 DEF Active
<1>7. ResidentsTypeOK' /\ \A x \in People : resident'[x].status = "none" => resident'[x].unit = NoUnit
  BY <1>1, <1>2 DEF ResidentsInv, ResidentsTypeOK
<1>8. \A u \in Units : u \notin contested => OneActive(u)'
  BY <1>1, <1>6 DEF ResidentsInv, OneActive
<1> HIDE DEF q
<1>9. ResidentShape(i)'
  BY <1>2, <1>3, <1>4, <1>5 DEF ResidentShape
<1>10. MoveFound(i)' /\ CountFound(i)'
  BY <1>3, <1>5 DEF MoveFound, CountFound, Doing, Idle
<1>11. BulkFound(i)'
  <2>1. CASE req'[i] = Idle
    BY <2>1 DEF BulkFound
  <2>2. CASE req'[i] = r
    <3>1. /\ \A x \in req[i].left : req[i].todo[x] \notin contested \cup req[i].taken => Active(req[i].todo[x]) = {}
          /\ \A u \in req[i].taken \ contested : Active(u) # {}
      BY <1>1, <1>2 DEF BulkFound
    <3> QED  BY <1>1, <1>3, <2>2, <3>1 DEF BulkFound, Active
  <2> QED  BY <1>5, <2>1, <2>2
<1>12. ASSUME NEW u \in Units, u \notin contested, u \notin manual', u \in req[i].rows PROVE Right(u)' \/ Owes(i, u)'
  <2>1. CASE u \in req[i].taken
    <3>1. Active(u) # {}
      BY <1>1, <1>2, <1>12, <2>1 DEF BulkFound
    <3>2. unit'[u] = IF unit[u] # "none" THEN "OCCUPIED" ELSE unit[u]
      BY <1>1, <2>1
    <3> QED  BY <1>6, <3>1, <3>2 DEF Right
  <2>2. CASE u \notin req[i].taken
    <3>1. ~Owes(i, u)
      BY <1>1, <2>2 DEF Owes, Doing
    <3>2. Right(u)
      BY <1>1, <1>12, <2>2, <3>1, OwesAlone
    <3>3. unit'[u] = unit[u]
      BY <1>1, <2>2
    <3> QED  BY <1>6, <3>2, <3>3 DEF Right
  <2> QED  BY <2>1, <2>2
<1>13. \A u \in Units : u \notin contested /\ u \notin req[i].rows =>
          Active(u)' = Active(u) /\ unit'[u] = unit[u] /\ (u \in manual => u \in manual')
  BY <1>1, <1>2, <1>6
<1>14. q = Idle \/ q.rows \subseteq req[i].rows
  BY <1>3, <1>5
<1> QED  BY <1>1, <1>7, <1>8, <1>9, <1>10, <1>11, <1>12, <1>13, <1>14, ResidentsProceed

\* The unit is deleted, and whoever is still registered in it has none.
LEMMA UnitGoes ==
    ASSUME ResidentsInv, NEW i \in Slots, RemoveUnit(i)
    PROVE  ResidentsInv'
<1> DEFINE v == req[i].unit
<1>1. /\ req[i] # Idle /\ req[i].op = "deleteUnit" /\ UNCHANGED unlooked /\ unit' = [unit EXCEPT ![v] = "none"]
      /\ resident' = [r \in People |-> IF resident[r].unit = v THEN [resident[r] EXCEPT !.unit = NoUnit] ELSE resident[r]]
      /\ manual' = manual \ {v} /\ req' = [req EXCEPT ![i] = Idle] /\ contested' = contested
  BY DEF RemoveUnit, End, Proceed
<1>2. v \in Units /\ req[i].rows = {v} /\ v # NoUnit
  BY <1>1, NoUnitIsNone DEF ResidentsInv, ResidentShape
<1> HIDE DEF v
<1>3. \A x \in People : resident[x] \in ResidentRow
  BY DEF ResidentsInv, ResidentsTypeOK, ResidentRow
<1>4. \A row \in ResidentRow : /\ [row EXCEPT !.unit = NoUnit] \in ResidentRow
                               /\ [row EXCEPT !.unit = NoUnit].unit = NoUnit
                               /\ [row EXCEPT !.unit = NoUnit].status = row.status
  BY DEF ResidentRow
<1>5. \A x \in People : /\ resident'[x] \in ResidentRow /\ resident'[x].status = resident[x].status
                        /\ resident'[x].unit = IF resident[x].unit = v THEN NoUnit ELSE resident[x].unit
                        /\ resident[x].unit # v => resident'[x] = resident[x]
  BY <1>1, <1>3, <1>4
<1>6. ResidentsTypeOK' /\ \A x \in People : resident'[x].status = "none" => resident'[x].unit = NoUnit
  <2>1. resident' \in [People -> ResidentRow]
    BY <1>1, <1>5
  <2>2. unit' \in [Units -> {"none", "VACANT", "OCCUPIED"}] /\ manual' \subseteq Units /\ unlooked' \subseteq People
    BY <1>1 DEF ResidentsInv, ResidentsTypeOK
  <2>3. \A x \in People : resident'[x].status = "none" => resident'[x].unit = NoUnit
    BY <1>5 DEF ResidentsInv
  <2> QED  BY <2>1, <2>2, <2>3 DEF ResidentsTypeOK, ResidentRow
<1>7. \A u \in Units : \A x : x \in Active(u)' <=> u # v /\ x \in Active(u)
  <2>1. \A u : \A x : x \in Active(u) <=> x \in People /\ resident[x].status = "ACTIVE" /\ resident[x].unit = u
    BY WhoIsActive DEF ResidentsInv
  <2>2. \A u : \A x : x \in Active(u)' <=> x \in People /\ resident'[x].status = "ACTIVE" /\ resident'[x].unit = u
    BY <1>6 DEF ResidentsTypeOK, Active
  <2> QED  BY <1>5, <2>1, <2>2, NoUnitIsNone
<1>8. \A u \in Units : u # v => Active(u)' = Active(u)
  <2> SUFFICES ASSUME NEW u \in Units, u # v PROVE Active(u)' = Active(u)
    OBVIOUS
  <2>1. \A x : x \in Active(u)' <=> x \in Active(u)
    BY <1>7
  <2> QED  BY <2>1
<1>9. \A u \in Units : u \notin contested => OneActive(u)'
  BY <1>1, <1>7 DEF ResidentsInv, OneActive
<1>10. req'[i] = Idle
  BY <1>1 DEF ResidentsInv
<1>11. (ResidentShape(i) /\ MoveFound(i) /\ CountFound(i) /\ BulkFound(i))'
  BY <1>10 DEF ResidentShape, MoveFound, CountFound, BulkFound, Doing
<1>12. \A u \in Units : u \notin contested /\ u \notin manual' /\ u \in req[i].rows => Right(u)' \/ Owes(i, u)'
  <2>1. unit'[v] = "none"
    BY <1>1, <1>2 DEF ResidentsInv, ResidentsTypeOK
  <2>2. \A u : u = v => Right(u)'
    BY <2>1 DEF Right
  <2> QED  BY <1>2, <2>2
<1>13. \A u \in Units : u \notin contested /\ u \notin req[i].rows =>
          Active(u)' = Active(u) /\ unit'[u] = unit[u] /\ (u \in manual => u \in manual')
  BY <1>1, <1>2, <1>8 DEF ResidentsInv, ResidentsTypeOK
<1>14. \A x \in People : resident'[x] # resident[x] => resident[x].unit \in req[i].rows /\ resident'[x].unit = NoUnit
  BY <1>2, <1>5
<1> QED  BY <1>1, <1>6, <1>9, <1>11, <1>12, <1>13, <1>14, ResidentsProceed

\* A unit is created, or its status set by hand.
LEMMA UnitIsEdited ==
    ASSUME ResidentsInv, NEW v \in Units, CreateUnit(v) \/ UpdateUnit(v)
    PROVE  ResidentsInv'
<1>1. PICK s \in {"VACANT", "OCCUPIED"} : unit' = [unit EXCEPT ![v] = s]
  BY DEF CreateUnit, UpdateUnit
<1>2. manual' = manual \cup {v} /\ UNCHANGED <<resident, unlooked, req>> /\ Meet({v})
  BY DEF CreateUnit, UpdateUnit, Once
<1>3. contested \subseteq contested'
  BY <1>2, MeetContests
<1>4. \A u : Active(u)' = Active(u)
  BY <1>2 DEF Active
<1>5. ResidentsTypeOK' /\ \A x \in People : resident'[x].status = "none" => resident'[x].unit = NoUnit
  BY <1>1, <1>2 DEF ResidentsInv, ResidentsTypeOK
<1>6. ASSUME NEW j \in Slots PROVE (ResidentShape(j) /\ MoveFound(j) /\ CountFound(j) /\ BulkFound(j))'
  <2>1. ResidentShape(j) /\ MoveFound(j) /\ CountFound(j) /\ BulkFound(j) /\ req'[j] = req[j]
    BY <1>2 DEF ResidentsInv
  <2>2. ResidentShape(j)'
    BY <2>1 DEF ResidentShape
  <2>3. MoveFound(j)'
    BY <1>2, <1>3, <2>1 DEF MoveFound, Doing, Active
  <2>4. CountFound(j)' /\ BulkFound(j)'
    BY <1>2, <1>3, <2>1 DEF CountFound, BulkFound, Doing, Active
  <2> QED  BY <2>2, <2>3, <2>4
<1>7. \A j, k \in Slots : j # k /\ Meeting(j, k)' => req'[j].rows \subseteq contested'
  BY <1>2, <1>3 DEF ResidentsInv, Meeting
<1>8. \A u \in Units \ contested' : OneActive(u)'
  BY <1>2, <1>3, <1>4 DEF ResidentsInv, OneActive
<1>9. ASSUME NEW u \in Units, u \notin contested', u \notin manual' PROVE Right(u)' \/ \E j \in Slots : Owes(j, u)'
  <2>1. Right(u) \/ \E j \in Slots : Owes(j, u)
    BY <1>2, <1>3, <1>9 DEF ResidentsInv
  <2>2. Right(u) => Right(u)'
    BY <1>1, <1>2, <1>4, <1>9 DEF Right, ResidentsInv, ResidentsTypeOK
  <2>3. \A j \in Slots : Owes(j, u) => Owes(j, u)'
    BY <1>2 DEF Owes, Doing
  <2> QED  BY <2>1, <2>2, <2>3
<1>10. req' = [j \in Slots |-> req'[j]]
  BY <1>2 DEF ResidentsInv
<1> QED  BY <1>5, <1>6, <1>7, <1>8, <1>9, <1>10 DEF ResidentsInv

LEMMA ResidentIsCutShort ==
    ASSUME ResidentsInv, NEW i \in Slots, Cut(i), UNCHANGED residentVars
    PROVE  ResidentsInv'
<1>1. req[i] # Idle /\ req' = [req EXCEPT ![i] = Idle] /\ contested' = contested \cup req[i].rows
  BY DEF Cut
<1>2. req'[i] = Idle
  BY <1>1 DEF ResidentsInv
<1>3. (ResidentShape(i) /\ MoveFound(i) /\ CountFound(i) /\ BulkFound(i))'
  BY <1>2 DEF ResidentShape, MoveFound, CountFound, BulkFound, Doing
<1>4. \A u \in Units : Owes(i, u) => u \in contested'
  BY <1>1, OwesItsRows DEF ResidentsInv
<1> QED  BY <1>1, <1>3, <1>4, ResidentsQuiet

LEMMA ResidentsStay ==
    ASSUME ResidentsInv, ResidentsNext
    PROVE  ResidentsInv'
<1>1. ASSUME NEW i \in Slots, ResidentsStep(i) PROVE ResidentsInv'
  <2>1. ASSUME NEW p \in People, CreateResident(i, p) \/ UpdateResident(i, p) \/ DeleteResident(i, p)
        PROVE  ResidentsInv'
    BY <2>1, ResidentMoves
  <2>2. CASE CommitBulkTenantInvites(i) \/ \E u \in Units : DeleteUnit(i, u)
    BY <2>2, ResidentArrivals
  <2>3. CASE WriteResident(i)
    BY <2>3, ResidentWrites
  <2>4. CASE CountActive(i)
    BY <2>4, ResidentsCount
  <2>5. CASE SyncUnitOccupancy(i)
    BY <2>5, ResidentsSync
  <2>6. CASE CreateBulkResident(i)
    BY <2>6, BulkCreates
  <2>7. CASE MarkOccupied(i)
    BY <2>7, BulkMarks
  <2>8. CASE RemoveUnit(i)
    BY <2>8, UnitGoes
  <2> QED  BY <1>1, <2>1, <2>2, <2>3, <2>4, <2>5, <2>6, <2>7, <2>8 DEF ResidentsStep
<1>2. ASSUME NEW i \in Slots, Cut(i), UNCHANGED residentVars PROVE ResidentsInv'
  BY <1>2, ResidentIsCutShort
<1>3. ASSUME NEW u \in Units, CreateUnit(u) \/ UpdateUnit(u) PROVE ResidentsInv'
  BY <1>3, UnitIsEdited
<1> QED  BY <1>1, <1>2, <1>3 DEF ResidentsNext

LEMMA ResidentsInitially == Init => ResidentsKept
<1> SUFFICES ASSUME Init PROVE ResidentsKept
  OBVIOUS
<1>1. /\ unit = [u \in Units |-> "VACANT"] /\ resident = [r \in People |-> NoResident] /\ manual = {} /\ unlooked = {}
      /\ req = [i \in Slots |-> Idle] /\ contested = {}
  BY DEF Init, ResidentsInit, RequestsInit
<1>2. ResidentsTypeOK /\ \A r \in People : resident[r].status = "none" /\ resident[r].unit = NoUnit
  BY <1>1 DEF ResidentsTypeOK, NoResident
<1>3. \A u : Active(u) = {}
  BY <1>2, WhoIsActive
<1>4. \A i \in Slots : ResidentShape(i) /\ MoveFound(i) /\ CountFound(i) /\ BulkFound(i)
  BY <1>1 DEF ResidentShape, MoveFound, CountFound, BulkFound, Doing
<1>5. \A u \in Units : OneActive(u) /\ Right(u)
  BY <1>1, <1>3 DEF OneActive, Right
<1> QED  BY <1>1, <1>2, <1>4, <1>5 DEF ResidentsKept, ResidentsInv, Meeting

LEMMA ResidentsStayKept == ResidentsKept /\ [Next]_premisesVars => ResidentsKept'
<1> SUFFICES ASSUME ResidentsKept, [Next]_premisesVars PROVE ResidentsKept'
  OBVIOUS
<1>1. CASE Next
  BY <1>1, DesksApart, ResidentsStay DEF ResidentsKept, residentVars
<1>2. CASE UNCHANGED premisesVars
  <2>1. UNCHANGED <<desk, req, contested, unit, resident, manual, unlooked>>
    BY <1>2 DEF premisesVars, requestVars, residentVars
  <2>2. ASSUME ResidentsInv PROVE ResidentsInv'
    <3>1. (\A u : Active(u)' = Active(u)) /\ \A i \in Slots : \A u : Owes(i, u) <=> Owes(i, u)'
      BY <2>1 DEF Active, Owes, Doing
    <3>2. \A i \in Slots : ResidentShape(i)'
      BY <2>1, <2>2 DEF ResidentsInv, ResidentShape
    <3>3. \A i \in Slots : MoveFound(i)'
      BY <2>1, <2>2 DEF ResidentsInv, MoveFound, Doing, Active
    <3>4. \A i \in Slots : CountFound(i)' /\ BulkFound(i)'
      BY <2>1, <2>2 DEF ResidentsInv, CountFound, BulkFound, Doing, Active
    <3>5. \A u : (OneActive(u) => OneActive(u)') /\ (Right(u) => Right(u)')
      BY <2>1, <3>1 DEF OneActive, Right
    <3>6. ResidentsTypeOK' /\ \A r \in People : resident'[r].status = "none" => resident'[r].unit = NoUnit
      BY <2>1, <2>2 DEF ResidentsInv, ResidentsTypeOK
    <3>7. req' = [i \in Slots |-> req'[i]] /\ \A i, j \in Slots : i # j /\ Meeting(i, j)' => req'[i].rows \subseteq contested'
      BY <2>1, <2>2 DEF ResidentsInv, Meeting
    <3>8. \A u \in Units \ (contested \cup manual) : Right(u) \/ \E i \in Slots : Owes(i, u)
      BY <2>2 DEF ResidentsInv
    <3>9. \A u \in Units \ (contested' \cup manual') : Right(u)' \/ \E i \in Slots : Owes(i, u)'
      BY <2>1, <3>1, <3>5, <3>8
    <3>10. \A u \in Units \ contested' : OneActive(u)'
      BY <2>1, <2>2, <3>5 DEF ResidentsInv
    <3> QED  BY <3>2, <3>3, <3>4, <3>6, <3>7, <3>9, <3>10 DEF ResidentsInv
  <2> QED  BY <2>1, <2>2 DEF ResidentsKept
<1> QED  BY <1>1, <1>2

LEMMA AtMostOne ==
    ASSUME NEW S, \A x, y \in S : x = y
    PROVE  Cardinality(S) <= 1
<1>1. CASE S = {}
  BY <1>1, FS_EmptySet
<1>2. CASE S # {}
  <2>1. PICK x : S = {x}
    BY <1>2
  <2> QED  BY <2>1, FS_Singleton
<1> QED  BY <1>1, <1>2

\* The desk that does not work holds a unit for each, all of them vacant and empty.
LEMMA OtherUnitsAreEmpty ==
    ASSUME ResidentsKept, desk # "residents", NEW u \in Units
    PROVE  unit[u] = "VACANT" /\ Active(u) = {}
BY DEF ResidentsKept, Active, NoResident

\* A unit nobody contests has one active resident at most, but for those made active
\* with no look into the unit: for any number of units, residents and requests, and
\* wherever a request between its reads and its writes is cut short.
THEOREM UnitsAreLetOnce == Spec => []OneActivePerUnit
<1>1. ResidentsKept => OneActivePerUnit
  <2> SUFFICES ASSUME ResidentsKept, NEW u \in Units \ contested PROVE Cardinality(Active(u) \ unlooked) <= 1
    BY DEF OneActivePerUnit
  <2>1. \A x, y \in Active(u) \ unlooked : x = y
    BY OtherUnitsAreEmpty DEF ResidentsKept, ResidentsInv, OneActive
  <2> QED  BY <2>1, AtMostOne
<1> QED  BY <1>1, ResidentsInitially, ResidentsStayKept, PTL DEF Spec

\* Once the requests at a unit nobody contests have done, it says OCCUPIED exactly while
\* it has an active resident, unless somebody has set its status by hand since: whoever
\* still owes it the copy of its residents is in flight there.
THEOREM UnitsSayWhoLivesThere == Spec => []OccupancyFollowsResidents
<1>1. ResidentsKept => OccupancyFollowsResidents
  <2> SUFFICES ASSUME ResidentsKept, NEW u \in Units, u \notin contested, u \notin manual,
                      unit[u] # "none", InFlight(u) = {}
               PROVE  unit[u] = "OCCUPIED" <=> Active(u) # {}
    BY DEF OccupancyFollowsResidents
  <2>1. CASE desk = "residents"
    <3>1. \A i \in Slots : ~Owes(i, u)
      BY <2>1, OwesItsRows DEF ResidentsKept, ResidentsInv, InFlight
    <3> QED  BY <2>1, <3>1 DEF ResidentsKept, ResidentsInv, Right
  <2>2. CASE desk # "residents"
    BY <2>2, OtherUnitsAreEmpty
  <2> QED  BY <2>1, <2>2
<1> QED  BY <1>1, ResidentsInitially, ResidentsStayKept, PTL DEF Spec

-----------------------------------------------------------------------------
(***************************************************************************)
(* Rows somebody works off.  A status that says the work is done needs a   *)
(* date in its column; what a request is going to write has the date, or   *)
(* the row has it, and no request takes it from a row whose status it      *)
(* leaves.                                                                 *)
(***************************************************************************)

Dates == UNION {[D -> Never..MaxTime] : D \in SUBSET Columns}

TicketIs(t) ==
    /\ t.kind \in TicketKinds
    /\ t \in [kind : {t.kind}, status : StatusesOf(t.kind), at : [Columns -> Never..MaxTime]]

Needs(kind, s) ==
    /\ s \in DoneStatuses[kind]
    /\ kind \notin {"apartmentRequest", "inspection"}
    /\ kind = "officeRequest" => s = "RESOLVED"

Column(kind, s) == IF kind = "parcel" THEN s ELSE "done"

Stamped(t) == Needs(t.kind, t.status) => t.at[Column(t.kind, t.status)] # Never

Stamps(t, w) ==
    Needs(t.kind, w.status) =>
        LET c == Column(t.kind, w.status) IN IF c \in DOMAIN w.at THEN w.at[c] # Never ELSE t.at[c] # Never

Spares(kind, w) ==
    /\ kind \in {"officeRequest", "officeOrder", "parcel"} => \A c \in DOMAIN w.at : w.at[c] # Never
    /\ kind \in {"violation", "approval"} => w.status # Same /\ "done" \in DOMAIN w.at
    /\ kind = "estateRequest" /\ w.status = Same => "done" \notin DOMAIN w.at

TicketWrite(kind, w) ==
    /\ w \in [status : StatusesOf(kind) \cup {Same}, at : Dates]
    /\ Spares(kind, w)

\* The one kind of row that loses its date to requests at it at once.
MayLose(k) == ticket[k].kind = "estateRequest" /\ k \in contested

TicketRequest(i) ==
    LET k == req[i].ticket
        w == req[i].write
    IN /\ k \in Filed /\ req[i].rows = {k}
       /\ TicketWrite(ticket[k].kind, w)
       /\ Stamps(ticket[k], w) \/ MayLose(k)
       /\ req[i].named = Same /\ k \notin contested => w.status \in {Same, ticket[k].status}

TicketsInv ==
    /\ now \in 1..MaxTime
    /\ ticket = [k \in Tickets |-> ticket[k]]
    /\ \A k \in Filed : TicketIs(ticket[k]) /\ (Stamped(ticket[k]) \/ MayLose(k))
    /\ req = [i \in Slots |-> req[i]]
    /\ \A i \in Slots : req[i] = Idle \/ TicketRequest(i)
    /\ \A k \in Tickets \ contested : AloneAt(k)

TicketsKept ==
    /\ desk = "tickets" => TicketsInv
    /\ desk # "tickets" => ticket = [k \in Tickets |-> NoTicket]

-----------------------------------------------------------------------------

LEMMA KindsOfTickets ==
    /\ TicketKinds \subseteq {"officeRequest", "officeOrder", "estateRequest", "apartmentRequest", "violation",
                              "approval", "inspection", "parcel"}
    /\ StatusesOf("officeRequest") = {"PENDING", "RESOLVED", "CLOSED"}
    /\ StatusesOf("officeOrder") = {"OPEN", "CLOSED"}
    /\ StatusesOf("estateRequest") = {"PENDING", "RESOLVED", "CLOSED"}
    /\ StatusesOf("apartmentRequest") = {"PENDING", "RESOLVED", "CLOSED"}
    /\ StatusesOf("violation") = {"OPEN", "RESOLVED", "CLOSED"}
    /\ StatusesOf("approval") = {"PENDING", "APPROVED", "REJECTED"}
    /\ StatusesOf("inspection") = {"SCHEDULED", "COMPLETED"}
    /\ StatusesOf("parcel") = {"RECEIVED", "NOTIFIED", "PICKED_UP", "RETURNED"}
BY TicketKindsKnown DEF StatusesOf, FirstStatus, DoneStatuses

LEMMA NeedsADate ==
    /\ \A kind, s : Needs(kind, s) => kind \notin {"apartmentRequest", "inspection"}
    /\ \A s : Needs("officeRequest", s) => s = "RESOLVED"
    /\ \A s : Needs("officeOrder", s) => s = "CLOSED"
    /\ \A s : Needs("estateRequest", s) => s \in {"RESOLVED", "CLOSED"}
    /\ \A s : Needs("violation", s) => s \in {"RESOLVED", "CLOSED"}
    /\ \A s : Needs("approval", s) => s \in {"APPROVED", "REJECTED"}
    /\ \A s : Needs("parcel", s) => s \in Columns
BY DEF Needs, DoneStatuses, Columns

LEMMA SomeDates ==
    /\ <<>> \in Dates /\ DOMAIN <<>> = {}
    /\ \A n \in Never..MaxTime : [done |-> n] \in Dates /\ DOMAIN [done |-> n] = {"done"} /\ [done |-> n].done = n
    /\ \A n \in Never..MaxTime, next \in Columns :
          LET at == [c \in {next} |-> n] IN at \in Dates /\ DOMAIN at = {next} /\ at[next] = n
<1>1. <<>> \in [{} -> Never..MaxTime] /\ DOMAIN <<>> = {}
  OBVIOUS
<1>2. \A n \in Never..MaxTime : [done |-> n] \in [{"done"} -> Never..MaxTime]
  OBVIOUS
<1>3. \A n \in Never..MaxTime, next \in Columns : [c \in {next} |-> n] \in [{next} -> Never..MaxTime]
  OBVIOUS
<1>4. \A D \in SUBSET Columns : [D -> Never..MaxTime] \subseteq Dates
  BY DEF Dates
<1> QED  BY <1>1, <1>2, <1>3, <1>4 DEF Columns

\* What each update works out has the date the status it names needs, and takes none.
LEMMA AnswersAreSound ==
    ASSUME now \in 1..MaxTime, NEW t, TicketIs(t), NEW s \in StatusesOf(t.kind) \cup {Same}, NEW w \in Answers(t, s)
    PROVE  /\ TicketWrite(t.kind, w) /\ Stamps(t, w)
           /\ s = Same => w.status \in {Same, t.status}
<1> DEFINE Sound == /\ TicketWrite(t.kind, w) /\ Stamps(t, w)
                    /\ s = Same => w.status \in {Same, t.status}
<1>1. /\ t.status \in StatusesOf(t.kind) /\ t.at \in [Columns -> Never..MaxTime] /\ now \in Never..MaxTime /\ now # Never
      /\ "done" \in Columns /\ t.at.done \in Never..MaxTime /\ MaxTime \in Nat /\ Same = "same"
  BY MaxTimeNat DEF TicketIs, Columns, Never, Same
<1>2. CASE t.kind = "officeRequest"
  BY <1>1, <1>2, KindsOfTickets, NeedsADate, SomeDates
  DEF Answers, UpdateOfficeRequest, TicketWrite, Spares, Stamps, Column
<1>3. CASE t.kind = "officeOrder"
  BY <1>1, <1>3, KindsOfTickets, NeedsADate, SomeDates
  DEF Answers, UpdateOfficeOrder, TicketWrite, Spares, Stamps, Column
<1>4. CASE t.kind = "estateRequest"
  <2>1. w = UpdateEstateRequest(t, s)
    BY <1>4 DEF Answers
  <2>2. s \in {"PENDING", "RESOLVED", "CLOSED", Same}
    BY <1>4, KindsOfTickets
  <2>3. CASE s = Same
    <3>1. w = [status |-> s, at |-> <<>>]
      BY <2>1, <2>3 DEF UpdateEstateRequest, Same
    <3> QED  BY <1>1, <1>4, <2>3, <3>1, NeedsADate, SomeDates DEF TicketWrite, Spares, Stamps
  <2>4. CASE s = "PENDING"
    <3>1. w = [status |-> s, at |-> [done |-> Never]]
      BY <2>1, <2>4 DEF UpdateEstateRequest, Same
    <3>2. Never \in Never..MaxTime
      BY <1>1 DEF Never
    <3> QED  BY <1>1, <1>4, <2>4, <3>1, <3>2, KindsOfTickets, NeedsADate, SomeDates DEF TicketWrite, Spares, Stamps
  <2>5. CASE s \in {"RESOLVED", "CLOSED"}
    <3> DEFINE n == IF t.at.done = Never THEN now ELSE t.at.done
    <3>1. w = [status |-> s, at |-> [done |-> n]]
      BY <1>1, <2>1, <2>5 DEF UpdateEstateRequest
    <3>2. n \in Never..MaxTime /\ n # Never
      BY <1>1
    <3> HIDE DEF n
    <3>3. w.status = s /\ w.at = [done |-> n] /\ w.at \in Dates /\ DOMAIN w.at = {"done"} /\ w.at.done = n /\ s # Same
      BY <1>1, <2>5, <3>1, <3>2, SomeDates
    <3>4. TicketWrite(t.kind, w)
      BY <1>1, <1>4, <2>5, <3>1, <3>3, KindsOfTickets DEF TicketWrite, Spares
    <3>5. Stamps(t, w)
      BY <1>4, <3>2, <3>3 DEF Stamps, Column
    <3> QED  BY <2>5, <3>3, <3>4, <3>5
  <2> QED  BY <2>2, <2>3, <2>4, <2>5
<1>5. CASE t.kind = "apartmentRequest"
  BY <1>1, <1>5, KindsOfTickets, NeedsADate, SomeDates
  DEF Answers, UpdateApartmentRequest, TicketWrite, Spares, Stamps
<1>6. CASE t.kind = "violation"
  BY <1>1, <1>6, KindsOfTickets, NeedsADate, SomeDates
  DEF Answers, UpdateViolation, Named, TicketWrite, Spares, Stamps, Column
<1>7. CASE t.kind = "approval"
  BY <1>1, <1>7, KindsOfTickets, NeedsADate, SomeDates
  DEF Answers, UpdateApprovalRequest, Named, TicketWrite, Spares, Stamps, Column
<1>8. CASE t.kind = "inspection"
  BY <1>1, <1>8, KindsOfTickets, NeedsADate, SomeDates
  DEF Answers, UpdateInspection, UpdateOperationsInspection, Named, TicketWrite, Spares, Stamps
<1>9. CASE t.kind = "parcel"
  <2> DEFINE next == Named(t, s)
             at == [c \in {next} |-> now]
  <2>1. w = [status |-> next, at |-> IF next \in Columns /\ t.at[next] = Never THEN at ELSE <<>>]
    BY <1>9 DEF Answers, UpdateParcel
  <2>2. next \in StatusesOf(t.kind) /\ next # Same /\ (s = Same => next = t.status)
    BY <1>1, <1>9, KindsOfTickets DEF Named
  <2> HIDE DEF next
  <2>3. next \in Columns => at \in Dates /\ DOMAIN at = {next} /\ at[next] = now
    BY <1>1, SomeDates
  <2> HIDE DEF at
  <2>4. w.status = next /\ w.at \in Dates /\ w \in [status : StatusesOf(t.kind) \cup {Same}, at : Dates]
    BY <2>1, <2>2, <2>3, SomeDates
  <2>5. CASE next \in Columns /\ t.at[next] = Never
    <3>1. w.at = at
      BY <2>1, <2>5
    <3>2. Spares(t.kind, w)
      BY <1>1, <1>9, <2>3, <2>5, <3>1 DEF Spares
    <3>3. Stamps(t, w)
      BY <1>1, <1>9, <2>3, <2>4, <2>5, <3>1 DEF Stamps, Column
    <3> QED  BY <2>2, <2>4, <3>2, <3>3 DEF TicketWrite
  <2>6. CASE ~(next \in Columns /\ t.at[next] = Never)
    <3>1. w.at = <<>> /\ DOMAIN w.at = {}
      BY <2>1, <2>6, SomeDates
    <3>2. Spares(t.kind, w)
      BY <1>9, <3>1 DEF Spares
    <3>3. Stamps(t, w)
      BY <1>9, <2>4, <2>6, <3>1, NeedsADate DEF Stamps, Column
    <3> QED  BY <2>2, <2>4, <3>2, <3>3 DEF TicketWrite
  <2> QED  BY <2>5, <2>6
<1> QED  BY <1>2, <1>3, <1>4, <1>5, <1>6, <1>7, <1>8, <1>9, KindsOfTickets DEF TicketIs

\* A row as a request writes it.
AsWritten(t, w) ==
    [t EXCEPT !.status = IF w.status = Same THEN @ ELSE w.status, !.at = Written(w.at, @)]

LEMMA RowAsWritten ==
    ASSUME NEW t, TicketIs(t), NEW w, TicketWrite(t.kind, w)
    PROVE  LET r == AsWritten(t, w) IN
           /\ TicketIs(r) /\ r.kind = t.kind
           /\ r.status = IF w.status = Same THEN t.status ELSE w.status
           /\ \A c \in Columns : r.at[c] = IF c \in DOMAIN w.at THEN w.at[c] ELSE t.at[c]
<1> DEFINE status == IF w.status = Same THEN t.status ELSE w.status
           at == Written(w.at, t.at)
           r == [t EXCEPT !.status = status, !.at = at]
<1>1. /\ t.kind \in TicketKinds /\ t \in [kind : {t.kind}, status : StatusesOf(t.kind), at : [Columns -> Never..MaxTime]]
      /\ w.status \in StatusesOf(t.kind) \cup {Same}
  BY DEF TicketIs, TicketWrite
<1>2. PICK D \in SUBSET Columns : w.at \in [D -> Never..MaxTime]
  BY DEF TicketWrite, Dates
<1>3. DOMAIN w.at = D /\ D \cup DOMAIN t.at = Columns /\ \A c \in D : w.at[c] \in Never..MaxTime
  BY <1>1, <1>2
<1>4. at = [c \in Columns |-> IF c \in D THEN w.at[c] ELSE t.at[c]]
  BY <1>3 DEF Written
<1>5. at \in [Columns -> Never..MaxTime] /\ \A c \in Columns : at[c] = IF c \in DOMAIN w.at THEN w.at[c] ELSE t.at[c]
  BY <1>1, <1>3, <1>4
<1>6. status \in StatusesOf(t.kind)
  BY <1>1
<1> HIDE DEF status, at
<1>7. r.kind = t.kind /\ r.status = status /\ r.at = at
      /\ r \in [kind : {t.kind}, status : StatusesOf(t.kind), at : [Columns -> Never..MaxTime]]
  BY <1>1, <1>5, <1>6
<1>8. AsWritten(t, w) = r
  BY <1>1 DEF AsWritten, status, at
<1> HIDE DEF r
<1> QED  BY <1>1, <1>5, <1>7, <1>8 DEF TicketIs, status

\* The row has its date after the write, and what another request is going to write of
\* it has its date still.
LEMMA WriteIsSound ==
    ASSUME NEW t, TicketIs(t), NEW w, TicketWrite(t.kind, w)
    PROVE  LET r == AsWritten(t, w) IN
           /\ Stamped(t) /\ Stamps(t, w) => Stamped(r)
           /\ \A x : TicketWrite(t.kind, x) /\ Stamps(t, x) /\ t.kind # "estateRequest" => Stamps(r, x)
<1> DEFINE r == AsWritten(t, w)
<1>1. /\ TicketIs(r) /\ r.kind = t.kind
      /\ r.status = IF w.status = Same THEN t.status ELSE w.status
      /\ \A c \in Columns : r.at[c] = IF c \in DOMAIN w.at THEN w.at[c] ELSE t.at[c]
  BY RowAsWritten
<1> HIDE DEF r
<1>2. \A kind, s : kind \in TicketKinds /\ Needs(kind, s) =>
         /\ Column(kind, s) \in Columns /\ (kind # "parcel" => Column(kind, s) = "done")
         /\ kind \in {"officeRequest", "officeOrder", "estateRequest", "violation", "approval", "parcel"}
  BY KindsOfTickets, NeedsADate DEF Column, Columns
<1>3. t.kind \in TicketKinds
  BY DEF TicketIs
<1>4. /\ t.kind \in {"officeRequest", "officeOrder", "parcel"} => \A c \in DOMAIN w.at : w.at[c] # Never
      /\ t.kind \in {"violation", "approval"} => w.status # Same
      /\ t.kind = "estateRequest" /\ w.status = Same => "done" \notin DOMAIN w.at
  BY DEF TicketWrite, Spares
<1>5. ASSUME Stamped(t), Stamps(t, w), Needs(r.kind, r.status) PROVE r.at[Column(r.kind, r.status)] # Never
  <2>1. CASE w.status = Same
    <3>1. Needs(t.kind, t.status) /\ r.status = t.status
      BY <1>1, <1>5, <2>1
    <3>2. t.at[Column(t.kind, t.status)] # Never
      BY <1>5, <3>1 DEF Stamped
    <3> QED  BY <1>1, <1>2, <1>3, <1>4, <2>1, <3>1, <3>2
  <2>2. CASE w.status # Same
    <3>1. Needs(t.kind, w.status) /\ r.status = w.status
      BY <1>1, <1>5, <2>2
    <3> QED  BY <1>1, <1>2, <1>3, <1>5, <3>1 DEF Stamps
  <2> QED  BY <2>1, <2>2
<1>6. ASSUME NEW x, TicketWrite(t.kind, x), Stamps(t, x), t.kind # "estateRequest" PROVE Stamps(r, x)
  <2> SUFFICES ASSUME Needs(t.kind, x.status), Column(t.kind, x.status) \notin DOMAIN x.at
               PROVE  r.at[Column(t.kind, x.status)] # Never
    BY <1>1, <1>6 DEF Stamps
  <2>1. t.at[Column(t.kind, x.status)] # Never
    BY <1>6 DEF Stamps
  <2>2. t.kind \in {"officeRequest", "officeOrder", "parcel"}
    BY <1>2, <1>3, <1>6 DEF TicketWrite, Spares
  <2> QED  BY <1>1, <1>2, <1>3, <1>4, <2>1, <2>2
<1> QED  BY <1>5, <1>6 DEF Stamped, r

LEMMA TicketsBegin ==
    ASSUME TicketsInv, NEW i \in Slots, NEW k \in Filed, NEW s, NEW w, BeginUpdate(i, k, s, w),
           TicketWrite(ticket[k].kind, w), Stamps(ticket[k], w) \/ MayLose(k),
           s = Same => w.status \in {Same, ticket[k].status}
    PROVE  TicketsInv'
<1> DEFINE r == [op |-> "ticket", rows |-> {k}, ticket |-> k, named |-> s, write |-> w]
<1>1. Begin(i, r) /\ ticket' = ticket /\ now' = now
  BY DEF BeginUpdate, Begin
<1>2. r # Idle /\ r.rows = {k} /\ r.ticket = k /\ r.named = s /\ r.write = w
  BY DEF Idle
<1> HIDE DEF r
<1>3. /\ req'[i] = r /\ req' = [j \in Slots |-> req'[j]] /\ \A j \in Slots : j # i => req'[j] = req[j]
      /\ contested \subseteq contested'
      /\ \A row : AloneAt(row) /\ row \notin contested' => AloneAt(row)'
  BY <1>1, BeginAlone DEF TicketsInv
<1>4. Filed' = Filed /\ \A x : MayLose(x) => MayLose(x)'
  BY <1>1, <1>3 DEF Filed, MayLose
<1>5. TicketRequest(i)'
  BY <1>1, <1>2, <1>3, <1>4 DEF TicketRequest
<1>6. ASSUME NEW j \in Slots PROVE req'[j] = Idle \/ TicketRequest(j)'
  BY <1>1, <1>3, <1>4, <1>5 DEF TicketsInv, TicketRequest
<1>7. \A x \in Filed' : TicketIs(ticket'[x]) /\ (Stamped(ticket'[x]) \/ MayLose(x)')
  BY <1>1, <1>4 DEF TicketsInv
<1>8. \A x \in Tickets \ contested' : AloneAt(x)'
  BY <1>3 DEF TicketsInv
<1> QED  BY <1>1, <1>3, <1>6, <1>7, <1>8 DEF TicketsInv

LEMMA TicketsAreTaken ==
    ASSUME TicketsInv, NEW i \in Slots, NEW k \in Filed,
           UpdateTicket(i, k) \/ ConfirmMyRequest(i, k) \/ ReopenMyRequest(i, k)
    PROVE  TicketsInv'
<1>1. TicketIs(ticket[k]) /\ (Stamped(ticket[k]) \/ MayLose(k)) /\ now \in 1..MaxTime
  BY DEF TicketsInv
<1>2. CASE UpdateTicket(i, k)
  <2>1. PICK s \in StatusesOf(ticket[k].kind) \cup {Same} : \E w \in Answers(ticket[k], s) : BeginUpdate(i, k, s, w)
    BY <1>2 DEF UpdateTicket
  <2>2. PICK w \in Answers(ticket[k], s) : BeginUpdate(i, k, s, w)
    BY <2>1
  <2> DEFINE t == ticket[k]
  <2>3. TicketIs(t) /\ s \in StatusesOf(t.kind) \cup {Same} /\ w \in Answers(t, s)
    BY <1>1, <2>1, <2>2
  <2> HIDE DEF t
  <2>4. TicketWrite(t.kind, w) /\ Stamps(t, w) /\ (s = Same => w.status \in {Same, t.status})
    BY <1>1, <2>3, AnswersAreSound
  <2> QED  BY <2>2, <2>4, TicketsBegin DEF t
<1>3. CASE ConfirmMyRequest(i, k) \/ ReopenMyRequest(i, k)
  <2>1. PICK s \in {"CLOSED", "PENDING"} :
          BeginUpdate(i, k, s, [status |-> s, at |-> <<>>]) /\ Confirmable(k)
    BY <1>3 DEF ConfirmMyRequest, ReopenMyRequest
  <2> DEFINE w == [status |-> s, at |-> <<>>]
  <2>2. w \in [status : StatusesOf(ticket[k].kind) \cup {Same}, at : Dates] /\ w.status = s /\ DOMAIN w.at = {} /\ s # Same
    BY <2>1, KindsOfTickets, SomeDates DEF Confirmable, Same
  <2>3. BeginUpdate(i, k, s, w)
    BY <2>1
  <2> HIDE DEF w
  <2>4. TicketWrite(ticket[k].kind, w)
    BY <2>1, <2>2 DEF TicketWrite, Spares, Confirmable
  <2>5. Stamped(ticket[k]) => Stamps(ticket[k], w)
    <3>1. CASE ticket[k].kind = "apartmentRequest"
      BY <3>1, NeedsADate DEF Stamps
    <3>2. CASE ticket[k].kind = "estateRequest"
      <4>1. ticket[k].status = "RESOLVED"
        BY <2>1 DEF Confirmable
      <4>2. Needs("estateRequest", "RESOLVED")
        BY DEF Needs, DoneStatuses
      <4> QED  BY <2>2, <3>2, <4>1, <4>2 DEF Stamps, Stamped, Column
    <3> QED  BY <2>1, <3>1, <3>2 DEF Confirmable
  <2> QED  BY <1>1, <2>2, <2>3, <2>4, <2>5, TicketsBegin
<1> QED  BY <1>2, <1>3

LEMMA TicketIsFiled ==
    ASSUME TicketsInv, NEW k \in Tickets, FileTicket(k)
    PROVE  TicketsInv'
<1>0. PICK kind \in TicketKinds : \E s \in StatusesOf(kind) : File(k, kind, s) /\ (kind = "parcel" => s = "RECEIVED")
  BY KindsOfTickets DEF FileTicket, CreateViolation, CreateApprovalRequest, CreateParcel, FileOfficeTicket, FileUnitRequest,
        ScheduleInspection, FirstStatus, File
<1>1. PICK s \in StatusesOf(kind) : File(k, kind, s) /\ (kind = "parcel" => s = "RECEIVED")
  BY <1>0
<1> DEFINE dated == s \in DoneStatuses[kind] /\ kind # "apartmentRequest"
           at == IF dated THEN [Unstamped EXCEPT !.done = now] ELSE Unstamped
           t == [kind |-> kind, status |-> s, at |-> at]
<1>2. ticket[k] = NoTicket /\ ticket' = [ticket EXCEPT ![k] = t] /\ Once(k)
  BY <1>1 DEF File
<1>3. UNCHANGED <<req, now>> /\ contested \subseteq contested'
  BY <1>2, MeetContests DEF Once
<1>4. Unstamped \in [Columns -> Never..MaxTime] /\ now \in Never..MaxTime /\ now # Never /\ "done" \in Columns
  BY MaxTimeNat DEF TicketsInv, Unstamped, Columns, Never
<1>5. at \in [Columns -> Never..MaxTime] /\ (dated => at["done"] # Never)
  BY <1>4
<1>6. Needs(kind, s) => dated /\ Column(kind, s) = "done"
  <2>1. CASE kind = "parcel"
    BY <1>1, <2>1 DEF Needs, DoneStatuses
  <2>2. CASE kind # "parcel"
    BY <2>2 DEF Needs, Column
  <2> QED  BY <2>1, <2>2
<1> HIDE DEF dated, at
<1>7. TicketIs(t) /\ t.kind = kind /\ t.status = s /\ t.at = at /\ t # NoTicket
  BY <1>1, <1>5 DEF TicketIs, NoTicket
<1> HIDE DEF t
<1>8. Stamped(t)
  BY <1>5, <1>6, <1>7 DEF Stamped
<1>9. /\ ticket' = [x \in Tickets |-> ticket'[x]] /\ ticket'[k] = t
      /\ \A x \in Tickets : x # k => ticket'[x] = ticket[x]
  BY <1>2 DEF TicketsInv
<1>10. \A x \in Filed : x # k /\ x \in Filed' /\ ticket'[x] = ticket[x] /\ (MayLose(x) => MayLose(x)')
  BY <1>2, <1>3, <1>9 DEF Filed, MayLose
<1>11. ASSUME NEW x \in Filed' PROVE TicketIs(ticket'[x]) /\ (Stamped(ticket'[x]) \/ MayLose(x)')
  <2>1. CASE x = k
    BY <1>7, <1>8, <1>9, <2>1
  <2>2. CASE x # k
    <3>1. x \in Filed
      BY <1>9, <1>11, <2>2 DEF Filed
    <3> QED  BY <1>10, <3>1 DEF TicketsInv
  <2> QED  BY <2>1, <2>2
<1>12. ASSUME NEW j \in Slots, req[j] # Idle PROVE TicketRequest(j)'
  <2> DEFINE x == req[j].ticket
  <2>1. TicketRequest(j) /\ x \in Filed
    BY <1>12 DEF TicketsInv, TicketRequest
  <2>2. req'[j] = req[j] /\ ticket'[x] = ticket[x] /\ x \in Filed' /\ (MayLose(x) => MayLose(x)')
    BY <1>3, <1>10, <2>1
  <2> QED  BY <1>3, <2>1, <2>2 DEF TicketRequest, MayLose
<1>13. \A x \in Tickets \ contested' : AloneAt(x)'
  BY <1>3 DEF TicketsInv, AloneAt, InFlight
<1> QED  BY <1>3, <1>9, <1>11, <1>12, <1>13 DEF TicketsInv

\* A row is written: the only one, of which others may have something to write still.
LEMMA TicketIsWritten ==
    ASSUME TicketsInv, NEW i \in Slots, WriteTicket(i)
    PROVE  TicketsInv'
<1> DEFINE k == req[i].ticket
           t == ticket[k]
           w == req[i].write
           r == AsWritten(t, w)
<1>1. req[i] # Idle /\ ticket' = [ticket EXCEPT ![k] = r] /\ Proceed(i, Idle) /\ now' = now
  BY DEF WriteTicket, AsWritten, End, Proceed
<1>2. /\ k \in Filed /\ k \in Tickets /\ req[i].rows = {k} /\ TicketWrite(t.kind, w) /\ (Stamps(t, w) \/ MayLose(k))
      /\ TicketIs(t) /\ (Stamped(t) \/ MayLose(k)) /\ t # NoTicket
  BY <1>1 DEF TicketsInv, TicketRequest, Filed
<1>3. /\ req'[i] = Idle /\ req' = [j \in Slots |-> req'[j]] /\ contested' = contested
      /\ \A j \in Slots : j # i => req'[j] = req[j]
      /\ \A row : AloneAt(row) => AloneAt(row)'
  BY <1>1, ProceedAlone DEF TicketsInv
<1>4. TicketIs(r) /\ r.kind = t.kind /\ r.status = (IF w.status = Same THEN t.status ELSE w.status)
  BY <1>2, RowAsWritten
<1>5. /\ Stamped(t) /\ Stamps(t, w) => Stamped(r)
      /\ \A x : TicketWrite(t.kind, x) /\ Stamps(t, x) /\ t.kind # "estateRequest" => Stamps(r, x)
  BY <1>2, WriteIsSound
<1>6. r # NoTicket
  BY <1>4 DEF TicketIs, NoTicket
<1>7. MayLose(k) <=> t.kind = "estateRequest" /\ k \in contested
  BY DEF MayLose
<1> HIDE DEF r, t, w, k
<1>8. /\ ticket' = [x \in Tickets |-> ticket'[x]] /\ ticket'[k] = r
      /\ \A x \in Tickets : x # k => ticket'[x] = ticket[x]
  BY <1>1, <1>2 DEF TicketsInv
<1>9. Filed' = Filed /\ \A x : MayLose(x) /\ x \in Filed => MayLose(x)'
  <2>1. \A x : x \in Filed' <=> x \in Filed
    BY <1>2, <1>6, <1>8 DEF Filed
  <2>2. \A x \in Filed : ticket'[x].kind = ticket[x].kind
    BY <1>4, <1>8 DEF Filed, t
  <2> QED  BY <1>3, <2>1, <2>2 DEF MayLose
<1>10. ASSUME NEW x \in Filed PROVE TicketIs(ticket'[x]) /\ (Stamped(ticket'[x]) \/ MayLose(x)')
  <2>1. CASE x = k
    BY <1>2, <1>4, <1>5, <1>8, <1>9, <2>1
  <2>2. CASE x # k
    BY <1>8, <1>9, <2>2 DEF TicketsInv, Filed
  <2> QED  BY <2>1, <2>2
<1>11. ASSUME NEW j \in Slots, req'[j] # Idle PROVE TicketRequest(j)'
  <2> DEFINE x == req[j].ticket
             y == req[j].write
  <2>1. j # i /\ req'[j] = req[j] /\ TicketRequest(j)
    BY <1>3, <1>11 DEF TicketsInv
  <2>2. /\ x \in Filed /\ req[j].rows = {x} /\ TicketWrite(ticket[x].kind, y) /\ (Stamps(ticket[x], y) \/ MayLose(x))
        /\ req[j].named = Same /\ x \notin contested => y.status \in {Same, ticket[x].status}
    BY <2>1 DEF TicketRequest
  <2>3. x = k => k \in contested
    <3> SUFFICES ASSUME x = k, k \notin contested PROVE FALSE
      OBVIOUS
    <3>1. i \in InFlight(k) /\ j \in InFlight(k)
      BY <1>1, <1>2, <1>3, <1>11, <2>1, <2>2 DEF InFlight
    <3> QED  BY <1>2, <2>1, <3>1 DEF TicketsInv, AloneAt
  <2>4. CASE x = k
    <3>1. TicketWrite(r.kind, y) /\ (Stamps(r, y) \/ MayLose(k))
      BY <1>4, <1>5, <1>7, <2>2, <2>3, <2>4 DEF t
    <3> QED  BY <1>3, <1>8, <1>9, <2>1, <2>2, <2>3, <2>4, <3>1 DEF TicketRequest
  <2>5. CASE x # k
    <3>1. ticket'[x] = ticket[x]
      BY <1>8, <2>2, <2>5 DEF Filed
    <3> QED  BY <1>3, <1>9, <2>1, <2>2, <3>1 DEF TicketRequest
  <2> QED  BY <2>4, <2>5
<1>12. \A x \in Tickets \ contested' : AloneAt(x)'
  BY <1>3 DEF TicketsInv
<1> QED  BY <1>1, <1>3, <1>8, <1>9, <1>10, <1>11, <1>12 DEF TicketsInv

LEMMA TicketsStay ==
    ASSUME TicketsInv, TicketsNext
    PROVE  TicketsInv'
<1>1. CASE Tick /\ UNCHANGED ticket
  <2>1. UNCHANGED <<req, contested, ticket>> /\ now' \in 1..MaxTime
    BY <1>1, MaxTimeNat DEF Tick, TicketsInv
  <2> QED  BY <2>1 DEF TicketsInv, TicketRequest, Filed, MayLose, AloneAt, InFlight
<1>2. ASSUME NEW i \in Slots, Abort(i), UNCHANGED ticket PROVE TicketsInv'
  <2>1. /\ req'[i] = Idle /\ req' = [j \in Slots |-> req'[j]] /\ contested' = contested
        /\ \A j \in Slots : j # i => req'[j] = req[j]
        /\ \A row : AloneAt(row) => AloneAt(row)'
    BY <1>2, ProceedAlone DEF Abort, End, TicketsInv
  <2>2. now' = now /\ Filed' = Filed /\ \A x : MayLose(x)' <=> MayLose(x)
    BY <1>2, <2>1 DEF Abort, End, Proceed, Filed, MayLose
  <2>3. ASSUME NEW j \in Slots, req'[j] # Idle PROVE TicketRequest(j)'
    BY <1>2, <2>1, <2>2, <2>3 DEF TicketsInv, TicketRequest
  <2> QED  BY <1>2, <2>1, <2>2, <2>3 DEF TicketsInv
<1>3. ASSUME NEW i \in Slots, TicketsStep(i) PROVE TicketsInv'
  BY <1>3, TicketsAreTaken, TicketIsWritten DEF TicketsStep
<1> QED  BY <1>1, <1>2, <1>3, TicketIsFiled DEF TicketsNext

LEMMA TicketsInitially == Init => TicketsKept
<1> SUFFICES ASSUME Init PROVE TicketsKept
  OBVIOUS
<1>1. ticket = [k \in Tickets |-> NoTicket] /\ req = [i \in Slots |-> Idle] /\ contested = {} /\ now = 1
  BY DEF Init, TicketsInit, RequestsInit
<1>2. Filed = {} /\ 1 \in 1..MaxTime
  BY <1>1, MaxTimeNat DEF Filed
<1> QED  BY <1>1, <1>2 DEF TicketsKept, TicketsInv, AloneAt, InFlight

LEMMA TicketsStayKept == TicketsKept /\ [Next]_premisesVars => TicketsKept'
<1> SUFFICES ASSUME TicketsKept, [Next]_premisesVars PROVE TicketsKept'
  OBVIOUS
<1>1. CASE Next
  BY <1>1, DesksApart, TicketsStay DEF TicketsKept
<1>2. CASE UNCHANGED premisesVars
  <2>1. UNCHANGED <<desk, req, contested, now, ticket>>
    BY <1>2 DEF premisesVars, requestVars
  <2> QED  BY <2>1 DEF TicketsKept, TicketsInv, TicketRequest, Filed, MayLose, AloneAt, InFlight
<1> QED  BY <1>1, <1>2

\* Every row whose work is done says since when, in whatever order any number of
\* requests that touch it read and write; an estate request does as long as no two
\* requests were at it at once.
THEOREM DoneWorkIsDated == Spec => []DoneIsStamped
<1>1. TicketsKept => DoneIsStamped
  <2> SUFFICES ASSUME TicketsKept, NEW k \in Filed,
                      ticket[k].status \in DoneStatuses[ticket[k].kind],
                      ticket[k].kind \notin {"apartmentRequest", "inspection"},
                      ticket[k].kind = "officeRequest" => ticket[k].status = "RESOLVED",
                      ticket[k].kind = "estateRequest" => k \notin contested
               PROVE  ticket[k].at[IF ticket[k].kind = "parcel" THEN ticket[k].status ELSE "done"] # Never
    BY DEF DoneIsStamped
  <2>1. TicketsInv
    BY DEF TicketsKept, Filed
  <2>2. Stamped(ticket[k])
    BY <2>1 DEF TicketsInv, MayLose
  <2> QED  BY <2>2 DEF Stamped, Needs, Column
<1> QED  BY <1>1, TicketsInitially, TicketsStayKept, PTL DEF Spec

-----------------------------------------------------------------------------
(***************************************************************************)
(* Work orders.  An order that no two requests or runs contested counts an *)
(* alert exactly while it has the mark of one, or while the run that       *)
(* mailed it has still to set the mark; and it is in breach as long as a   *)
(* run has it on its list.                                                 *)
(***************************************************************************)

WorkRow ==
    [status : WorkStatuses, reason : BOOLEAN, completedAt : Never..MaxTime,
     deadline : Never..(MaxTime + 1), alertedAt : Never..MaxTime]

WorkIs(w) ==
    /\ w \in WorkRow
    /\ w.status = "WAITING" => w.reason = TRUE
    /\ w.status = "COMPLETED" => w.completedAt # Never

WorkWrite(w) ==
    /\ \/ w \in [status : WorkStatuses, completedAt : Never..MaxTime, reason : BOOLEAN]
       \/ w \in [status : WorkStatuses, completedAt : Never..MaxTime] /\ w.status # "WAITING"
    /\ w.status = "WAITING" => w.reason = TRUE
    /\ w.status = "COMPLETED" => w.completedAt # Never

Updating(i) ==
    /\ req[i] # Idle /\ req[i].op = "work" /\ req[i].order \in Ordered /\ req[i].rows = {req[i].order}
    /\ WorkWrite(req[i].write)

Alerting(i) ==
    /\ req[i] # Idle /\ {"op", "rows", "left", "mailed"} \subseteq DOMAIN req[i] /\ req[i].op = "sla"
    /\ req[i].left \subseteq req[i].rows /\ req[i].left \subseteq Ordered /\ req[i].mailed \subseteq req[i].left
    /\ \A o \in req[i].left \ contested : Breached(o)

Mailed(o) == \E i \in Slots : req[i] # Idle /\ req[i].op = "sla" /\ o \in req[i].mailed

AlertsCounted(o) ==
    alerts[o] = IF (o \in Ordered /\ work[o].alertedAt # Never) \/ Mailed(o) THEN 1 ELSE 0

OrdersInv ==
    /\ now \in 1..MaxTime
    /\ work = [o \in Orders |-> work[o]] /\ \A o \in Ordered : WorkIs(work[o])
    /\ alerts \in [Orders -> 0..MaxAlerts]
    /\ req = [i \in Slots |-> req[i]]
    /\ \A i \in Slots : req[i] = Idle \/ Updating(i) \/ Alerting(i)
    /\ \A o \in Orders \ contested : AloneAt(o) /\ AlertsCounted(o)

OrdersKept ==
    /\ desk = "work" => OrdersInv
    /\ desk # "work" => work = [o \in Orders |-> NoWork] /\ alerts = [o \in Orders |-> 0]

-----------------------------------------------------------------------------

LEMMA OrdersBegin ==
    ASSUME OrdersInv, UNCHANGED workVars, NEW i \in Slots, NEW r, Begin(i, r), r # Idle,
           Updating(i)' \/ (Alerting(i)' /\ r.mailed = {})
    PROVE  OrdersInv'
<1>1. /\ req[i] = Idle /\ req'[i] = r /\ req' = [j \in Slots |-> req'[j]] /\ contested \subseteq contested' /\ now' = now
      /\ \A j \in Slots : j # i => req'[j] = req[j]
      /\ \A row : AloneAt(row) /\ row \notin contested' => AloneAt(row)'
  BY BeginAlone DEF OrdersInv, Begin
<1>2. work' = work /\ alerts' = alerts /\ Ordered' = Ordered /\ \A o : Breached(o) => Breached(o)'
  BY <1>1 DEF workVars, Ordered, Breached
<1>3. ASSUME NEW j \in Slots, j # i, req'[j] # Idle PROVE Updating(j)' \/ Alerting(j)'
  <2>1. req'[j] = req[j] /\ (Updating(j) \/ Alerting(j))
    BY <1>1, <1>3 DEF OrdersInv
  <2>2. Updating(j) => Updating(j)'
    BY <1>2, <2>1 DEF Updating
  <2>3. Alerting(j) => Alerting(j)'
    BY <1>1, <1>2, <2>1 DEF Alerting
  <2> QED  BY <2>1, <2>2, <2>3
<1>4. \A o : Mailed(o)' <=> Mailed(o)
  <2>1. \A o : ~(req'[i] # Idle /\ req'[i].op = "sla" /\ o \in req'[i].mailed)
    BY <1>1 DEF Updating
  <2> QED  BY <1>1, <2>1 DEF Mailed
<1>5. \A o \in Orders \ contested' : AloneAt(o)' /\ AlertsCounted(o)'
  BY <1>1, <1>2, <1>4 DEF OrdersInv, AlertsCounted
<1> QED  BY <1>1, <1>2, <1>3, <1>5 DEF OrdersInv

\* A request goes on, ends or is cut short, and has written its own orders only.
LEMMA OrdersGoOn ==
    ASSUME OrdersInv, NEW i \in Slots, NEW r, req[i] # Idle, req' = [req EXCEPT ![i] = r], UNCHANGED now,
           contested \subseteq contested', r = Idle \/ r.rows \subseteq req[i].rows,
           work' = [o \in Orders |-> work'[o]], Ordered' = Ordered, \A o \in Ordered : WorkIs(work'[o]),
           alerts' \in [Orders -> 0..MaxAlerts],
           \A o \in Orders : o \notin req[i].rows => work'[o] = work[o] /\ alerts'[o] = alerts[o],
           \A o \in Orders : o \in req[i].rows /\ o \notin contested' => AlertsCounted(o)',
           r = Idle \/ Updating(i)' \/ Alerting(i)'
    PROVE  OrdersInv'
<1>1. req'[i] = r /\ req' = [j \in Slots |-> req'[j]] /\ \A j \in Slots : j # i => req'[j] = req[j]
  BY DEF OrdersInv
<1>2. ASSUME NEW o, AloneAt(o) PROVE AloneAt(o)'
  <2>1. \A j \in Slots : j \in InFlight(o)' => j \in InFlight(o)
    BY <1>1 DEF InFlight
  <2> QED  BY <1>2, <2>1 DEF AloneAt
<1>3. ASSUME NEW j \in Slots, j # i, req'[j] # Idle PROVE Updating(j)' \/ Alerting(j)'
  <2>1. req'[j] = req[j] /\ (Updating(j) \/ Alerting(j))
    BY <1>1, <1>3 DEF OrdersInv
  <2>2. Updating(j) => Updating(j)'
    BY <2>1 DEF Updating
  <2>3. ASSUME Alerting(j) PROVE Alerting(j)'
    <3>1. ASSUME NEW o \in req[j].left, o \notin contested' PROVE Breached(o)'
      <4>1. o \in req[j].rows /\ o \in Ordered /\ o \in Orders /\ Breached(o)
        BY <2>3, <3>1 DEF Alerting, Ordered
      <4>2. o \notin req[i].rows
        BY <1>3, <2>1, <3>1, <4>1 DEF OrdersInv, AloneAt, InFlight
      <4>3. work'[o] = work[o]
        BY <4>1, <4>2
      <4> QED  BY <4>1, <4>3 DEF Breached
    <3> QED  BY <2>1, <2>3, <3>1 DEF Alerting
  <2> QED  BY <2>1, <2>2, <2>3
<1>4. ASSUME NEW o \in Orders, o \notin contested', o \notin req[i].rows PROVE AlertsCounted(o)'
  <2>1. \A j \in Slots : (req'[j] # Idle /\ req'[j].op = "sla" /\ o \in req'[j].mailed)
                            <=> (req[j] # Idle /\ req[j].op = "sla" /\ o \in req[j].mailed)
    <3> SUFFICES ASSUME req'[i] # Idle \/ req[i] # Idle
                 PROVE  /\ ~(req'[i] # Idle /\ req'[i].op = "sla" /\ o \in req'[i].mailed)
                        /\ ~(req[i] # Idle /\ req[i].op = "sla" /\ o \in req[i].mailed)
      BY <1>1
    <3>1. req[i].op = "sla" => o \notin req[i].mailed
      BY <1>4 DEF OrdersInv, Alerting, Updating
    <3>2. r = Idle \/ r.op # "sla" \/ o \notin r.mailed
      BY <1>1, <1>4 DEF Updating, Alerting
    <3> QED  BY <1>1, <3>1, <3>2
  <2>2. Mailed(o)' <=> Mailed(o)
    BY <2>1 DEF Mailed
  <2>3. AlertsCounted(o) /\ work'[o] = work[o] /\ alerts'[o] = alerts[o]
    BY <1>4 DEF OrdersInv
  <2> QED  BY <2>2, <2>3 DEF AlertsCounted
<1>5. \A o \in Orders \ contested' : AloneAt(o)' /\ AlertsCounted(o)'
  BY <1>2, <1>4 DEF OrdersInv
<1> QED  BY <1>1, <1>3, <1>5 DEF OrdersInv

\* An order is made.
LEMMA OrderIsMade ==
    ASSUME OrdersInv, NEW o \in Orders, CreateOrder(o)
    PROVE  OrdersInv'
<1>1. PICK deadline \in {Never, now, now + 1} :
        work' = [work EXCEPT ![o] = [status |-> "OPEN", reason |-> FALSE, completedAt |-> Never,
                                     deadline |-> deadline, alertedAt |-> Never]]
  BY DEF CreateOrder
<1> DEFINE w == [status |-> "OPEN", reason |-> FALSE, completedAt |-> Never, deadline |-> deadline, alertedAt |-> Never]
<1>2. o \notin Ordered /\ UNCHANGED <<req, now, alerts>> /\ contested \subseteq contested'
  BY MeetContests DEF CreateOrder, Once
<1>3. /\ deadline \in Never..(MaxTime + 1) /\ Never \in Never..MaxTime
  BY MaxTimeNat DEF OrdersInv, Never
<1>4. WorkIs(w) /\ w.alertedAt = Never /\ w # NoWork
  BY <1>3 DEF WorkIs, WorkRow, WorkStatuses, NoWork
<1> HIDE DEF w
<1>5. work' = [x \in Orders |-> work'[x]] /\ work'[o] = w /\ \A x \in Orders : x # o => work'[x] = work[x]
  BY <1>1 DEF OrdersInv, w
<1>6. Ordered' = Ordered \cup {o} /\ \A x \in Ordered : work'[x] = work[x]
  <2>1. \A x : x \in Ordered' <=> x \in Ordered \/ x = o
    BY <1>4, <1>5 DEF Ordered
  <2> QED  BY <1>2, <1>5, <2>1 DEF Ordered
<1>7. ASSUME NEW j \in Slots, req'[j] # Idle PROVE Updating(j)' \/ Alerting(j)'
  <2>1. req'[j] = req[j] /\ (Updating(j) \/ Alerting(j))
    BY <1>2, <1>7 DEF OrdersInv
  <2>2. Updating(j) => Updating(j)'
    BY <1>6, <2>1 DEF Updating
  <2>3. Alerting(j) => Alerting(j)'
    BY <1>2, <1>6, <2>1 DEF Alerting, Breached
  <2> QED  BY <2>1, <2>2, <2>3
<1>8. ASSUME NEW x \in Orders, x \notin contested' PROVE AloneAt(x)' /\ AlertsCounted(x)'
  <2>1. AloneAt(x) /\ AlertsCounted(x) /\ (Mailed(x)' <=> Mailed(x))
    BY <1>2, <1>8 DEF OrdersInv, Mailed
  <2>2. AloneAt(x)'
    BY <1>2, <2>1 DEF AloneAt, InFlight
  <2>3. (x \in Ordered' /\ work'[x].alertedAt # Never) <=> (x \in Ordered /\ work[x].alertedAt # Never)
    BY <1>2, <1>4, <1>5, <1>6
  <2> QED  BY <1>2, <2>1, <2>2, <2>3 DEF AlertsCounted
<1>9. \A x \in Ordered' : WorkIs(work'[x])
  BY <1>4, <1>5, <1>6 DEF OrdersInv
<1> QED  BY <1>2, <1>5, <1>7, <1>8, <1>9 DEF OrdersInv

\* An order is read, to be updated.
LEMMA OrderIsTaken ==
    ASSUME OrdersInv, NEW i \in Slots, NEW o \in Ordered, UpdateOrder(i, o)
    PROVE  OrdersInv'
<1> DEFINE old == work[o]
           givens == {<<>>} \cup [reason : BOOLEAN]
           due(next, given) == Written([status |-> next, completedAt |-> CompletedAt(old, next)],
                                       IF next = "WAITING" THEN [reason |-> TRUE]
                                       ELSE IF old.status = "WAITING" THEN [reason |-> FALSE]
                                       ELSE given)
           r(next, given) == [op |-> "work", rows |-> {o}, order |-> o,
                              reopens |-> old.status = "COMPLETED" /\ next # "COMPLETED", write |-> due(next, given)]
<1>0. UNCHANGED workVars
  BY DEF UpdateOrder
<1>1. PICK next \in WorkStatuses : \E given \in givens : Begin(i, r(next, given))
  BY DEF UpdateOrder
<1>2. PICK given \in givens : Begin(i, r(next, given))
  BY <1>1
<1> DEFINE at == CompletedAt(old, next)
           note == IF next = "WAITING" THEN [reason |-> TRUE]
                   ELSE IF old.status = "WAITING" THEN [reason |-> FALSE]
                   ELSE given
           w == Written([status |-> next, completedAt |-> at], note)
           q == [op |-> "work", rows |-> {o}, order |-> o,
                 reopens |-> old.status = "COMPLETED" /\ next # "COMPLETED", write |-> w]
<1>3. Begin(i, q)
  BY <1>2
<1> HIDE DEF givens
<1>4. at \in Never..MaxTime /\ (next = "COMPLETED" => at # Never)
  BY MaxTimeNat DEF OrdersInv, CompletedAt, WorkIs, WorkRow, Never
<1>5. \/ DOMAIN note = {"reason"} /\ note.reason \in BOOLEAN /\ (next = "WAITING" => note.reason = TRUE)
      \/ DOMAIN note = {} /\ next # "WAITING"
  <2>1. \A b \in BOOLEAN : DOMAIN [reason |-> b] = {"reason"} /\ [reason |-> b].reason = b
    OBVIOUS
  <2>2. DOMAIN <<>> = {}
    OBVIOUS
  <2>3. given = <<>> \/ \E b \in BOOLEAN : given = [reason |-> b]
    BY DEF givens
  <2>4. \/ \E b \in BOOLEAN : note = [reason |-> b] /\ (next = "WAITING" => b = TRUE)
        \/ note = <<>> /\ next # "WAITING"
    BY <2>3
  <2> HIDE DEF note
  <2> QED  BY <2>1, <2>2, <2>4
<1> HIDE DEF note, at
<1>6. WorkWrite(w)
  <2>1. CASE DOMAIN note = {"reason"} /\ note.reason \in BOOLEAN /\ (next = "WAITING" => note.reason = TRUE)
    <3>1. DOMAIN w = {"status", "completedAt", "reason"} /\ w.status = next /\ w.completedAt = at /\ w.reason = note.reason
      BY <2>1 DEF Written
    <3>2. w = [status |-> next, completedAt |-> at, reason |-> note.reason]
      BY <3>1 DEF Written
    <3> HIDE DEF w
    <3> QED  BY <1>4, <2>1, <3>1, <3>2 DEF WorkWrite
  <2>2. CASE DOMAIN note = {} /\ next # "WAITING"
    <3>1. w = [status |-> next, completedAt |-> at]
      BY <2>2 DEF Written
    <3> HIDE DEF w
    <3> QED  BY <1>4, <2>2, <3>1 DEF WorkWrite
  <2> QED  BY <1>5, <2>1, <2>2
<1> HIDE DEF w
<1>7. q # Idle
  BY DEF Idle
<1>8. req'[i] = q /\ Ordered' = Ordered
  BY <1>0, <1>3, BeginAlone DEF OrdersInv, workVars, Ordered
<1>9. Updating(i)'
  BY <1>6, <1>7, <1>8 DEF Updating
<1> HIDE DEF q
<1> QED  BY <1>0, <1>3, <1>7, <1>9, OrdersBegin

\* The update is written: the mark goes with a reopening, and the count with it.
LEMMA OrderIsWritten ==
    ASSUME OrdersInv, NEW i \in Slots, WriteOrder(i)
    PROVE  OrdersInv'
<1> DEFINE o == req[i].order
           w == req[i].write
           marked == IF req[i].reopens THEN Never ELSE work[o].alertedAt
           row == [work[o] EXCEPT !.alertedAt = marked]
           n == Written(w, row)
           sent == IF req[i].reopens THEN 0 ELSE alerts[o]
<1>1. /\ req[i] # Idle /\ req[i].op = "work" /\ req' = [req EXCEPT ![i] = Idle] /\ UNCHANGED <<contested, now>>
      /\ work' = [work EXCEPT ![o] = n] /\ alerts' = [alerts EXCEPT ![o] = sent]
  <2>1. /\ req[i] # Idle /\ req[i].op = "work" /\ req' = [req EXCEPT ![i] = Idle] /\ UNCHANGED <<contested, now>>
        /\ alerts' = [alerts EXCEPT ![o] = sent]
    BY DEF WriteOrder, End, Proceed
  <2>2. work' = [work EXCEPT ![o] = Written(w, [work[o] EXCEPT !.alertedAt = marked])]
    BY DEF WriteOrder
  <2> QED  BY <2>1, <2>2
<1>2. o \in Ordered /\ o \in Orders /\ req[i].rows = {o} /\ WorkWrite(w) /\ WorkIs(work[o])
  BY <1>1 DEF OrdersInv, Updating, Alerting, Ordered
<1>3. marked \in Never..MaxTime /\ (req[i].reopens => marked = Never) /\ (~req[i].reopens => marked = work[o].alertedAt)
  BY <1>2, MaxTimeNat DEF WorkIs, WorkRow, Never
<1>4. /\ sent \in 0..MaxAlerts /\ (req[i].reopens => sent = 0) /\ (~req[i].reopens => sent = alerts[o])
      /\ alerts[o] \in 0..MaxAlerts
  BY <1>2 DEF OrdersInv, MaxAlerts
<1> HIDE DEF marked, sent, w, o
<1>5. row \in WorkRow /\ row.alertedAt = marked /\ row.reason = work[o].reason
  BY <1>2, <1>3 DEF WorkIs, WorkRow
<1> HIDE DEF row
<1>6. WorkIs(n) /\ n.alertedAt = marked /\ n # NoWork
  <2> DEFINE c(x) == IF x \in DOMAIN w THEN w[x] ELSE row[x]
             f == [status |-> c("status"), reason |-> c("reason"), completedAt |-> c("completedAt"),
                   deadline |-> c("deadline"), alertedAt |-> c("alertedAt")]
  <2>1. DOMAIN row = {"status", "reason", "completedAt", "deadline", "alertedAt"}
    BY <1>5 DEF WorkRow
  <2>2. /\ {"status", "completedAt"} \subseteq DOMAIN w /\ DOMAIN w \subseteq {"status", "completedAt", "reason"}
        /\ w.status \in WorkStatuses /\ w.completedAt \in Never..MaxTime
        /\ "reason" \in DOMAIN w => w.reason \in BOOLEAN
        /\ w.status = "WAITING" => "reason" \in DOMAIN w /\ w.reason = TRUE
        /\ w.status = "COMPLETED" => w.completedAt # Never
    BY <1>2 DEF WorkWrite
  <2>3. DOMAIN n = DOMAIN row /\ \A x \in DOMAIN row : n[x] = c(x)
    BY <2>1, <2>2 DEF Written
  <2>4. n = f
    BY <2>1, <2>3 DEF Written
  <2>5. c("status") \in WorkStatuses /\ c("completedAt") \in Never..MaxTime /\ c("reason") \in BOOLEAN
        /\ c("deadline") \in Never..(MaxTime + 1) /\ c("alertedAt") = marked
    BY <1>5, <2>2 DEF WorkRow
  <2>6. (c("status") = "WAITING" => c("reason") = TRUE) /\ (c("status") = "COMPLETED" => c("completedAt") # Never)
    BY <2>2
  <2> HIDE DEF c, n
  <2>7. f \in WorkRow /\ f.status = c("status") /\ f.reason = c("reason") /\ f.completedAt = c("completedAt") /\ f.alertedAt = marked
    BY <1>3, <2>5 DEF WorkRow
  <2>8. f # NoWork
    BY DEF NoWork
  <2> HIDE DEF f
  <2> QED  BY <2>4, <2>6, <2>7, <2>8 DEF WorkIs
<1> HIDE DEF n
<1>7. /\ work' = [x \in Orders |-> work'[x]] /\ work'[o] = n /\ \A x \in Orders : x # o => work'[x] = work[x]
      /\ alerts' \in [Orders -> 0..MaxAlerts] /\ alerts'[o] = sent /\ \A x \in Orders : x # o => alerts'[x] = alerts[x]
  BY <1>1, <1>2, <1>4 DEF OrdersInv
<1>8. Ordered' = Ordered
  <2>1. \A x : x \in Ordered' <=> x \in Ordered
    BY <1>2, <1>6, <1>7 DEF Ordered
  <2> QED  BY <2>1
<1>9. \A x \in Ordered : WorkIs(work'[x])
  BY <1>2, <1>6, <1>7 DEF OrdersInv, Ordered
<1>10. ASSUME o \notin contested PROVE \A x : x = o => AlertsCounted(x)'
  <2>1. AloneAt(o) /\ AlertsCounted(o)
    BY <1>2, <1>10 DEF OrdersInv
  <2>2. ASSUME NEW j \in Slots, req[j] # Idle, req[j].op = "sla", o \in req[j].mailed PROVE FALSE
    <3>1. o \in req[j].rows /\ j # i
      BY <1>1, <2>2 DEF OrdersInv, Alerting, Updating
    <3> QED  BY <1>1, <1>2, <2>1, <2>2, <3>1 DEF AloneAt, InFlight
  <2>3. ~Mailed(o)
    BY <2>2 DEF Mailed
  <2>4. \A x : x = o => ~Mailed(x)'
    BY <1>1, <2>2 DEF Mailed, OrdersInv
  <2>5. alerts[o] = IF work[o].alertedAt # Never THEN 1 ELSE 0
    BY <1>2, <2>1, <2>3 DEF AlertsCounted
  <2>6. sent = IF marked # Never THEN 1 ELSE 0
    BY <1>3, <1>4, <2>5
  <2> QED  BY <1>2, <1>6, <1>7, <1>8, <2>4, <2>6 DEF AlertsCounted
<1> QED  BY <1>1, <1>2, <1>7, <1>8, <1>9, <1>10, OrdersGoOn

LEMMA AlertsAreListed ==
    ASSUME OrdersInv, NEW i \in Slots, RunSlaBreachAlerts(i)
    PROVE  OrdersInv'
<1> DEFINE due == {o \in Orders : Breached(o)}
           r == [op |-> "sla", rows |-> due, left |-> due, mailed |-> {}]
<1>1. Begin(i, r) /\ UNCHANGED workVars
  BY DEF RunSlaBreachAlerts
<1>2. due \subseteq Ordered /\ \A o \in due : Breached(o)
  BY DEF Breached
<1> HIDE DEF due
<1>3. req'[i] = r /\ r # Idle /\ now' = now /\ r.mailed = {} /\ Ordered' = Ordered
  BY <1>1, BeginAlone DEF OrdersInv, Idle, Begin, workVars, Ordered
<1>4. \A o \in due : Breached(o)'
  BY <1>1, <1>2, <1>3 DEF workVars, Breached
<1>5. Alerting(i)'
  BY <1>2, <1>3, <1>4 DEF Alerting
<1> HIDE DEF r
<1> QED  BY <1>1, <1>3, <1>5, OrdersBegin

LEMMA AlertIsMailed ==
    ASSUME OrdersInv, NEW i \in Slots, MailAlert(i)
    PROVE  OrdersInv'
<1>1. PICK o \in req[i].left :
        /\ alerts[o] < MaxAlerts
        /\ alerts' = [alerts EXCEPT ![o] = @ + 1]
        /\ Proceed(i, [req[i] EXCEPT !.mailed = {o}])
  BY DEF MailAlert
<1> DEFINE r == [req[i] EXCEPT !.mailed = {o}]
<1>2. /\ req[i] # Idle /\ req[i].op = "sla" /\ req[i].mailed = {} /\ work' = work /\ Ordered' = Ordered
      /\ req' = [req EXCEPT ![i] = r] /\ UNCHANGED <<contested, now>>
  BY <1>1 DEF MailAlert, Proceed, Ordered
<1>3. Alerting(i) /\ o \in Ordered /\ o \in Orders /\ o \in req[i].rows
  BY <1>2 DEF OrdersInv, Alerting, Updating, Ordered
<1>4. /\ DOMAIN r = DOMAIN req[i] /\ r.op = "sla" /\ r.rows = req[i].rows /\ r.left = req[i].left /\ r.mailed = {o}
  BY <1>2, <1>3 DEF Alerting
<1> HIDE DEF r
<1>5. req'[i] = r /\ r # Idle
  BY <1>2, <1>4 DEF OrdersInv, Idle
<1>6. Alerting(i)'
  BY <1>2, <1>3, <1>4, <1>5 DEF Alerting, Breached
<1>7. alerts' \in [Orders -> 0..MaxAlerts] /\ alerts'[o] = alerts[o] + 1 /\ \A x \in Orders : x # o => alerts'[x] = alerts[x]
  BY <1>1, <1>3 DEF OrdersInv, MaxAlerts
<1>8. ASSUME NEW x \in Orders, x \in req[i].rows, x \notin contested PROVE AlertsCounted(x)'
  <2>1. AloneAt(x) /\ AlertsCounted(x)
    BY <1>8 DEF OrdersInv
  <2>2. \A j \in Slots : req[j] # Idle /\ req[j].op = "sla" /\ x \in req[j].mailed => j = i
    BY <1>2, <1>8, <2>1 DEF OrdersInv, Alerting, Updating, AloneAt, InFlight
  <2>3. ~Mailed(x)
    BY <1>2, <2>2 DEF Mailed
  <2>4. Mailed(x)' <=> x = o
    BY <1>2, <1>4, <1>5, <2>2 DEF Mailed, OrdersInv
  <2>5. CASE x = o
    <3>1. work[o].alertedAt = Never
      BY <1>3, <1>8, <2>5 DEF Alerting, Breached
    <3> QED  BY <1>2, <1>7, <2>1, <2>3, <2>4, <2>5, <3>1 DEF AlertsCounted
  <2>6. CASE x # o
    BY <1>2, <1>7, <2>1, <2>3, <2>4, <2>6 DEF AlertsCounted
  <2> QED  BY <2>5, <2>6
<1>9. work' = [x \in Orders |-> work'[x]] /\ \A x \in Ordered : WorkIs(work'[x])
  BY <1>2 DEF OrdersInv
<1> QED  BY <1>2, <1>3, <1>4, <1>6, <1>7, <1>8, <1>9, OrdersGoOn

\* The mark is set, or its update fails.
LEMMA AlertIsMarked ==
    ASSUME OrdersInv, NEW i \in Slots, MarkAlerted(i)
    PROVE  OrdersInv'
<1> DEFINE rest == req[i].left \ req[i].mailed
           r == [req[i] EXCEPT !.left = rest, !.mailed = {}]
           q == IF rest = {} THEN Idle ELSE r
<1>1. /\ req[i] # Idle /\ req[i].op = "sla" /\ now' = now /\ alerts' = alerts
  BY DEF MarkAlerted
<1>2. req' = [req EXCEPT ![i] = q]
  <2>1. (rest = {} => req' = [req EXCEPT ![i] = Idle]) /\ (rest # {} => req' = [req EXCEPT ![i] = r])
    BY DEF MarkAlerted
  <2> HIDE DEF rest, r
  <2> QED  BY <2>1
<1>3. \/ /\ work' = [o \in Orders |-> IF o \in req[i].mailed THEN [work[o] EXCEPT !.alertedAt = now] ELSE work[o]]
         /\ contested' = contested
      \/ contested' = contested \cup req[i].mailed /\ work' = work
  BY DEF MarkAlerted
<1>4. Alerting(i)
  BY <1>1 DEF OrdersInv, Updating
<1>5. DOMAIN r = DOMAIN req[i] /\ r.op = "sla" /\ r.rows = req[i].rows /\ r.left = rest /\ r.mailed = {} /\ r # Idle
  BY <1>1, <1>4 DEF Alerting, Idle
<1> HIDE DEF r
<1>6. req'[i] = q /\ (q = Idle \/ q = r) /\ contested \subseteq contested'
  BY <1>2, <1>3 DEF OrdersInv
<1> HIDE DEF q
<1>7. /\ work' = [x \in Orders |-> work'[x]]
      /\ \A x \in Orders : x \notin req[i].mailed => work'[x] = work[x]
      /\ \A x \in req[i].mailed : /\ x \in Ordered /\ x \in Orders /\ WorkIs(work'[x]) /\ work'[x] # NoWork
                                  /\ x \notin contested' => work'[x].alertedAt # Never
  <2>1. \A x \in Ordered : x \in Orders /\ WorkIs(work[x]) /\ work[x] # NoWork
    BY DEF OrdersInv, Ordered
  <2>2. now \in Never..MaxTime /\ now # Never
    BY MaxTimeNat DEF OrdersInv, Never
  <2>3. \A w, v : WorkIs(w) /\ v = [w EXCEPT !.alertedAt = now] => WorkIs(v) /\ v # NoWork /\ v.alertedAt = now
    BY <2>2 DEF WorkIs, WorkRow, NoWork
  <2>4. req[i].mailed \subseteq Ordered
    BY <1>4 DEF Alerting
  <2>5. work = [x \in Orders |-> work[x]]
    BY DEF OrdersInv
  <2>6. CASE contested' = contested \cup req[i].mailed /\ work' = work
    BY <2>1, <2>4, <2>5, <2>6
  <2>7. CASE work' = [o \in Orders |-> IF o \in req[i].mailed THEN [work[o] EXCEPT !.alertedAt = now] ELSE work[o]]
    <3>1. work' = [x \in Orders |-> work'[x]] /\ \A x \in Orders : x \notin req[i].mailed => work'[x] = work[x]
      BY <2>7
    <3>2. \A x \in req[i].mailed : x \in Ordered /\ x \in Orders /\ WorkIs(work[x]) /\ work'[x] = [work[x] EXCEPT !.alertedAt = now]
      BY <2>1, <2>4, <2>7
    <3>3. \A x \in req[i].mailed : WorkIs(work'[x]) /\ work'[x] # NoWork /\ work'[x].alertedAt = now
      BY <2>3, <3>2
    <3> QED  BY <2>2, <3>1, <3>2, <3>3
  <2> QED  BY <1>3, <2>6, <2>7
<1>8. Ordered' = Ordered
  <2>1. \A x : x \in Ordered' <=> x \in Ordered
    BY <1>7 DEF Ordered
  <2> QED  BY <2>1
<1>9. \A x \in Ordered : WorkIs(work'[x])
  BY <1>7 DEF OrdersInv, Ordered
<1>10. ASSUME NEW x \in rest, x \notin contested' PROVE Breached(x)'
  <2>1. x \in Orders /\ x \notin req[i].mailed /\ Breached(x)
    BY <1>4, <1>6, <1>10 DEF Alerting, Ordered
  <2>2. work'[x] = work[x]
    BY <1>7, <2>1
  <2> QED  BY <1>1, <1>8, <2>1, <2>2 DEF Breached
<1>11. q = Idle \/ Alerting(i)'
  <2>1. rest \subseteq req[i].rows /\ rest \subseteq Ordered
    BY <1>4 DEF Alerting
  <2>2. {"op", "rows", "left", "mailed"} \subseteq DOMAIN req[i]
    BY <1>4 DEF Alerting
  <2> HIDE DEF rest
  <2> QED  BY <1>5, <1>6, <1>8, <1>10, <2>1, <2>2 DEF Alerting
<1>12. ASSUME NEW x \in Orders, x \in req[i].rows, x \notin contested' PROVE AlertsCounted(x)'
  <2>1. AloneAt(x) /\ AlertsCounted(x)
    BY <1>6, <1>12 DEF OrdersInv
  <2>2. \A j \in Slots : req[j] # Idle /\ req[j].op = "sla" /\ x \in req[j].mailed => j = i
    BY <1>1, <1>12, <2>1 DEF OrdersInv, Alerting, Updating, AloneAt, InFlight
  <2>3. Mailed(x) <=> x \in req[i].mailed
    BY <1>1, <2>2 DEF Mailed
  <2>4. ~Mailed(x)'
    BY <1>2, <1>5, <1>6, <2>2 DEF Mailed, OrdersInv
  <2>5. (x \in Ordered' /\ work'[x].alertedAt # Never) <=> (x \in Ordered /\ work[x].alertedAt # Never) \/ x \in req[i].mailed
    BY <1>7, <1>8, <1>12
  <2> QED  BY <1>1, <2>1, <2>3, <2>4, <2>5 DEF AlertsCounted
<1>13. \A x \in Orders : x \notin req[i].rows => work'[x] = work[x]
  BY <1>4, <1>7 DEF Alerting
<1>14. (q = Idle \/ q.rows \subseteq req[i].rows) /\ alerts' \in [Orders -> 0..MaxAlerts]
  BY <1>1, <1>5, <1>6 DEF OrdersInv
<1> QED  BY <1>1, <1>2, <1>6, <1>7, <1>8, <1>9, <1>11, <1>12, <1>13, <1>14, OrdersGoOn

LEMMA OrdersStay ==
    ASSUME OrdersInv, WorkNext
    PROVE  OrdersInv'
<1>1. CASE Tick /\ UNCHANGED workVars
  <2>1. UNCHANGED <<req, contested, work, alerts>> /\ now' \in 1..MaxTime /\ now <= now' /\ now \in Nat
    BY <1>1, MaxTimeNat DEF Tick, OrdersInv, workVars
  <2>2. Ordered' = Ordered /\ \A o : Mailed(o)' <=> Mailed(o)
    BY <2>1 DEF Ordered, Mailed
  <2>3. \A o \in Ordered : Breached(o) => Breached(o)'
    <3>1. \A o \in Ordered : work[o].deadline \in Nat
      BY MaxTimeNat DEF OrdersInv, WorkIs, WorkRow, Never
    <3> QED  BY <2>1, <2>2, <3>1, MaxTimeNat DEF Breached
  <2>4. \A i \in Slots : (Updating(i) => Updating(i)') /\ (Alerting(i) => Alerting(i)')
    BY <2>1, <2>2, <2>3 DEF Updating, Alerting
  <2> QED  BY <2>1, <2>2, <2>4 DEF OrdersInv, AloneAt, InFlight, AlertsCounted
<1>2. ASSUME NEW i \in Slots, Cut(i), UNCHANGED workVars PROVE OrdersInv'
  <2>1. /\ req[i] # Idle /\ req' = [req EXCEPT ![i] = Idle] /\ contested' = contested \cup req[i].rows /\ now' = now
        /\ work' = work /\ alerts' = alerts /\ Ordered' = Ordered
    BY <1>2 DEF Cut, workVars, Ordered
  <2>2. /\ work' = [x \in Orders |-> work'[x]] /\ (\A x \in Ordered : WorkIs(work'[x]))
        /\ alerts' \in [Orders -> 0..MaxAlerts]
    BY <2>1 DEF OrdersInv
  <2> QED  BY <2>1, <2>2, OrdersGoOn
<1>3. ASSUME NEW i \in Slots, WorkStep(i) PROVE OrdersInv'
  BY <1>3, OrderIsTaken, OrderIsWritten, AlertsAreListed, AlertIsMailed, AlertIsMarked DEF WorkStep
<1> QED  BY <1>1, <1>2, <1>3, OrderIsMade DEF WorkNext

LEMMA OrdersInitially == Init => OrdersKept
<1> SUFFICES ASSUME Init PROVE OrdersKept
  OBVIOUS
<1>1. /\ work = [o \in Orders |-> NoWork] /\ alerts = [o \in Orders |-> 0]
      /\ req = [i \in Slots |-> Idle] /\ contested = {} /\ now = 1
  BY DEF Init, WorkInit, RequestsInit
<1>2. Ordered = {} /\ 1 \in 1..MaxTime /\ alerts \in [Orders -> 0..MaxAlerts]
  BY <1>1, MaxTimeNat DEF Ordered, MaxAlerts
<1>3. \A o \in Orders : AloneAt(o) /\ AlertsCounted(o)
  BY <1>1, <1>2 DEF AloneAt, InFlight, AlertsCounted, Mailed
<1> QED  BY <1>1, <1>2, <1>3 DEF OrdersKept, OrdersInv

LEMMA OrdersStayKept == OrdersKept /\ [Next]_premisesVars => OrdersKept'
<1> SUFFICES ASSUME OrdersKept, [Next]_premisesVars PROVE OrdersKept'
  OBVIOUS
<1>1. CASE Next
  BY <1>1, DesksApart, OrdersStay DEF OrdersKept, workVars
<1>2. CASE UNCHANGED premisesVars
  <2>1. UNCHANGED <<desk, req, contested, now, work, alerts>>
    BY <1>2 DEF premisesVars, requestVars, workVars
  <2>2. Ordered' = Ordered /\ \A o : (Mailed(o)' <=> Mailed(o)) /\ (Breached(o) <=> Breached(o)')
    BY <2>1 DEF Ordered, Mailed, Breached
  <2>3. \A i \in Slots : (Updating(i) => Updating(i)') /\ (Alerting(i) => Alerting(i)')
    BY <2>1, <2>2 DEF Updating, Alerting
  <2> QED  BY <2>1, <2>2, <2>3 DEF OrdersKept, OrdersInv, AloneAt, InFlight, AlertsCounted
<1> QED  BY <1>1, <1>2

\* No request of another desk runs under the name of the job.
NoAlertsElsewhere ==
    desk # "work" => \A i \in Slots : req[i] = Idle \/ ("op" \in DOMAIN req[i] /\ req[i].op # "sla")

LEMMA AlertsAreSentOnce == OrdersKept /\ NoAlertsElsewhere => AlertedOncePerBreach
<1> SUFFICES ASSUME OrdersKept, NoAlertsElsewhere PROVE AlertedOncePerBreach
  OBVIOUS
<1>1. CASE desk = "work"
  <2>1. ASSUME NEW o \in Ordered \ contested PROVE alerts[o] <= 1 /\ (work[o].alertedAt # Never => alerts[o] = 1)
    BY <1>1, <2>1 DEF OrdersKept, OrdersInv, AlertsCounted, Ordered
  <2>2. \A i \in Slots : req[i] # Idle /\ req[i].op = "sla" => \A o \in req[i].mailed \ contested : Breached(o)
    BY <1>1 DEF OrdersKept, OrdersInv, Alerting, Updating
  <2> QED  BY <2>1, <2>2 DEF AlertedOncePerBreach
<1>2. CASE desk # "work"
  BY <1>2 DEF OrdersKept, NoAlertsElsewhere, AlertedOncePerBreach, Ordered
<1> QED  BY <1>1, <1>2

-----------------------------------------------------------------------------
(***************************************************************************)
(* Charges of an estate.  What a request has read of a charge that nobody  *)
(* contests is still so when it writes; a reminder of a type has been sent *)
(* exactly while the log has it, or while the run that sent it is still at *)
(* the row.                                                                *)
(***************************************************************************)

ChargeStatuses == {"POSTED", "PARTIALLY_PAID", "PAID", "OVERDUE", "VOID"}

ChargeRow == [amount : Amounts, paid : Nat, due : Nat, status : ChargeStatuses]

ReminderRow == [logged : BOOLEAN, sent : 0..MaxSent]

Unpaid == {"POSTED", "PARTIALLY_PAID", "OVERDUE"}

Charging(i) ==
    /\ req[i] # Idle /\ req[i].op = "charge" /\ req[i].charge \in Charged /\ req[i].rows = {req[i].charge}
    /\ req[i].amount \in Amounts /\ req[i].due \in Nat /\ req[i].status \in ChargeStatuses
    /\ req[i].charge \notin contested =>
          LET row == charge[req[i].charge] IN
          /\ req[i].amount >= row.paid /\ (~req[i].newAmount => req[i].amount = row.amount)
          /\ row.status = "VOID" => req[i].status = "VOID"
          /\ req[i].status # "VOID" => (req[i].status = "PAID" <=> row.paid = req[i].amount)

Paying(i) ==
    /\ req[i] # Idle /\ req[i].op = "pay" /\ req[i].charge \in Charged /\ req[i].rows = {req[i].charge}
    /\ req[i].payment \in Amounts /\ req[i].status \in ChargeStatuses
    /\ req[i].charge \notin contested =>
          LET row == charge[req[i].charge] IN
          /\ row.status # "VOID" /\ req[i].status # "VOID" /\ row.paid + req[i].payment <= row.amount
          /\ req[i].status = "PAID" <=> row.paid + req[i].payment = row.amount

Reminding(i) ==
    /\ req[i] # Idle /\ {"op", "rows", "left", "type", "at"} \subseteq DOMAIN req[i] /\ req[i].op = "remind"
    /\ req[i].type \in ReminderTypes /\ req[i].left \subseteq req[i].rows /\ req[i].left \subseteq Charged
    /\ req[i].at = "send" \/ (req[i].at \in Charged /\ req[i].at \in req[i].rows /\ req[i].at \notin req[i].left)
    /\ \A c \in req[i].left \ contested : ~reminders[c][req[i].type].logged
    /\ \A c \in Charges \ contested : c \in req[i].left \/ c = req[i].at => charge[c].status \in Unpaid

Sending(i, c, t) == req[i] # Idle /\ req[i].op = "remind" /\ req[i].at = c /\ req[i].type = t

RemindersCounted(c) ==
    \A t \in ReminderTypes :
        reminders[c][t].sent = IF reminders[c][t].logged \/ \E i \in Slots : Sending(i, c, t) THEN 1 ELSE 0

RowBalances(c) ==
    c \in Charged /\ charge[c].status # "VOID" =>
        /\ charge[c].paid <= charge[c].amount
        /\ charge[c].status = "PAID" <=> charge[c].paid = charge[c].amount

ChargesInv ==
    /\ now \in 1..MaxTime
    /\ charge = [c \in Charges |-> charge[c]] /\ \A c \in Charged : charge[c] \in ChargeRow
    /\ reminders \in [Charges -> [ReminderTypes -> ReminderRow]]
    /\ req = [i \in Slots |-> req[i]]
    /\ \A i \in Slots : req[i] = Idle \/ Charging(i) \/ Paying(i) \/ Reminding(i)
    /\ \A c \in Charges \ contested : AloneAt(c) /\ RemindersCounted(c) /\ RowBalances(c)

ChargesKept ==
    /\ desk = "charges" => ChargesInv
    /\ desk # "charges" =>
          /\ charge = [c \in Charges |-> NoCharge]
          /\ reminders = [c \in Charges |-> [t \in ReminderTypes |-> [logged |-> FALSE, sent |-> 0]]]

-----------------------------------------------------------------------------

LEMMA DerivedStatus ==
    ASSUME NEW amount \in Nat, NEW paid \in Nat, NEW due \in Nat, now \in Nat, NEW forced
    PROVE  LET s == deriveEstateChargeStatus(amount, paid, due, forced) IN
           /\ s \in ChargeStatuses /\ (s = "VOID" <=> forced = "VOID")
           /\ forced # "VOID" => (s = "PAID" <=> paid >= amount)
<1>1. CASE forced = "VOID"
  BY <1>1 DEF deriveEstateChargeStatus, ChargeStatuses
<1>2. CASE forced # "VOID" /\ paid >= amount
  BY <1>2 DEF deriveEstateChargeStatus, ChargeStatuses
<1>3. CASE forced # "VOID" /\ paid < amount /\ due < now
  BY <1>3 DEF deriveEstateChargeStatus, ChargeStatuses
<1>4. CASE forced # "VOID" /\ paid < amount /\ due >= now /\ paid > 0
  BY <1>4 DEF deriveEstateChargeStatus, ChargeStatuses
<1>5. CASE forced # "VOID" /\ paid < amount /\ due >= now /\ ~(paid > 0)
  BY <1>5 DEF deriveEstateChargeStatus, ChargeStatuses
<1> QED  BY <1>1, <1>2, <1>3, <1>4, <1>5

LEMMA ChargesBegin ==
    ASSUME ChargesInv, UNCHANGED chargeVars, NEW i \in Slots, NEW r, Begin(i, r), r # Idle,
           Charging(i)' \/ Paying(i)' \/ (Reminding(i)' /\ r.at = "send")
    PROVE  ChargesInv'
<1>1. /\ req[i] = Idle /\ req'[i] = r /\ req' = [j \in Slots |-> req'[j]] /\ contested \subseteq contested' /\ now' = now
      /\ \A j \in Slots : j # i => req'[j] = req[j]
      /\ \A row : AloneAt(row) /\ row \notin contested' => AloneAt(row)'
  BY BeginAlone DEF ChargesInv, Begin
<1>2. charge' = charge /\ reminders' = reminders /\ Charged' = Charged
  BY <1>1 DEF chargeVars, Charged
<1>3. ASSUME NEW j \in Slots, j # i, req'[j] # Idle PROVE Charging(j)' \/ Paying(j)' \/ Reminding(j)'
  <2>1. req'[j] = req[j] /\ (Charging(j) \/ Paying(j) \/ Reminding(j))
    BY <1>1, <1>3 DEF ChargesInv
  <2>2. Charging(j) => Charging(j)'
    BY <1>1, <1>2, <2>1 DEF Charging
  <2>3. Paying(j) => Paying(j)'
    BY <1>1, <1>2, <2>1 DEF Paying
  <2>4. Reminding(j) => Reminding(j)'
    BY <1>1, <1>2, <2>1 DEF Reminding
  <2> QED  BY <2>1, <2>2, <2>3, <2>4
<1>4. \A c \in Charges : \A t : \A j \in Slots : Sending(j, c, t)' <=> Sending(j, c, t)
  <2>1. \A c \in Charges : \A t : ~(req'[i] # Idle /\ req'[i].op = "remind" /\ req'[i].at = c /\ req'[i].type = t)
    BY <1>1, SendIsNoCharge DEF Charging, Paying
  <2> QED  BY <1>1, <2>1 DEF Sending
<1>5. \A c \in Charges \ contested' : AloneAt(c)' /\ RemindersCounted(c)' /\ RowBalances(c)'
  BY <1>1, <1>2, <1>4 DEF ChargesInv, RemindersCounted, RowBalances
<1> QED  BY <1>1, <1>2, <1>3, <1>5 DEF ChargesInv

\* A request goes on, ends or is cut short, and has written its own charges only.
LEMMA ChargesGoOn ==
    ASSUME ChargesInv, NEW i \in Slots, NEW r, req[i] # Idle, req' = [req EXCEPT ![i] = r], UNCHANGED now,
           contested \subseteq contested', r = Idle \/ r.rows \subseteq req[i].rows,
           charge' = [c \in Charges |-> charge'[c]], Charged' = Charged, \A c \in Charged : charge'[c] \in ChargeRow,
           reminders' \in [Charges -> [ReminderTypes -> ReminderRow]],
           \A c \in Charges : c \notin req[i].rows => charge'[c] = charge[c] /\ reminders'[c] = reminders[c],
           \A c \in Charges : c \in req[i].rows /\ c \notin contested' => RemindersCounted(c)' /\ RowBalances(c)',
           r = Idle \/ Charging(i)' \/ Paying(i)' \/ Reminding(i)'
    PROVE  ChargesInv'
<1>1. req'[i] = r /\ req' = [j \in Slots |-> req'[j]] /\ \A j \in Slots : j # i => req'[j] = req[j]
  BY DEF ChargesInv
<1>2. ASSUME NEW c, AloneAt(c) PROVE AloneAt(c)'
  <2>1. \A j \in Slots : j \in InFlight(c)' => j \in InFlight(c)
    BY <1>1 DEF InFlight
  <2> QED  BY <1>2, <2>1 DEF AloneAt
<1>3. ASSUME NEW j \in Slots, j # i, req'[j] # Idle PROVE Charging(j)' \/ Paying(j)' \/ Reminding(j)'
  <2>1. req'[j] = req[j] /\ (Charging(j) \/ Paying(j) \/ Reminding(j))
    BY <1>1, <1>3 DEF ChargesInv
  <2>2. \A c \in Charges : c \in req[j].rows /\ c \notin contested' => charge'[c] = charge[c] /\ reminders'[c] = reminders[c]
    BY <1>3, <2>1 DEF ChargesInv, AloneAt, InFlight
  <2>3. Charging(j) => Charging(j)'
    BY <2>1, <2>2 DEF Charging, Charged
  <2>4. Paying(j) => Paying(j)'
    BY <2>1, <2>2 DEF Paying, Charged
  <2>5. Reminding(j) => Reminding(j)'
    BY <2>1, <2>2, SendIsNoCharge DEF Reminding, Charged
  <2> QED  BY <2>1, <2>3, <2>4, <2>5
<1>4. ASSUME NEW c \in Charges, c \notin contested', c \notin req[i].rows PROVE RemindersCounted(c)' /\ RowBalances(c)'
  <2>1. RemindersCounted(c) /\ RowBalances(c) /\ charge'[c] = charge[c] /\ reminders'[c] = reminders[c]
    BY <1>4 DEF ChargesInv
  <2>2. \A t : ~Sending(i, c, t)
    BY <1>4, SendIsNoCharge DEF ChargesInv, Charging, Paying, Reminding, Sending
  <2>3. \A t : ~Sending(i, c, t)'
    BY <1>1, <1>4, SendIsNoCharge DEF Charging, Paying, Reminding, Sending
  <2>4. \A t : \A j \in Slots : Sending(j, c, t)' <=> Sending(j, c, t)
    BY <1>1, <2>2, <2>3 DEF Sending
  <2>5. RemindersCounted(c)'
    BY <2>1, <2>4 DEF RemindersCounted
  <2> QED  BY <2>1, <2>5 DEF RowBalances
<1>5. \A c \in Charges \ contested' : AloneAt(c)' /\ RemindersCounted(c)' /\ RowBalances(c)'
  BY <1>2, <1>4 DEF ChargesInv
<1> QED  BY <1>1, <1>3, <1>5 DEF ChargesInv

LEMMA ChargeIsPosted ==
    ASSUME ChargesInv, NEW c \in Charges, CreateFinanceCharge(c)
    PROVE  ChargesInv'
<1>1. PICK amount \in Amounts, due \in {now + d : d \in DueIn} :
        charge' = [charge EXCEPT ![c] = [amount |-> amount, paid |-> 0, due |-> due,
                                         status |-> deriveEstateChargeStatus(amount, 0, due, "none")]]
  BY DEF CreateFinanceCharge
<1> DEFINE status == deriveEstateChargeStatus(amount, 0, due, "none")
           row == [amount |-> amount, paid |-> 0, due |-> due, status |-> status]
<1>2. c \notin Charged /\ UNCHANGED <<req, now, reminders>> /\ contested \subseteq contested'
  BY MeetContests DEF CreateFinanceCharge, Once
<1>3. amount \in Nat /\ amount > 0 /\ due \in Nat /\ 0 \in Nat /\ now \in Nat
  BY MaxTimeNat, AmountsArePositive, DueSoonNat DEF ChargesInv
<1>4. status \in ChargeStatuses /\ status # "VOID" /\ status # "PAID"
  BY <1>3, DerivedStatus
<1> HIDE DEF status
<1>5. row \in ChargeRow /\ row # NoCharge /\ row.paid = 0 /\ row.amount = amount /\ row.status = status
  BY <1>3, <1>4 DEF ChargeRow, NoCharge
<1> HIDE DEF row
<1>6. charge' = [x \in Charges |-> charge'[x]] /\ charge'[c] = row /\ \A x \in Charges : x # c => charge'[x] = charge[x]
  BY <1>1 DEF ChargesInv, row, status
<1>7. Charged' = Charged \cup {c} /\ \A x \in Charged : charge'[x] = charge[x]
  <2>1. \A x : x \in Charged' <=> x \in Charged \/ x = c
    BY <1>5, <1>6 DEF Charged
  <2> QED  BY <1>2, <1>6, <2>1 DEF Charged
<1>8. ASSUME NEW j \in Slots, req'[j] # Idle PROVE Charging(j)' \/ Paying(j)' \/ Reminding(j)'
  <2>1. req'[j] = req[j] /\ (Charging(j) \/ Paying(j) \/ Reminding(j))
    BY <1>2, <1>8 DEF ChargesInv
  <2>2. Charging(j) => Charging(j)'
    BY <1>2, <1>7, <2>1 DEF Charging
  <2>3. Paying(j) => Paying(j)'
    BY <1>2, <1>7, <2>1 DEF Paying
  <2>4. Reminding(j) => Reminding(j)'
    <3>1. ASSUME Reminding(j), NEW x \in Charges, x \in req[j].left \/ x = req[j].at PROVE x \in Charged
      BY <3>1, SendIsNoCharge DEF Reminding
    <3> QED  BY <1>2, <1>7, <2>1, <3>1 DEF Reminding
  <2> QED  BY <2>1, <2>2, <2>3, <2>4
<1>9. ASSUME NEW x \in Charges, x \notin contested' PROVE AloneAt(x)' /\ RemindersCounted(x)' /\ RowBalances(x)'
  <2>1. AloneAt(x) /\ RemindersCounted(x) /\ RowBalances(x)
    BY <1>2, <1>9 DEF ChargesInv
  <2>2. AloneAt(x)' /\ RemindersCounted(x)'
    BY <1>2, <2>1 DEF AloneAt, InFlight, RemindersCounted, Sending
  <2>3. RowBalances(x)'
    BY <1>3, <1>4, <1>5, <1>6, <1>7, <2>1 DEF RowBalances
  <2> QED  BY <2>2, <2>3
<1>10. \A x \in Charged' : charge'[x] \in ChargeRow
  BY <1>5, <1>6, <1>7 DEF ChargesInv
<1>11. reminders' \in [Charges -> [ReminderTypes -> ReminderRow]]
  BY <1>2 DEF ChargesInv
<1> QED  BY <1>2, <1>6, <1>8, <1>9, <1>10, <1>11 DEF ChargesInv

LEMMA ChargeIsTaken ==
    ASSUME ChargesInv, NEW i \in Slots, NEW c \in Charged, UpdateFinanceCharge(i, c)
    PROVE  ChargesInv'
<1> DEFINE old == charge[c]
           r(amount, due, void) ==
               [op |-> "charge", rows |-> {c}, charge |-> c,
                amount |-> amount, newAmount |-> amount # old.amount,
                due |-> due, newDue |-> due # old.due,
                status |-> deriveEstateChargeStatus(amount, old.paid, due, IF void THEN "VOID" ELSE old.status)]
<1>0. UNCHANGED chargeVars
  BY DEF UpdateFinanceCharge
<1>1. PICK amount \in Amounts, due \in {old.due} \cup {now + d : d \in DueIn}, void \in BOOLEAN :
        amount >= old.paid /\ Begin(i, r(amount, due, void))
  BY DEF UpdateFinanceCharge
<1> DEFINE forced == IF void THEN "VOID" ELSE old.status
           status == deriveEstateChargeStatus(amount, old.paid, due, forced)
           newAmount == amount # old.amount
           newDue == due # old.due
           q == [op |-> "charge", rows |-> {c}, charge |-> c, amount |-> amount, newAmount |-> newAmount,
                 due |-> due, newDue |-> newDue, status |-> status]
<1>2. Begin(i, q)
  BY <1>1
<1>3. old \in ChargeRow /\ c \in Charges
  BY DEF ChargesInv, Charged
<1>4. amount \in Nat /\ due \in Nat /\ now \in Nat /\ old.paid \in Nat /\ old.amount \in Nat
  BY <1>3, MaxTimeNat, AmountsArePositive, DueSoonNat DEF ChargesInv, ChargeRow
<1>5. /\ status \in ChargeStatuses /\ (status = "VOID" <=> forced = "VOID")
      /\ forced # "VOID" => (status = "PAID" <=> old.paid >= amount)
  BY <1>4, DerivedStatus
<1>6. old.status = "VOID" => forced = "VOID"
  OBVIOUS
<1>7. newAmount <=> amount # old.amount
  OBVIOUS
<1> HIDE DEF status, forced, newAmount, newDue
<1>8. q # Idle /\ q.amount = amount /\ (q.newAmount <=> newAmount) /\ q.due = due /\ q.status = status /\ q.op = "charge" /\ q.rows = {c} /\ q.charge = c
  BY DEF Idle
<1> HIDE DEF q
<1>9. req'[i] = q /\ Charged' = Charged /\ charge' = charge
  BY <1>0, <1>2, BeginAlone DEF ChargesInv, chargeVars, Charged
<1>10. Charging(i)'
  BY <1>1, <1>4, <1>5, <1>6, <1>7, <1>8, <1>9 DEF Charging
<1> QED  BY <1>0, <1>2, <1>8, <1>10, ChargesBegin

LEMMA PaymentIsTaken ==
    ASSUME ChargesInv, NEW i \in Slots, NEW c \in Charged, RecordFinancePayment(i, c)
    PROVE  ChargesInv'
<1> DEFINE old == charge[c]
           r(p) == [op |-> "pay", rows |-> {c}, charge |-> c, payment |-> p,
                    status |-> deriveEstateChargeStatus(old.amount, old.paid + p, old.due, old.status)]
<1>0. UNCHANGED chargeVars /\ old.status # "VOID"
  BY DEF RecordFinancePayment
<1>1. PICK p \in Amounts : p <= old.amount - old.paid /\ Begin(i, r(p))
  BY DEF RecordFinancePayment
<1> DEFINE status == deriveEstateChargeStatus(old.amount, old.paid + p, old.due, old.status)
           q == [op |-> "pay", rows |-> {c}, charge |-> c, payment |-> p, status |-> status]
<1>2. Begin(i, q)
  BY <1>1
<1>3. old \in ChargeRow /\ c \in Charges
  BY DEF ChargesInv, Charged
<1>4. p \in Nat /\ old.due \in Nat /\ now \in Nat /\ old.paid \in Nat /\ old.amount \in Nat /\ old.paid + p \in Nat
  BY <1>3, MaxTimeNat, AmountsArePositive DEF ChargesInv, ChargeRow
<1>5. status \in ChargeStatuses /\ status # "VOID" /\ (status = "PAID" <=> old.paid + p >= old.amount)
  BY <1>0, <1>4, DerivedStatus
<1>6. old.paid + p <= old.amount
  BY <1>1, <1>4
<1> HIDE DEF status
<1>7. q # Idle /\ q.payment = p /\ q.status = status /\ q.op = "pay" /\ q.rows = {c} /\ q.charge = c
  BY DEF Idle
<1> HIDE DEF q
<1>8. req'[i] = q /\ Charged' = Charged /\ charge' = charge
  BY <1>0, <1>2, BeginAlone DEF ChargesInv, chargeVars, Charged
<1>9. Paying(i)'
  BY <1>0, <1>4, <1>5, <1>6, <1>7, <1>8 DEF Paying
<1> QED  BY <1>0, <1>2, <1>7, <1>9, ChargesBegin

LEMMA RemindersAreListed ==
    ASSUME ChargesInv, NEW i \in Slots, NEW type \in ReminderTypes, SendEstateReminders(i, type)
    PROVE  ChargesInv'
<1> DEFINE listed == ToRemind(type)
           r == [op |-> "remind", rows |-> listed, left |-> listed, type |-> type, at |-> "send"]
<1>1. Begin(i, r) /\ UNCHANGED chargeVars
  BY DEF SendEstateReminders
<1>2. /\ listed \subseteq Charged
      /\ \A c \in listed : ~reminders[c][type].logged /\ charge[c].status \in Unpaid
  BY DEF ToRemind, Unpaid
<1> HIDE DEF listed
<1>3. req'[i] = r /\ r # Idle /\ r.at = "send" /\ Charged' = Charged /\ charge' = charge /\ reminders' = reminders
  BY <1>1, BeginAlone DEF ChargesInv, Idle, chargeVars, Charged
<1>4. Reminding(i)'
  BY <1>2, <1>3, SendIsNoCharge DEF Reminding
<1> HIDE DEF r
<1> QED  BY <1>1, <1>3, <1>4, ChargesBegin

\* Nobody but a request that is at an uncontested row sends a reminder of it.
LEMMA SentByWhoIsThere ==
    ASSUME ChargesInv, NEW i \in Slots, req[i] # Idle, NEW c \in Charges, c \in req[i].rows, c \notin contested
    PROVE  \A t : \A j \in Slots : Sending(j, c, t) => j = i
<1> SUFFICES ASSUME NEW t, NEW j \in Slots, Sending(j, c, t), j # i PROVE FALSE
  OBVIOUS
<1>1. c \in req[j].rows /\ req[j] # Idle
  BY SendIsNoCharge DEF ChargesInv, Charging, Paying, Reminding, Sending
<1> QED  BY <1>1 DEF ChargesInv, AloneAt, InFlight

\* The row is written by the request that has read it: the sum read is the sum still.
LEMMA ChargeIsWritten ==
    ASSUME ChargesInv, NEW i \in Slots, WriteCharge(i) \/ WritePayment(i)
    PROVE  /\ ChargesInv'
           /\ \A c \in Charged \ contested' :
                 charge[c].status = "VOID" => charge'[c].status = "VOID" /\ charge'[c].paid = charge[c].paid
<1> DEFINE c == req[i].charge
           old == charge[c]
           row == charge'[c]
<1>1. /\ req[i] # Idle /\ req' = [req EXCEPT ![i] = Idle] /\ UNCHANGED <<contested, now, reminders>>
      /\ req[i].op \in {"charge", "pay"}
  BY DEF WriteCharge, WritePayment, End, Proceed
<1>2. /\ c \in Charged /\ c \in Charges /\ req[i].rows = {c} /\ req[i].status \in ChargeStatuses /\ old \in ChargeRow
      /\ req[i].op = "charge" => Charging(i)
      /\ req[i].op = "pay" => Paying(i)
  BY <1>1 DEF ChargesInv, Charging, Paying, Reminding, Charged
<1>3. /\ charge' = [x \in Charges |-> charge'[x]] /\ \A x \in Charges : x # c => charge'[x] = charge[x]
  BY <1>2 DEF ChargesInv, WriteCharge, WritePayment
<1>4. /\ row \in ChargeRow /\ row.status = req[i].status
      /\ req[i].op = "charge" => row.paid = old.paid /\ row.amount = (IF req[i].newAmount THEN req[i].amount ELSE old.amount)
      /\ req[i].op = "pay" => row.paid = old.paid + req[i].payment /\ row.amount = old.amount
  <2>1. CASE WriteCharge(i)
    <3> DEFINE amount == IF req[i].newAmount THEN req[i].amount ELSE old.amount
               due == IF req[i].newDue THEN req[i].due ELSE old.due
               status == req[i].status
    <3>1. req[i].op = "charge" /\ row = [old EXCEPT !.amount = amount, !.due = due, !.status = status]
      <4>1. req[i].op = "charge" /\ charge' = [charge EXCEPT ![c] = [old EXCEPT !.amount = amount, !.due = due, !.status = status]]
        BY <2>1 DEF WriteCharge
      <4> HIDE DEF amount, due, status, old
      <4> QED  BY <1>2, <4>1 DEF ChargesInv
    <3>2. amount \in Amounts /\ due \in Nat /\ status \in ChargeStatuses
      BY <1>2, <3>1 DEF Charging, ChargeRow
    <3>3. amount = IF req[i].newAmount THEN req[i].amount ELSE old.amount
      OBVIOUS
    <3> HIDE DEF amount, due, status, old
    <3>4. /\ [old EXCEPT !.amount = amount, !.due = due, !.status = status] \in ChargeRow
          /\ [old EXCEPT !.amount = amount, !.due = due, !.status = status].status = status
          /\ [old EXCEPT !.amount = amount, !.due = due, !.status = status].amount = amount
          /\ [old EXCEPT !.amount = amount, !.due = due, !.status = status].paid = old.paid
      BY <1>2, <3>2 DEF ChargeRow
    <3> HIDE DEF row
    <3> QED  BY <3>1, <3>3, <3>4 DEF status
  <2>2. CASE WritePayment(i)
    <3> DEFINE paid == old.paid + req[i].payment
               status == req[i].status
    <3>1. req[i].op = "pay" /\ charge' = [charge EXCEPT ![c].paid = @ + req[i].payment, ![c].status = req[i].status]
      BY <2>2 DEF WritePayment
    <3>2. row = [old EXCEPT !.paid = paid, !.status = status]
      BY <1>2, <3>1 DEF ChargesInv, ChargeRow
    <3>3. paid \in Nat /\ status \in ChargeStatuses
      BY <1>2, <3>1, AmountsArePositive DEF Paying, ChargeRow
    <3> HIDE DEF paid, status, old
    <3>4. /\ [old EXCEPT !.paid = paid, !.status = status] \in ChargeRow
          /\ [old EXCEPT !.paid = paid, !.status = status].status = status
          /\ [old EXCEPT !.paid = paid, !.status = status].paid = paid
          /\ [old EXCEPT !.paid = paid, !.status = status].amount = old.amount
      BY <1>2, <3>3 DEF ChargeRow
    <3> HIDE DEF row
    <3> QED  BY <3>1, <3>2, <3>4 DEF paid, status
  <2> QED  BY <2>1, <2>2
<1>5. row # NoCharge
  BY <1>4 DEF ChargeRow, NoCharge
<1>6. ASSUME c \notin contested
      PROVE  /\ row.status # "VOID" => row.paid <= row.amount /\ (row.status = "PAID" <=> row.paid = row.amount)
             /\ old.status = "VOID" => row.status = "VOID" /\ row.paid = old.paid
  <2>1. CASE req[i].op = "charge"
    <3>1. Charging(i)
      BY <1>2, <2>1
    <3>2. row.amount = req[i].amount /\ req[i].amount >= old.paid /\ row.paid = old.paid
      BY <1>4, <1>6, <2>1, <3>1 DEF Charging
    <3>3. /\ old.status = "VOID" => req[i].status = "VOID"
          /\ req[i].status # "VOID" => (req[i].status = "PAID" <=> old.paid = req[i].amount)
      BY <1>6, <3>1 DEF Charging
    <3>4. req[i].amount \in Nat /\ old.paid \in Nat
      BY <1>2, <3>1, AmountsArePositive DEF Charging, ChargeRow
    <3> HIDE DEF row, old
    <3> QED  BY <1>4, <3>2, <3>3, <3>4
  <2>2. CASE req[i].op = "pay"
    <3>1. Paying(i)
      BY <1>2, <2>2
    <3>2. /\ old.status # "VOID" /\ req[i].status # "VOID" /\ old.paid + req[i].payment <= old.amount
          /\ req[i].status = "PAID" <=> old.paid + req[i].payment = old.amount
      BY <1>6, <3>1 DEF Paying
    <3> HIDE DEF row, old
    <3> QED  BY <1>4, <2>2, <3>2
  <2> QED  BY <1>1, <2>1, <2>2
<1>7. Charged' = Charged
  <2>1. \A x : x \in Charged' <=> x \in Charged
    BY <1>2, <1>3, <1>5 DEF Charged
  <2> QED  BY <2>1
<1>8. ASSUME c \notin contested PROVE \A x : x = c => RemindersCounted(x)' /\ RowBalances(x)'
  <2>1. \A t : \A j \in Slots : Sending(j, c, t) => j = i
    BY <1>1, <1>2, <1>8, SentByWhoIsThere
  <2>2. \A t : \A j \in Slots : ~Sending(j, c, t)
    BY <1>1, <2>1 DEF Sending
  <2>3. \A t : \A j \in Slots : \A x : x = c => ~Sending(j, x, t)'
    BY <1>1, <2>2 DEF Sending, ChargesInv
  <2>4. RemindersCounted(c)
    BY <1>2, <1>8 DEF ChargesInv
  <2>5. \A x : x = c => RemindersCounted(x)'
    BY <1>1, <2>2, <2>3, <2>4 DEF RemindersCounted
  <2>6. \A x : x = c => RowBalances(x)'
    BY <1>6, <1>8 DEF RowBalances
  <2> QED  BY <2>5, <2>6
<1>9. \A x \in Charged : charge'[x] \in ChargeRow
  BY <1>3, <1>4 DEF ChargesInv, Charged
<1>10. reminders' \in [Charges -> [ReminderTypes -> ReminderRow]] /\ Idle = Idle
  BY <1>1 DEF ChargesInv
<1> HIDE DEF c, row, old
<1>11. ChargesInv'
  BY <1>1, <1>2, <1>3, <1>7, <1>8, <1>9, <1>10, ChargesGoOn
<1>12. ASSUME NEW x \in Charged \ contested', charge[x].status = "VOID"
       PROVE  charge'[x].status = "VOID" /\ charge'[x].paid = charge[x].paid
  <2>1. CASE x = c
    BY <1>1, <1>6, <1>12, <2>1 DEF row, old
  <2>2. CASE x # c
    BY <1>3, <1>12, <2>2 DEF Charged
  <2> QED  BY <2>1, <2>2
<1> QED  BY <1>11, <1>12

LEMMA ReminderRows ==
    ASSUME ChargesInv, NEW c \in Charges, NEW t \in ReminderTypes
    PROVE  reminders[c][t] \in ReminderRow /\ reminders[c] \in [ReminderTypes -> ReminderRow]
BY DEF ChargesInv

\* A message is sent: of a row nobody contests it is the first of its type.
LEMMA ReminderIsSent ==
    ASSUME ChargesInv, NEW i \in Slots, SendReminder(i)
    PROVE  ChargesInv' /\ charge' = charge
<1>1. PICK c \in req[i].left :
        /\ reminders[c][req[i].type].sent < MaxSent
        /\ reminders' = [reminders EXCEPT ![c][req[i].type].sent = @ + 1]
        /\ Proceed(i, [req[i] EXCEPT !.at = c, !.left = @ \ {c}])
  BY DEF SendReminder
<1> DEFINE type == req[i].type
           left == req[i].left \ {c}
           r == [req[i] EXCEPT !.at = c, !.left = left]
           sent == reminders[c][type].sent + 1
           row == [reminders[c][type] EXCEPT !.sent = sent]
<1>2. /\ req[i] # Idle /\ req[i].op = "remind" /\ req[i].at = "send" /\ charge' = charge
      /\ req' = [req EXCEPT ![i] = r] /\ UNCHANGED <<contested, now>>
  BY <1>1 DEF SendReminder, Proceed
<1>3. Reminding(i) /\ c \in Charged /\ c \in Charges /\ c \in req[i].rows /\ type \in ReminderTypes
  BY <1>1, <1>2 DEF ChargesInv, Charging, Paying, Reminding, Charged
<1>4. r.op = "remind" /\ DOMAIN r = DOMAIN req[i] /\ r.rows = req[i].rows /\ r.type = type /\ r.at = c /\ r.left = left /\ r # Idle
  BY <1>2, <1>3 DEF Reminding, Idle
<1> HIDE DEF r
<1>5. req'[i] = r /\ Charged' = Charged
  BY <1>2 DEF ChargesInv, Charged
<1>6. reminders[c][type] \in ReminderRow /\ reminders[c][type].sent \in 0..MaxSent /\ sent \in 0..MaxSent
      /\ reminders[c] \in [ReminderTypes -> ReminderRow]
  BY <1>1, <1>3, ReminderRows DEF ReminderRow, MaxSent
<1> HIDE DEF sent
<1>7. row \in ReminderRow /\ row.sent = sent /\ row.logged = reminders[c][type].logged
  BY <1>6 DEF ReminderRow
<1>8. reminders' = [reminders EXCEPT ![c] = [reminders[c] EXCEPT ![type] = row]]
  BY <1>1, <1>3, <1>6 DEF ChargesInv, ReminderRow, sent
<1> HIDE DEF row, type
<1>9. /\ reminders' \in [Charges -> [ReminderTypes -> ReminderRow]]
      /\ \A x \in Charges : x # c => reminders'[x] = reminders[x]
      /\ \A t \in ReminderTypes : reminders'[c][t] = IF t = type THEN row ELSE reminders[c][t]
  BY <1>3, <1>6, <1>7, <1>8 DEF ChargesInv
<1>10. Reminding(i)'
  <2>1. left \subseteq req[i].rows /\ left \subseteq Charged /\ c \notin left
    BY <1>3 DEF Reminding
  <2>2. \A x \in left \ contested' : ~reminders'[x][type].logged
    BY <1>2, <1>3, <1>9 DEF Reminding, Charged, type
  <2>3. \A x \in Charges \ contested' : x \in left \/ x = c => charge'[x].status \in Unpaid
    BY <1>1, <1>2, <1>3 DEF Reminding
  <2>4. {"op", "rows", "left", "type", "at"} \subseteq DOMAIN req[i]
    BY <1>3 DEF Reminding
  <2> HIDE DEF left
  <2> QED  BY <1>3, <1>4, <1>5, <2>1, <2>2, <2>3, <2>4 DEF Reminding
<1>11. ASSUME NEW x \in Charges, x \in req[i].rows, x \notin contested PROVE RemindersCounted(x)'
  <2>1. \A t : \A j \in Slots : Sending(j, x, t) => j = i
    BY <1>2, <1>11, SentByWhoIsThere
  <2>2. \A t : \A j \in Slots : ~Sending(j, x, t)
    BY <1>2, <1>11, <2>1, SendIsNoCharge DEF Sending
  <2>3. \A t : \A j \in Slots : Sending(j, x, t)' <=> j = i /\ x = c /\ t = type
    BY <1>2, <1>4, <1>5, <2>2 DEF Sending, ChargesInv
  <2>4. RemindersCounted(x)
    BY <1>11 DEF ChargesInv
  <2>5. CASE x = c
    <3>1. ~reminders[c][type].logged
      BY <1>1, <1>3, <1>11, <2>5 DEF Reminding, type
    <3>2. reminders[c][type].sent = 0
      BY <1>3, <2>2, <2>4, <2>5, <3>1 DEF RemindersCounted
    <3>3. sent = 1
      BY <3>2 DEF sent
    <3> QED  BY <1>3, <1>7, <1>9, <2>2, <2>3, <2>4, <2>5, <3>1, <3>3 DEF RemindersCounted
  <2>6. CASE x # c
    BY <1>9, <1>11, <2>2, <2>3, <2>4, <2>6 DEF RemindersCounted
  <2> QED  BY <2>5, <2>6
<1>12. \A x \in Charges : x \notin contested => RowBalances(x)'
  BY <1>2, <1>5 DEF ChargesInv, RowBalances
<1>13. charge' = [x \in Charges |-> charge'[x]] /\ \A x \in Charged : charge'[x] \in ChargeRow
  BY <1>2 DEF ChargesInv
<1> QED  BY <1>2, <1>3, <1>4, <1>5, <1>9, <1>10, <1>11, <1>12, <1>13, ChargesGoOn

LEMMA ReminderIsLogged ==
    ASSUME ChargesInv, NEW i \in Slots, LogReminder(i)
    PROVE  ChargesInv' /\ charge' = charge
<1> DEFINE c == req[i].at
           type == req[i].type
           row == [reminders[c][type] EXCEPT !.logged = TRUE]
<1>1. /\ req[i] # Idle /\ req[i].op = "remind" /\ c \in Charges /\ charge' = charge /\ UNCHANGED <<req, contested, now>>
      /\ reminders' = [reminders EXCEPT ![c][type].logged = TRUE]
  BY DEF LogReminder, requestVars
<1>2. Reminding(i) /\ c \in req[i].rows /\ type \in ReminderTypes /\ req[i].left \subseteq Charged /\ c \notin req[i].left
  BY <1>1, SendIsNoCharge DEF ChargesInv, Charging, Paying, Reminding
<1> HIDE DEF c, type
<1>3. reminders[c][type] \in ReminderRow /\ reminders[c] \in [ReminderTypes -> ReminderRow]
  BY <1>1, <1>2, ReminderRows
<1>4. row \in ReminderRow /\ row.sent = reminders[c][type].sent /\ row.logged = TRUE
  BY <1>3 DEF ReminderRow
<1>5. reminders' = [reminders EXCEPT ![c] = [reminders[c] EXCEPT ![type] = row]]
  BY <1>1, <1>2, <1>3 DEF ChargesInv, ReminderRow
<1> HIDE DEF row
<1>6. /\ reminders' \in [Charges -> [ReminderTypes -> ReminderRow]]
      /\ \A x \in Charges : x # c => reminders'[x] = reminders[x]
      /\ \A t \in ReminderTypes : reminders'[c][t] = IF t = type THEN row ELSE reminders[c][t]
  <2> DEFINE of == [reminders[c] EXCEPT ![type] = row]
  <2>1. of \in [ReminderTypes -> ReminderRow] /\ \A t \in ReminderTypes : of[t] = IF t = type THEN row ELSE reminders[c][t]
    BY <1>2, <1>3, <1>4
  <2>2. reminders' = [reminders EXCEPT ![c] = of]
    BY <1>5
  <2> HIDE DEF of
  <2> QED  BY <1>1, <2>1, <2>2 DEF ChargesInv
<1>7. Charged' = Charged
  BY <1>1 DEF Charged
<1>8. Reminding(i)'
  <2>1. \A x \in req[i].left : reminders'[x] = reminders[x]
    BY <1>2, <1>6 DEF Charged
  <2> QED  BY <1>1, <1>2, <1>7, <2>1 DEF Reminding
<1>9. ASSUME NEW x \in Charges, x \in req[i].rows, x \notin contested PROVE RemindersCounted(x)'
  <2>1. \A t : \A j \in Slots : Sending(j, x, t)' <=> Sending(j, x, t)
    BY <1>1 DEF Sending
  <2>2. RemindersCounted(x)
    BY <1>9 DEF ChargesInv
  <2>3. Sending(i, c, type)
    BY <1>1 DEF Sending, c, type
  <2>4. CASE x = c
    <3>1. reminders[c][type].sent = 1
      BY <1>2, <2>2, <2>3, <2>4 DEF RemindersCounted
    <3> QED  BY <1>4, <1>6, <2>1, <2>2, <2>4, <3>1 DEF RemindersCounted
  <2>5. CASE x # c
    BY <1>6, <1>9, <2>1, <2>2, <2>5 DEF RemindersCounted
  <2> QED  BY <2>4, <2>5
<1>10. \A x \in Charges : x \notin contested => RowBalances(x)'
  BY <1>1, <1>7 DEF ChargesInv, RowBalances
<1>11. charge' = [x \in Charges |-> charge'[x]] /\ \A x \in Charged : charge'[x] \in ChargeRow
  BY <1>1 DEF ChargesInv
<1>12. req' = [req EXCEPT ![i] = req[i]]
  BY <1>1 DEF ChargesInv
<1>13. contested \subseteq contested' /\ now' = now /\ req[i] # Idle
  BY <1>1
<1>14. /\ \A x \in Charges : x \notin req[i].rows => charge'[x] = charge[x] /\ reminders'[x] = reminders[x]
       /\ \A x \in Charges : x \in req[i].rows /\ x \notin contested' => RemindersCounted(x)' /\ RowBalances(x)'
  BY <1>1, <1>2, <1>6, <1>9, <1>10
<1> DEFINE same == req[i]
<1>15. req' = [req EXCEPT ![i] = same] /\ same.rows \subseteq req[i].rows
  BY <1>12
<1>16. /\ same = Idle \/ same.rows \subseteq req[i].rows
       /\ same = Idle \/ Charging(i)' \/ Paying(i)' \/ Reminding(i)'
       /\ \A x \in Charged : charge'[x] \in ChargeRow
       /\ charge' = [x \in Charges |-> charge'[x]]
  BY <1>8, <1>11, <1>15
<1>17. UNCHANGED now
  BY <1>13
<1> HIDE DEF same
<1>18. ChargesInv'
  BY <1>6, <1>7, <1>13, <1>14, <1>15, <1>16, <1>17, ChargesGoOn
<1> QED  BY <1>1, <1>18

\* The row is marked, or left as it is after an error, and the run goes on.
LEMMA ReminderIsDone ==
    ASSUME ChargesInv, NEW i \in Slots, MarkReminded(i) \/ SkipReminder(i)
    PROVE  /\ ChargesInv'
           /\ \A c \in Charged \ contested' :
                 charge[c].status = "VOID" => charge'[c].status = "VOID" /\ charge'[c].paid = charge[c].paid
<1> DEFINE c == req[i].at
           type == req[i].type
           r == [req[i] EXCEPT !.at = "send"]
           q == NextRow(req[i])
           status == IF type = "PAYMENT_OVERDUE" THEN "OVERDUE" ELSE charge[c].status
           row == [charge[c] EXCEPT !.status = status]
<1>1. /\ req[i] # Idle /\ req[i].op = "remind" /\ c \in Charges /\ req' = [req EXCEPT ![i] = q]
      /\ UNCHANGED <<now, reminders>> /\ contested \subseteq contested'
  BY DEF MarkReminded, SkipReminder, Proceed, chargeVars
<1>2. Reminding(i) /\ c \in req[i].rows /\ type \in ReminderTypes /\ req[i].left \subseteq Charged /\ c \notin req[i].left
      /\ c \in Charged /\ charge[c] \in ChargeRow
  BY <1>1, SendIsNoCharge DEF ChargesInv, Charging, Paying, Reminding
<1>3. r.op = "remind" /\ DOMAIN r = DOMAIN req[i] /\ r.rows = req[i].rows /\ r.type = type /\ r.at = "send"
      /\ r.left = req[i].left /\ r # Idle
  BY <1>1, <1>2 DEF Reminding, Idle
<1>4. q = Idle \/ q = r
  BY DEF NextRow
<1>5. status \in ChargeStatuses /\ (status = "OVERDUE" \/ status = charge[c].status)
  BY <1>2 DEF ChargeRow, ChargeStatuses
<1> HIDE DEF r, q, status
<1>6. req'[i] = q
  BY <1>1 DEF ChargesInv
<1>7. row \in ChargeRow /\ row.status = status /\ row.paid = charge[c].paid /\ row.amount = charge[c].amount /\ row # NoCharge
  BY <1>2, <1>5 DEF ChargeRow, NoCharge
<1>8. \/ contested' = contested \cup {c} /\ charge' = charge
      \/ /\ contested' = contested /\ charge' = [charge EXCEPT ![c].status = IF type = "PAYMENT_OVERDUE" THEN "OVERDUE" ELSE @]
         /\ reminders[c][type].logged
  BY DEF MarkReminded, SkipReminder, Proceed, chargeVars
<1>9. /\ charge' = [x \in Charges |-> charge'[x]] /\ \A x \in Charges : x # c => charge'[x] = charge[x]
      /\ charge'[c] = charge[c] \/ charge'[c] = row
      /\ c \notin contested' => reminders[c][type].logged
  <2>1. CASE contested' = contested \cup {c} /\ charge' = charge
    BY <2>1 DEF ChargesInv
  <2>2. CASE contested' = contested /\ charge' = [charge EXCEPT ![c].status = IF type = "PAYMENT_OVERDUE" THEN "OVERDUE" ELSE @]
             /\ reminders[c][type].logged
    BY <1>1, <2>2 DEF ChargesInv, status
  <2> QED  BY <1>8, <2>1, <2>2
<1> HIDE DEF row, c, type
<1>10. Charged' = Charged /\ \A x \in Charged : charge'[x] \in ChargeRow
  <2>1. \A x : x \in Charged' <=> x \in Charged
    BY <1>2, <1>7, <1>9 DEF Charged
  <2> QED  BY <1>2, <1>7, <1>9, <2>1 DEF ChargesInv, Charged
<1>11. q = Idle \/ Reminding(i)'
  <2>1. \A x \in req[i].left : x # c /\ charge'[x] = charge[x]
    BY <1>2, <1>9 DEF Charged
  <2> QED  BY <1>1, <1>2, <1>3, <1>4, <1>6, <1>10, <2>1, SendIsNoCharge DEF Reminding, type
<1>12. ASSUME NEW x \in Charges, x \in req[i].rows, x \notin contested' PROVE RemindersCounted(x)'
  <2>1. \A t : \A j \in Slots : Sending(j, x, t) => j = i
    BY <1>1, <1>12, SentByWhoIsThere
  <2>2. \A t : \A j \in Slots : ~Sending(j, x, t)'
    BY <1>1, <1>3, <1>4, <1>6, <1>12, <2>1, SendIsNoCharge DEF Sending, ChargesInv
  <2>3. \A t : \A j \in Slots : Sending(j, x, t) => x = c /\ t = type
    BY <2>1 DEF Sending, c, type
  <2>4. RemindersCounted(x)
    BY <1>1, <1>12 DEF ChargesInv
  <2>5. \A t \in ReminderTypes : (\E j \in Slots : Sending(j, x, t)) => reminders[x][t].logged
    BY <1>9, <1>12, <2>3
  <2> QED  BY <1>1, <2>2, <2>4, <2>5 DEF RemindersCounted
<1>13. ASSUME NEW x \in Charges, x \in req[i].rows, x \notin contested' PROVE RowBalances(x)'
  <2>1. RowBalances(x)
    BY <1>1, <1>13 DEF ChargesInv
  <2>2. CASE x # c
    BY <1>9, <1>10, <1>13, <2>1, <2>2 DEF RowBalances
  <2>3. CASE x = c
    <3>1. charge[c].status \in Unpaid
      BY <1>1, <1>2, <1>13, <2>3 DEF Reminding, c
    <3> QED  BY <1>2, <1>5, <1>7, <1>9, <1>10, <2>1, <2>3, <3>1 DEF RowBalances, Unpaid
  <2> QED  BY <2>2, <2>3
<1>14. reminders' \in [Charges -> [ReminderTypes -> ReminderRow]]
  BY <1>1 DEF ChargesInv
<1>15. ASSUME NEW x \in Charged \ contested', charge[x].status = "VOID"
       PROVE  charge'[x].status = "VOID" /\ charge'[x].paid = charge[x].paid
  <2>1. x = c => charge[x].status \in Unpaid
    BY <1>1, <1>2, <1>15 DEF Reminding, c
  <2> QED  BY <1>9, <1>15, <2>1 DEF Unpaid, Charged
<1>16. q = Idle \/ q.rows \subseteq req[i].rows
  BY <1>3, <1>4
<1>17. \A x \in Charges : x \notin req[i].rows => charge'[x] = charge[x] /\ reminders'[x] = reminders[x]
  BY <1>1, <1>2, <1>9
<1>18. ChargesInv'
  BY <1>1, <1>9, <1>10, <1>11, <1>12, <1>13, <1>14, <1>16, <1>17, ChargesGoOn
<1> QED  BY <1>15, <1>18

LEMMA ChargesStay ==
    ASSUME ChargesInv, ChargesNext
    PROVE  ChargesInv' /\ VoidStays
<1>1. CASE Tick /\ UNCHANGED chargeVars
  <2>1. UNCHANGED <<req, contested, charge, reminders>> /\ now' \in 1..MaxTime
    BY <1>1, MaxTimeNat DEF Tick, ChargesInv, chargeVars
  <2>2. Charged' = Charged /\ \A c : \A t : \A j \in Slots : Sending(j, c, t)' <=> Sending(j, c, t)
    BY <2>1 DEF Charged, Sending
  <2>3. \A i \in Slots : /\ (Charging(i) => Charging(i)') /\ (Paying(i) => Paying(i)')
                         /\ (Reminding(i) => Reminding(i)')
    BY <2>1, <2>2 DEF Charging, Paying, Reminding
  <2>4. \A c : (RemindersCounted(c) => RemindersCounted(c)') /\ (RowBalances(c) => RowBalances(c)') /\ (AloneAt(c) => AloneAt(c)')
    BY <2>1, <2>2 DEF RemindersCounted, RowBalances, AloneAt, InFlight
  <2>5. ChargesInv'
    BY <2>1, <2>2, <2>3, <2>4 DEF ChargesInv
  <2> QED  BY <2>1, <2>5 DEF VoidStays
<1>2. ASSUME NEW i \in Slots, Cut(i), UNCHANGED chargeVars PROVE ChargesInv' /\ VoidStays
  <2>1. /\ req[i] # Idle /\ req' = [req EXCEPT ![i] = Idle] /\ contested' = contested \cup req[i].rows /\ now' = now
        /\ charge' = charge /\ reminders' = reminders /\ Charged' = Charged
    BY <1>2 DEF Cut, chargeVars, Charged
  <2>2. /\ charge' = [x \in Charges |-> charge'[x]] /\ (\A x \in Charged : charge'[x] \in ChargeRow)
        /\ reminders' \in [Charges -> [ReminderTypes -> ReminderRow]]
    BY <2>1 DEF ChargesInv
  <2>3. ChargesInv'
    BY <2>1, <2>2, ChargesGoOn
  <2> QED  BY <2>1, <2>3 DEF VoidStays
<1>3. ASSUME NEW c \in Charges, CreateFinanceCharge(c) PROVE ChargesInv' /\ VoidStays
  <2>1. \A x \in Charged : charge'[x] = charge[x]
    BY <1>3 DEF CreateFinanceCharge, ChargesInv, Charged
  <2>2. ChargesInv'
    BY <1>3, ChargeIsPosted
  <2> QED  BY <2>1, <2>2 DEF VoidStays
<1>4. ASSUME NEW i \in Slots, NEW c \in Charged, UpdateFinanceCharge(i, c) \/ RecordFinancePayment(i, c)
      PROVE  ChargesInv' /\ VoidStays
  <2>1. charge' = charge
    BY <1>4 DEF UpdateFinanceCharge, RecordFinancePayment, chargeVars
  <2>2. ChargesInv'
    BY <1>4, ChargeIsTaken, PaymentIsTaken
  <2> QED  BY <2>1, <2>2 DEF VoidStays
<1>5. ASSUME NEW i \in Slots, NEW type \in ReminderTypes, SendEstateReminders(i, type) PROVE ChargesInv' /\ VoidStays
  <2>1. charge' = charge
    BY <1>5 DEF SendEstateReminders, chargeVars
  <2>2. ChargesInv'
    BY <1>5, RemindersAreListed
  <2> QED  BY <2>1, <2>2 DEF VoidStays
<1>6. ASSUME NEW i \in Slots, WriteCharge(i) \/ WritePayment(i) PROVE ChargesInv' /\ VoidStays
  BY <1>6, ChargeIsWritten DEF VoidStays
<1>7. ASSUME NEW i \in Slots, SendReminder(i) \/ LogReminder(i) PROVE ChargesInv' /\ VoidStays
  BY <1>7, ReminderIsSent, ReminderIsLogged DEF VoidStays
<1>8. ASSUME NEW i \in Slots, MarkReminded(i) \/ SkipReminder(i) PROVE ChargesInv' /\ VoidStays
  BY <1>8, ReminderIsDone DEF VoidStays
<1>9. ASSUME NEW i \in Slots, ChargesStep(i) PROVE ChargesInv' /\ VoidStays
  BY <1>4, <1>5, <1>6, <1>7, <1>8, <1>9 DEF ChargesStep
<1> QED  BY <1>1, <1>2, <1>3, <1>9 DEF ChargesNext

LEMMA ChargesInitially == Init => ChargesKept
<1> SUFFICES ASSUME Init PROVE ChargesKept
  OBVIOUS
<1>1. /\ charge = [c \in Charges |-> NoCharge]
      /\ reminders = [c \in Charges |-> [t \in ReminderTypes |-> [logged |-> FALSE, sent |-> 0]]]
      /\ req = [i \in Slots |-> Idle] /\ contested = {} /\ now = 1
  BY DEF Init, ChargesInit, RequestsInit
<1>2. Charged = {} /\ 1 \in 1..MaxTime /\ reminders \in [Charges -> [ReminderTypes -> ReminderRow]]
  BY <1>1, MaxTimeNat DEF Charged, ReminderRow, MaxSent
<1>3. \A c \in Charges : AloneAt(c) /\ RemindersCounted(c) /\ RowBalances(c)
  BY <1>1, <1>2 DEF AloneAt, InFlight, RemindersCounted, Sending, RowBalances
<1> QED  BY <1>1, <1>2, <1>3 DEF ChargesKept, ChargesInv

LEMMA ChargesStayKept == ChargesKept /\ [Next]_premisesVars => ChargesKept' /\ (desk = "charges" => VoidStays)
<1> SUFFICES ASSUME ChargesKept, [Next]_premisesVars PROVE ChargesKept' /\ (desk = "charges" => VoidStays)
  OBVIOUS
<1>1. CASE Next
  BY <1>1, DesksApart, ChargesStay DEF ChargesKept, chargeVars
<1>2. CASE UNCHANGED premisesVars
  <2>1. UNCHANGED <<desk, req, contested, now, charge, reminders>>
    BY <1>2 DEF premisesVars, requestVars, chargeVars
  <2>2. Charged' = Charged /\ \A c : \A t : \A j \in Slots : Sending(j, c, t)' <=> Sending(j, c, t)
    BY <2>1 DEF Charged, Sending
  <2>3. \A i \in Slots : /\ (Charging(i) => Charging(i)') /\ (Paying(i) => Paying(i)')
                         /\ (Reminding(i) => Reminding(i)')
    BY <2>1, <2>2 DEF Charging, Paying, Reminding
  <2>4. \A c : (RemindersCounted(c) => RemindersCounted(c)') /\ (RowBalances(c) => RowBalances(c)') /\ (AloneAt(c) => AloneAt(c)')
    BY <2>1, <2>2 DEF RemindersCounted, RowBalances, AloneAt, InFlight
  <2>5. ChargesInv => ChargesInv'
    BY <2>1, <2>2, <2>3, <2>4 DEF ChargesInv
  <2> QED  BY <2>1, <2>5 DEF ChargesKept, VoidStays
<1> QED  BY <1>1, <1>2

LEMMA RemindersAreSentOnce == ChargesKept => ChargesRemindedOnce
<1> SUFFICES ASSUME ChargesKept, NEW c \in Charges \ contested, NEW t \in ReminderTypes PROVE reminders[c][t].sent <= 1
  BY DEF ChargesRemindedOnce
<1>1. CASE desk = "charges"
  BY <1>1 DEF ChargesKept, ChargesInv, RemindersCounted
<1>2. CASE desk # "charges"
  BY <1>2 DEF ChargesKept
<1> QED  BY <1>1, <1>2

\* A charge that no two requests contested is never paid beyond its amount, and says PAID
\* exactly when it is covered: for any number of charges, requests and runs of the job,
\* and whatever amounts are charged and paid.
THEOREM ChargesAreCovered ==
    Spec => [](\A c \in ActiveCharges \ contested :
                  /\ charge[c].paid <= charge[c].amount
                  /\ charge[c].status = "PAID" <=> charge[c].paid = charge[c].amount)
<1>1. ChargesKept => \A c \in ActiveCharges \ contested :
                        /\ charge[c].paid <= charge[c].amount
                        /\ charge[c].status = "PAID" <=> charge[c].paid = charge[c].amount
  BY DEF ChargesKept, ChargesInv, RowBalances, ActiveCharges, Charged
<1> QED  BY <1>1, ChargesInitially, ChargesStayKept, PTL DEF Spec

\* A void charge stays void and takes no payment, whichever requests or runs of the job
\* were under way, unless two of them were at it at once.
THEOREM VoidChargesStayVoid == Spec => [][desk = "charges" => VoidStays]_premisesVars
<1>1. ChargesKept /\ [Next]_premisesVars => [desk = "charges" => VoidStays]_premisesVars
  BY ChargesStayKept
<1> QED  BY <1>1, ChargesInitially, ChargesStayKept, PTL DEF Spec

-----------------------------------------------------------------------------
(***************************************************************************)
(* Leases.  The mail of a lease has been sent exactly while the row has it *)
(* in its log, or while the run that sent it is still at the row.          *)
(***************************************************************************)

LeaseRow == [period : Periods, contact : BOOLEAN, logged : BOOLEAN, sent : 0..MaxLeaseMails,
             status : {"DRAFT", "ACTIVE", "EXPIRING", "EXPIRED", "TERMINATED"}]

Leasing(i) ==
    /\ req[i] # Idle /\ req[i].op = "lease" /\ req[i].lease \in Let /\ req[i].rows = {req[i].lease}
    /\ req[i].period \in Periods
    /\ req[i].status \in {"DRAFT", "ACTIVE", "EXPIRING", "EXPIRED", "TERMINATED"}

Mailing(i) ==
    /\ req[i] # Idle /\ {"op", "rows", "left", "at"} \subseteq DOMAIN req[i] /\ req[i].op = "remindLease"
    /\ req[i].left \subseteq req[i].rows /\ req[i].left \subseteq Let
    /\ req[i].at = "send" \/ (req[i].at \in Let /\ req[i].at \in req[i].rows /\ req[i].at \notin req[i].left)
    /\ \A l \in req[i].left \ contested : ~lease[l].logged

MailSent(i, l) == req[i] # Idle /\ req[i].op = "remindLease" /\ req[i].at = l

LeaseCounted(l) ==
    l \in Let => lease[l].sent = IF lease[l].logged \/ \E i \in Slots : MailSent(i, l) THEN 1 ELSE 0

LeasesInv ==
    /\ now \in 1..MaxTime
    /\ lease = [l \in Leases |-> lease[l]] /\ \A l \in Let : lease[l] \in LeaseRow
    /\ req = [i \in Slots |-> req[i]]
    /\ \A i \in Slots : req[i] = Idle \/ Leasing(i) \/ Mailing(i)
    /\ \A l \in Leases \ contested : AloneAt(l) /\ LeaseCounted(l)

LeasesKept ==
    /\ desk = "leases" => LeasesInv
    /\ desk # "leases" => lease = [l \in Leases |-> NoLease]

LEMMA LeasesBegin ==
    ASSUME LeasesInv, UNCHANGED lease, NEW i \in Slots, NEW r, Begin(i, r), r # Idle,
           Leasing(i)' \/ (Mailing(i)' /\ r.at = "send")
    PROVE  LeasesInv'
<1>1. /\ req[i] = Idle /\ req'[i] = r /\ req' = [j \in Slots |-> req'[j]] /\ contested \subseteq contested' /\ now' = now
      /\ \A j \in Slots : j # i => req'[j] = req[j]
      /\ \A row : AloneAt(row) /\ row \notin contested' => AloneAt(row)'
  BY BeginAlone DEF LeasesInv, Begin
<1>2. lease' = lease /\ Let' = Let
  BY <1>1 DEF Let
<1>3. ASSUME NEW j \in Slots, j # i, req'[j] # Idle PROVE Leasing(j)' \/ Mailing(j)'
  <2>1. req'[j] = req[j] /\ (Leasing(j) \/ Mailing(j))
    BY <1>1, <1>3 DEF LeasesInv
  <2>2. Leasing(j) => Leasing(j)'
    BY <1>1, <1>2, <2>1 DEF Leasing
  <2>3. Mailing(j) => Mailing(j)'
    BY <1>1, <1>2, <2>1 DEF Mailing
  <2> QED  BY <2>1, <2>2, <2>3
<1>4. \A l \in Leases : \A j \in Slots : MailSent(j, l)' <=> MailSent(j, l)
  <2>1. \A l \in Leases : ~(req'[i] # Idle /\ req'[i].op = "remindLease" /\ req'[i].at = l)
    BY <1>1, SendIsNoLease DEF Leasing
  <2> QED  BY <1>1, <2>1 DEF MailSent
<1>5. \A l \in Leases \ contested' : AloneAt(l)' /\ LeaseCounted(l)'
  BY <1>1, <1>2, <1>4 DEF LeasesInv, LeaseCounted
<1> QED  BY <1>1, <1>2, <1>3, <1>5 DEF LeasesInv

LEMMA LeasesGoOn ==
    ASSUME LeasesInv, NEW i \in Slots, NEW r, req[i] # Idle, req' = [req EXCEPT ![i] = r], UNCHANGED now,
           contested \subseteq contested', r = Idle \/ r.rows \subseteq req[i].rows,
           lease' = [l \in Leases |-> lease'[l]], Let' = Let, \A l \in Let : lease'[l] \in LeaseRow,
           \A l \in Leases : l \notin req[i].rows => lease'[l] = lease[l],
           \A l \in Leases : l \in req[i].rows /\ l \notin contested' => LeaseCounted(l)',
           r = Idle \/ Leasing(i)' \/ Mailing(i)'
    PROVE  LeasesInv'
<1>1. req'[i] = r /\ req' = [j \in Slots |-> req'[j]] /\ \A j \in Slots : j # i => req'[j] = req[j]
  BY DEF LeasesInv
<1>2. ASSUME NEW l, AloneAt(l) PROVE AloneAt(l)'
  <2>1. \A j \in Slots : j \in InFlight(l)' => j \in InFlight(l)
    BY <1>1 DEF InFlight
  <2> QED  BY <1>2, <2>1 DEF AloneAt
<1>3. ASSUME NEW j \in Slots, j # i, req'[j] # Idle PROVE Leasing(j)' \/ Mailing(j)'
  <2>1. req'[j] = req[j] /\ (Leasing(j) \/ Mailing(j))
    BY <1>1, <1>3 DEF LeasesInv
  <2>2. \A l \in Leases : l \in req[j].rows /\ l \notin contested' => lease'[l] = lease[l]
    BY <1>3, <2>1 DEF LeasesInv, AloneAt, InFlight
  <2>3. Leasing(j) => Leasing(j)'
    BY <2>1, <2>2 DEF Leasing
  <2>4. Mailing(j) => Mailing(j)'
    BY <2>1, <2>2, SendIsNoLease DEF Mailing, Let
  <2> QED  BY <2>1, <2>3, <2>4
<1>4. ASSUME NEW l \in Leases, l \notin contested', l \notin req[i].rows PROVE LeaseCounted(l)'
  <2>1. LeaseCounted(l) /\ lease'[l] = lease[l]
    BY <1>4 DEF LeasesInv
  <2>2. ~MailSent(i, l)
    BY <1>4, SendIsNoLease DEF LeasesInv, Leasing, Mailing, MailSent
  <2>3. ~MailSent(i, l)'
    BY <1>1, <1>4, SendIsNoLease DEF Leasing, Mailing, MailSent
  <2>4. \A j \in Slots : MailSent(j, l)' <=> MailSent(j, l)
    BY <1>1, <2>2, <2>3 DEF MailSent
  <2> QED  BY <2>1, <2>4 DEF LeaseCounted
<1>5. \A l \in Leases \ contested' : AloneAt(l)' /\ LeaseCounted(l)'
  BY <1>2, <1>4 DEF LeasesInv
<1> QED  BY <1>1, <1>3, <1>5 DEF LeasesInv

LEMMA LeaseStatusIs ==
    \A period, named : deriveLeaseStatus(period, named) \in {"DRAFT", "ACTIVE", "EXPIRING", "EXPIRED", "TERMINATED"}
BY DEF deriveLeaseStatus

LEMMA LeaseIsMade ==
    ASSUME LeasesInv, NEW l \in Leases, CreateLease(l)
    PROVE  LeasesInv'
<1>1. PICK p \in Periods, named \in Explicit, contact \in BOOLEAN :
        lease' = [lease EXCEPT ![l] = [period |-> p, status |-> deriveLeaseStatus(p, named), contact |-> contact,
                                       logged |-> FALSE, sent |-> 0]]
  BY DEF CreateLease
<1> DEFINE status == deriveLeaseStatus(p, named)
           row == [period |-> p, status |-> status, contact |-> contact, logged |-> FALSE, sent |-> 0]
<1>2. l \notin Let /\ UNCHANGED <<req, now>> /\ contested \subseteq contested'
  BY MeetContests DEF CreateLease, Once
<1>3. status \in {"DRAFT", "ACTIVE", "EXPIRING", "EXPIRED", "TERMINATED"}
  BY LeaseStatusIs
<1> HIDE DEF status
<1>4. row \in LeaseRow /\ row # NoLease /\ row.sent = 0 /\ row.logged = FALSE
  BY <1>3 DEF LeaseRow, NoLease, MaxLeaseMails
<1> HIDE DEF row
<1>5. lease' = [x \in Leases |-> lease'[x]] /\ lease'[l] = row /\ \A x \in Leases : x # l => lease'[x] = lease[x]
  BY <1>1 DEF LeasesInv, row, status
<1>6. Let' = Let \cup {l} /\ \A x \in Let : lease'[x] = lease[x]
  <2>1. \A x : x \in Let' <=> x \in Let \/ x = l
    BY <1>4, <1>5 DEF Let
  <2> QED  BY <1>2, <1>5, <2>1 DEF Let
<1>7. ASSUME NEW j \in Slots, req'[j] # Idle PROVE Leasing(j)' \/ Mailing(j)'
  <2>1. req'[j] = req[j] /\ (Leasing(j) \/ Mailing(j))
    BY <1>2, <1>7 DEF LeasesInv
  <2>2. Leasing(j) => Leasing(j)'
    BY <1>2, <1>6, <2>1 DEF Leasing
  <2>3. Mailing(j) => Mailing(j)'
    BY <1>2, <1>6, <2>1 DEF Mailing
  <2> QED  BY <2>1, <2>2, <2>3
<1>8. ASSUME NEW x \in Leases, x \notin contested' PROVE AloneAt(x)' /\ LeaseCounted(x)'
  <2>1. AloneAt(x) /\ LeaseCounted(x)
    BY <1>2, <1>8 DEF LeasesInv
  <2>2. AloneAt(x)' /\ \A j \in Slots : MailSent(j, x)' <=> MailSent(j, x)
    BY <1>2, <2>1 DEF AloneAt, InFlight, MailSent
  <2>3. x = l => \A j \in Slots : ~MailSent(j, x)
    BY <1>2, SendIsNoLease DEF LeasesInv, Leasing, Mailing, MailSent
  <2>4. CASE x = l
    BY <1>4, <1>5, <2>2, <2>3, <2>4 DEF LeaseCounted
  <2>5. CASE x # l
    BY <1>5, <1>6, <2>1, <2>2, <2>5 DEF LeaseCounted
  <2> QED  BY <2>2, <2>4, <2>5
<1>9. \A x \in Let' : lease'[x] \in LeaseRow
  BY <1>4, <1>5, <1>6 DEF LeasesInv
<1> QED  BY <1>2, <1>5, <1>7, <1>8, <1>9 DEF LeasesInv

LEMMA LeaseIsTaken ==
    ASSUME LeasesInv, NEW i \in Slots, NEW l \in Let, UpdateLease(i, l)
    PROVE  LeasesInv'
<1> DEFINE r(p, named) == [op |-> "lease", rows |-> {l}, lease |-> l, moved |-> p # lease[l].period,
                           period |-> p, status |-> deriveLeaseStatus(p, named)]
<1>1. PICK p \in Periods, named \in Explicit \cup {lease[l].status} : Begin(i, r(p, named))
  BY DEF UpdateLease
<1> DEFINE taken == r(p, named)
<1>2. /\ taken # Idle /\ taken.op = "lease" /\ taken.rows = {l} /\ taken.lease = l /\ taken.period = p
      /\ taken.status \in {"DRAFT", "ACTIVE", "EXPIRING", "EXPIRED", "TERMINATED"}
  BY LeaseStatusIs DEF Idle
<1>3. Begin(i, taken)
  BY <1>1
<1> HIDE DEF taken, r
<1>4. lease' = lease /\ Let' = Let /\ req'[i] = taken
  BY <1>3, BeginAlone DEF UpdateLease, Let, LeasesInv
<1>5. Leasing(i)'
  BY <1>2, <1>4 DEF Leasing
<1> QED  BY <1>2, <1>3, <1>4, <1>5, LeasesBegin

LEMMA LeasesAreListed ==
    ASSUME LeasesInv, NEW i \in Slots, SendLeaseReminders(i)
    PROVE  LeasesInv'
<1> DEFINE listed == Ending
           r == [op |-> "remindLease", rows |-> listed, left |-> listed, at |-> "send"]
<1>1. Begin(i, r) /\ lease' = lease
  BY DEF SendLeaseReminders
<1>2. listed \subseteq Let /\ \A l \in listed : ~lease[l].logged
  BY DEF Ending
<1> HIDE DEF listed
<1>3. req'[i] = r /\ r # Idle /\ r.at = "send" /\ Let' = Let
  BY <1>1, BeginAlone DEF LeasesInv, Idle, Let
<1>4. Mailing(i)'
  BY <1>1, <1>2, <1>3 DEF Mailing
<1> HIDE DEF r
<1> QED  BY <1>1, <1>3, <1>4, LeasesBegin

LEMMA MailedByWhoIsThere ==
    ASSUME LeasesInv, NEW i \in Slots, req[i] # Idle, NEW l \in Leases, l \in req[i].rows, l \notin contested
    PROVE  \A j \in Slots : MailSent(j, l) => j = i
<1> SUFFICES ASSUME NEW j \in Slots, MailSent(j, l), j # i PROVE FALSE
  OBVIOUS
<1>1. l \in req[j].rows /\ req[j] # Idle
  BY SendIsNoLease DEF LeasesInv, Leasing, Mailing, MailSent
<1> QED  BY <1>1 DEF LeasesInv, AloneAt, InFlight

LEMMA LeaseIsWritten ==
    ASSUME LeasesInv, NEW i \in Slots, WriteLease(i)
    PROVE  LeasesInv'
<1> DEFINE l == req[i].lease
           old == lease[l]
           period == IF req[i].moved THEN req[i].period ELSE old.period
           row == [old EXCEPT !.period = period, !.status = req[i].status]
<1>1. /\ req[i] # Idle /\ req[i].op = "lease" /\ req' = [req EXCEPT ![i] = Idle] /\ UNCHANGED <<contested, now>>
      /\ lease' = [lease EXCEPT ![l] = row]
  BY DEF WriteLease, End, Proceed
<1>2. Leasing(i) /\ l \in Let /\ l \in Leases /\ req[i].rows = {l} /\ old \in LeaseRow
  BY <1>1 DEF LeasesInv, Mailing, Leasing, Let
<1>3. row \in LeaseRow /\ row.logged = old.logged /\ row.sent = old.sent /\ row # NoLease
  BY <1>2 DEF Leasing, LeaseRow, NoLease
<1> HIDE DEF row, period
<1>4. lease' = [x \in Leases |-> lease'[x]] /\ lease'[l] = row /\ \A x \in Leases : x # l => lease'[x] = lease[x]
  BY <1>1, <1>2 DEF LeasesInv
<1>5. Let' = Let /\ \A x \in Let : lease'[x] \in LeaseRow
  <2>1. \A x : x \in Let' <=> x \in Let
    BY <1>2, <1>3, <1>4 DEF Let
  <2> QED  BY <1>3, <1>4, <2>1 DEF LeasesInv, Let
<1>6. ASSUME NEW x \in Leases, x \in req[i].rows, x \notin contested' PROVE LeaseCounted(x)'
  <2>1. x = l /\ LeaseCounted(x)
    BY <1>1, <1>2, <1>6 DEF LeasesInv
  <2>2. \A j \in Slots : MailSent(j, x)' <=> MailSent(j, x)
    BY <1>1 DEF MailSent, LeasesInv
  <2> QED  BY <1>2, <1>3, <1>4, <2>1, <2>2 DEF LeaseCounted
<1>7. UNCHANGED now /\ contested \subseteq contested' /\ \A x \in Leases : x \notin req[i].rows => lease'[x] = lease[x]
  BY <1>1, <1>2, <1>4
<1> QED  BY <1>1, <1>4, <1>5, <1>6, <1>7, LeasesGoOn

\* A mail is sent: of a lease nobody contests it is the first.
LEMMA LeaseMailIsSent ==
    ASSUME LeasesInv, NEW i \in Slots, SendLeaseReminder(i)
    PROVE  LeasesInv'
<1>1. PICK l \in req[i].left :
        /\ lease[l].sent < MaxLeaseMails
        /\ lease' = [lease EXCEPT ![l].sent = @ + 1]
        /\ Proceed(i, [req[i] EXCEPT !.at = l, !.left = @ \ {l}])
  BY DEF SendLeaseReminder
<1> DEFINE left == req[i].left \ {l}
           r == [req[i] EXCEPT !.at = l, !.left = left]
           sent == lease[l].sent + 1
           row == [lease[l] EXCEPT !.sent = sent]
<1>2. /\ req[i] # Idle /\ req[i].op = "remindLease" /\ req[i].at = "send"
      /\ req' = [req EXCEPT ![i] = r] /\ UNCHANGED <<contested, now>>
  BY <1>1 DEF SendLeaseReminder, Proceed
<1>3. Mailing(i) /\ l \in Let /\ l \in Leases /\ l \in req[i].rows /\ lease[l] \in LeaseRow
  BY <1>1, <1>2 DEF LeasesInv, Leasing, Mailing, Let
<1>4. r.op = "remindLease" /\ DOMAIN r = DOMAIN req[i] /\ r.rows = req[i].rows /\ r.at = l /\ r.left = left /\ r # Idle
  BY <1>2, <1>3 DEF Mailing, Idle
<1> HIDE DEF r
<1>5. sent \in 0..MaxLeaseMails
  BY <1>1, <1>3 DEF LeaseRow, MaxLeaseMails
<1> HIDE DEF sent
<1>6. row \in LeaseRow /\ row.sent = sent /\ row.logged = lease[l].logged /\ row # NoLease
  BY <1>3, <1>5 DEF LeaseRow, NoLease
<1>7. lease' = [lease EXCEPT ![l] = row]
  BY <1>1, <1>3 DEF LeasesInv, LeaseRow, sent
<1> HIDE DEF row
<1>8. /\ lease' = [x \in Leases |-> lease'[x]] /\ lease'[l] = row /\ \A x \in Leases : x # l => lease'[x] = lease[x]
      /\ req'[i] = r
  BY <1>2, <1>3, <1>7 DEF LeasesInv
<1>9. Let' = Let /\ \A x \in Let : lease'[x] \in LeaseRow
  <2>1. \A x : x \in Let' <=> x \in Let
    BY <1>3, <1>6, <1>8 DEF Let
  <2> QED  BY <1>6, <1>8, <2>1 DEF LeasesInv, Let
<1>10. Mailing(i)'
  <2>1. left \subseteq req[i].rows /\ left \subseteq Let /\ l \notin left /\ {"op", "rows", "left", "at"} \subseteq DOMAIN req[i]
    BY <1>3 DEF Mailing
  <2>2. \A x \in left \ contested' : ~lease'[x].logged
    BY <1>2, <1>3, <1>8 DEF Mailing, Let
  <2> HIDE DEF left
  <2> QED  BY <1>3, <1>4, <1>8, <1>9, <2>1, <2>2 DEF Mailing
<1>11. ASSUME NEW x \in Leases, x \in req[i].rows, x \notin contested' PROVE LeaseCounted(x)'
  <2>1. \A j \in Slots : ~MailSent(j, x)
    BY <1>2, <1>11, MailedByWhoIsThere, SendIsNoLease DEF MailSent
  <2>2. \A j \in Slots : MailSent(j, x)' <=> j = i /\ x = l
    BY <1>2, <1>4, <1>8, <2>1 DEF MailSent, LeasesInv
  <2>3. LeaseCounted(x)
    BY <1>2, <1>11 DEF LeasesInv
  <2>4. CASE x = l
    <3>1. ~lease[l].logged
      BY <1>1, <1>2, <1>3, <1>11, <2>4 DEF Mailing
    <3>2. lease[l].sent = 0
      BY <1>3, <2>1, <2>3, <2>4, <3>1 DEF LeaseCounted
    <3>3. sent = 1
      BY <3>2 DEF sent
    <3> QED  BY <1>6, <1>8, <2>2, <2>4, <3>1, <3>3 DEF LeaseCounted
  <2>5. CASE x # l
    BY <1>8, <1>9, <2>1, <2>2, <2>3, <2>5 DEF LeaseCounted
  <2> QED  BY <2>4, <2>5
<1>12. UNCHANGED now /\ contested \subseteq contested' /\ \A x \in Leases : x \notin req[i].rows => lease'[x] = lease[x]
  BY <1>2, <1>3, <1>8
<1>13. r.rows \subseteq req[i].rows
  BY <1>4
<1> QED  BY <1>2, <1>8, <1>9, <1>10, <1>11, <1>12, <1>13, LeasesGoOn

LEMMA LeaseMailIsLogged ==
    ASSUME LeasesInv, NEW i \in Slots, LogLeaseReminder(i)
    PROVE  LeasesInv'
<1> DEFINE l == req[i].at
           row == [lease[l] EXCEPT !.logged = TRUE]
           same == req[i]
<1>1. /\ req[i] # Idle /\ req[i].op = "remindLease" /\ l \in Leases /\ req' = req /\ contested' = contested /\ now' = now
      /\ lease' = [lease EXCEPT ![l].logged = TRUE]
  BY DEF LogLeaseReminder, requestVars
<1>2. Mailing(i) /\ l \in Let /\ l \in req[i].rows /\ l \notin req[i].left /\ lease[l] \in LeaseRow
  BY <1>1, SendIsNoLease DEF LeasesInv, Leasing, Mailing
<1>3. row \in LeaseRow /\ row.sent = lease[l].sent /\ row.logged = TRUE /\ row # NoLease
  BY <1>2 DEF LeaseRow, NoLease
<1>4. lease' = [lease EXCEPT ![l] = row]
  BY <1>1, <1>2 DEF LeasesInv, LeaseRow
<1> HIDE DEF row
<1>5. lease' = [x \in Leases |-> lease'[x]] /\ lease'[l] = row /\ \A x \in Leases : x # l => lease'[x] = lease[x]
  BY <1>1, <1>4 DEF LeasesInv
<1>6. Let' = Let /\ \A x \in Let : lease'[x] \in LeaseRow
  <2>1. \A x : x \in Let' <=> x \in Let
    BY <1>2, <1>3, <1>5 DEF Let
  <2> QED  BY <1>3, <1>5, <2>1 DEF LeasesInv, Let
<1>7. Mailing(i)'
  <2>1. \A x \in req[i].left : lease'[x] = lease[x]
    BY <1>2, <1>5 DEF Mailing, Let
  <2> QED  BY <1>1, <1>2, <1>6, <2>1 DEF Mailing
<1>8. ASSUME NEW x \in Leases, x \in req[i].rows, x \notin contested' PROVE LeaseCounted(x)'
  <2>1. LeaseCounted(x)
    BY <1>1, <1>8 DEF LeasesInv
  <2>2. \A j \in Slots : MailSent(j, x)' <=> MailSent(j, x)
    BY <1>1 DEF MailSent
  <2>3. MailSent(i, l)
    BY <1>1 DEF MailSent
  <2>4. CASE x = l
    <3>1. lease[l].sent = 1
      BY <1>2, <2>1, <2>3, <2>4 DEF LeaseCounted
    <3> QED  BY <1>3, <1>5, <2>4, <3>1 DEF LeaseCounted
  <2>5. CASE x # l
    BY <1>5, <1>6, <2>1, <2>2, <2>5 DEF LeaseCounted
  <2> QED  BY <2>4, <2>5
<1>9. req' = [req EXCEPT ![i] = same] /\ same.rows \subseteq req[i].rows
  BY <1>1 DEF LeasesInv
<1> HIDE DEF same
<1>10. UNCHANGED now /\ contested \subseteq contested' /\ \A x \in Leases : x \notin req[i].rows => lease'[x] = lease[x]
  BY <1>1, <1>2, <1>5
<1>11. req[i] # Idle
  BY <1>1
<1> QED  BY <1>5, <1>6, <1>7, <1>8, <1>9, <1>10, <1>11, LeasesGoOn

LEMMA LeaseMailIsDone ==
    ASSUME LeasesInv, NEW i \in Slots, MarkExpiring(i) \/ SkipLease(i)
    PROVE  LeasesInv'
<1> DEFINE l == req[i].at
           r == [req[i] EXCEPT !.at = "send"]
           q == NextLease(req[i])
           row == [lease[l] EXCEPT !.status = "EXPIRING"]
<1>1. /\ req[i] # Idle /\ req[i].op = "remindLease" /\ l \in Leases /\ req' = [req EXCEPT ![i] = q]
      /\ UNCHANGED now /\ contested \subseteq contested'
  BY DEF MarkExpiring, SkipLease, Proceed
<1>2. Mailing(i) /\ l \in Let /\ l \in req[i].rows /\ l \notin req[i].left /\ lease[l] \in LeaseRow
  BY <1>1, SendIsNoLease DEF LeasesInv, Leasing, Mailing
<1>3. r.op = "remindLease" /\ DOMAIN r = DOMAIN req[i] /\ r.rows = req[i].rows /\ r.at = "send"
      /\ r.left = req[i].left /\ r # Idle
  BY <1>1, <1>2 DEF Mailing, Idle
<1>4. q = Idle \/ q = r
  BY DEF NextLease
<1> HIDE DEF r, q
<1>5. req'[i] = q
  BY <1>1 DEF LeasesInv
<1>6. row \in LeaseRow /\ row.sent = lease[l].sent /\ row.logged = lease[l].logged /\ row # NoLease
  BY <1>2 DEF LeaseRow, NoLease
<1>7. \/ contested' = contested \cup {l} /\ lease' = lease
      \/ contested' = contested /\ lease' = [lease EXCEPT ![l] = row] /\ lease[l].logged
  BY DEF MarkExpiring, SkipLease, Proceed
<1> HIDE DEF row
<1>8. /\ lease' = [x \in Leases |-> lease'[x]] /\ \A x \in Leases : x # l => lease'[x] = lease[x]
      /\ lease'[l] = lease[l] \/ lease'[l] = row
      /\ l \notin contested' => lease[l].logged
  BY <1>1, <1>7 DEF LeasesInv
<1> HIDE DEF l
<1>9. Let' = Let /\ \A x \in Let : lease'[x] \in LeaseRow
  <2>1. \A x : x \in Let' <=> x \in Let
    BY <1>2, <1>6, <1>8 DEF Let
  <2> QED  BY <1>2, <1>6, <1>8, <2>1 DEF LeasesInv, Let
<1>10. q = Idle \/ Mailing(i)'
  <2>1. \A x \in req[i].left : x # l /\ lease'[x] = lease[x]
    BY <1>2, <1>8 DEF Mailing, Let
  <2> QED  BY <1>1, <1>2, <1>3, <1>4, <1>5, <1>9, <2>1 DEF Mailing
<1>11. ASSUME NEW x \in Leases, x \in req[i].rows, x \notin contested' PROVE LeaseCounted(x)'
  <2>1. \A j \in Slots : MailSent(j, x) => j = i
    BY <1>1, <1>11, MailedByWhoIsThere
  <2>2. \A j \in Slots : ~MailSent(j, x)'
    BY <1>1, <1>3, <1>4, <1>5, <1>11, <2>1, SendIsNoLease DEF MailSent, LeasesInv
  <2>3. \A j \in Slots : MailSent(j, x) => x = l
    BY <2>1 DEF MailSent, l
  <2>4. LeaseCounted(x)
    BY <1>1, <1>11 DEF LeasesInv
  <2>5. (\E j \in Slots : MailSent(j, x)) => lease[x].logged
    BY <1>8, <1>11, <2>3
  <2>6. lease'[x].sent = lease[x].sent /\ lease'[x].logged = lease[x].logged
    BY <1>6, <1>8
  <2> QED  BY <1>9, <2>2, <2>4, <2>5, <2>6 DEF LeaseCounted
<1>12. q = Idle \/ q.rows \subseteq req[i].rows
  BY <1>3, <1>4
<1>13. \A x \in Leases : x \notin req[i].rows => lease'[x] = lease[x]
  BY <1>2, <1>8
<1> QED  BY <1>1, <1>8, <1>9, <1>10, <1>11, <1>12, <1>13, LeasesGoOn

LEMMA LeasesStay ==
    ASSUME LeasesInv, LeasesNext
    PROVE  LeasesInv'
<1>1. CASE Tick /\ UNCHANGED lease
  <2>1. UNCHANGED <<req, contested, lease>> /\ now' \in 1..MaxTime
    BY <1>1, MaxTimeNat DEF Tick, LeasesInv
  <2>2. Let' = Let /\ \A l : \A j \in Slots : MailSent(j, l)' <=> MailSent(j, l)
    BY <2>1 DEF Let, MailSent
  <2>3. \A i \in Slots : (Leasing(i) => Leasing(i)') /\ (Mailing(i) => Mailing(i)')
    BY <2>1, <2>2 DEF Leasing, Mailing
  <2>4. \A l : (LeaseCounted(l) => LeaseCounted(l)') /\ (AloneAt(l) => AloneAt(l)')
    BY <2>1, <2>2 DEF LeaseCounted, AloneAt, InFlight
  <2> QED  BY <2>1, <2>2, <2>3, <2>4 DEF LeasesInv
<1>2. ASSUME NEW i \in Slots, Cut(i), UNCHANGED lease PROVE LeasesInv'
  <2>1. /\ req[i] # Idle /\ req' = [req EXCEPT ![i] = Idle] /\ contested' = contested \cup req[i].rows /\ now' = now
        /\ lease' = lease /\ Let' = Let
    BY <1>2 DEF Cut, Let
  <2>2. lease' = [x \in Leases |-> lease'[x]] /\ (\A x \in Let : lease'[x] \in LeaseRow)
    BY <2>1 DEF LeasesInv
  <2> QED  BY <2>1, <2>2, LeasesGoOn
<1>3. ASSUME NEW l \in Leases, CreateLease(l) PROVE LeasesInv'
  BY <1>3, LeaseIsMade
<1>4. ASSUME NEW i \in Slots, LeasesStep(i) PROVE LeasesInv'
  BY <1>4, LeaseIsTaken, LeaseIsWritten, LeasesAreListed, LeaseMailIsSent, LeaseMailIsLogged, LeaseMailIsDone DEF LeasesStep
<1> QED  BY <1>1, <1>2, <1>3, <1>4 DEF LeasesNext

LEMMA LeasesInitially == Init => LeasesKept
<1> SUFFICES ASSUME Init PROVE LeasesKept
  OBVIOUS
<1>1. lease = [l \in Leases |-> NoLease] /\ req = [i \in Slots |-> Idle] /\ contested = {} /\ now = 1
  BY DEF Init, LeasesInit, RequestsInit
<1>2. Let = {} /\ 1 \in 1..MaxTime
  BY <1>1, MaxTimeNat DEF Let
<1>3. \A l \in Leases : AloneAt(l) /\ LeaseCounted(l)
  BY <1>1, <1>2 DEF AloneAt, InFlight, LeaseCounted
<1> QED  BY <1>1, <1>2, <1>3 DEF LeasesKept, LeasesInv

LEMMA LeasesStayKept == LeasesKept /\ [Next]_premisesVars => LeasesKept'
<1> SUFFICES ASSUME LeasesKept, [Next]_premisesVars PROVE LeasesKept'
  OBVIOUS
<1>1. CASE Next
  BY <1>1, DesksApart, LeasesStay DEF LeasesKept
<1>2. CASE UNCHANGED premisesVars
  <2>1. UNCHANGED <<desk, req, contested, now, lease>>
    BY <1>2 DEF premisesVars, requestVars
  <2>2. Let' = Let /\ \A l : \A j \in Slots : MailSent(j, l)' <=> MailSent(j, l)
    BY <2>1 DEF Let, MailSent
  <2>3. \A i \in Slots : (Leasing(i) => Leasing(i)') /\ (Mailing(i) => Mailing(i)')
    BY <2>1, <2>2 DEF Leasing, Mailing
  <2>4. \A l : (LeaseCounted(l) => LeaseCounted(l)') /\ (AloneAt(l) => AloneAt(l)')
    BY <2>1, <2>2 DEF LeaseCounted, AloneAt, InFlight
  <2>5. LeasesInv => LeasesInv'
    BY <2>1, <2>2, <2>3, <2>4 DEF LeasesInv
  <2> QED  BY <2>1, <2>5 DEF LeasesKept
<1> QED  BY <1>1, <1>2

LEMMA LeaseMailsAreSentOnce == LeasesKept => LeasesRemindedOnce
<1> SUFFICES ASSUME LeasesKept, NEW l \in Let \ contested PROVE lease[l].sent <= 1
  BY DEF LeasesRemindedOnce
<1>1. CASE desk = "leases"
  BY <1>1 DEF LeasesKept, LeasesInv, LeaseCounted, Let
<1>2. CASE desk # "leases"
  BY <1>2 DEF LeasesKept, Let
<1> QED  BY <1>1, <1>2

-----------------------------------------------------------------------------
(***************************************************************************)
(* The scan for breached deadlines runs at the desk of the work orders     *)
(* only, and the clock never passes its bound.                             *)
(***************************************************************************)

QuietRequest(r) == r = Idle \/ ("op" \in DOMAIN r /\ r.op # "sla")

Quiet ==
    /\ now \in 1..MaxTime
    /\ req = [i \in Slots |-> req[i]] /\ \A i \in Slots : QuietRequest(req[i])

QuietKept == desk # "work" => Quiet

LEMMA QuietWrite ==
    ASSUME Quiet, NEW i \in Slots, NEW r, QuietRequest(r),
           Begin(i, r) \/ Proceed(i, r) \/ (req' = [req EXCEPT ![i] = r] /\ now' = now)
    PROVE  Quiet'
<1>1. req' = [req EXCEPT ![i] = r] /\ now' = now
  BY DEF Begin, Proceed
<1>2. req' = [j \in Slots |-> req'[j]] /\ \A j \in Slots : req'[j] = IF j = i THEN r ELSE req[j]
  BY <1>1 DEF Quiet
<1> QED  BY <1>1, <1>2 DEF Quiet, QuietRequest

LEMMA QuietEnd ==
    ASSUME Quiet, NEW i \in Slots, End(i) \/ Abort(i) \/ Cut(i)
    PROVE  Quiet'
<1>1. req' = [req EXCEPT ![i] = Idle] /\ now' = now
  BY DEF End, Abort, Cut, Proceed
<1>2. QuietRequest(Idle)
  BY DEF QuietRequest
<1> QED  BY <1>1, <1>2, QuietWrite

LEMMA QuietOnce == Quiet /\ UNCHANGED <<req, now>> => Quiet'
BY DEF Quiet, QuietRequest

LEMMA QuietOnceAt == ASSUME Quiet, NEW row, Once(row) PROVE Quiet'
BY QuietOnce DEF Once

LEMMA QuietTick == Quiet /\ Tick => Quiet'
BY MaxTimeNat DEF Quiet, QuietRequest, Tick

\* A request that goes on with some of its fields changed keeps its kind.
LEMMA QuietGoesOn ==
    ASSUME Quiet, NEW i \in Slots, req[i] # Idle, NEW r, DOMAIN r = DOMAIN req[i], r.op = req[i].op
    PROVE  QuietRequest(r)
BY DEF Quiet, QuietRequest

LEMMA QuietBookings == ASSUME Quiet, BookingsNext PROVE Quiet'
<1>1. ASSUME NEW i \in Slots, NEW a, CreateAmenityBooking(i, a) PROVE Quiet'
  BY <1>1, QuietWrite DEF CreateAmenityBooking, QuietRequest
<1>2. ASSUME NEW i \in Slots, NEW b, UpdateAmenityBooking(i, b) PROVE Quiet'
  BY <1>2, QuietWrite DEF UpdateAmenityBooking, QuietRequest
<1>3. ASSUME NEW i \in Slots, WriteBooking(i) \/ RewriteBooking(i) PROVE Quiet'
  BY <1>3, QuietEnd DEF WriteBooking, RewriteBooking
<1>4. ASSUME NEW a, CreateAmenity(a) \/ UpdateAmenity(a) PROVE Quiet'
  BY <1>4, QuietOnce DEF CreateAmenity, UpdateAmenity, Once, requestVars
<1> QED  BY <1>1, <1>2, <1>3, <1>4, QuietEnd, QuietTick DEF BookingsNext

LEMMA QuietRegistry == ASSUME Quiet, RegistryNext PROVE Quiet'
<1>1. ASSUME NEW i \in Slots, NEW p, NEW m, CreateEntry(i, p, m) PROVE Quiet'
  BY <1>1, QuietWrite DEF CreateEntry, QuietRequest
<1>2. ASSUME NEW i \in Slots, NEW e, UpdateEntry(i, e) PROVE Quiet'
  BY <1>2, QuietWrite DEF UpdateEntry, QuietRequest
<1>3. ASSUME NEW i \in Slots, ClearMarks(i) PROVE Quiet'
  <2> DEFINE r == [req[i] EXCEPT !.clear = FALSE]
  <2>1. req[i] # Idle /\ Proceed(i, r)
    BY <1>3 DEF ClearMarks
  <2>2. DOMAIN r = DOMAIN req[i] /\ r.op = req[i].op
    BY <2>1 DEF Quiet, QuietRequest
  <2> HIDE DEF r
  <2> QED  BY <2>1, <2>2, QuietGoesOn, QuietWrite
<1>4. ASSUME NEW i \in Slots, WriteEntry(i) PROVE Quiet'
  BY <1>4, QuietEnd DEF WriteEntry
<1>5. ASSUME NEW e, DeleteEntry(e) PROVE Quiet'
  BY <1>5, QuietOnceAt DEF DeleteEntry
<1> QED  BY <1>1, <1>2, <1>3, <1>4, <1>5, QuietEnd, QuietTick DEF RegistryNext, RegistryStep

LEMMA QuietResidents == ASSUME Quiet, ResidentsNext PROVE Quiet'
<1>1. ASSUME NEW i \in Slots, NEW r, NEW w, NEW us, NEW looked, Write(i, r, w, us, looked) PROVE Quiet'
  BY <1>1, QuietWrite DEF Write, QuietRequest
<1>2. ASSUME NEW i \in Slots, NEW r, CreateResident(i, r) \/ UpdateResident(i, r) \/ DeleteResident(i, r) PROVE Quiet'
  BY <1>1, <1>2 DEF CreateResident, UpdateResident, DeleteResident
<1>3. ASSUME NEW i \in Slots, WriteResident(i) \/ SyncUnitOccupancy(i) PROVE Quiet'
  BY <1>3, QuietWrite DEF WriteResident, SyncUnitOccupancy, QuietRequest
<1>4. ASSUME NEW i \in Slots, CountActive(i) PROVE Quiet'
  BY <1>4, QuietWrite, QuietEnd DEF CountActive, QuietRequest
<1>5. ASSUME NEW i \in Slots, CommitBulkTenantInvites(i) PROVE Quiet'
  BY <1>5, QuietWrite DEF CommitBulkTenantInvites, QuietRequest
<1>6. ASSUME NEW i \in Slots, CreateBulkResident(i) PROVE Quiet'
  <2>1. PICK p \in req[i].left : Proceed(i, [req[i] EXCEPT !.step = "mark", !.left = @ \ {p}, !.taken = @ \cup {req[i].todo[p]}])
    BY <1>6 DEF CreateBulkResident
  <2> DEFINE r == [req[i] EXCEPT !.step = "mark", !.left = @ \ {p}, !.taken = @ \cup {req[i].todo[p]}]
  <2>2. req[i] # Idle /\ Proceed(i, r)
    BY <1>6, <2>1 DEF CreateBulkResident
  <2>3. DOMAIN r = DOMAIN req[i] /\ r.op = req[i].op
    BY <2>2 DEF Quiet, QuietRequest
  <2> HIDE DEF r
  <2> QED  BY <2>2, <2>3, QuietGoesOn, QuietWrite
<1>7. ASSUME NEW i \in Slots, MarkOccupied(i) PROVE Quiet'
  <2> DEFINE r == [req[i] EXCEPT !.step = "create"]
  <2>1. req[i] # Idle /\ (End(i) \/ Proceed(i, r))
    BY <1>7 DEF MarkOccupied
  <2>2. DOMAIN r = DOMAIN req[i] /\ r.op = req[i].op
    BY <2>1 DEF Quiet, QuietRequest
  <2> HIDE DEF r
  <2> QED  BY <2>1, <2>2, QuietGoesOn, QuietWrite, QuietEnd
<1>8. ASSUME NEW u, CreateUnit(u) \/ UpdateUnit(u) PROVE Quiet'
  BY <1>8, QuietOnceAt DEF CreateUnit, UpdateUnit
<1>9. ASSUME NEW i \in Slots, NEW u, DeleteUnit(i, u) PROVE Quiet'
  BY <1>9, QuietWrite DEF DeleteUnit, QuietRequest
<1>10. ASSUME NEW i \in Slots, RemoveUnit(i) PROVE Quiet'
  BY <1>10, QuietEnd DEF RemoveUnit
<1> QED  BY <1>2, <1>3, <1>4, <1>5, <1>6, <1>7, <1>8, <1>9, <1>10, QuietEnd, QuietTick DEF ResidentsNext, ResidentsStep

LEMMA QuietCharges == ASSUME Quiet, ChargesNext PROVE Quiet'
<1>1. ASSUME NEW c, CreateFinanceCharge(c) PROVE Quiet'
  BY <1>1, QuietOnceAt DEF CreateFinanceCharge
<1>2. ASSUME NEW i \in Slots, NEW c, UpdateFinanceCharge(i, c) PROVE Quiet'
  BY <1>2, QuietWrite DEF UpdateFinanceCharge, QuietRequest
<1>3. ASSUME NEW i \in Slots, NEW c, RecordFinancePayment(i, c) PROVE Quiet'
  BY <1>3, QuietWrite DEF RecordFinancePayment, QuietRequest
<1>4. ASSUME NEW i \in Slots, WriteCharge(i) \/ WritePayment(i) PROVE Quiet'
  BY <1>4, QuietEnd DEF WriteCharge, WritePayment
<1>5. ASSUME NEW i \in Slots, NEW type, SendEstateReminders(i, type) PROVE Quiet'
  BY <1>5, QuietWrite DEF SendEstateReminders, QuietRequest
<1>6. ASSUME NEW i \in Slots, SendReminder(i) PROVE Quiet'
  <2>1. PICK c \in req[i].left : Proceed(i, [req[i] EXCEPT !.at = c, !.left = @ \ {c}])
    BY <1>6 DEF SendReminder
  <2> DEFINE r == [req[i] EXCEPT !.at = c, !.left = @ \ {c}]
  <2>2. req[i] # Idle /\ Proceed(i, r)
    BY <1>6, <2>1 DEF SendReminder
  <2>3. DOMAIN r = DOMAIN req[i] /\ r.op = req[i].op
    BY <2>2 DEF Quiet, QuietRequest
  <2> HIDE DEF r
  <2> QED  BY <2>2, <2>3, QuietGoesOn, QuietWrite
<1>7. ASSUME NEW i \in Slots, LogReminder(i) PROVE Quiet'
  BY <1>7, QuietOnce DEF LogReminder, requestVars
<1>8. ASSUME NEW i \in Slots, MarkReminded(i) \/ SkipReminder(i) PROVE Quiet'
  <2> DEFINE r == [req[i] EXCEPT !.at = "send"]
             q == NextRow(req[i])
  <2>1. req[i] # Idle /\ (Proceed(i, q) \/ (req' = [req EXCEPT ![i] = q] /\ now' = now))
    BY <1>8 DEF MarkReminded, SkipReminder
  <2>2. DOMAIN r = DOMAIN req[i] /\ r.op = req[i].op
    BY <2>1 DEF Quiet, QuietRequest
  <2>3. q = Idle \/ q = r
    BY DEF NextRow
  <2> HIDE DEF r, q
  <2>4. QuietRequest(q)
    BY <2>1, <2>2, <2>3, QuietGoesOn DEF QuietRequest
  <2> QED  BY <2>1, <2>4, QuietWrite
<1> QED  BY <1>1, <1>2, <1>3, <1>4, <1>5, <1>6, <1>7, <1>8, QuietEnd, QuietTick DEF ChargesNext, ChargesStep

LEMMA QuietLeases == ASSUME Quiet, LeasesNext PROVE Quiet'
<1>1. ASSUME NEW l, CreateLease(l) PROVE Quiet'
  BY <1>1, QuietOnceAt DEF CreateLease
<1>2. ASSUME NEW i \in Slots, NEW l, UpdateLease(i, l) PROVE Quiet'
  BY <1>2, QuietWrite DEF UpdateLease, QuietRequest
<1>3. ASSUME NEW i \in Slots, WriteLease(i) PROVE Quiet'
  BY <1>3, QuietEnd DEF WriteLease
<1>4. ASSUME NEW i \in Slots, SendLeaseReminders(i) PROVE Quiet'
  BY <1>4, QuietWrite DEF SendLeaseReminders, QuietRequest
<1>5. ASSUME NEW i \in Slots, SendLeaseReminder(i) PROVE Quiet'
  <2>1. PICK l \in req[i].left : Proceed(i, [req[i] EXCEPT !.at = l, !.left = @ \ {l}])
    BY <1>5 DEF SendLeaseReminder
  <2> DEFINE r == [req[i] EXCEPT !.at = l, !.left = @ \ {l}]
  <2>2. req[i] # Idle /\ Proceed(i, r)
    BY <1>5, <2>1 DEF SendLeaseReminder
  <2>3. DOMAIN r = DOMAIN req[i] /\ r.op = req[i].op
    BY <2>2 DEF Quiet, QuietRequest
  <2> HIDE DEF r
  <2> QED  BY <2>2, <2>3, QuietGoesOn, QuietWrite
<1>6. ASSUME NEW i \in Slots, LogLeaseReminder(i) PROVE Quiet'
  BY <1>6, QuietOnce DEF LogLeaseReminder, requestVars
<1>7. ASSUME NEW i \in Slots, MarkExpiring(i) \/ SkipLease(i) PROVE Quiet'
  <2> DEFINE r == [req[i] EXCEPT !.at = "send"]
             q == NextLease(req[i])
  <2>1. req[i] # Idle /\ (Proceed(i, q) \/ (req' = [req EXCEPT ![i] = q] /\ now' = now))
    BY <1>7 DEF MarkExpiring, SkipLease
  <2>2. DOMAIN r = DOMAIN req[i] /\ r.op = req[i].op
    BY <2>1 DEF Quiet, QuietRequest
  <2>3. q = Idle \/ q = r
    BY DEF NextLease
  <2> HIDE DEF r, q
  <2>4. QuietRequest(q)
    BY <2>1, <2>2, <2>3, QuietGoesOn DEF QuietRequest
  <2> QED  BY <2>1, <2>4, QuietWrite
<1> QED  BY <1>1, <1>2, <1>3, <1>4, <1>5, <1>6, <1>7, QuietEnd, QuietTick DEF LeasesNext, LeasesStep

LEMMA QuietMeters == ASSUME Quiet, MetersNext PROVE Quiet'
<1>1. ASSUME NEW m, CreateUtilityMeter(m) \/ UpdateUtilityMeter(m) PROVE Quiet'
  BY <1>1, QuietOnceAt DEF CreateUtilityMeter, UpdateUtilityMeter
<1>2. ASSUME NEW i \in Slots, NEW m, RecordUtilityReading(i, m) PROVE Quiet'
  BY <1>2, QuietWrite DEF RecordUtilityReading, QuietRequest
<1>3. ASSUME NEW i \in Slots, WriteReading(i) PROVE Quiet'
  BY <1>3, QuietEnd DEF WriteReading
<1> QED  BY <1>1, <1>2, <1>3, QuietEnd DEF MetersNext

LEMMA QuietTickets == ASSUME Quiet, TicketsNext PROVE Quiet'
<1>1. ASSUME NEW k, NEW kind, NEW s, File(k, kind, s) PROVE Quiet'
  BY <1>1, QuietOnceAt DEF File
<1>2. ASSUME NEW k, FileTicket(k) PROVE Quiet'
  BY <1>1, <1>2 DEF FileTicket, CreateViolation, CreateApprovalRequest, CreateParcel, FileOfficeTicket,
                    FileUnitRequest, ScheduleInspection
<1>3. ASSUME NEW i \in Slots, NEW k, NEW s, NEW w, BeginUpdate(i, k, s, w) PROVE Quiet'
  BY <1>3, QuietWrite DEF BeginUpdate, QuietRequest
<1>4. ASSUME NEW i \in Slots, NEW k, UpdateTicket(i, k) \/ ConfirmMyRequest(i, k) \/ ReopenMyRequest(i, k) PROVE Quiet'
  BY <1>3, <1>4 DEF UpdateTicket, ConfirmMyRequest, ReopenMyRequest
<1>5. ASSUME NEW i \in Slots, WriteTicket(i) PROVE Quiet'
  BY <1>5, QuietEnd DEF WriteTicket
<1> QED  BY <1>2, <1>4, <1>5, QuietEnd, QuietTick DEF TicketsNext, TicketsStep

LEMMA QuietOffice == ASSUME Quiet, OfficeNext PROVE Quiet'
<1>1. ASSUME NEW a, CreateArea(a) PROVE Quiet'
  BY <1>1, QuietOnceAt DEF CreateArea
<1>2. CASE CreateRequestType \/ DeactivateRequestType
  BY <1>2, QuietOnce DEF CreateRequestType, DeactivateRequestType, requestVars
<1>3. ASSUME NEW q, NEW o, LinkOrder(q, o) PROVE Quiet'
  BY <1>3, QuietOnceAt DEF LinkOrder
<1>4. ASSUME NEW i \in Slots, NEW a, UpdateArea(i, a) PROVE Quiet'
  BY <1>4, QuietWrite DEF UpdateArea, QuietRequest
<1>5. ASSUME NEW i \in Slots, NEW a, DeleteArea(i, a) PROVE Quiet'
  BY <1>5, QuietWrite DEF DeleteArea, QuietRequest
<1>6. ASSUME NEW i \in Slots, NEW a, CreateRequest(i, a) \/ CreatePublicRequest(i, a) PROVE Quiet'
  BY <1>6, QuietWrite DEF CreateRequest, CreatePublicRequest, BeginAsk, QuietRequest
<1>7. ASSUME NEW i \in Slots, NEW a, CreateWorkOrder(i, a) PROVE Quiet'
  BY <1>7, QuietWrite DEF CreateWorkOrder, QuietRequest
<1>8. ASSUME NEW i \in Slots, WriteArea(i) \/ RemoveArea(i) \/ FileRequest(i) \/ WriteWorkOrder(i) PROVE Quiet'
  BY <1>8, QuietEnd DEF WriteArea, RemoveArea, FileRequest, WriteWorkOrder
<1> QED  BY <1>1, <1>2, <1>3, <1>4, <1>5, <1>6, <1>7, <1>8, QuietEnd DEF OfficeNext, OfficeStep

LEMMA QuietMaintenance == ASSUME Quiet, MaintenanceNext PROVE Quiet'
<1>1. ASSUME NEW a, CreateAsset(a) \/ OrderForAsset(a) PROVE Quiet'
  BY <1>1, QuietOnceAt DEF CreateAsset, OrderForAsset
<1>2. ASSUME NEW i \in Slots, NEW a, UpdateAsset(i, a) PROVE Quiet'
  BY <1>2, QuietWrite DEF UpdateAsset, QuietRequest
<1>3. ASSUME NEW i \in Slots, NEW a, DeleteAsset(i, a) PROVE Quiet'
  BY <1>3, QuietWrite DEF DeleteAsset, QuietRequest
<1>4. ASSUME NEW i \in Slots, WriteAsset(i) \/ RemoveAsset(i) PROVE Quiet'
  BY <1>4, QuietEnd DEF WriteAsset, RemoveAsset
<1>5. ASSUME NEW i \in Slots, RunPreventiveMaintenance(i) PROVE Quiet'
  BY <1>5, QuietWrite DEF RunPreventiveMaintenance, QuietRequest
<1>6. ASSUME NEW i \in Slots, OpenPmOrder(i) PROVE Quiet'
  <2>1. PICK a \in req[i].left : End(i) \/ Proceed(i, [req[i] EXCEPT !.left = @ \ {a}])
    BY <1>6 DEF OpenPmOrder
  <2> DEFINE r == [req[i] EXCEPT !.left = @ \ {a}]
  <2>2. req[i] # Idle /\ (End(i) \/ Proceed(i, r))
    BY <1>6, <2>1 DEF OpenPmOrder
  <2>3. DOMAIN r = DOMAIN req[i] /\ r.op = req[i].op
    BY <2>2 DEF Quiet, QuietRequest
  <2> HIDE DEF r
  <2> QED  BY <2>2, <2>3, QuietGoesOn, QuietWrite, QuietEnd
<1> QED  BY <1>1, <1>2, <1>3, <1>4, <1>5, <1>6, QuietEnd, QuietTick DEF MaintenanceNext, MaintenanceStep

LEMMA QuietEquipment == ASSUME Quiet, EquipmentNext PROVE Quiet'
<1>1. ASSUME NEW m, CreateApartmentAsset(m) \/ DeleteApartmentAsset(m) PROVE Quiet'
  BY <1>1, QuietOnceAt DEF CreateApartmentAsset, DeleteApartmentAsset
<1>2. ASSUME NEW i \in Slots, NEW m, UpdateApartmentAsset(i, m) PROVE Quiet'
  BY <1>2, QuietWrite DEF UpdateApartmentAsset, QuietRequest
<1>3. ASSUME NEW i \in Slots, NEW m, LogApartmentAssetService(i, m) PROVE Quiet'
  BY <1>3, QuietWrite DEF LogApartmentAssetService, QuietRequest
<1>4. ASSUME NEW i \in Slots, WriteMachine(i) PROVE Quiet'
  BY <1>4, QuietEnd DEF WriteMachine
<1> QED  BY <1>1, <1>2, <1>3, <1>4, QuietEnd, QuietTick DEF EquipmentNext

LEMMA QuietNotices == ASSUME Quiet, NoticesNext PROVE Quiet'
<1>1. ASSUME NEW p, CreateNotice(p) \/ CreateInspection(p) \/ DeleteNotice(p) PROVE Quiet'
  BY <1>1, QuietOnceAt DEF CreateNotice, CreateInspection, DeleteNotice
<1>2. ASSUME NEW i \in Slots, NEW p, NEW c, NEW x, Extend(i, p, c, x) PROVE Quiet'
  BY <1>2, QuietWrite DEF Extend, QuietRequest
<1>3. ASSUME NEW i \in Slots, NEW p, UpdateInspectionResult(i, p) PROVE Quiet'
  BY <1>3, QuietWrite DEF UpdateInspectionResult, QuietRequest
<1>4. ASSUME NEW i \in Slots, WriteColumn(i) \/ WriteResult(i) PROVE Quiet'
  BY <1>4, QuietEnd DEF WriteColumn, WriteResult
<1> QED  BY <1>1, <1>2, <1>3, <1>4, QuietEnd, QuietTick
         DEF NoticesNext, NoticesStep, AcknowledgeNotice, MarkNoticeSeen, BeginConversion

LEMMA QuietFiling == ASSUME Quiet, FilingNext PROVE Quiet'
<1>1. ASSUME NEW i \in Slots, NEW text, NEW by, BeginFiling(i, text, by) PROVE Quiet'
  BY <1>1, QuietWrite DEF BeginFiling, QuietRequest
<1>2. ASSUME NEW i \in Slots, NEW text, CreateManagedRequest(i, text) \/ CreateMyRequest(i, text) PROVE Quiet'
  BY <1>1, <1>2 DEF CreateManagedRequest, CreateMyRequest
<1>3. ASSUME NEW i \in Slots, WriteFiled(i) PROVE Quiet'
  BY <1>3, QuietEnd DEF WriteFiled
<1> QED  BY <1>2, <1>3, QuietEnd, QuietTick DEF FilingNext

LEMMA QuietInitially == Init => QuietKept
BY MaxTimeNat DEF Init, RequestsInit, QuietKept, Quiet, QuietRequest

LEMMA QuietStays == QuietKept /\ [Next]_premisesVars => QuietKept'
<1> SUFFICES ASSUME QuietKept, [Next]_premisesVars, desk' # "work" PROVE Quiet'
  BY DEF QuietKept
<1>1. CASE UNCHANGED premisesVars
  BY <1>1, QuietOnce DEF premisesVars, requestVars, QuietKept
<1>2. CASE Next
  <2>1. Quiet
    BY <1>2, DesksApart DEF QuietKept
  <2> QED  BY <1>2, <2>1, QuietBookings, QuietRegistry, QuietResidents, QuietCharges, QuietLeases, QuietMeters,
              QuietTickets, QuietOffice, QuietMaintenance, QuietEquipment, QuietNotices, QuietFiling
           DEF Next, BookingsWork, RegistryWorks, ResidentsMove, OrdersWork, ChargesWork, LeasesWork,
               MetersWork, TicketsWork, OfficeWorks, MaintenanceWorks, EquipmentWorks, NoticesWork,
               FilingWorks, Works
<1> QED  BY <1>1, <1>2

LEMMA QuietIsNoAlerts == QuietKept => NoAlertsElsewhere
BY DEF QuietKept, Quiet, QuietRequest, NoAlertsElsewhere

\* A reminder of one kind goes out once for a charge or a lease, and an alert once for a
\* breach of a deadline, over all runs of the jobs and whatever is edited between them:
\* for any number of rows and of requests and runs in flight, and any dates.
THEOREM RemindersGoOutOnce == Spec => []RemindedOnce
<1>1. OrdersKept /\ ChargesKept /\ LeasesKept /\ QuietKept => RemindedOnce
  BY AlertsAreSentOnce, RemindersAreSentOnce, LeaseMailsAreSentOnce, QuietIsNoAlerts DEF RemindedOnce
<1> QED  BY <1>1, OrdersInitially, OrdersStayKept, ChargesInitially, ChargesStayKept, LeasesInitially,
            LeasesStayKept, QuietInitially, QuietStays, PTL DEF Spec

-----------------------------------------------------------------------------
(***************************************************************************)
(* Machines of an apartment.  What a request is going to write of a        *)
(* machine nobody contests makes a row whose dates agree.                  *)
(***************************************************************************)

MachineRow == [last : NoDate..MaxTime, interval : Intervals, next : NoDate..(MaxTime + MaxInterval)]

MachineWrite(w) ==
    /\ w = [c \in DOMAIN w |-> w[c]] /\ DOMAIN w \subseteq {"last", "interval", "next"}
    /\ "last" \in DOMAIN w => w.last \in NoDate..MaxTime
    /\ "interval" \in DOMAIN w => w.interval \in Intervals
    /\ "next" \in DOMAIN w => w.next \in NoDate..(MaxTime + MaxInterval)

Follows(row) == row.last # NoDate /\ row.interval # NoDate => row.next = row.last + row.interval

Servicing(i) ==
    /\ req[i] # Idle /\ req[i].op = "machine" /\ req[i].machine \in Machines /\ req[i].rows = {req[i].machine}
    /\ MachineWrite(req[i].write)
    /\ req[i].machine \notin contested =>
          req[i].machine \in Owned /\ Follows(Written(req[i].write, machine[req[i].machine]))

EquipmentInv ==
    /\ now \in 1..MaxTime
    /\ machine = [m \in Machines |-> machine[m]] /\ \A m \in Owned : machine[m] \in MachineRow
    /\ req = [i \in Slots |-> req[i]]
    /\ \A i \in Slots : req[i] = Idle \/ Servicing(i)
    /\ \A m \in Machines \ contested : AloneAt(m) /\ (m \in Owned => Follows(machine[m]))

EquipmentKept ==
    /\ desk = "equipment" => EquipmentInv
    /\ desk # "equipment" => machine = [m \in Machines |-> NoMachine]

\* What a write makes of a row.
LEMMA MachineIsWritten ==
    ASSUME NEW w, MachineWrite(w), NEW row \in MachineRow
    PROVE  /\ Written(w, row) \in MachineRow
           /\ Written(w, row).last = IF "last" \in DOMAIN w THEN w.last ELSE row.last
           /\ Written(w, row).interval = IF "interval" \in DOMAIN w THEN w.interval ELSE row.interval
           /\ Written(w, row).next = IF "next" \in DOMAIN w THEN w.next ELSE row.next
<1>1. DOMAIN row = {"last", "interval", "next"} /\ DOMAIN w \cup DOMAIN row = {"last", "interval", "next"}
  BY DEF MachineRow, MachineWrite
<1>2. Written(w, row) = [c \in {"last", "interval", "next"} |-> IF c \in DOMAIN w THEN w[c] ELSE row[c]]
  BY <1>1 DEF Written
<1>3. /\ Written(w, row).last = IF "last" \in DOMAIN w THEN w.last ELSE row.last
      /\ Written(w, row).interval = IF "interval" \in DOMAIN w THEN w.interval ELSE row.interval
      /\ Written(w, row).next = IF "next" \in DOMAIN w THEN w.next ELSE row.next
  BY <1>2
<1>4. /\ Written(w, row).last \in NoDate..MaxTime
      /\ Written(w, row).interval \in Intervals
      /\ Written(w, row).next \in NoDate..(MaxTime + MaxInterval)
  BY <1>3 DEF MachineRow, MachineWrite
<1>5. Written(w, row) = [last |-> Written(w, row).last, interval |-> Written(w, row).interval,
                         next |-> Written(w, row).next]
  BY <1>2
<1> QED  BY <1>3, <1>4, <1>5 DEF MachineRow

LEMMA EquipmentBegins ==
    ASSUME EquipmentInv, machine' = machine, NEW i \in Slots, NEW r, Begin(i, r), r # Idle, Servicing(i)'
    PROVE  EquipmentInv'
<1>1. /\ req[i] = Idle /\ req'[i] = r /\ req' = [j \in Slots |-> req'[j]] /\ contested \subseteq contested' /\ now' = now
      /\ \A j \in Slots : j # i => req'[j] = req[j]
      /\ \A row : AloneAt(row) /\ row \notin contested' => AloneAt(row)'
  BY BeginAlone DEF EquipmentInv, Begin
<1>2. Owned' = Owned
  BY DEF Owned
<1>3. ASSUME NEW j \in Slots, j # i, req'[j] # Idle PROVE Servicing(j)'
  BY <1>1, <1>2, <1>3 DEF EquipmentInv, Servicing
<1>4. \A m \in Machines \ contested' : AloneAt(m)' /\ (m \in Owned' => Follows(machine'[m]))
  BY <1>1, <1>2 DEF EquipmentInv
<1> QED  BY <1>1, <1>2, <1>3, <1>4 DEF EquipmentInv

LEMMA MachineIsMade ==
    ASSUME EquipmentInv, NEW m \in Machines, CreateApartmentAsset(m)
    PROVE  EquipmentInv'
<1>1. PICK last \in {NoDate, now}, interval \in Intervals :
        machine' = [machine EXCEPT ![m] = [last |-> last, interval |-> interval, next |-> NextService(last, interval)]]
  BY DEF CreateApartmentAsset
<1> DEFINE next == NextService(last, interval)
           row == [last |-> last, interval |-> interval, next |-> next]
<1>2. /\ m \notin Owned /\ InFlight(m) = {} /\ UNCHANGED <<req, now>> /\ contested \subseteq contested'
  BY MeetContests DEF CreateApartmentAsset, Once, Fresh
<1>3. last \in NoDate..MaxTime /\ next \in NoDate..(MaxTime + MaxInterval)
  BY MaxTimeNat, MaxIntervalNat DEF EquipmentInv, NoDate, Intervals, NextService
<1>4. last # NoDate /\ interval # NoDate => next = last + interval
  BY DEF NextService
<1> HIDE DEF next
<1>5. row \in MachineRow /\ row # NoMachine /\ Follows(row)
  BY <1>3, <1>4, MaxTimeNat, MaxIntervalNat DEF MachineRow, NoMachine, Follows
<1> HIDE DEF row
<1>6. machine' = [x \in Machines |-> machine'[x]] /\ machine'[m] = row /\ \A x \in Machines : x # m => machine'[x] = machine[x]
  BY <1>1 DEF EquipmentInv, row, next
<1>7. Owned' = Owned \cup {m}
  BY <1>5, <1>6 DEF Owned
<1>8. ASSUME NEW j \in Slots, req'[j] # Idle PROVE Servicing(j)'
  <2>1. Servicing(j) /\ req'[j] = req[j] /\ req[j].machine # m
    BY <1>2, <1>8 DEF EquipmentInv, Servicing, InFlight
  <2> QED  BY <1>2, <1>6, <1>7, <2>1 DEF Servicing
<1>9. ASSUME NEW x \in Machines, x \notin contested' PROVE AloneAt(x)' /\ (x \in Owned' => Follows(machine'[x]))
  <2>1. AloneAt(x)'
    BY <1>2, <1>9 DEF EquipmentInv, AloneAt, InFlight
  <2> QED  BY <1>2, <1>5, <1>6, <1>7, <1>9, <2>1 DEF EquipmentInv
<1>10. \A x \in Owned' : machine'[x] \in MachineRow
  BY <1>5, <1>6, <1>7 DEF EquipmentInv, Owned
<1> QED  BY <1>2, <1>6, <1>8, <1>9, <1>10 DEF EquipmentInv

LEMMA MachineIsDeleted ==
    ASSUME EquipmentInv, NEW m \in Machines, DeleteApartmentAsset(m)
    PROVE  EquipmentInv'
<1>1. /\ UNCHANGED <<req, now>> /\ contested \subseteq contested' /\ (m \notin contested' => InFlight(m) = {})
      /\ machine' = [machine EXCEPT ![m] = NoMachine]
  BY MeetContests DEF DeleteApartmentAsset, Once
<1>2. machine' = [x \in Machines |-> machine'[x]] /\ machine'[m] = NoMachine /\ \A x \in Machines : x # m => machine'[x] = machine[x]
  BY <1>1 DEF EquipmentInv
<1>3. Owned' = Owned \ {m}
  BY <1>2 DEF Owned
<1>4. ASSUME NEW j \in Slots, req'[j] # Idle PROVE Servicing(j)'
  <2>1. Servicing(j) /\ req'[j] = req[j] /\ (req[j].machine \notin contested' => req[j].machine # m)
    BY <1>1, <1>4 DEF EquipmentInv, Servicing, InFlight
  <2> QED  BY <1>1, <1>2, <1>3, <2>1 DEF Servicing
<1>5. ASSUME NEW x \in Machines, x \notin contested' PROVE AloneAt(x)' /\ (x \in Owned' => Follows(machine'[x]))
  <2>1. AloneAt(x)'
    BY <1>1, <1>5 DEF EquipmentInv, AloneAt, InFlight
  <2> QED  BY <1>1, <1>2, <1>3, <1>5, <2>1 DEF EquipmentInv
<1>6. \A x \in Owned' : machine'[x] \in MachineRow
  BY <1>2, <1>3 DEF EquipmentInv, Owned
<1> QED  BY <1>1, <1>2, <1>4, <1>5, <1>6 DEF EquipmentInv

\* An update that leaves both dates of service known reckons the next one.
LEMMA MachineIsTaken ==
    ASSUME EquipmentInv, NEW i \in Slots, NEW m \in Owned, UpdateApartmentAsset(i, m)
    PROVE  EquipmentInv'
<1> DEFINE writes == {<<>>} \cup [last : {NoDate, now}] \cup [interval : Intervals]
                         \cup [last : {NoDate, now}, interval : Intervals]
           row(w) == Written(w, machine[m])
           next(w) == NextService(row(w).last, row(w).interval)
           write(w) == IF next(w) = NoDate THEN w ELSE Written([next |-> next(w)], w)
           r(w) == [op |-> "machine", rows |-> {m}, machine |-> m, write |-> write(w)]
<1>1. PICK w \in writes : Begin(i, r(w))
  BY DEF UpdateApartmentAsset
<1>2. MachineWrite(w)
  <2>1. now \in NoDate..MaxTime /\ NoDate \in NoDate..MaxTime
    BY MaxTimeNat DEF EquipmentInv, NoDate
  <2>2. ASSUME NEW x \in [last : {NoDate, now}] \cup [interval : Intervals] PROVE MachineWrite(x)
    BY <2>1, <2>2 DEF MachineWrite
  <2>3. ASSUME NEW x \in [last : {NoDate, now}, interval : Intervals] PROVE MachineWrite(x)
    BY <2>1, <2>3 DEF MachineWrite
  <2>4. MachineWrite(<<>>)
    BY DEF MachineWrite
  <2> QED  BY <2>2, <2>3, <2>4
<1>3. m \in Machines /\ machine[m] \in MachineRow
  BY DEF EquipmentInv, Owned
<1> DEFINE made == row(w)
           n == next(w)
           written == write(w)
           taken == r(w)
<1>4. made \in MachineRow
  BY <1>2, <1>3, MachineIsWritten
<1>5. /\ n \in NoDate..(MaxTime + MaxInterval)
      /\ (made.last # NoDate /\ made.interval # NoDate) => n = made.last + made.interval /\ n # NoDate
  <2>1. n = NextService(made.last, made.interval)
    OBVIOUS
  <2> HIDE DEF made, n
  <2> QED  BY <1>4, <2>1, MaxTimeNat, MaxIntervalNat DEF MachineRow, NextService, NoDate, Intervals
<1>7. MachineWrite(written) /\ Follows(Written(written, machine[m]))
  <2>1. CASE n = NoDate
    <3>1. written = w /\ made = Written(w, machine[m])
      BY <2>1
    <3> QED  BY <1>2, <1>5, <2>1, <3>1 DEF Follows
  <2>2. CASE n # NoDate
    <3>1. written = Written([next |-> n], w)
      BY <2>2
    <3> HIDE DEF n, written
    <3>2. /\ written = [c \in DOMAIN written |-> written[c]] /\ DOMAIN written = DOMAIN w \cup {"next"}
          /\ written.next = n /\ \A c \in DOMAIN w : c # "next" => written[c] = w[c]
      BY <3>1 DEF Written
    <3>3. MachineWrite(written)
      BY <1>2, <1>5, <3>2 DEF MachineWrite
    <3>4. /\ Written(written, machine[m]).last = made.last
          /\ Written(written, machine[m]).interval = made.interval
          /\ Written(written, machine[m]).next = n
      BY <1>2, <1>3, <3>2, <3>3, MachineIsWritten
    <3> HIDE DEF made
    <3> QED  BY <1>5, <3>3, <3>4 DEF Follows
  <2> QED  BY <2>1, <2>2
<1> HIDE DEF written
<1>8. taken # Idle /\ taken.op = "machine" /\ taken.rows = {m} /\ taken.machine = m /\ taken.write = written
  BY DEF Idle, written
<1>9. Begin(i, taken)
  BY <1>1
<1> HIDE DEF taken, r
<1>10. machine' = machine /\ Owned' = Owned /\ req'[i] = taken
  BY <1>9, BeginAlone DEF UpdateApartmentAsset, Owned, EquipmentInv
<1>11. Servicing(i)'
  BY <1>3, <1>7, <1>8, <1>10 DEF Servicing
<1> QED  BY <1>8, <1>9, <1>10, <1>11, EquipmentBegins

LEMMA ServiceIsLogged ==
    ASSUME EquipmentInv, NEW i \in Slots, NEW m \in Owned, LogApartmentAssetService(i, m)
    PROVE  EquipmentInv'
<1> DEFINE n == NextService(now, machine[m].interval)
           w == [last |-> now, next |-> n]
           r == [op |-> "machine", rows |-> {m}, machine |-> m, write |-> w]
<1>1. m \in Machines /\ machine[m] \in MachineRow /\ now \in 1..MaxTime
  BY DEF EquipmentInv, Owned
<1>2. n \in NoDate..(MaxTime + MaxInterval) /\ (machine[m].interval # NoDate => n = now + machine[m].interval)
  BY <1>1, MaxTimeNat, MaxIntervalNat DEF MachineRow, NextService, NoDate, Intervals
<1> HIDE DEF n
<1>3. /\ w = [c \in DOMAIN w |-> w[c]] /\ DOMAIN w = {"last", "next"} /\ w.last = now /\ w.next = n /\ now \in NoDate..MaxTime
  BY <1>1, MaxTimeNat DEF NoDate
<1>4. MachineWrite(w)
  BY <1>2, <1>3 DEF MachineWrite
<1>5. r # Idle /\ r.op = "machine" /\ r.rows = {m} /\ r.machine = m /\ r.write = w
  BY DEF Idle
<1> HIDE DEF w
<1>6. Follows(Written(w, machine[m]))
  BY <1>1, <1>2, <1>3, <1>4, MachineIsWritten DEF Follows
<1>7. Begin(i, r) /\ machine' = machine
  BY DEF LogApartmentAssetService, w, n
<1> HIDE DEF r
<1>8. Owned' = Owned /\ req'[i] = r
  BY <1>7, BeginAlone DEF Owned, EquipmentInv
<1>9. Servicing(i)'
  BY <1>1, <1>4, <1>5, <1>6, <1>7, <1>8 DEF Servicing
<1> QED  BY <1>5, <1>7, <1>9, EquipmentBegins

LEMMA MachineIsServiced ==
    ASSUME EquipmentInv, NEW i \in Slots, WriteMachine(i) \/ (Abort(i) /\ machine' = machine)
    PROVE  EquipmentInv'
<1> DEFINE m == req[i].machine
           row == Written(req[i].write, machine[m])
<1>1. req[i] # Idle /\ Proceed(i, Idle) /\ now' = now
  BY DEF WriteMachine, Abort, End, Proceed
<1>2. /\ req'[i] = Idle /\ req' = [j \in Slots |-> req'[j]] /\ contested' = contested
      /\ \A j \in Slots : j # i => req'[j] = req[j]
      /\ \A x : AloneAt(x) => AloneAt(x)'
  BY <1>1, ProceedAlone DEF EquipmentInv
<1>3. Servicing(i) /\ m \in Machines
  BY <1>1 DEF EquipmentInv, Servicing
<1>4. m \in Owned => machine[m] \in MachineRow /\ row \in MachineRow /\ row # NoMachine
  BY <1>3, MachineIsWritten DEF EquipmentInv, Servicing, NoMachine, MachineRow
<1>5. m \notin contested => m \in Owned /\ Follows(row)
  BY <1>3 DEF Servicing
<1>6. machine' = machine \/ (m \in Owned /\ machine' = [machine EXCEPT ![m] = row])
  BY DEF WriteMachine
<1> HIDE DEF row, m
<1>7. /\ machine' = [x \in Machines |-> machine'[x]] /\ \A x \in Machines : x # m => machine'[x] = machine[x]
      /\ machine'[m] = machine[m] \/ (m \in Owned /\ machine'[m] = row)
  BY <1>3, <1>6 DEF EquipmentInv
<1>8. Owned' = Owned /\ \A x \in Owned : machine'[x] \in MachineRow
  <2>1. \A x : x \in Owned' <=> x \in Owned
    BY <1>4, <1>7 DEF Owned
  <2> QED  BY <1>4, <1>7, <2>1 DEF EquipmentInv, Owned
<1>9. ASSUME NEW j \in Slots, req'[j] # Idle PROVE Servicing(j)'
  <2>1. j # i /\ req'[j] = req[j] /\ Servicing(j)
    BY <1>2, <1>9 DEF EquipmentInv
  <2>2. req[j].machine \notin contested => req[j].machine # m
    BY <1>1, <1>3, <2>1 DEF EquipmentInv, AloneAt, InFlight, Servicing, m
  <2> QED  BY <1>2, <1>7, <1>8, <2>1, <2>2 DEF Servicing
<1>10. \A x \in Machines \ contested' : AloneAt(x)' /\ (x \in Owned' => Follows(machine'[x]))
  BY <1>2, <1>5, <1>7, <1>8 DEF EquipmentInv
<1> QED  BY <1>1, <1>2, <1>7, <1>8, <1>9, <1>10, MaxTimeNat DEF EquipmentInv

LEMMA EquipmentStays ==
    ASSUME EquipmentInv, EquipmentNext
    PROVE  EquipmentInv'
<1>1. CASE Tick /\ UNCHANGED machine
  <2>1. UNCHANGED <<req, contested, machine>> /\ now' \in 1..MaxTime
    BY <1>1, MaxTimeNat DEF Tick, EquipmentInv
  <2> QED  BY <2>1 DEF EquipmentInv, Servicing, Owned, AloneAt, InFlight
<1> QED  BY <1>1, MachineIsMade, MachineIsDeleted, MachineIsTaken, ServiceIsLogged, MachineIsServiced DEF EquipmentNext

LEMMA EquipmentInitially == Init => EquipmentKept
<1> SUFFICES ASSUME Init PROVE EquipmentKept
  OBVIOUS
<1>1. machine = [m \in Machines |-> NoMachine] /\ req = [i \in Slots |-> Idle] /\ contested = {} /\ now = 1
  BY DEF Init, EquipmentInit, RequestsInit
<1>2. Owned = {} /\ 1 \in 1..MaxTime
  BY <1>1, MaxTimeNat DEF Owned
<1> QED  BY <1>1, <1>2 DEF EquipmentKept, EquipmentInv, AloneAt, InFlight

LEMMA EquipmentStaysKept == EquipmentKept /\ [Next]_premisesVars => EquipmentKept'
<1> SUFFICES ASSUME EquipmentKept, [Next]_premisesVars PROVE EquipmentKept'
  OBVIOUS
<1>1. CASE Next
  BY <1>1, DesksApart, EquipmentStays DEF EquipmentKept
<1>2. CASE UNCHANGED premisesVars
  <2>1. UNCHANGED <<desk, req, contested, now, machine>>
    BY <1>2 DEF premisesVars, requestVars
  <2> QED  BY <2>1 DEF EquipmentKept, EquipmentInv, Servicing, Owned, AloneAt, InFlight
<1> QED  BY <1>1, <1>2

LEMMA MachinesAreDated == EquipmentKept /\ desk = "equipment" => NextServiceFollows
BY DEF EquipmentKept, EquipmentInv, NextServiceFollows, Follows, Owned

-----------------------------------------------------------------------------
(***************************************************************************)
(* Preventive maintenance.  What the job has listed of an asset nobody     *)
(* contests is still due when its turn comes, and the due date of such an  *)
(* asset lies behind the one the job has served.                           *)
(***************************************************************************)

AssetRow == [status : {"ACTIVE", "RETIRED"}, auto : BOOLEAN, interval : {NoInterval, 1}, next : Never..(MaxTime + 1)]

AssetWrite(w) ==
    /\ w = [c \in DOMAIN w |-> w[c]] /\ DOMAIN w \subseteq {"status", "auto", "interval", "next"}
    /\ "status" \in DOMAIN w => w.status \in {"ACTIVE", "RETIRED"}
    /\ "auto" \in DOMAIN w => w.auto \in BOOLEAN
    /\ "interval" \in DOMAIN w => w.interval \in {NoInterval, 1}
    /\ "next" \in DOMAIN w => w.next \in Never..MaxTime

AssetRequest(i) ==
    /\ req[i] # Idle /\ req[i].op \in {"asset", "deleteAsset"}
    /\ req[i].asset \in Assets /\ req[i].rows = {req[i].asset}
    /\ req[i].op = "asset" => AssetWrite(req[i].write)

Serving(i) ==
    /\ req[i] # Idle /\ {"op", "rows", "left", "at", "interval"} \subseteq DOMAIN req[i] /\ req[i].op = "pm"
    /\ req[i].left \subseteq req[i].rows /\ req[i].left \subseteq Assets /\ req[i].at \in 1..MaxTime
    /\ \A a \in req[i].left :
          /\ req[i].interval[a] = 1
          /\ a \notin contested => Due(a) /\ asset[a].next <= req[i].at

ServedBefore(a) == a \in Held /\ asset[a].next # Never => served[a] < asset[a].next

MaintenanceInv ==
    /\ now \in 1..MaxTime
    /\ asset = [a \in Assets |-> asset[a]] /\ \A a \in Held : asset[a] \in AssetRow
    /\ orders \in [Assets -> [pm : 0..MaxOrders, byHand : BOOLEAN]]
    /\ served \in [Assets -> Never..(MaxTime + 1)]
    /\ req = [i \in Slots |-> req[i]]
    /\ \A i \in Slots : req[i] = Idle \/ AssetRequest(i) \/ Serving(i)
    /\ \A a \in Assets \ contested : AloneAt(a) /\ ServedBefore(a)

MaintenanceKept ==
    /\ desk = "maintenance" => MaintenanceInv
    /\ desk # "maintenance" =>
          /\ asset = [a \in Assets |-> NoAsset]
          /\ orders = [a \in Assets |-> [pm |-> 0, byHand |-> FALSE]]
          /\ served = [a \in Assets |-> Never]

LEMMA AssetIsMadeOf ==
    ASSUME NEW w, AssetWrite(w), NEW row \in AssetRow
    PROVE  /\ Written(w, row) \in AssetRow
           /\ Written(w, row).next = IF "next" \in DOMAIN w THEN w.next ELSE row.next
<1> DEFINE all == {"status", "auto", "interval", "next"}
           made == Written(w, row)
<1>1. DOMAIN row = all /\ DOMAIN w \cup DOMAIN row = all
  BY DEF AssetRow, AssetWrite
<1>2. made = [c \in all |-> IF c \in DOMAIN w THEN w[c] ELSE row[c]]
  BY <1>1 DEF Written
<1>3. /\ made.status = IF "status" \in DOMAIN w THEN w.status ELSE row.status
      /\ made.auto = IF "auto" \in DOMAIN w THEN w.auto ELSE row.auto
      /\ made.interval = IF "interval" \in DOMAIN w THEN w.interval ELSE row.interval
      /\ made.next = IF "next" \in DOMAIN w THEN w.next ELSE row.next
  BY <1>2
<1>4. made = [status |-> made.status, auto |-> made.auto, interval |-> made.interval, next |-> made.next]
  BY <1>2
<1> HIDE DEF made
<1>5. /\ row.status \in {"ACTIVE", "RETIRED"} /\ row.auto \in BOOLEAN /\ row.interval \in {NoInterval, 1}
      /\ row.next \in Never..(MaxTime + 1)
  BY DEF AssetRow
<1>6. made.status \in {"ACTIVE", "RETIRED"} /\ made.interval \in {NoInterval, 1}
  BY <1>3, <1>5 DEF AssetWrite
<1>7. made.auto \in BOOLEAN
  BY <1>3, <1>5, Zenon DEF AssetWrite
<1>8. made.next \in Never..(MaxTime + 1)
  BY <1>3, <1>5, MaxTimeNat DEF AssetWrite, Never
<1>9. made \in AssetRow
  BY <1>4, <1>6, <1>7, <1>8 DEF AssetRow
<1> QED  BY <1>3, <1>9 DEF made

LEMMA MaintenanceBegins ==
    ASSUME MaintenanceInv, UNCHANGED maintenanceVars, NEW i \in Slots, NEW r, Begin(i, r), r # Idle,
           AssetRequest(i)' \/ Serving(i)'
    PROVE  MaintenanceInv'
<1>1. /\ req[i] = Idle /\ req'[i] = r /\ req' = [j \in Slots |-> req'[j]] /\ contested \subseteq contested' /\ now' = now
      /\ \A j \in Slots : j # i => req'[j] = req[j]
      /\ \A row : AloneAt(row) /\ row \notin contested' => AloneAt(row)'
  BY BeginAlone DEF MaintenanceInv, Begin
<1>2. Held' = Held /\ asset' = asset /\ orders' = orders /\ served' = served
  BY DEF maintenanceVars, Held
<1>3. ASSUME NEW j \in Slots, j # i, req'[j] # Idle PROVE AssetRequest(j)' \/ Serving(j)'
  <2>1. req'[j] = req[j] /\ (AssetRequest(j) \/ Serving(j))
    BY <1>1, <1>3 DEF MaintenanceInv
  <2>2. AssetRequest(j) => AssetRequest(j)'
    BY <1>1, <2>1 DEF AssetRequest
  <2>3. Serving(j) => Serving(j)'
    BY <1>1, <1>2, <2>1 DEF Serving, Due
  <2> QED  BY <2>1, <2>2, <2>3
<1>4. \A a \in Assets \ contested' : AloneAt(a)' /\ ServedBefore(a)'
  BY <1>1, <1>2 DEF MaintenanceInv, ServedBefore
<1> QED  BY <1>1, <1>2, <1>3, <1>4 DEF MaintenanceInv

\* A request goes on or ends, and has written its own assets only.
LEMMA MaintenanceGoesOn ==
    ASSUME MaintenanceInv, NEW i \in Slots, NEW r, req[i] # Idle, Proceed(i, r), r = Idle \/ r.rows \subseteq req[i].rows,
           asset' = [a \in Assets |-> asset'[a]], \A a \in Held' : asset'[a] \in AssetRow,
           orders' \in [Assets -> [pm : 0..MaxOrders, byHand : BOOLEAN]],
           served' \in [Assets -> Never..(MaxTime + 1)],
           \A a \in Assets : a \notin req[i].rows => asset'[a] = asset[a] /\ served'[a] = served[a],
           \A a \in Assets : a \in req[i].rows /\ a \notin contested => ServedBefore(a)',
           r = Idle \/ AssetRequest(i)' \/ Serving(i)'
    PROVE  MaintenanceInv'
<1>1. /\ req'[i] = r /\ req' = [j \in Slots |-> req'[j]] /\ contested' = contested
      /\ \A j \in Slots : j # i => req'[j] = req[j]
      /\ \A row : AloneAt(row) => AloneAt(row)'
  BY ProceedAlone DEF MaintenanceInv
<1>2. now' = now
  BY DEF Proceed
<1>3. ASSUME NEW j \in Slots, j # i, req'[j] # Idle PROVE AssetRequest(j)' \/ Serving(j)'
  <2>1. req'[j] = req[j] /\ (AssetRequest(j) \/ Serving(j))
    BY <1>1, <1>3 DEF MaintenanceInv
  <2>2. \A a \in Assets : a \in req[j].rows /\ a \notin contested => asset'[a] = asset[a]
    BY <1>3, <2>1 DEF MaintenanceInv, AloneAt, InFlight
  <2>3. AssetRequest(j) => AssetRequest(j)'
    BY <1>1, <2>1 DEF AssetRequest
  <2>4. Serving(j) => Serving(j)'
    BY <1>1, <1>2, <2>1, <2>2 DEF Serving, Due, Held
  <2> QED  BY <2>1, <2>3, <2>4
<1>4. \A a \in Assets \ contested' : ServedBefore(a)'
  <2>1. ASSUME NEW a \in Assets, a \notin contested, a \notin req[i].rows PROVE ServedBefore(a)'
    BY <2>1 DEF MaintenanceInv, ServedBefore, Held
  <2> QED  BY <1>1, <2>1
<1>5. \A a \in Assets \ contested' : AloneAt(a)'
  BY <1>1 DEF MaintenanceInv
<1> QED  BY <1>1, <1>2, <1>3, <1>4, <1>5 DEF MaintenanceInv

\* One statement about one asset.
LEMMA MaintenanceOnce ==
    ASSUME MaintenanceInv, NEW a \in Assets, Once(a),
           asset' = [x \in Assets |-> asset'[x]], \A x \in Held' : asset'[x] \in AssetRow,
           orders' \in [Assets -> [pm : 0..MaxOrders, byHand : BOOLEAN]],
           served' \in [Assets -> Never..(MaxTime + 1)],
           \A x \in Assets : x # a => asset'[x] = asset[x] /\ served'[x] = served[x],
           ServedBefore(a) => ServedBefore(a)'
    PROVE  MaintenanceInv'
<1>1. /\ UNCHANGED <<req, now>> /\ contested \subseteq contested' /\ (a \notin contested' => InFlight(a) = {})
  BY MeetContests DEF Once
<1>2. ASSUME NEW j \in Slots, req'[j] # Idle PROVE AssetRequest(j)' \/ Serving(j)'
  <2>1. req'[j] = req[j] /\ (AssetRequest(j) \/ Serving(j))
    BY <1>1, <1>2 DEF MaintenanceInv
  <2>2. AssetRequest(j) => AssetRequest(j)'
    BY <1>1, <2>1 DEF AssetRequest
  <2>3. \A x \in Assets : x \in req[j].rows /\ x \notin contested' => asset'[x] = asset[x]
    BY <1>1, <1>2, <2>1 DEF InFlight
  <2>4. Serving(j) => Serving(j)'
    BY <1>1, <2>1, <2>3 DEF Serving, Due, Held
  <2> QED  BY <2>1, <2>2, <2>4
<1>3. ASSUME NEW x \in Assets, x \notin contested' PROVE AloneAt(x)' /\ ServedBefore(x)'
  <2>1. AloneAt(x) /\ ServedBefore(x)
    BY <1>1, <1>3 DEF MaintenanceInv
  <2>2. AloneAt(x)'
    BY <1>1, <2>1 DEF AloneAt, InFlight
  <2>3. x # a => ServedBefore(x)'
    BY <2>1 DEF ServedBefore, Held
  <2> QED  BY <2>1, <2>2, <2>3
<1> QED  BY <1>1, <1>2, <1>3 DEF MaintenanceInv

LEMMA AssetIsMade ==
    ASSUME MaintenanceInv, NEW a \in Assets, CreateAsset(a)
    PROVE  MaintenanceInv'
<1>1. PICK auto \in BOOLEAN, interval \in {NoInterval, 1}, next \in {Never, now} :
        asset' = [asset EXCEPT ![a] = [status |-> "ACTIVE", auto |-> auto, interval |-> interval, next |-> next]]
  BY DEF CreateAsset
<1> DEFINE row == [status |-> "ACTIVE", auto |-> auto, interval |-> interval, next |-> next]
           none == [pm |-> 0, byHand |-> FALSE]
<1>2. /\ orders' = [orders EXCEPT ![a] = none] /\ served' = [served EXCEPT ![a] = Never] /\ Once(a)
  BY DEF CreateAsset
<1>3. next \in Never..(MaxTime + 1) /\ Never \in Never..(MaxTime + 1) /\ (next # Never => next > Never)
  BY MaxTimeNat DEF MaintenanceInv, Never
<1>4. row \in AssetRow /\ row # NoAsset /\ row.next = next
  BY <1>3 DEF AssetRow, NoAsset
<1>5. none \in [pm : 0..MaxOrders, byHand : BOOLEAN]
  BY MaxOrdersNat
<1> HIDE DEF row, none
<1>6. /\ asset' = [x \in Assets |-> asset'[x]] /\ asset'[a] = row /\ \A x \in Assets : x # a => asset'[x] = asset[x]
      /\ served' \in [Assets -> Never..(MaxTime + 1)] /\ served'[a] = Never /\ \A x \in Assets : x # a => served'[x] = served[x]
      /\ orders' \in [Assets -> [pm : 0..MaxOrders, byHand : BOOLEAN]]
  BY <1>1, <1>2, <1>3, <1>5 DEF MaintenanceInv, row
<1>7. \A x \in Held' : asset'[x] \in AssetRow
  BY <1>4, <1>6 DEF MaintenanceInv, Held
<1>8. ServedBefore(a)'
  BY <1>3, <1>4, <1>6 DEF ServedBefore
<1> QED  BY <1>2, <1>6, <1>7, <1>8, MaintenanceOnce

LEMMA OrderIsMadeByHand ==
    ASSUME MaintenanceInv, NEW a \in Assets, OrderForAsset(a)
    PROVE  MaintenanceInv'
<1> DEFINE row == [orders[a] EXCEPT !.byHand = TRUE]
<1>1. orders' = [orders EXCEPT ![a] = row] /\ Once(a) /\ asset' = asset /\ served' = served
  BY DEF OrderForAsset
<1>2. row \in [pm : 0..MaxOrders, byHand : BOOLEAN]
  BY DEF MaintenanceInv
<1> HIDE DEF row
<1>3. orders' \in [Assets -> [pm : 0..MaxOrders, byHand : BOOLEAN]]
  BY <1>1, <1>2 DEF MaintenanceInv
<1>4. Held' = Held /\ asset' = [x \in Assets |-> asset'[x]] /\ (\A x \in Held' : asset'[x] \in AssetRow)
      /\ served' \in [Assets -> Never..(MaxTime + 1)] /\ (ServedBefore(a) => ServedBefore(a)')
  BY <1>1 DEF MaintenanceInv, Held, ServedBefore
<1> QED  BY <1>1, <1>3, <1>4, MaintenanceOnce

LEMMA AssetIsTaken ==
    ASSUME MaintenanceInv, NEW i \in Slots, NEW a \in Assets, UpdateAsset(i, a) \/ DeleteAsset(i, a)
    PROVE  MaintenanceInv'
<1> DEFINE writes == [status : {"ACTIVE", "RETIRED"}] \cup [auto : BOOLEAN] \cup [interval : {NoInterval, 1}]
                     \cup [next : {Never, now}]
           taken(w) == [op |-> "asset", rows |-> {a}, asset |-> a, write |-> w]
           gone == [op |-> "deleteAsset", rows |-> {a}, asset |-> a]
<1>1. ASSUME NEW r, Begin(i, r), UNCHANGED maintenanceVars, r # Idle, r.op \in {"asset", "deleteAsset"}, r.asset = a,
             r.rows = {a}, r.op = "asset" => AssetWrite(r.write)
      PROVE  MaintenanceInv'
  <2>1. req'[i] = r
    BY <1>1, BeginAlone DEF MaintenanceInv
  <2>2. AssetRequest(i)'
    BY <1>1, <2>1 DEF AssetRequest
  <2> QED  BY <1>1, <2>2, MaintenanceBegins
<1>2. CASE UpdateAsset(i, a)
  <2>1. PICK w \in writes : Begin(i, taken(w))
    BY <1>2 DEF UpdateAsset
  <2>2. w \in [auto : BOOLEAN] => AssetWrite(w)
    BY DEF AssetWrite
  <2>3. w \in [status : {"ACTIVE", "RETIRED"}] \cup [interval : {NoInterval, 1}] => AssetWrite(w)
    BY DEF AssetWrite
  <2>4. w \in [next : {Never, now}] => AssetWrite(w)
    <3>1. now \in Never..MaxTime /\ Never \in Never..MaxTime
      BY MaxTimeNat DEF MaintenanceInv, Never
    <3> QED  BY <3>1 DEF AssetWrite
  <2> DEFINE r == taken(w)
  <2>5. r # Idle /\ r.op = "asset" /\ r.rows = {a} /\ r.asset = a /\ r.write = w /\ Begin(i, r) /\ UNCHANGED maintenanceVars
    BY <1>2, <2>1 DEF Idle, UpdateAsset
  <2> HIDE DEF r
  <2> QED  BY <1>1, <2>2, <2>3, <2>4, <2>5
<1>3. CASE DeleteAsset(i, a)
  <2> DEFINE r == gone
  <2>1. r # Idle /\ r.op = "deleteAsset" /\ r.rows = {a} /\ r.asset = a /\ Begin(i, r) /\ UNCHANGED maintenanceVars
    BY <1>3 DEF Idle, DeleteAsset
  <2> HIDE DEF r
  <2> QED  BY <1>1, <2>1
<1> QED  BY <1>2, <1>3

LEMMA AssetsAreListed ==
    ASSUME MaintenanceInv, NEW i \in Slots, RunPreventiveMaintenance(i)
    PROVE  MaintenanceInv'
<1> DEFINE due == {a \in Assets : Due(a)}
           interval == [a \in due |-> asset[a].interval]
           r == [op |-> "pm", rows |-> due, left |-> due, at |-> now, interval |-> interval]
<1>1. Begin(i, r) /\ UNCHANGED maintenanceVars
  BY DEF RunPreventiveMaintenance
<1>2. \A a \in due : Due(a) /\ asset[a].next <= now /\ interval[a] = 1
  BY DEF Due, MaintenanceInv, AssetRow, Held
<1>3. due \subseteq Assets /\ now \in 1..MaxTime
  BY DEF MaintenanceInv
<1> HIDE DEF due, interval
<1>4. /\ r # Idle /\ {"op", "rows", "left", "at", "interval"} \subseteq DOMAIN r /\ r.op = "pm" /\ r.rows = due
      /\ r.left = due /\ r.at = now /\ r.interval = interval
  BY DEF Idle
<1> HIDE DEF r
<1>5. req'[i] = r /\ Held' = Held /\ asset' = asset /\ now' = now
  BY <1>1, BeginAlone DEF MaintenanceInv, maintenanceVars, Held, Begin
<1>6. Serving(i)'
  BY <1>2, <1>3, <1>4, <1>5 DEF Serving, Due
<1> QED  BY <1>1, <1>4, <1>6, MaintenanceBegins

LEMMA AssetIsWritten ==
    ASSUME MaintenanceInv, NEW i \in Slots, WriteAsset(i) \/ RemoveAsset(i)
    PROVE  MaintenanceInv' /\ orders' = orders
<1> DEFINE a == req[i].asset
           w == req[i].write
           row == Written(w, asset[a])
<1>1. req[i] # Idle /\ Proceed(i, Idle) /\ req[i].op \in {"asset", "deleteAsset"} /\ orders' = orders
  BY DEF WriteAsset, RemoveAsset, End
<1>2. AssetRequest(i) /\ a \in Assets /\ req[i].rows = {a}
  BY <1>1 DEF MaintenanceInv, AssetRequest, Serving
<1>3. orders' \in [Assets -> [pm : 0..MaxOrders, byHand : BOOLEAN]] /\ Never \in Never..(MaxTime + 1)
  BY <1>1, MaxTimeNat DEF MaintenanceInv, Never
<1>4. CASE WriteAsset(i)
  <2>1. /\ req[i].op = "asset" /\ asset' = IF a \in Held THEN [asset EXCEPT ![a] = row] ELSE asset
        /\ served' = IF "next" \in DOMAIN w THEN [served EXCEPT ![a] = Never] ELSE served
    BY <1>4 DEF WriteAsset
  <2>2. AssetWrite(w)
    BY <1>2, <2>1 DEF AssetRequest
  <2>3. a \in Held => row \in AssetRow /\ row # NoAsset /\ row.next = (IF "next" \in DOMAIN w THEN w.next ELSE asset[a].next)
    <3>1. a \in Held => asset[a] \in AssetRow
      BY DEF MaintenanceInv
    <3>2. \A x \in AssetRow : x # NoAsset
      BY DEF AssetRow, NoAsset
    <3> QED  BY <2>2, <3>1, <3>2, AssetIsMadeOf
  <2> HIDE DEF row, a
  <2>4. /\ asset' = [x \in Assets |-> asset'[x]] /\ \A x \in Assets : x # a => asset'[x] = asset[x]
        /\ asset'[a] = IF a \in Held THEN row ELSE asset[a]
        /\ served' \in [Assets -> Never..(MaxTime + 1)] /\ \A x \in Assets : x # a => served'[x] = served[x]
        /\ served'[a] = IF "next" \in DOMAIN w THEN Never ELSE served[a]
    BY <1>2, <1>3, <2>1 DEF MaintenanceInv
  <2>5. \A x \in Held' : asset'[x] \in AssetRow
    BY <1>2, <2>3, <2>4 DEF MaintenanceInv, Held
  <2>6. ASSUME NEW x \in Assets, x \in req[i].rows, x \notin contested PROVE ServedBefore(x)'
    <3>1. x = a /\ ServedBefore(a)
      BY <1>2, <2>6 DEF MaintenanceInv
    <3>2. CASE "next" \in DOMAIN w
      <4>1. served'[a] = 0 /\ (a \in Held => asset'[a].next = w.next)
        BY <2>3, <2>4, <3>2 DEF Never
      <4>2. w.next \in 0..MaxTime
        BY <2>2, <3>2 DEF AssetWrite, Never
      <4>3. a \in Held' => a \in Held
        BY <2>4 DEF Held
      <4> QED  BY <3>1, <4>1, <4>2, <4>3, MaxTimeNat DEF ServedBefore, Never
    <3>3. CASE "next" \notin DOMAIN w
      BY <2>3, <2>4, <3>1, <3>3 DEF ServedBefore, Held
    <3> QED  BY <3>2, <3>3
  <2>7. \A x \in Assets : x \notin req[i].rows => asset'[x] = asset[x] /\ served'[x] = served[x]
    BY <1>2, <2>4
  <2> QED  BY <1>1, <1>3, <2>4, <2>5, <2>6, <2>7, MaintenanceGoesOn
<1>5. CASE RemoveAsset(i)
  <2>1. asset' = [asset EXCEPT ![a] = NoAsset] /\ served' = served
    BY <1>5 DEF RemoveAsset
  <2> HIDE DEF a
  <2>2. asset' = [x \in Assets |-> asset'[x]] /\ asset'[a] = NoAsset /\ \A x \in Assets : x # a => asset'[x] = asset[x]
    BY <1>2, <2>1 DEF MaintenanceInv
  <2>3. /\ \A x \in Held' : asset'[x] \in AssetRow
        /\ \A x \in Assets : x \in req[i].rows /\ x \notin contested => ServedBefore(x)'
        /\ \A x \in Assets : x \notin req[i].rows => asset'[x] = asset[x] /\ served'[x] = served[x]
    BY <1>2, <2>1, <2>2 DEF MaintenanceInv, Held, ServedBefore
  <2>4. served' \in [Assets -> Never..(MaxTime + 1)]
    BY <2>1 DEF MaintenanceInv
  <2> QED  BY <1>1, <1>3, <2>2, <2>3, <2>4, MaintenanceGoesOn
<1> QED  BY <1>1, <1>4, <1>5

\* The job opens one order for an asset that is still due, at a date it has not served.
LEMMA PmOrderIsOpened ==
    ASSUME MaintenanceInv, NEW i \in Slots, OpenPmOrder(i)
    PROVE  MaintenanceInv' /\ PmOncePerDueDate
<1>1. PICK a \in req[i].left :
        /\ IF a \in Held
           THEN /\ orders[a].pm < MaxOrders
                /\ orders' = [orders EXCEPT ![a].pm = @ + 1]
                /\ asset' = [asset EXCEPT ![a].next = req[i].at + req[i].interval[a]]
                /\ served' = [served EXCEPT ![a] = asset[a].next]
           ELSE UNCHANGED maintenanceVars
        /\ IF req[i].left = {a} THEN End(i) ELSE Proceed(i, [req[i] EXCEPT !.left = @ \ {a}])
  BY DEF OpenPmOrder
<1> DEFINE left == req[i].left \ {a}
           r == [req[i] EXCEPT !.left = left]
           q == IF req[i].left = {a} THEN Idle ELSE r
           n == req[i].at + 1
           row == [asset[a] EXCEPT !.next = n]
           pm == orders[a].pm + 1
           made == [orders[a] EXCEPT !.pm = pm]
<1>2. req[i] # Idle /\ req[i].op = "pm" /\ Proceed(i, q)
  BY <1>1 DEF OpenPmOrder, End
<1>3. Serving(i) /\ a \in Assets /\ a \in req[i].rows /\ req[i].interval[a] = 1 /\ req[i].at \in 1..MaxTime
      /\ (a \notin contested => Due(a) /\ asset[a].next <= req[i].at)
  BY <1>1, <1>2 DEF MaintenanceInv, AssetRequest, Serving
<1>4. /\ r # Idle /\ DOMAIN r = DOMAIN req[i] /\ r.op = "pm" /\ r.rows = req[i].rows /\ r.left = left
      /\ r.at = req[i].at /\ r.interval = req[i].interval
  BY <1>2, <1>3 DEF Serving, Idle
<1>5. q = Idle \/ q = r
  OBVIOUS
<1> HIDE DEF r, q
<1>6. /\ req'[i] = q /\ contested' = contested /\ now' = now
  BY <1>2, <1>4, <1>5, ProceedAlone DEF MaintenanceInv, Proceed
<1>7. n \in Never..(MaxTime + 1) /\ n > req[i].at
  BY <1>3, MaxTimeNat DEF Never
<1> HIDE DEF n
<1>8. a \in Held => asset[a] \in AssetRow /\ row \in AssetRow /\ row.next = n /\ row # NoAsset
  BY <1>7 DEF MaintenanceInv, AssetRow, NoAsset
<1>9. a \in Held => pm \in 0..MaxOrders
  BY <1>1, <1>3, MaxOrdersNat DEF MaintenanceInv
<1> HIDE DEF pm
<1>10. a \in Held => made \in [pm : 0..MaxOrders, byHand : BOOLEAN]
  BY <1>3, <1>9 DEF MaintenanceInv
<1>11. a \in Held => /\ orders' = [orders EXCEPT ![a] = made] /\ asset' = [asset EXCEPT ![a] = row]
                     /\ served' = [served EXCEPT ![a] = asset[a].next]
  BY <1>1, <1>3 DEF pm, n
<1> HIDE DEF made, row, left
<1>12. /\ asset' = [x \in Assets |-> asset'[x]] /\ (\A x \in Assets : x # a => asset'[x] = asset[x])
       /\ asset'[a] = IF a \in Held THEN row ELSE asset[a]
       /\ served' \in [Assets -> Never..(MaxTime + 1)] /\ (\A x \in Assets : x # a => served'[x] = served[x])
       /\ served'[a] = IF a \in Held THEN asset[a].next ELSE served[a]
       /\ orders' \in [Assets -> [pm : 0..MaxOrders, byHand : BOOLEAN]] /\ (\A x \in Assets : x # a => orders'[x] = orders[x])
  <2>1. CASE a \in Held
    <3>1. asset[a].next \in Never..(MaxTime + 1)
      BY <1>8, <2>1 DEF AssetRow
    <3> QED  BY <1>3, <1>10, <1>11, <2>1, <3>1 DEF MaintenanceInv
  <2>2. CASE a \notin Held
    BY <1>1, <1>3, <2>2 DEF MaintenanceInv, maintenanceVars
  <2> QED  BY <2>1, <2>2
<1>13. \A x \in Held' : asset'[x] \in AssetRow
  BY <1>3, <1>8, <1>12 DEF MaintenanceInv, Held
<1>14. a \notin contested => a \in Held /\ Due(a) /\ asset[a].next # served[a] /\ asset[a].next < n
  <2> SUFFICES ASSUME a \notin contested PROVE a \in Held /\ Due(a) /\ asset[a].next # served[a] /\ asset[a].next < n
    OBVIOUS
  <2>1. Due(a) /\ a \in Held /\ asset[a].next <= req[i].at /\ asset[a].next # Never
    BY <1>3 DEF Due
  <2>2. asset[a].next \in Never..(MaxTime + 1) /\ served[a] \in Never..(MaxTime + 1)
    BY <1>3, <1>8, <2>1 DEF MaintenanceInv, AssetRow
  <2>3. served[a] < asset[a].next
    BY <1>3, <2>1 DEF MaintenanceInv, ServedBefore
  <2> QED  BY <1>3, <1>7, <2>1, <2>2, <2>3, MaxTimeNat DEF Never
<1>15. ASSUME NEW x \in Assets, x \in req[i].rows, x \notin contested PROVE ServedBefore(x)'
  <2>1. CASE x = a
    BY <1>8, <1>12, <1>14, <1>15, <2>1 DEF ServedBefore
  <2>2. CASE x # a
    BY <1>12, <1>15, <2>2 DEF MaintenanceInv, ServedBefore, Held
  <2> QED  BY <2>1, <2>2
<1>16. q = Idle \/ Serving(i)'
  <2>1. left \subseteq req[i].rows /\ left \subseteq Assets /\ a \notin left /\ left \subseteq req[i].left
    BY <1>3 DEF Serving, left
  <2>2. \A x \in left : asset'[x] = asset[x] /\ (x \in Held' <=> x \in Held)
    BY <1>12, <2>1 DEF Held
  <2>3. \A x \in left : Due(x)' <=> Due(x)
    BY <1>6, <2>2 DEF Due
  <2> QED  BY <1>3, <1>4, <1>5, <1>6, <2>1, <2>2, <2>3 DEF Serving
<1>17. \A x \in Assets : x \notin req[i].rows => asset'[x] = asset[x] /\ served'[x] = served[x]
  BY <1>3, <1>12
<1>18. q = Idle \/ q.rows \subseteq req[i].rows
  BY <1>4, <1>5
<1>19. MaintenanceInv'
  BY <1>2, <1>12, <1>13, <1>15, <1>16, <1>17, <1>18, MaintenanceGoesOn
<1>20. PmOncePerDueDate
  <2> SUFFICES ASSUME NEW x \in Assets, x \notin contested, orders'[x].pm > orders[x].pm
               PROVE  Due(x) /\ asset[x].next # served[x]
    BY <1>6 DEF PmOncePerDueDate
  <2>1. x = a
    BY <1>12 DEF MaintenanceInv
  <2> QED  BY <1>14, <2>1
<1> QED  BY <1>19, <1>20

LEMMA OrdersThatStay ==
    ASSUME MaintenanceInv, MaintenanceInv', \A a \in Assets : orders'[a].pm <= orders[a].pm
    PROVE  PmOncePerDueDate
<1>1. \A a \in Assets : orders[a].pm \in Nat /\ orders'[a].pm \in Nat
  BY DEF MaintenanceInv
<1>2. \A a \in Assets : ~(orders'[a].pm > orders[a].pm)
  BY <1>1
<1> QED  BY <1>2 DEF PmOncePerDueDate

LEMMA MaintenanceStays ==
    ASSUME MaintenanceInv, MaintenanceNext
    PROVE  MaintenanceInv' /\ PmOncePerDueDate
<1>0. \A a \in Assets : orders[a].pm \in Nat
  BY DEF MaintenanceInv
<1>1. CASE Tick /\ UNCHANGED maintenanceVars
  <2>1. UNCHANGED <<req, contested, asset, orders, served>> /\ now' \in 1..MaxTime /\ now <= now'
    BY <1>1, MaxTimeNat DEF Tick, MaintenanceInv, maintenanceVars
  <2>2. Held' = Held /\ \A a : (AloneAt(a) => AloneAt(a)') /\ (ServedBefore(a) => ServedBefore(a)')
    BY <2>1 DEF Held, AloneAt, InFlight, ServedBefore
  <2>3. \A a \in Assets : Due(a) => Due(a)'
    <3> SUFFICES ASSUME NEW a \in Assets, Due(a) PROVE Due(a)'
      OBVIOUS
    <3>1. asset[a].next \in Never..(MaxTime + 1) /\ asset[a].next <= now /\ now \in 1..MaxTime /\ now' \in 1..MaxTime
      BY <2>1 DEF Due, MaintenanceInv, AssetRow
    <3>2. asset[a].next <= now'
      BY <2>1, <3>1, MaxTimeNat DEF Never
    <3> QED  BY <2>1, <2>2, <3>2 DEF Due
  <2>4. \A i \in Slots : (AssetRequest(i) => AssetRequest(i)') /\ (Serving(i) => Serving(i)')
    BY <2>1, <2>3 DEF AssetRequest, Serving
  <2>5. MaintenanceInv'
    BY <2>1, <2>2, <2>4 DEF MaintenanceInv
  <2> QED  BY <1>0, <2>1, <2>5 DEF PmOncePerDueDate
<1>2. ASSUME NEW i \in Slots, Abort(i), UNCHANGED maintenanceVars PROVE MaintenanceInv' /\ PmOncePerDueDate
  <2>1. req[i] # Idle /\ Proceed(i, Idle) /\ UNCHANGED <<asset, orders, served>>
    BY <1>2 DEF Abort, End, maintenanceVars
  <2>2. /\ Held' = Held /\ asset' = [a \in Assets |-> asset'[a]] /\ (\A a \in Held' : asset'[a] \in AssetRow)
        /\ orders' \in [Assets -> [pm : 0..MaxOrders, byHand : BOOLEAN]]
        /\ served' \in [Assets -> Never..(MaxTime + 1)]
        /\ \A a \in Assets : a \notin contested => ServedBefore(a)'
    BY <2>1 DEF MaintenanceInv, Held, ServedBefore
  <2>3. MaintenanceInv'
    BY <2>1, <2>2, MaintenanceGoesOn
  <2> QED  BY <1>0, <2>1, <2>3 DEF PmOncePerDueDate
<1>3. ASSUME NEW a \in Assets, CreateAsset(a) PROVE MaintenanceInv' /\ PmOncePerDueDate
  <2>1. \A x \in Assets : orders'[x].pm \in Nat /\ orders'[x].pm <= orders[x].pm
    <3> DEFINE none == [pm |-> 0, byHand |-> FALSE]
    <3>1. orders' = [orders EXCEPT ![a] = none] /\ none.pm = 0
      BY <1>3 DEF CreateAsset
    <3> HIDE DEF none
    <3>2. \A x \in Assets : orders'[x] = IF x = a THEN none ELSE orders[x]
      BY <3>1 DEF MaintenanceInv
    <3> QED  BY <1>0, <3>1, <3>2
  <2> QED  BY <1>3, <2>1, AssetIsMade, OrdersThatStay
<1>4. ASSUME NEW a \in Assets, OrderForAsset(a) PROVE MaintenanceInv' /\ PmOncePerDueDate
  <2>1. \A x \in Assets : orders'[x].pm <= orders[x].pm
    <3> DEFINE row == [orders[a] EXCEPT !.byHand = TRUE]
    <3>1. orders' = [orders EXCEPT ![a] = row] /\ row.pm = orders[a].pm
      BY <1>4 DEF OrderForAsset, MaintenanceInv
    <3> HIDE DEF row
    <3>2. \A x \in Assets : orders'[x] = IF x = a THEN row ELSE orders[x]
      BY <3>1 DEF MaintenanceInv
    <3> QED  BY <1>0, <3>1, <3>2
  <2> QED  BY <1>4, <2>1, OrderIsMadeByHand, OrdersThatStay
<1>5. ASSUME NEW i \in Slots, NEW a \in Assets, UpdateAsset(i, a) \/ DeleteAsset(i, a) PROVE MaintenanceInv' /\ PmOncePerDueDate
  <2>1. orders' = orders
    BY <1>5 DEF UpdateAsset, DeleteAsset, maintenanceVars
  <2> QED  BY <1>0, <1>5, <2>1, AssetIsTaken DEF PmOncePerDueDate
<1>6. ASSUME NEW i \in Slots, WriteAsset(i) \/ RemoveAsset(i) PROVE MaintenanceInv' /\ PmOncePerDueDate
  BY <1>0, <1>6, AssetIsWritten DEF PmOncePerDueDate
<1>7. ASSUME NEW i \in Slots, RunPreventiveMaintenance(i) PROVE MaintenanceInv' /\ PmOncePerDueDate
  <2>1. orders' = orders
    BY <1>7 DEF RunPreventiveMaintenance, maintenanceVars
  <2> QED  BY <1>0, <1>7, <2>1, AssetsAreListed DEF PmOncePerDueDate
<1>8. ASSUME NEW i \in Slots, OpenPmOrder(i) PROVE MaintenanceInv' /\ PmOncePerDueDate
  BY <1>8, PmOrderIsOpened
<1> QED  BY <1>1, <1>2, <1>3, <1>4, <1>5, <1>6, <1>7, <1>8 DEF MaintenanceNext, MaintenanceStep

LEMMA MaintenanceInitially == Init => MaintenanceKept
<1> SUFFICES ASSUME Init PROVE MaintenanceKept
  OBVIOUS
<1>1. /\ asset = [a \in Assets |-> NoAsset] /\ served = [a \in Assets |-> Never]
      /\ orders = [a \in Assets |-> [pm |-> 0, byHand |-> FALSE]]
      /\ req = [i \in Slots |-> Idle] /\ contested = {} /\ now = 1
  BY DEF Init, MaintenanceInit, RequestsInit
<1>2. Held = {} /\ 1 \in 1..MaxTime /\ Never \in Never..(MaxTime + 1)
  BY <1>1, MaxTimeNat DEF Held, Never
<1>3. [pm |-> 0, byHand |-> FALSE] \in [pm : 0..MaxOrders, byHand : BOOLEAN]
  BY MaxOrdersNat
<1>4. \A a \in Assets : AloneAt(a) /\ ServedBefore(a)
  BY <1>1, <1>2 DEF AloneAt, InFlight, ServedBefore
<1> QED  BY <1>1, <1>2, <1>3, <1>4 DEF MaintenanceKept, MaintenanceInv

LEMMA MaintenanceStaysKept ==
    MaintenanceKept /\ [Next]_premisesVars => MaintenanceKept' /\ (desk = "maintenance" => PmOncePerDueDate)
<1> SUFFICES ASSUME MaintenanceKept, [Next]_premisesVars
             PROVE  MaintenanceKept' /\ (desk = "maintenance" => PmOncePerDueDate)
  OBVIOUS
<1>1. CASE Next
  BY <1>1, DesksApart, MaintenanceStays DEF MaintenanceKept, maintenanceVars
<1>2. CASE UNCHANGED premisesVars
  <2>1. UNCHANGED <<desk, req, contested, now, asset, orders, served>>
    BY <1>2 DEF premisesVars, requestVars, maintenanceVars
  <2>2. Held' = Held /\ \A a : (AloneAt(a) => AloneAt(a)') /\ (ServedBefore(a) => ServedBefore(a)') /\ (Due(a) => Due(a)')
    BY <2>1 DEF Held, AloneAt, InFlight, ServedBefore, Due
  <2>3. \A i \in Slots : (AssetRequest(i) => AssetRequest(i)') /\ (Serving(i) => Serving(i)')
    BY <2>1, <2>2 DEF AssetRequest, Serving
  <2>4. MaintenanceInv => MaintenanceInv' /\ PmOncePerDueDate
    <3> SUFFICES ASSUME MaintenanceInv PROVE MaintenanceInv' /\ PmOncePerDueDate
      OBVIOUS
    <3>1. MaintenanceInv'
      BY <2>1, <2>2, <2>3 DEF MaintenanceInv
    <3>2. \A a \in Assets : orders[a].pm \in Nat
      BY DEF MaintenanceInv
    <3> QED  BY <2>1, <3>1, <3>2 DEF PmOncePerDueDate
  <2> QED  BY <2>1, <2>4 DEF MaintenanceKept
<1> QED  BY <1>1, <1>2

\* The dates of service are right: of a machine nobody contests the next one follows the
\* last by the interval; for an office asset nobody contests the job opens an order only
\* while it is due, and one per due date.
THEOREM ServiceIsOnTime == Spec => ServiceDatesHold
<1>1. EquipmentKept /\ EquipmentKept' /\ MaintenanceKept /\ [Next]_premisesVars =>
        [CASE desk = "equipment" -> NextServiceFollows'
           [] desk = "maintenance" -> PmOncePerDueDate
           [] OTHER -> TRUE]_<<requestVars, machine, maintenanceVars>>
  <2> SUFFICES ASSUME EquipmentKept, EquipmentKept', MaintenanceKept, [Next]_premisesVars
               PROVE  [CASE desk = "equipment" -> NextServiceFollows'
                         [] desk = "maintenance" -> PmOncePerDueDate
                         [] OTHER -> TRUE]_<<requestVars, machine, maintenanceVars>>
    OBVIOUS
  <2>1. desk' = desk
    BY DesksApart DEF premisesVars
  <2>2. desk = "equipment" => NextServiceFollows'
    BY <2>1 DEF EquipmentKept, EquipmentInv, NextServiceFollows, Follows, Owned
  <2>3. desk = "maintenance" => PmOncePerDueDate
    BY MaintenanceStaysKept
  <2> QED  BY <2>2, <2>3
<1> QED  BY <1>1, EquipmentInitially, EquipmentStaysKept, MaintenanceInitially, MaintenanceStaysKept, PTL
         DEF Spec, ServiceDatesHold

-----------------------------------------------------------------------------
(***************************************************************************)
(* Requests of a resident.  What a manager is about to file is no          *)
(* repetition of the latest one as long as nobody else files.              *)
(***************************************************************************)

FiledRow == [text : Texts, at : 1..MaxTime, by : {"manager", "resident"}]

FilesARequest(i) ==
    /\ req[i] # Idle /\ req[i].op = "file" /\ req[i].rows = {"filed"}
    /\ req[i].text \in Texts /\ req[i].by \in {"manager", "resident"}
    /\ req[i].by = "manager" /\ "filed" \notin contested => ~Repeated(req[i].text)

FilingInv ==
    /\ now \in 1..MaxTime
    /\ filed \in Seq(FiledRow) /\ Len(filed) <= MaxRequests
    /\ req = [i \in Slots |-> req[i]]
    /\ \A i \in Slots : req[i] = Idle \/ FilesARequest(i)
    /\ "filed" \notin contested => AloneAt("filed")
    /\ FiledOnce

FilingKept ==
    /\ desk = "filing" => FilingInv
    /\ desk # "filing" => filed = <<>>

LEMMA FilingBegins ==
    ASSUME FilingInv, NEW i \in Slots, NEW text \in Texts, NEW by \in {"manager", "resident"},
           BeginFiling(i, text, by), by = "manager" => ~Repeated(text)
    PROVE  FilingInv'
<1> DEFINE r == [op |-> "file", rows |-> {"filed"}, text |-> text, by |-> by]
<1>1. Begin(i, r) /\ filed' = filed /\ now' = now
  BY DEF BeginFiling, Begin
<1>2. r # Idle /\ r.op = "file" /\ r.rows = {"filed"} /\ r.text = text /\ r.by = by
  BY DEF Idle
<1> HIDE DEF r
<1>3. /\ req'[i] = r /\ req' = [j \in Slots |-> req'[j]] /\ \A j \in Slots : j # i => req'[j] = req[j]
      /\ contested \subseteq contested'
      /\ \A row : AloneAt(row) /\ row \notin contested' => AloneAt(row)'
  BY <1>1, BeginAlone DEF FilingInv
<1>4. ASSUME NEW t PROVE Repeated(t)' <=> Repeated(t)
  BY <1>1 DEF Repeated, Latest
<1>5. FilesARequest(i)'
  BY <1>2, <1>3, <1>4 DEF FilesARequest
<1>6. ASSUME NEW j \in Slots PROVE req'[j] = Idle \/ FilesARequest(j)'
  BY <1>3, <1>4, <1>5 DEF FilingInv, FilesARequest
<1>7. FiledOnce'
  BY <1>1, <1>3 DEF FilingInv, FiledOnce
<1>8. "filed" \notin contested' => AloneAt("filed")'
  BY <1>3 DEF FilingInv
<1> QED  BY <1>1, <1>3, <1>6, <1>7, <1>8 DEF FilingInv

LEMMA RequestIsFiled ==
    ASSUME FilingInv, NEW i \in Slots, WriteFiled(i)
    PROVE  FilingInv'
<1> DEFINE row == [text |-> req[i].text, at |-> now, by |-> req[i].by]
<1>1. /\ req[i] # Idle /\ Proceed(i, Idle) /\ now' = now /\ Len(filed) < MaxRequests
      /\ filed' = Append(filed, row)
  BY DEF WriteFiled, End, Proceed
<1>2. /\ req'[i] = Idle /\ req' = [j \in Slots |-> req'[j]] /\ contested' = contested
      /\ \A j \in Slots : j # i => req'[j] = req[j]
      /\ \A x : AloneAt(x) => AloneAt(x)'
  BY <1>1, ProceedAlone DEF FilingInv
<1>3. FilesARequest(i)
  BY <1>1 DEF FilingInv
<1>4. row \in FiledRow /\ row.at = now /\ row.by = req[i].by /\ row.text = req[i].text
  BY <1>3 DEF FilingInv, FilesARequest, FiledRow
<1> HIDE DEF row
<1>5. /\ filed \in Seq(FiledRow) /\ filed' \in Seq(FiledRow) /\ Len(filed) \in Nat
      /\ Len(filed') = Len(filed) + 1 /\ filed'[Len(filed) + 1] = row
      /\ \A n \in 1..Len(filed) : filed'[n] = filed[n]
  BY <1>1, <1>4 DEF FilingInv
<1>6. Len(filed') <= MaxRequests
  BY <1>1, <1>5, MaxRequestsNat
<1>7. ASSUME NEW j \in Slots, req'[j] # Idle PROVE FilesARequest(j)'
  <2>1. j # i /\ req'[j] = req[j] /\ FilesARequest(j)
    BY <1>2, <1>7 DEF FilingInv
  <2>2. "filed" \in contested
    <3>1. i \in InFlight("filed") /\ j \in InFlight("filed")
      BY <1>1, <1>3, <1>7, <2>1 DEF InFlight, FilesARequest
    <3> QED  BY <2>1, <3>1 DEF FilingInv, AloneAt
  <2> QED  BY <1>2, <2>1, <2>2 DEF FilesARequest
<1>8. ASSUME "filed" \notin contested', NEW n \in 2..Len(filed'), filed'[n].by = "manager",
             filed'[n].text = filed'[n - 1].text
      PROVE  filed'[n - 1].at + DedupeWindow < filed'[n].at
  <2>1. CASE n \in 2..Len(filed)
    <3>1. n \in 1..Len(filed) /\ n - 1 \in 1..Len(filed)
      BY <1>5, <2>1
    <3>2. filed'[n] = filed[n] /\ filed'[n - 1] = filed[n - 1]
      BY <1>5, <3>1
    <3> QED  BY <1>2, <1>8, <2>1, <3>2 DEF FilingInv, FiledOnce
  <2>2. CASE n \notin 2..Len(filed)
    <3>1. n = Len(filed) + 1 /\ Len(filed) \in 1..Len(filed) /\ n - 1 = Len(filed)
      BY <1>5, <2>2
    <3>2. filed'[n] = row /\ filed'[n - 1] = Latest /\ filed # <<>> /\ Latest \in FiledRow
      BY <1>5, <3>1 DEF Latest
    <3>3. ~Repeated(row.text)
      BY <1>2, <1>3, <1>4, <1>8, <3>2 DEF FilesARequest
    <3>4. ~(Latest.at + DedupeWindow >= now)
      BY <1>8, <3>2, <3>3 DEF Repeated
    <3>5. Latest.at \in Int /\ now \in Int
      BY <3>2 DEF FiledRow, FilingInv
    <3> QED  BY <1>4, <3>2, <3>4, <3>5, DedupeWindowNat
  <2> QED  BY <2>1, <2>2
<1>9. FiledOnce'
  BY <1>8 DEF FiledOnce
<1> QED  BY <1>1, <1>2, <1>5, <1>6, <1>7, <1>9 DEF FilingInv

LEMMA FilingStays ==
    ASSUME FilingInv, FilingNext
    PROVE  FilingInv'
<1>1. CASE Tick /\ UNCHANGED filed
  <2>1. UNCHANGED <<req, contested, filed>> /\ now' = now + 1 /\ now' \in 1..MaxTime
    BY <1>1, MaxTimeNat DEF Tick, FilingInv
  <2>2. ASSUME NEW t, Repeated(t)' PROVE Repeated(t)
    <3>1. filed # <<>> /\ Latest.at + DedupeWindow >= now + 1 /\ Latest.text = t
      BY <2>1, <2>2 DEF Repeated, Latest
    <3>2. Latest \in FiledRow
      BY <3>1 DEF FilingInv, Latest
    <3>3. Latest.at \in Int /\ now \in Int
      BY <3>2 DEF FiledRow, FilingInv
    <3>4. Latest.at + DedupeWindow >= now
      BY <3>1, <3>3, DedupeWindowNat
    <3> QED  BY <3>1, <3>4 DEF Repeated
  <2>3. ASSUME NEW j \in Slots PROVE req'[j] = Idle \/ FilesARequest(j)'
    BY <2>1, <2>2 DEF FilingInv, FilesARequest
  <2>4. FiledOnce' /\ ("filed" \notin contested' => AloneAt("filed")')
    BY <2>1 DEF FilingInv, FiledOnce, AloneAt, InFlight
  <2> QED  BY <2>1, <2>3, <2>4 DEF FilingInv
<1>2. ASSUME NEW i \in Slots, NEW text \in Texts, CreateManagedRequest(i, text) \/ CreateMyRequest(i, text)
      PROVE  FilingInv'
  BY <1>2, FilingBegins DEF CreateManagedRequest, CreateMyRequest
<1>3. ASSUME NEW i \in Slots, Abort(i), UNCHANGED filed PROVE FilingInv'
  <2>1. /\ req'[i] = Idle /\ req' = [j \in Slots |-> req'[j]] /\ contested' = contested
        /\ \A j \in Slots : j # i => req'[j] = req[j]
        /\ \A x : AloneAt(x) => AloneAt(x)'
    BY <1>3, ProceedAlone DEF Abort, End, FilingInv
  <2>2. now' = now
    BY <1>3 DEF Abort, End, Proceed
  <2>3. ASSUME NEW t PROVE Repeated(t)' <=> Repeated(t)
    BY <1>3, <2>2 DEF Repeated, Latest
  <2>4. ASSUME NEW j \in Slots PROVE req'[j] = Idle \/ FilesARequest(j)'
    BY <2>1, <2>3 DEF FilingInv, FilesARequest
  <2>5. FiledOnce'
    BY <1>3, <2>1 DEF FilingInv, FiledOnce
  <2> QED  BY <1>3, <2>1, <2>2, <2>4, <2>5 DEF FilingInv
<1> QED  BY <1>1, <1>2, <1>3, RequestIsFiled DEF FilingNext

LEMMA FilingInitially == Init => FilingKept
<1> SUFFICES ASSUME Init PROVE FilingKept
  OBVIOUS
<1>1. filed = <<>> /\ req = [i \in Slots |-> Idle] /\ contested = {} /\ now = 1
  BY DEF Init, FilingInit, RequestsInit
<1>2. filed \in Seq(FiledRow) /\ Len(filed) = 0 /\ 0 <= MaxRequests /\ 1 \in 1..MaxTime
  BY <1>1, MaxTimeNat, MaxRequestsNat
<1>3. FiledOnce /\ AloneAt("filed")
  BY <1>1, <1>2 DEF FiledOnce, AloneAt, InFlight
<1> QED  BY <1>1, <1>2, <1>3 DEF FilingKept, FilingInv

LEMMA FilingStaysKept == FilingKept /\ [Next]_premisesVars => FilingKept'
<1> SUFFICES ASSUME FilingKept, [Next]_premisesVars PROVE FilingKept'
  OBVIOUS
<1>1. CASE Next
  BY <1>1, DesksApart, FilingStays DEF FilingKept
<1>2. CASE UNCHANGED premisesVars
  <2>1. UNCHANGED <<desk, req, contested, now, filed>>
    BY <1>2 DEF premisesVars, requestVars
  <2> QED  BY <2>1 DEF FilingKept, FilingInv, FilesARequest, FiledOnce, Repeated, Latest, AloneAt, InFlight
<1> QED  BY <1>1, <1>2

-----------------------------------------------------------------------------

\* An update that names no status writes the status it read.
LEMMA EditsLeaveTheStatus ==
    ASSUME TicketsInv, TicketsNext
    PROVE  EditsKeepTheDecision
<1> SUFFICES ASSUME NEW k \in Filed \ contested', NEW i \in Slots, req[i] # Idle, req'[i] = Idle,
                    req[i].ticket = k, req[i].named = Same
             PROVE  ticket'[k].status = ticket[k].status
  BY DEF EditsKeepTheDecision
<1>1. CASE \E j \in Slots : WriteTicket(j)
  <2>1. PICK j \in Slots : WriteTicket(j)
    BY <1>1
  <2>2. req' = [req EXCEPT ![j] = Idle] /\ contested' = contested
    BY <2>1 DEF WriteTicket, End, Proceed
  <2>3. j = i
    BY <2>2 DEF TicketsInv
  <2> DEFINE t == ticket[k]
             w == req[i].write
             r == AsWritten(t, w)
  <2>4. ticket' = [ticket EXCEPT ![k] = r]
    BY <2>1, <2>3 DEF WriteTicket, AsWritten
  <2>5. TicketIs(t) /\ TicketWrite(t.kind, w) /\ w.status \in {Same, t.status} /\ k \in Tickets
    BY <2>2 DEF TicketsInv, TicketRequest, Filed
  <2>6. r.status = t.status
    BY <2>5, RowAsWritten
  <2> HIDE DEF r
  <2>7. ticket'[k] = r
    BY <2>4, <2>5 DEF TicketsInv
  <2> QED  BY <2>6, <2>7
<1>2. CASE ~\E j \in Slots : WriteTicket(j)
  <2>1. CASE UNCHANGED ticket
    BY <2>1
  <2>2. CASE \E x \in Tickets : FileTicket(x)
    BY <2>2 DEF FileTicket, CreateViolation, CreateApprovalRequest, CreateParcel, FileOfficeTicket, FileUnitRequest,
          ScheduleInspection, File, Once
  <2>3. CASE \E j \in Slots : TicketsStep(j)
    BY <1>2, <2>3 DEF TicketsStep, UpdateTicket, ConfirmMyRequest, ReopenMyRequest, BeginUpdate
  <2> QED  BY <2>1, <2>2, <2>3 DEF TicketsNext
<1> QED  BY <1>1, <1>2

-----------------------------------------------------------------------------
(***************************************************************************)
(* Notices and inspections.  What a request is going to write of a paper   *)
(* has all that is settled there, whoever else is at it; at an inspection  *)
(* nobody contests, the result, or what the one conversion is going to     *)
(* write, mentions the requests that are left.                             *)
(***************************************************************************)

NoticeRow == [kind : {"notice"}, acks : SUBSET Readers, seen : SUBSET Readers]
InspectionRow == [kind : {"inspection"}, unit : BOOLEAN, result : SUBSET (1..MaxFollowUps)]

Takes(c) == IF c = "result" THEN SUBSET (1..MaxFollowUps) ELSE SUBSET Readers
Holdings == [PaperColumns -> SUBSET (Readers \cup 1..MaxFollowUps)]

Converted(p) == {n \in 1..MaxFollowUps : <<p, n>> \in followUps}
StillMentioned(p) == {n \in 1..MaxFollowUps : <<p, n>> \in followUps \ struck}

Extending(i) ==
    /\ req[i] # Idle /\ req[i].op = "column" /\ req[i].paper \in Papers /\ req[i].rows = {req[i].paper}
    /\ req[i].column \in PaperColumns /\ req[i].value \in Takes(req[i].column)
    /\ req[i].paper \in Notices => req[i].column \in {"acks", "seen"}
    /\ req[i].paper \in Inspections => req[i].column = "result"
    /\ settled[req[i].paper][req[i].column] \subseteq req[i].value
    /\ req[i].paper \in Inspections /\ req[i].paper \notin contested => req[i].value = StillMentioned(req[i].paper)

Naming(i) ==
    /\ req[i] # Idle /\ req[i].op = "text" /\ req[i].paper \in Inspections /\ req[i].rows = {req[i].paper}
    /\ req[i].value \subseteq Converted(req[i].paper)

ExtendsAt(i, p) == req[i] # Idle /\ req[i].op = "column" /\ req[i].paper = p

InStep(p) == paper[p].result = StillMentioned(p) \/ \E i \in Slots : ExtendsAt(i, p)

SettledIsThere ==
    /\ settled \in [Papers -> Holdings]
    /\ \A p \in Papers : \A c \in PaperColumns : settled[p][c] \subseteq ColumnsOf(paper[p])[c]

FollowUpsAre ==
    /\ followUps \subseteq Papers \X (1..MaxFollowUps) /\ struck \subseteq followUps
    /\ \A f \in followUps : f[1] \in Inspections

NoticesInv ==
    /\ now \in 1..MaxTime
    /\ paper = [p \in Papers |-> paper[p]] /\ \A p \in Posted : paper[p] \in NoticeRow \cup InspectionRow
    /\ FollowUpsAre
    /\ SettledIsThere
    /\ req = [i \in Slots |-> req[i]]
    /\ \A i \in Slots : req[i] = Idle \/ Extending(i) \/ Naming(i)
    /\ \A p \in Papers \ contested : AloneAt(p)
    /\ \A p \in Inspections \ contested : InStep(p)

NoticesKept ==
    /\ desk = "notices" => NoticesInv
    /\ desk # "notices" => /\ paper = [p \in Papers |-> NoPaper] /\ followUps = {} /\ struck = {}
                           /\ settled = [p \in Papers |-> Blank]

LEMMA PapersDiffer ==
    /\ NoPaper \notin NoticeRow \cup InspectionRow
    /\ \A x \in NoticeRow : x.kind = "notice"
    /\ \A x \in InspectionRow : x.kind = "inspection"
BY DEF NoPaper, NoticeRow, InspectionRow

LEMMA ColumnsAreHeld ==
    /\ \A c \in PaperColumns : ColumnsOf(NoPaper)[c] = {}
    /\ \A x \in NoticeRow : \A c \in {"acks", "seen"} : ColumnsOf(x)[c] = x[c] /\ x[c] \subseteq Readers
    /\ \A x \in NoticeRow : ColumnsOf(x)["result"] = {}
    /\ \A x \in InspectionRow : ColumnsOf(x)["result"] = x.result /\ x.result \subseteq 1..MaxFollowUps
    /\ \A x \in InspectionRow : \A c \in {"acks", "seen"} : ColumnsOf(x)[c] = {}
    /\ \A x \in NoticeRow \cup InspectionRow \cup {NoPaper} : ColumnsOf(x) \in Holdings
<1>1. \A c \in PaperColumns : ColumnsOf(NoPaper)[c] = {}
  BY DEF ColumnsOf, NoPaper, PaperColumns
<1>2. ASSUME NEW x \in NoticeRow
      PROVE  /\ \A c \in {"acks", "seen"} : ColumnsOf(x)[c] = x[c] /\ x[c] \subseteq Readers
             /\ ColumnsOf(x)["result"] = {}
  BY DEF ColumnsOf, NoticeRow, PaperColumns
<1>3. ASSUME NEW x \in InspectionRow
      PROVE  /\ ColumnsOf(x)["result"] = x.result /\ x.result \subseteq 1..MaxFollowUps
             /\ \A c \in {"acks", "seen"} : ColumnsOf(x)[c] = {}
  BY DEF ColumnsOf, InspectionRow, PaperColumns
<1>4. ASSUME NEW x \in NoticeRow \cup InspectionRow \cup {NoPaper} PROVE ColumnsOf(x) \in Holdings
  <2>1. \A c \in PaperColumns : ColumnsOf(x)[c] \in SUBSET (Readers \cup 1..MaxFollowUps)
    BY <1>1, <1>2, <1>3 DEF PaperColumns
  <2>2. ColumnsOf(x) = [c \in PaperColumns |-> ColumnsOf(x)[c]]
    BY DEF ColumnsOf
  <2> QED  BY <2>1, <2>2 DEF Holdings
<1> QED  BY <1>1, <1>2, <1>3, <1>4

\* A paper with a column written.
Filled(x, c, v) == [x EXCEPT ![c] = v]

LEMMA PaperIsFilled ==
    ASSUME NEW x \in NoticeRow \cup InspectionRow, NEW c \in PaperColumns, NEW v \in Takes(c),
           x.kind = "notice" => c \in {"acks", "seen"}, x.kind = "inspection" => c = "result"
    PROVE  /\ Filled(x, c, v) \in NoticeRow \cup InspectionRow /\ Filled(x, c, v).kind = x.kind
           /\ x.kind = "inspection" => Filled(x, c, v).result = v
           /\ \A d \in PaperColumns : ColumnsOf(Filled(x, c, v))[d] = IF d = c THEN v ELSE ColumnsOf(x)[d]
<1>1. CASE x \in NoticeRow
  <2>1. x.kind = "notice" /\ c \in {"acks", "seen"} /\ v \in SUBSET Readers
    BY <1>1 DEF NoticeRow, Takes
  <2>2. CASE c = "acks"
    BY <1>1, <2>1, <2>2 DEF Filled, NoticeRow, ColumnsOf, PaperColumns
  <2>3. CASE c = "seen"
    BY <1>1, <2>1, <2>3 DEF Filled, NoticeRow, ColumnsOf, PaperColumns
  <2> QED  BY <2>1, <2>2, <2>3
<1>2. CASE x \in InspectionRow
  <2>1. x.kind = "inspection" /\ c = "result" /\ v \in SUBSET (1..MaxFollowUps)
    BY <1>2 DEF InspectionRow, Takes
  <2> QED  BY <1>2, <2>1 DEF Filled, InspectionRow, ColumnsOf, PaperColumns
<1> QED  BY <1>1, <1>2

\* What is settled is there still once a request has begun at p, and where it found
\* somebody, or at other papers, it is what it was.
LEMMA NoticesSettle ==
    ASSUME NoticesInv, NEW p \in Posted, Settle(p)
    PROVE  /\ settled' \in [Papers -> Holdings]
           /\ \A q \in Papers : \A c \in PaperColumns : settled'[q][c] \subseteq ColumnsOf(paper[q])[c]
           /\ \A q \in Papers : q # p \/ InFlight(p) # {} => settled'[q] = settled[q]
<1>1. p \in Papers /\ paper[p] \in NoticeRow \cup InspectionRow
  BY DEF Posted, NoticesInv
<1>2. ColumnsOf(paper[p]) \in Holdings
  BY <1>1, ColumnsAreHeld
<1>3. /\ settled \in [Papers -> Holdings]
      /\ \A q \in Papers : \A c \in PaperColumns : settled[q][c] \subseteq ColumnsOf(paper[q])[c]
  BY DEF NoticesInv, SettledIsThere
<1>4. CASE InFlight(p) = {}
  <2>1. settled' = [settled EXCEPT ![p] = ColumnsOf(paper[p])]
    BY <1>4 DEF Settle
  <2>2. settled'[p] = ColumnsOf(paper[p]) /\ \A q \in Papers : q # p => settled'[q] = settled[q]
    BY <1>1, <1>3, <2>1
  <2>3. settled' \in [Papers -> Holdings]
    BY <1>1, <1>2, <1>3, <2>1
  <2> QED  BY <1>3, <1>4, <2>2, <2>3
<1>5. CASE InFlight(p) # {}
  <2>1. settled' = settled
    BY <1>5 DEF Settle
  <2> QED  BY <1>3, <2>1
<1> QED  BY <1>4, <1>5

\* A request takes up a paper: what it will write has what is settled there.
LEMMA NoticesBegin ==
    ASSUME NoticesInv, NEW i \in Slots, NEW p \in Posted, NEW r, Begin(i, r), r # Idle, r.paper = p, r.rows = {p},
           r.op \in {"column", "text"}, paper' = paper, struck' = struck, Settle(p), Extending(i)' \/ Naming(i)',
           followUps' \subseteq Papers \X (1..MaxFollowUps), followUps \subseteq followUps',
           \A f \in followUps' : f \notin followUps => f[1] = p /\ p \in Inspections /\ r.op = "column"
    PROVE  NoticesInv'
<1>1. /\ req[i] = Idle /\ req'[i] = r /\ req' = [j \in Slots |-> req'[j]] /\ contested \subseteq contested' /\ now' = now
      /\ \A j \in Slots : j # i => req'[j] = req[j]
      /\ \A row \in r.rows : row \notin contested' => InFlight(row) = {}
      /\ \A row : AloneAt(row) /\ row \notin contested' => AloneAt(row)'
  BY BeginAlone DEF NoticesInv, Begin
<1>2. Posted' = Posted /\ Notices' = Notices /\ Inspections' = Inspections
  BY DEF Posted, Notices, Inspections
<1>3. \A q \in Papers : q # p => StillMentioned(q)' = StillMentioned(q)
  <2> SUFFICES ASSUME NEW q \in Papers, q # p, NEW n \in 1..MaxFollowUps
               PROVE  <<q, n>> \in followUps' <=> <<q, n>> \in followUps
    BY DEF StillMentioned
  <2>1. <<q, n>>[1] = q
    OBVIOUS
  <2> QED  BY <2>1
<1>4. ASSUME NEW j \in Slots, j # i, req'[j] # Idle PROVE Extending(j)' \/ Naming(j)'
  <2>1. req'[j] = req[j] /\ req[j] # Idle
    BY <1>1, <1>4
  <2>2. CASE Extending(j)
    <3>1. req[j].paper \in Papers /\ req[j].rows = {req[j].paper}
      BY <2>2 DEF Extending
    <3>2. req[j].paper = p => j \in InFlight(p)
      BY <2>1, <3>1 DEF InFlight
    <3>3. settled'[req[j].paper] = settled[req[j].paper]
      BY <3>1, <3>2, NoticesSettle
    <3>4. req[j].paper \notin contested' => req[j].paper # p
      BY <1>1, <3>2
    <3> QED  BY <1>1, <1>2, <1>3, <2>1, <2>2, <3>1, <3>3, <3>4 DEF Extending
  <2>3. CASE Naming(j)
    <3>1. Converted(req[j].paper) \subseteq Converted(req[j].paper)'
      BY <2>1 DEF Converted
    <3> QED  BY <1>2, <2>1, <2>3, <3>1 DEF Naming
  <2> QED  BY <2>1, <2>2, <2>3 DEF NoticesInv
<1>5. ASSUME NEW q \in Inspections, q \notin contested' PROVE InStep(q)'
  <2>1. q \in Papers /\ InStep(q)
    BY <1>1, <1>5 DEF Inspections, Posted, NoticesInv
  <2>2. ASSUME q = p, r.op = "column" PROVE InStep(q)'
    <3>1. ExtendsAt(i, q)'
      BY <1>1, <2>2 DEF ExtendsAt
    <3> QED  BY <3>1 DEF InStep
  <2>3. ASSUME q = p, r.op = "text" PROVE InStep(q)'
    <3>1. followUps' = followUps
      BY <2>3
    <3>2. InFlight(p) = {}
      BY <1>1, <1>5, <2>3
    <3>3. ASSUME NEW j \in Slots, ExtendsAt(j, q) PROVE FALSE
      <4>1. Extending(j) \/ Naming(j)
        BY <3>3 DEF ExtendsAt, NoticesInv
      <4>2. j \in InFlight(p)
        BY <2>3, <3>3, <4>1 DEF ExtendsAt, Extending, Naming, InFlight
      <4> QED  BY <3>2, <4>2
    <3> QED  BY <2>1, <3>1, <3>3 DEF InStep, StillMentioned
  <2>4. ASSUME q # p PROVE InStep(q)'
    <3>1. ASSUME NEW j \in Slots, ExtendsAt(j, q) PROVE ExtendsAt(j, q)'
      BY <1>1, <3>1 DEF ExtendsAt
    <3> QED  BY <1>3, <2>1, <2>4, <3>1 DEF InStep
  <2> QED  BY <2>2, <2>3, <2>4
<1>6. FollowUpsAre'
  <2>1. ASSUME NEW f \in followUps' PROVE f[1] \in Inspections'
    BY <1>2, <2>1 DEF NoticesInv, FollowUpsAre
  <2> QED  BY <2>1 DEF NoticesInv, FollowUpsAre
<1>7. \A q \in Papers \ contested' : AloneAt(q)'
  BY <1>1 DEF NoticesInv
<1>8. paper' = [q \in Papers |-> paper'[q]] /\ \A q \in Posted' : paper'[q] \in NoticeRow \cup InspectionRow
  BY <1>2 DEF NoticesInv
<1>9. SettledIsThere'
  BY NoticesSettle DEF SettledIsThere
<1>10. \A q \in Inspections' \ contested' : InStep(q)'
  BY <1>2, <1>5
<1> QED  BY <1>1, <1>4, <1>6, <1>7, <1>8, <1>9, <1>10 DEF NoticesInv

\* Where nobody contests an inspection that a request has taken up, it found there the
\* mentions that are left.
LEMMA InspectionIsFound ==
    ASSUME NoticesInv, NEW i \in Slots, NEW p \in Inspections, NEW r, Begin(i, r), r.rows = {p}, p \notin contested'
    PROVE  paper[p].result = StillMentioned(p)
<1>1. InFlight(p) = {} /\ p \notin contested
  BY BeginAlone DEF NoticesInv
<1>2. InStep(p)
  BY <1>1 DEF NoticesInv
<1>3. ASSUME NEW j \in Slots, ExtendsAt(j, p) PROVE FALSE
  <2>1. Extending(j) \/ Naming(j)
    BY <1>3 DEF ExtendsAt, NoticesInv
  <2>2. j \in InFlight(p)
    BY <1>3, <2>1 DEF ExtendsAt, Extending, Naming, InFlight
  <2> QED  BY <1>1, <2>2
<1> QED  BY <1>2, <1>3 DEF InStep

LEMMA NoticeIsSeen ==
    ASSUME NoticesInv, NEW i \in Slots, NEW p \in Notices, NEW u \in Readers,
           AcknowledgeNotice(i, p, u) \/ MarkNoticeSeen(i, p, u)
    PROVE  NoticesInv'
<1>1. PICK c \in {"acks", "seen"} :
        /\ Begin(i, [op |-> "column", rows |-> {p}, paper |-> p, column |-> c, value |-> paper[p][c] \cup {u}])
        /\ UNCHANGED <<paper, struck, followUps>> /\ Settle(p)
  BY DEF AcknowledgeNotice, MarkNoticeSeen, Extend
<1> DEFINE r == [op |-> "column", rows |-> {p}, paper |-> p, column |-> c, value |-> paper[p][c] \cup {u}]
<1>2. p \in Papers /\ p \in Posted /\ p \notin Inspections /\ paper[p] \in NoticeRow
  BY PapersDiffer DEF NoticesInv, Notices, Inspections, Posted
<1>3. paper[p][c] \subseteq Readers /\ ColumnsOf(paper[p])[c] = paper[p][c] /\ c \in PaperColumns
  BY <1>2, ColumnsAreHeld DEF PaperColumns
<1>4. Begin(i, r) /\ paper' = paper /\ followUps' = followUps /\ struck' = struck /\ Settle(p)
  BY <1>1
<1>5. /\ r # Idle /\ r.op = "column" /\ r.rows = {p} /\ r.paper = p /\ r.column = c
      /\ r.value = paper[p][c] \cup {u} /\ r.value \in Takes(c)
  BY <1>3 DEF Idle, Takes
<1> HIDE DEF r
<1>6. Posted' = Posted /\ Notices' = Notices /\ Inspections' = Inspections /\ req'[i] = r
  BY <1>4, BeginAlone DEF Posted, Notices, Inspections, NoticesInv
<1>7. settled'[p][c] \subseteq r.value
  BY <1>2, <1>3, <1>4, <1>5, NoticesSettle
<1>8. Extending(i)'
  BY <1>2, <1>3, <1>5, <1>6, <1>7 DEF Extending
<1>9. followUps' \subseteq Papers \X (1..MaxFollowUps)
  BY <1>4 DEF NoticesInv, FollowUpsAre
<1> QED  BY <1>2, <1>4, <1>5, <1>8, <1>9, NoticesBegin

\* The conversion of an inspection is going to mention one request more.
LEMMA InspectionIsConverted ==
    ASSUME NoticesInv, NEW i \in Slots, NEW p \in Inspections, BeginConversion(i, p)
    PROVE  NoticesInv'
<1>1. PICK n \in 1..MaxFollowUps :
        /\ <<p, n>> \notin followUps /\ followUps' = followUps \cup {<<p, n>>}
        /\ Begin(i, [op |-> "column", rows |-> {p}, paper |-> p, column |-> "result", value |-> paper[p].result \cup {n}])
        /\ UNCHANGED <<paper, struck>> /\ Settle(p)
  BY DEF BeginConversion, Extend
<1> DEFINE r == [op |-> "column", rows |-> {p}, paper |-> p, column |-> "result", value |-> paper[p].result \cup {n}]
<1>2. p \in Papers /\ p \in Posted /\ p \notin Notices /\ paper[p] \in InspectionRow
  BY PapersDiffer DEF NoticesInv, Notices, Inspections, Posted
<1>3. paper[p].result \subseteq 1..MaxFollowUps /\ ColumnsOf(paper[p])["result"] = paper[p].result /\ "result" \in PaperColumns
  BY <1>2, ColumnsAreHeld DEF PaperColumns
<1>4. Begin(i, r)
  BY <1>1
<1>5. /\ r # Idle /\ r.op = "column" /\ r.rows = {p} /\ r.paper = p /\ r.column = "result"
      /\ r.value = paper[p].result \cup {n} /\ r.value \in Takes("result")
  BY <1>3 DEF Idle, Takes
<1> HIDE DEF r
<1>6. Posted' = Posted /\ Notices' = Notices /\ Inspections' = Inspections /\ req'[i] = r
  BY <1>1, <1>4, BeginAlone DEF Posted, Notices, Inspections, NoticesInv
<1>7. settled'[p]["result"] \subseteq r.value
  BY <1>1, <1>2, <1>3, <1>5, NoticesSettle
<1>8. ASSUME p \notin contested' PROVE r.value = StillMentioned(p)'
  <2>1. paper[p].result = StillMentioned(p)
    BY <1>4, <1>5, <1>8, InspectionIsFound
  <2>2. <<p, n>> \notin struck
    BY <1>1 DEF NoticesInv, FollowUpsAre
  <2>3. \A m \in 1..MaxFollowUps : <<p, m>> \in followUps' \ struck' <=> m = n \/ <<p, m>> \in followUps \ struck
    BY <1>1, <2>2
  <2> QED  BY <1>5, <2>1, <2>3 DEF StillMentioned
<1>9. Extending(i)'
  BY <1>2, <1>3, <1>5, <1>6, <1>7, <1>8 DEF Extending
<1>10. followUps' \subseteq Papers \X (1..MaxFollowUps) /\ followUps \subseteq followUps'
  BY <1>1, <1>2 DEF NoticesInv, FollowUpsAre
<1>11. \A f \in followUps' : f \notin followUps => f[1] = p
  BY <1>1
<1> QED  BY <1>1, <1>2, <1>4, <1>5, <1>9, <1>10, <1>11, NoticesBegin

\* A manager names a result: some of the mentions.
LEMMA ResultIsNamed ==
    ASSUME NoticesInv, NEW i \in Slots, NEW p \in Inspections, UpdateInspectionResult(i, p)
    PROVE  NoticesInv'
<1>1. PICK text \in SUBSET {n \in 1..MaxFollowUps : <<p, n>> \in followUps} :
        /\ Begin(i, [op |-> "text", rows |-> {p}, paper |-> p, value |-> text])
        /\ UNCHANGED <<paper, followUps, struck>> /\ Settle(p)
  BY DEF UpdateInspectionResult
<1> DEFINE r == [op |-> "text", rows |-> {p}, paper |-> p, value |-> text]
<1>2. p \in Papers /\ p \in Posted
  BY DEF Inspections, Posted
<1>3. Begin(i, r)
  BY <1>1
<1>4. r # Idle /\ r.op = "text" /\ r.rows = {p} /\ r.paper = p /\ r.value = text
  BY DEF Idle
<1> HIDE DEF r
<1>5. Inspections' = Inspections /\ req'[i] = r
  BY <1>1, <1>3, BeginAlone DEF Posted, Inspections, NoticesInv
<1>6. Converted(p)' = Converted(p) /\ text \subseteq Converted(p)
  BY <1>1 DEF Converted
<1>7. Naming(i)'
  BY <1>4, <1>5, <1>6 DEF Naming
<1>8. followUps' \subseteq Papers \X (1..MaxFollowUps)
  BY <1>1 DEF NoticesInv, FollowUpsAre
<1> QED  BY <1>1, <1>2, <1>3, <1>4, <1>7, <1>8, NoticesBegin

\* A paper is put up or taken down, and nobody is at it.
LEMMA PaperIsPosted ==
    ASSUME NoticesInv, NEW p \in Papers, CreateNotice(p) \/ CreateInspection(p)
    PROVE  NoticesInv'
<1>1. PICK row \in NoticeRow \cup InspectionRow :
        /\ paper' = [paper EXCEPT ![p] = row] /\ p \notin Posted /\ Fresh(p) /\ Once(p)
        /\ UNCHANGED <<followUps, struck, settled>>
        /\ row \in InspectionRow => row.result = {}
  <2>1. CASE CreateNotice(p)
    <3>1. [kind |-> "notice", acks |-> {}, seen |-> {}] \in NoticeRow
      BY DEF NoticeRow
    <3> QED  BY <2>1, <3>1, PapersDiffer DEF CreateNotice
  <2>2. CASE CreateInspection(p)
    <3>1. PICK known \in BOOLEAN : paper' = [paper EXCEPT ![p] = [kind |-> "inspection", unit |-> known, result |-> {}]]
      BY <2>2 DEF CreateInspection
    <3> DEFINE x == [kind |-> "inspection", unit |-> known, result |-> {}]
    <3>2. x \in InspectionRow /\ x.result = {} /\ paper' = [paper EXCEPT ![p] = x]
      BY <3>1 DEF InspectionRow
    <3> HIDE DEF x
    <3> QED  BY <2>2, <3>2 DEF CreateInspection
  <2> QED  BY <2>1, <2>2
<1>2. UNCHANGED <<req, now>> /\ contested \subseteq contested' /\ InFlight(p) = {}
  BY <1>1, MeetContests DEF Once, Fresh
<1>3. paper' = [x \in Papers |-> paper'[x]] /\ paper'[p] = row /\ \A x \in Papers : x # p => paper'[x] = paper[x]
  BY <1>1 DEF NoticesInv
<1>4. row # NoPaper
  BY PapersDiffer
<1>5. /\ p \notin Inspections /\ \A x \in Papers : x # p => (x \in Inspections' <=> x \in Inspections)
      /\ \A x \in Papers : x # p => (x \in Notices' <=> x \in Notices) /\ (x \in Posted' <=> x \in Posted)
  BY <1>1, <1>3 DEF Inspections, Notices, Posted
<1>6. ASSUME NEW x \in Papers PROVE StillMentioned(x)' = StillMentioned(x) /\ Converted(x)' = Converted(x)
  BY <1>1 DEF StillMentioned, Converted
<1>7. ASSUME NEW j \in Slots, req'[j] # Idle PROVE Extending(j)' \/ Naming(j)'
  <2>1. req'[j] = req[j] /\ (Extending(j) \/ Naming(j))
    BY <1>2, <1>7 DEF NoticesInv
  <2>2. req[j].paper # p /\ req[j].paper \in Papers
    BY <1>2, <1>7, <2>1 DEF Extending, Naming, InFlight, Inspections, Posted
  <2>3. Extending(j) => Extending(j)'
    BY <1>1, <1>2, <1>5, <1>6, <2>1, <2>2 DEF Extending
  <2>4. Naming(j) => Naming(j)'
    BY <1>5, <1>6, <2>1, <2>2 DEF Naming
  <2> QED  BY <2>1, <2>3, <2>4
<1>8. ASSUME NEW x \in Inspections', x \notin contested' PROVE InStep(x)'
  <2>1. x \in Papers
    BY DEF Inspections, Posted
  <2>2. CASE x = p
    <3>1. \A n \in 1..MaxFollowUps : <<p, n>> \notin followUps
      BY <1>5 DEF NoticesInv, FollowUpsAre
    <3>2. row \in InspectionRow
      BY <1>3, <2>2, PapersDiffer DEF Inspections
    <3> QED  BY <1>1, <1>3, <1>6, <2>1, <2>2, <3>1, <3>2 DEF InStep, StillMentioned
  <2>3. CASE x # p
    <3>1. InStep(x)
      BY <1>2, <1>5, <1>8, <2>1, <2>3 DEF NoticesInv
    <3>2. paper'[x] = paper[x]
      BY <1>3, <2>1, <2>3
    <3>3. \A j \in Slots : ExtendsAt(j, x) => ExtendsAt(j, x)'
      BY <1>2 DEF ExtendsAt
    <3> QED  BY <1>6, <2>1, <3>1, <3>2, <3>3 DEF InStep
  <2> QED  BY <2>2, <2>3
<1>9. FollowUpsAre'
  <2>1. \A f \in followUps : f[1] \in Papers /\ f[1] \in Inspections
    BY DEF NoticesInv, FollowUpsAre
  <2> QED  BY <1>1, <1>5, <2>1 DEF FollowUpsAre, NoticesInv
<1>10. \A x \in Papers \ contested' : AloneAt(x)'
  BY <1>2 DEF NoticesInv, AloneAt, InFlight
<1>11. \A x \in Posted' : paper'[x] \in NoticeRow \cup InspectionRow
  BY <1>3, <1>5 DEF NoticesInv, Posted
<1>12. SettledIsThere'
  <2>1. paper[p] = NoPaper
    BY <1>1 DEF Posted
  <2>2. \A x \in Papers : \A c \in PaperColumns : settled[x][c] \subseteq ColumnsOf(paper'[x])[c]
    BY <1>3, <2>1, ColumnsAreHeld DEF NoticesInv, SettledIsThere
  <2> QED  BY <1>1, <2>2 DEF NoticesInv, SettledIsThere
<1>13. now' \in 1..MaxTime /\ req' = [j \in Slots |-> req'[j]]
  BY <1>1, <1>2 DEF NoticesInv
<1> QED  BY <1>3, <1>7, <1>8, <1>9, <1>10, <1>11, <1>12, <1>13 DEF NoticesInv

LEMMA NoticeIsDeleted ==
    ASSUME NoticesInv, NEW p \in Papers, DeleteNotice(p)
    PROVE  NoticesInv'
<1>1. /\ UNCHANGED <<req, now, followUps, struck>> /\ contested \subseteq contested'
      /\ paper' = [paper EXCEPT ![p] = NoPaper] /\ p \in Notices /\ settled' = [settled EXCEPT ![p] = Blank]
  BY MeetContests DEF DeleteNotice, Once
<1>2. paper' = [x \in Papers |-> paper'[x]] /\ paper'[p] = NoPaper /\ \A x \in Papers : x # p => paper'[x] = paper[x]
  BY <1>1 DEF NoticesInv
<1>3. /\ p \notin Inspections /\ p \notin Posted' /\ p \notin Notices' /\ p \notin Inspections'
      /\ \A x \in Papers : x # p => /\ x \in Inspections' <=> x \in Inspections
                                    /\ x \in Notices' <=> x \in Notices
                                    /\ x \in Posted' <=> x \in Posted
  BY <1>1, <1>2 DEF Inspections, Notices, Posted
<1>4. ASSUME NEW x \in Papers PROVE StillMentioned(x)' = StillMentioned(x) /\ Converted(x)' = Converted(x)
  BY <1>1 DEF StillMentioned, Converted
<1>5. /\ settled \in [Papers -> Holdings] /\ \A c \in PaperColumns : Blank[c] = {}
      /\ Blank \in Holdings
  BY DEF NoticesInv, SettledIsThere, Blank, Holdings
<1>6. settled' \in [Papers -> Holdings] /\ settled'[p] = Blank /\ \A x \in Papers : x # p => settled'[x] = settled[x]
  BY <1>1, <1>5
<1>7. ASSUME NEW j \in Slots, req'[j] # Idle PROVE Extending(j)' \/ Naming(j)'
  <2>1. req'[j] = req[j] /\ (Extending(j) \/ Naming(j))
    BY <1>1, <1>7 DEF NoticesInv
  <2>2. ASSUME Extending(j) PROVE Extending(j)'
    <3>1. req[j].paper \in Papers /\ req[j].column \in PaperColumns
      BY <2>2 DEF Extending
    <3>2. settled'[req[j].paper][req[j].column] \subseteq req[j].value
      BY <1>5, <1>6, <2>2, <3>1 DEF Extending
    <3> QED  BY <1>1, <1>3, <1>4, <2>1, <2>2, <3>1, <3>2 DEF Extending
  <2>3. ASSUME Naming(j) PROVE Naming(j)'
    <3>1. req[j].paper \in Papers /\ req[j].paper # p
      BY <1>3, <2>3 DEF Naming, Inspections, Posted
    <3> QED  BY <1>3, <1>4, <2>1, <2>3, <3>1 DEF Naming
  <2> QED  BY <2>1, <2>2, <2>3
<1>8. ASSUME NEW x \in Inspections', x \notin contested' PROVE InStep(x)'
  <2>1. x \in Papers /\ x # p
    BY <1>3 DEF Inspections, Posted
  <2>2. InStep(x) /\ paper'[x] = paper[x]
    BY <1>1, <1>2, <1>3, <1>8, <2>1 DEF NoticesInv
  <2>3. \A j \in Slots : ExtendsAt(j, x) => ExtendsAt(j, x)'
    BY <1>1 DEF ExtendsAt
  <2> QED  BY <1>4, <2>1, <2>2, <2>3 DEF InStep
<1>9. FollowUpsAre'
  <2>1. \A f \in followUps : f[1] \in Papers /\ f[1] \in Inspections
    BY DEF NoticesInv, FollowUpsAre
  <2> QED  BY <1>1, <1>3, <2>1 DEF FollowUpsAre, NoticesInv
<1>10. \A x \in Papers \ contested' : AloneAt(x)'
  BY <1>1 DEF NoticesInv, AloneAt, InFlight
<1>11. \A x \in Posted' : paper'[x] \in NoticeRow \cup InspectionRow
  BY <1>2, <1>3 DEF NoticesInv, Posted
<1>12. SettledIsThere'
  <2>1. \A x \in Papers : \A c \in PaperColumns : settled'[x][c] \subseteq ColumnsOf(paper'[x])[c]
    BY <1>2, <1>5, <1>6 DEF NoticesInv, SettledIsThere
  <2> QED  BY <1>6, <2>1 DEF SettledIsThere
<1>13. now' \in 1..MaxTime /\ req' = [j \in Slots |-> req'[j]]
  BY <1>1 DEF NoticesInv
<1> QED  BY <1>2, <1>7, <1>8, <1>9, <1>10, <1>11, <1>12, <1>13 DEF NoticesInv

\* A paper gets its column, and what everybody else is going to write has what is
\* settled there as before.
LEMMA ColumnIsWritten ==
    ASSUME NoticesInv, NEW i \in Slots, WriteColumn(i)
    PROVE  NoticesInv'
<1> DEFINE p == req[i].paper
           c == req[i].column
           v == req[i].value
           x == Filled(paper[p], c, v)
<1>1. /\ req[i] # Idle /\ req[i].op = "column" /\ Proceed(i, Idle) /\ now' = now
      /\ UNCHANGED <<followUps, struck, settled>>
      /\ paper' = IF p \in Posted THEN [paper EXCEPT ![p] = x] ELSE paper
  BY DEF WriteColumn, End, Proceed, Filled
<1>2. /\ req'[i] = Idle /\ req' = [j \in Slots |-> req'[j]] /\ contested' = contested
      /\ \A j \in Slots : j # i => req'[j] = req[j]
      /\ \A row : AloneAt(row) => AloneAt(row)'
  BY <1>1, ProceedAlone DEF NoticesInv
<1>3. Extending(i) /\ p \in Papers /\ req[i].rows = {p} /\ c \in PaperColumns /\ v \in Takes(c)
  BY <1>1 DEF NoticesInv, Extending, Naming
<1>4. ASSUME p \in Posted
      PROVE  /\ x \in NoticeRow \cup InspectionRow /\ x.kind = paper[p].kind /\ x # NoPaper
             /\ x.kind = "inspection" => x.result = v
             /\ \A d \in PaperColumns : ColumnsOf(x)[d] = IF d = c THEN v ELSE ColumnsOf(paper[p])[d]
  <2>1. paper[p] \in NoticeRow \cup InspectionRow
    BY <1>4 DEF NoticesInv
  <2>2. /\ paper[p].kind = "notice" => c \in {"acks", "seen"}
        /\ paper[p].kind = "inspection" => c = "result"
    BY <1>3, <1>4 DEF Extending, Notices, Inspections
  <2> HIDE DEF c, v
  <2>3. /\ x \in NoticeRow \cup InspectionRow /\ x.kind = paper[p].kind
        /\ x.kind = "inspection" => x.result = v
        /\ \A d \in PaperColumns : ColumnsOf(x)[d] = IF d = c THEN v ELSE ColumnsOf(paper[p])[d]
    BY <1>3, <2>1, <2>2, PaperIsFilled
  <2> QED  BY <2>3, PapersDiffer
<1>5. settled[p][c] \subseteq v /\ (p \in Inspections /\ p \notin contested => v = StillMentioned(p))
  BY <1>3 DEF Extending
<1>6. \A q : ExtendsAt(i, q) => q = p
  BY DEF ExtendsAt
<1> HIDE DEF x, v, c, p
<1>7. /\ paper' = [q \in Papers |-> paper'[q]] /\ \A q \in Papers : q # p => paper'[q] = paper[q]
      /\ p \in Posted => paper'[p] = x
      /\ p \notin Posted => paper'[p] = paper[p]
  BY <1>1, <1>3 DEF NoticesInv
<1>8. /\ \A q \in Papers : (q \in Posted' <=> q \in Posted) /\ (q \in Notices' <=> q \in Notices)
                           /\ (q \in Inspections' <=> q \in Inspections)
      /\ \A q \in Posted' : paper'[q] \in NoticeRow \cup InspectionRow
  BY <1>4, <1>7 DEF NoticesInv, Posted, Notices, Inspections
<1>9. ASSUME NEW q \in Papers PROVE StillMentioned(q)' = StillMentioned(q) /\ Converted(q)' = Converted(q)
  BY <1>1 DEF StillMentioned, Converted
<1>10. ASSUME NEW j \in Slots, req'[j] # Idle PROVE Extending(j)' \/ Naming(j)'
  <2>1. req'[j] = req[j] /\ (Extending(j) \/ Naming(j))
    BY <1>2, <1>10 DEF NoticesInv
  <2>2. req[j].paper \in Papers
    BY <2>1 DEF Extending, Naming, Inspections, Posted
  <2>3. Extending(j) => Extending(j)'
    BY <1>1, <1>2, <1>8, <1>9, <2>1, <2>2 DEF Extending
  <2>4. Naming(j) => Naming(j)'
    BY <1>8, <1>9, <2>1, <2>2 DEF Naming
  <2> QED  BY <2>1, <2>3, <2>4
<1>11. ASSUME NEW q \in Inspections', q \notin contested' PROVE InStep(q)'
  <2>1. q \in Papers /\ q \in Inspections /\ InStep(q) /\ q \notin contested
    BY <1>2, <1>8, <1>11 DEF NoticesInv, Inspections, Posted
  <2>2. CASE q = p
    <3>1. p \in Posted /\ x.kind = "inspection"
      BY <1>4, <2>1, <2>2 DEF Inspections
    <3> QED  BY <1>4, <1>5, <1>7, <1>9, <2>1, <2>2, <3>1 DEF InStep
  <2>3. CASE q # p
    <3>1. \A j \in Slots : ExtendsAt(j, q) => ExtendsAt(j, q)'
      BY <1>2, <1>6, <2>3 DEF ExtendsAt
    <3> QED  BY <1>7, <1>9, <2>1, <2>3, <3>1 DEF InStep
  <2> QED  BY <2>2, <2>3
<1>12. FollowUpsAre'
  <2>1. \A f \in followUps : f[1] \in Papers /\ f[1] \in Inspections
    BY DEF NoticesInv, FollowUpsAre
  <2> QED  BY <1>1, <1>8, <2>1 DEF FollowUpsAre, NoticesInv
<1>13. SettledIsThere'
  <2>1. ASSUME NEW q \in Papers, NEW d \in PaperColumns PROVE settled[q][d] \subseteq ColumnsOf(paper'[q])[d]
    <3>1. settled[q][d] \subseteq ColumnsOf(paper[q])[d]
      BY DEF NoticesInv, SettledIsThere
    <3>2. CASE q = p /\ p \in Posted
      BY <1>4, <1>5, <1>7, <3>1, <3>2
    <3>3. CASE ~(q = p /\ p \in Posted)
      BY <1>7, <3>1, <3>3
    <3> QED  BY <3>2, <3>3
  <2> QED  BY <1>1, <2>1 DEF NoticesInv, SettledIsThere
<1>14. \A q \in Papers \ contested' : AloneAt(q)'
  BY <1>2 DEF NoticesInv
<1>15. now' \in 1..MaxTime
  BY <1>1 DEF NoticesInv
<1> QED  BY <1>2, <1>7, <1>8, <1>10, <1>11, <1>12, <1>13, <1>14, <1>15 DEF NoticesInv

\* The result is what the manager named; what he left out is struck, and settled no more.
LEMMA ResultIsWritten ==
    ASSUME NoticesInv, NEW i \in Slots, WriteResult(i)
    PROVE  NoticesInv'
<1> DEFINE p == req[i].paper
           v == req[i].value
           x == Filled(paper[p], "result", v)
<1>1. /\ req[i] # Idle /\ req[i].op = "text" /\ Proceed(i, Idle) /\ now' = now /\ followUps' = followUps
      /\ struck' = {f \in struck : f[1] # p} \cup {f \in followUps : f[1] = p /\ f[2] \notin v}
      /\ settled' = [settled EXCEPT ![p].result = settled[p].result \cap v]
      /\ paper' = [paper EXCEPT ![p] = x]
  BY DEF WriteResult, End, Proceed, Filled
<1>2. /\ req'[i] = Idle /\ req' = [j \in Slots |-> req'[j]] /\ contested' = contested
      /\ \A j \in Slots : j # i => req'[j] = req[j]
      /\ \A row : AloneAt(row) => AloneAt(row)'
  BY <1>1, ProceedAlone DEF NoticesInv
<1>3. /\ p \in Inspections /\ p \in Papers /\ p \in Posted /\ req[i].rows = {p} /\ v \subseteq Converted(p)
      /\ v \in Takes("result")
  <2>1. Naming(i)
    BY <1>1 DEF NoticesInv, Extending, Naming
  <2> QED  BY <2>1 DEF Naming, Inspections, Posted, Converted, Takes
<1>4. paper[p] \in InspectionRow /\ "result" \in PaperColumns
  BY <1>3, PapersDiffer DEF NoticesInv, Inspections, PaperColumns
<1>5. AloneAt(p) \/ p \in contested
  BY <1>3 DEF NoticesInv
<1>6. i \in InFlight(p)
  BY <1>1, <1>3 DEF InFlight
<1>7. \A q : ~ExtendsAt(i, q)
  BY <1>1 DEF ExtendsAt
<1> HIDE DEF v, p
<1>8. /\ x \in InspectionRow /\ x.kind = "inspection" /\ x # NoPaper /\ x.result = v
      /\ \A d \in PaperColumns : ColumnsOf(x)[d] = IF d = "result" THEN v ELSE ColumnsOf(paper[p])[d]
  <2>1. paper[p].kind = "inspection"
    BY <1>4, PapersDiffer
  <2>2. /\ x \in NoticeRow \cup InspectionRow /\ x.kind = "inspection" /\ x.result = v
        /\ \A d \in PaperColumns : ColumnsOf(x)[d] = IF d = "result" THEN v ELSE ColumnsOf(paper[p])[d]
    BY <1>3, <1>4, <2>1, PaperIsFilled
  <2> QED  BY <2>2, PapersDiffer
<1> HIDE DEF x
<1>9. /\ paper' = [q \in Papers |-> paper'[q]] /\ paper'[p] = x /\ \A q \in Papers : q # p => paper'[q] = paper[q]
  BY <1>1, <1>3 DEF NoticesInv
<1>10. /\ \A q \in Papers : (q \in Posted' <=> q \in Posted) /\ (q \in Notices' <=> q \in Notices)
                            /\ (q \in Inspections' <=> q \in Inspections)
       /\ \A q \in Posted' : paper'[q] \in NoticeRow \cup InspectionRow
  BY <1>3, <1>8, <1>9, PapersDiffer DEF NoticesInv, Posted, Notices, Inspections
<1>11. /\ settled' \in [Papers -> Holdings] /\ \A q \in Papers : q # p => settled'[q] = settled[q]
       /\ \A d \in PaperColumns : settled'[p][d] = IF d = "result" THEN settled[p][d] \cap v ELSE settled[p][d]
  <2> DEFINE h == [settled[p] EXCEPT !.result = settled[p].result \cap v]
  <2>1. settled \in [Papers -> Holdings] /\ settled[p] \in Holdings
    BY <1>3 DEF NoticesInv, SettledIsThere
  <2>2. settled' = [settled EXCEPT ![p] = h]
    BY <1>1
  <2>3. h \in Holdings /\ \A d \in PaperColumns : h[d] = IF d = "result" THEN settled[p][d] \cap v ELSE settled[p][d]
    BY <1>4, <2>1 DEF Holdings
  <2> HIDE DEF h
  <2>4. settled'[p] = h /\ \A q \in Papers : q # p => settled'[q] = settled[q]
    BY <1>3, <2>1, <2>2
  <2> QED  BY <1>3, <2>1, <2>2, <2>3, <2>4
<1>12. /\ \A q \in Papers : Converted(q)' = Converted(q) /\ (q # p => StillMentioned(q)' = StillMentioned(q))
       /\ \A q \in Papers : q = p => StillMentioned(q)' = v
  <2>1. ASSUME NEW q \in Papers, NEW n \in 1..MaxFollowUps
        PROVE  <<q, n>> \in struck' <=> IF q = p THEN <<q, n>> \in followUps /\ n \notin v ELSE <<q, n>> \in struck
    <3>1. <<q, n>>[1] = q /\ <<q, n>>[2] = n
      OBVIOUS
    <3> QED  BY <1>1, <3>1
  <2>2. ASSUME NEW q \in Papers PROVE Converted(q)' = Converted(q) /\ (q # p => StillMentioned(q)' = StillMentioned(q))
    BY <1>1, <2>1 DEF Converted, StillMentioned
  <2>3. ASSUME NEW q \in Papers, q = p PROVE StillMentioned(q)' = v
    <3>1. v \subseteq Converted(q)
      BY <1>3, <2>3
    <3> QED  BY <1>1, <2>1, <2>3, <3>1 DEF Converted, StillMentioned
  <2> QED  BY <2>2, <2>3
<1>13. ASSUME NEW j \in Slots, req'[j] # Idle PROVE Extending(j)' \/ Naming(j)'
  <2>1. j # i /\ req'[j] = req[j] /\ (Extending(j) \/ Naming(j))
    BY <1>2, <1>13 DEF NoticesInv
  <2>2. req[j].paper \in Papers
    BY <2>1 DEF Extending, Naming, Inspections, Posted
  <2>3. ASSUME Extending(j) PROVE Extending(j)'
    <3>1. settled'[req[j].paper][req[j].column] \subseteq settled[req[j].paper][req[j].column]
      BY <1>11, <2>2, <2>3 DEF Extending
    <3>2. req[j].paper \notin contested => req[j].paper # p
      <4> SUFFICES ASSUME req[j].paper = p, p \notin contested PROVE FALSE
        OBVIOUS
      <4>1. j \in InFlight(p)
        BY <1>13, <2>1, <2>3 DEF InFlight, Extending
      <4> QED  BY <1>5, <1>6, <2>1, <4>1 DEF AloneAt
    <3> QED  BY <1>2, <1>10, <1>12, <2>1, <2>2, <2>3, <3>1, <3>2 DEF Extending
  <2>4. Naming(j) => Naming(j)'
    BY <1>10, <1>12, <2>1, <2>2 DEF Naming
  <2> QED  BY <2>1, <2>3, <2>4
<1>14. ASSUME NEW q \in Inspections', q \notin contested' PROVE InStep(q)'
  <2>1. q \in Papers /\ q \in Inspections /\ InStep(q)
    BY <1>2, <1>10, <1>14 DEF NoticesInv, Inspections, Posted
  <2>2. CASE q = p
    BY <1>8, <1>9, <1>12, <2>1, <2>2 DEF InStep
  <2>3. CASE q # p
    <3>1. \A j \in Slots : ExtendsAt(j, q) => ExtendsAt(j, q)'
      BY <1>2, <1>7 DEF ExtendsAt
    <3> QED  BY <1>9, <1>12, <2>1, <2>3, <3>1 DEF InStep
  <2> QED  BY <2>2, <2>3
<1>15. FollowUpsAre'
  <2>1. \A f \in followUps : f[1] \in Papers /\ f[1] \in Inspections
    BY DEF NoticesInv, FollowUpsAre
  <2>2. struck' \subseteq followUps
    BY <1>1 DEF NoticesInv, FollowUpsAre
  <2> QED  BY <1>1, <1>10, <2>1, <2>2 DEF FollowUpsAre, NoticesInv
<1>16. SettledIsThere'
  <2>1. ASSUME NEW q \in Papers, NEW d \in PaperColumns PROVE settled'[q][d] \subseteq ColumnsOf(paper'[q])[d]
    <3>1. settled[q][d] \subseteq ColumnsOf(paper[q])[d]
      BY DEF NoticesInv, SettledIsThere
    <3> QED  BY <1>8, <1>9, <1>11, <3>1
  <2> QED  BY <1>11, <2>1 DEF SettledIsThere
<1>17. \A q \in Papers \ contested' : AloneAt(q)'
  BY <1>2 DEF NoticesInv
<1>18. now' \in 1..MaxTime
  BY <1>1 DEF NoticesInv
<1> QED  BY <1>2, <1>9, <1>10, <1>13, <1>14, <1>15, <1>16, <1>17, <1>18 DEF NoticesInv

\* A request cut short leaves the paper contested.
LEMMA NoticeIsCutShort ==
    ASSUME NoticesInv, NEW i \in Slots, Cut(i), UNCHANGED noticeVars
    PROVE  NoticesInv'
<1>1. /\ req[i] # Idle /\ req' = [req EXCEPT ![i] = Idle] /\ contested' = contested \cup req[i].rows
      /\ UNCHANGED <<now, paper, followUps, struck, settled>>
  BY DEF Cut, noticeVars
<1>2. req'[i] = Idle /\ req' = [j \in Slots |-> req'[j]] /\ \A j \in Slots : j # i => req'[j] = req[j]
  BY <1>1 DEF NoticesInv
<1>3. Posted' = Posted /\ Notices' = Notices /\ Inspections' = Inspections
  BY <1>1 DEF Posted, Notices, Inspections
<1>4. ASSUME NEW x \in Papers PROVE StillMentioned(x)' = StillMentioned(x) /\ Converted(x)' = Converted(x)
  BY <1>1 DEF StillMentioned, Converted
<1>5. ASSUME NEW j \in Slots, req'[j] # Idle PROVE Extending(j)' \/ Naming(j)'
  <2>1. req'[j] = req[j] /\ (Extending(j) \/ Naming(j))
    BY <1>2, <1>5 DEF NoticesInv
  <2>2. req[j].paper \in Papers
    BY <2>1 DEF Extending, Naming, Inspections, Posted
  <2>3. Extending(j) => Extending(j)'
    BY <1>1, <1>3, <1>4, <2>1, <2>2 DEF Extending
  <2>4. Naming(j) => Naming(j)'
    BY <1>3, <1>4, <2>1, <2>2 DEF Naming
  <2> QED  BY <2>1, <2>3, <2>4
<1>6. \A j \in Slots : \A row : j \in InFlight(row)' => j \in InFlight(row)
  BY <1>2 DEF InFlight
<1>7. \A x \in Papers \ contested' : AloneAt(x)'
  BY <1>1, <1>6 DEF NoticesInv, AloneAt
<1>8. ASSUME NEW x \in Inspections', x \notin contested' PROVE InStep(x)'
  <2>1. InStep(x) /\ x \in Papers
    BY <1>1, <1>3, <1>8 DEF NoticesInv, Inspections, Posted
  <2>2. req[i].paper # x
    <3>1. req[i].rows = {req[i].paper}
      BY <1>1 DEF NoticesInv, Extending, Naming
    <3> QED  BY <1>1, <1>8, <3>1
  <2>3. \A j \in Slots : ExtendsAt(j, x) => ExtendsAt(j, x)'
    BY <1>2, <2>2 DEF ExtendsAt
  <2> QED  BY <1>1, <1>4, <2>1, <2>3 DEF InStep
<1>9. FollowUpsAre' /\ SettledIsThere'
  BY <1>1, <1>3 DEF NoticesInv, FollowUpsAre, SettledIsThere
<1>10. \A x \in Posted' : paper'[x] \in NoticeRow \cup InspectionRow
  BY <1>1, <1>3 DEF NoticesInv
<1>11. now' \in 1..MaxTime /\ paper' = [x \in Papers |-> paper'[x]]
  BY <1>1 DEF NoticesInv
<1> QED  BY <1>2, <1>5, <1>7, <1>8, <1>9, <1>10, <1>11 DEF NoticesInv

LEMMA NoticesStay ==
    ASSUME NoticesInv, NoticesNext
    PROVE  NoticesInv'
<1>1. ASSUME NEW i \in Slots, NoticesStep(i) PROVE NoticesInv'
  BY <1>1, NoticeIsSeen, InspectionIsConverted, ResultIsNamed, ColumnIsWritten, ResultIsWritten DEF NoticesStep
<1> QED  BY <1>1, PaperIsPosted, NoticeIsDeleted, NoticeIsCutShort DEF NoticesNext

LEMMA NoticesInitially == Init => NoticesKept
<1> SUFFICES ASSUME Init PROVE NoticesKept
  OBVIOUS
<1>1. /\ paper = [p \in Papers |-> NoPaper] /\ followUps = {} /\ struck = {} /\ settled = [p \in Papers |-> Blank]
      /\ req = [i \in Slots |-> Idle] /\ contested = {} /\ now = 1
  BY DEF Init, NoticesInit, RequestsInit
<1>2. Posted = {} /\ Inspections = {} /\ 1 \in 1..MaxTime
  BY <1>1, MaxTimeNat DEF Posted, Inspections
<1>3. SettledIsThere /\ FollowUpsAre
  BY <1>1 DEF SettledIsThere, FollowUpsAre, Holdings, Blank
<1> QED  BY <1>1, <1>2, <1>3 DEF NoticesKept, NoticesInv, AloneAt, InFlight

LEMMA NoticesStayKept == NoticesKept /\ [Next]_premisesVars => NoticesKept'
<1> SUFFICES ASSUME NoticesKept, [Next]_premisesVars PROVE NoticesKept'
  OBVIOUS
<1>1. CASE Next
  BY <1>1, DesksApart, NoticesStay DEF NoticesKept, noticeVars
<1>2. CASE UNCHANGED premisesVars
  <2>1. UNCHANGED <<desk, req, contested, now, paper, followUps, struck, settled>>
    BY <1>2 DEF premisesVars, requestVars, noticeVars
  <2>2. Posted' = Posted /\ Notices' = Notices /\ Inspections' = Inspections /\ \A p : AloneAt(p) => AloneAt(p)'
    BY <2>1 DEF Posted, Notices, Inspections, AloneAt, InFlight
  <2>3. \A p : StillMentioned(p)' = StillMentioned(p) /\ Converted(p)' = Converted(p)
    BY <2>1 DEF StillMentioned, Converted
  <2>4. \A j \in Slots : (Extending(j) => Extending(j)') /\ (Naming(j) => Naming(j)')
    BY <2>1, <2>2, <2>3 DEF Extending, Naming
  <2>5. \A p : InStep(p) => InStep(p)'
    BY <2>1, <2>3 DEF InStep, ExtendsAt
  <2>6. NoticesInv => FollowUpsAre' /\ SettledIsThere'
    BY <2>1, <2>2 DEF NoticesInv, FollowUpsAre, SettledIsThere
  <2> QED  BY <2>1, <2>2, <2>4, <2>5, <2>6 DEF NoticesKept, NoticesInv
<1> QED  BY <1>1, <1>2

\* What is settled at a paper is there; and at an inspection nobody contests and nobody
\* is at, the result mentions what is left.
LEMMA AcksAreKept == NoticesInv => AcksKept
<1> SUFFICES ASSUME NoticesInv PROVE AcksKept
  OBVIOUS
<1>1. ASSUME NEW p \in Inspections, p \notin contested, InFlight(p) = {}
      PROVE  paper[p].result = StillMentioned(p)
  <2>1. InStep(p)
    BY <1>1 DEF NoticesInv
  <2>2. ASSUME NEW j \in Slots, ExtendsAt(j, p) PROVE FALSE
    <3>1. Extending(j) \/ Naming(j)
      BY <2>2 DEF ExtendsAt, NoticesInv
    <3>2. j \in InFlight(p)
      BY <2>2, <3>1 DEF ExtendsAt, Extending, Naming, InFlight
    <3> QED  BY <1>1, <3>2
  <2> QED  BY <2>1, <2>2 DEF InStep
<1> QED  BY <1>1 DEF AcksKept, StillMentioned, NoticesInv, SettledIsThere

AcksStand == desk = "notices" => AcksKept

LEMMA AcksStandThere == NoticesKept => AcksStand
BY AcksAreKept DEF NoticesKept, AcksStand

-----------------------------------------------------------------------------
(***************************************************************************)
(* Office areas.  A request at an area nobody contests knows its owner,    *)
(* and one about to delete it has found it empty still.                    *)
(***************************************************************************)

AskedRow == [area : Areas, id : 1..MaxFiled, order : NoOrder..MaxFiled, status : {"PENDING", "IN_PROGRESS"}]
WorkOrderRow == [area : Areas \cup {NoArea}, worker : Staff \cup {Nobody}]

AtArea(i) ==
    /\ req[i] # Idle /\ req[i].area \in Areas /\ req[i].rows = {req[i].area}
    /\ req[i].op \in {"area", "deleteArea", "ask", "order"}
    /\ req[i].op \in {"area", "ask"} => req[i].owner \in Staff \cup {Nobody}
    /\ req[i].area \notin contested =>
          /\ req[i].op = "deleteArea" => \A q \in asked : q.area # req[i].area
          /\ req[i].op = "ask" => area[req[i].area] = req[i].owner

OfficeInv ==
    /\ now \in 1..MaxTime
    /\ area \in [Areas -> Staff \cup {Nobody, NoArea}]
    /\ asked \subseteq AskedRow /\ IsFiniteSet(asked)
    /\ order \in Seq(WorkOrderRow) /\ Len(order) <= MaxFiled
    /\ req = [i \in Slots |-> req[i]]
    /\ \A i \in Slots : req[i] = Idle \/ AtArea(i)
    /\ \A a \in Areas \ contested : AloneAt(a)

OfficeKept ==
    /\ desk = "office" => OfficeInv
    /\ desk # "office" => area = [a \in Areas |-> NoArea] /\ asked = {} /\ order = <<>>

\* A number for one more request is found while there is room.
LEMMA AnIdIsFree ==
    ASSUME asked \subseteq AskedRow, IsFiniteSet(asked), Cardinality(asked) < MaxFiled
    PROVE  \E n \in 1..MaxFiled : \A q \in asked : q.id # n
<1> SUFFICES ASSUME \A n \in 1..MaxFiled : \E q \in asked : q.id = n PROVE FALSE
  OBVIOUS
<1> DEFINE f == [q \in asked |-> q.id]
<1>1. \A q \in asked : q.id \in 1..MaxFiled
  BY DEF AskedRow
<1>2. f \in [asked -> 1..MaxFiled] /\ \A n \in 1..MaxFiled : \E q \in asked : f[q] = n
  BY <1>1
<1> HIDE DEF f
<1>3. f \in Surjection(asked, 1..MaxFiled)
  BY <1>2 DEF Surjection
<1>4. Cardinality(1..MaxFiled) <= Cardinality(asked)
  BY <1>3, FS_Surjection
<1>5. Cardinality(1..MaxFiled) = MaxFiled
  BY FS_Interval, MaxFiledNat
<1>6. Cardinality(asked) \in Nat
  BY FS_CardinalityType
<1> QED  BY <1>4, <1>5, <1>6, MaxFiledNat

\* A request that reads an area goes on alone there.
LEMMA OfficeBegins ==
    ASSUME OfficeInv, NEW i \in Slots, NEW r, Begin(i, r), r # Idle, UNCHANGED officeVars, AtArea(i)'
    PROVE  OfficeInv'
<1>1. /\ req[i] = Idle /\ req'[i] = r /\ req' = [j \in Slots |-> req'[j]] /\ contested \subseteq contested' /\ now' = now
      /\ \A j \in Slots : j # i => req'[j] = req[j]
      /\ \A row : AloneAt(row) /\ row \notin contested' => AloneAt(row)'
  BY BeginAlone DEF OfficeInv, Begin
<1>2. area' = area /\ asked' = asked /\ order' = order
  BY DEF officeVars
<1>3. ASSUME NEW j \in Slots, j # i, req'[j] # Idle PROVE AtArea(j)'
  BY <1>1, <1>2, <1>3 DEF OfficeInv, AtArea
<1>4. \A a \in Areas \ contested' : AloneAt(a)'
  BY <1>1 DEF OfficeInv
<1> QED  BY <1>1, <1>2, <1>3, <1>4 DEF OfficeInv

\* A request is over; where it was alone nobody is left, elsewhere everybody sees what he saw.
LEMMA OfficeGoesOn ==
    ASSUME OfficeInv, NEW i \in Slots, req[i] # Idle, End(i),
           area' \in [Areas -> Staff \cup {Nobody, NoArea}], asked' \subseteq AskedRow, IsFiniteSet(asked'),
           order' \in Seq(WorkOrderRow), Len(order') <= MaxFiled,
           \A a \in Areas : a # req[i].area => area'[a] = area[a],
           \A q \in asked' : q \in asked \/ q.area = req[i].area
    PROVE  OfficeInv'
<1>1. /\ req'[i] = Idle /\ req' = [j \in Slots |-> req'[j]] /\ contested' = contested /\ now' = now
      /\ \A j \in Slots : j # i => req'[j] = req[j]
      /\ \A row : AloneAt(row) => AloneAt(row)'
  BY ProceedAlone DEF OfficeInv, End, Proceed
<1>2. AtArea(i)
  BY DEF OfficeInv
<1>3. ASSUME NEW j \in Slots, req'[j] # Idle PROVE AtArea(j)'
  <2>1. j # i /\ req'[j] = req[j] /\ AtArea(j)
    BY <1>1, <1>3 DEF OfficeInv
  <2>2. req[j].area \notin contested => req[j].area # req[i].area
    <3> SUFFICES ASSUME req[j].area = req[i].area, req[j].area \notin contested PROVE FALSE
      OBVIOUS
    <3>1. i \in InFlight(req[i].area) /\ j \in InFlight(req[i].area) /\ req[i].area \in Areas
      BY <1>1, <1>2, <1>3, <2>1 DEF InFlight, AtArea
    <3> QED  BY <2>1, <3>1 DEF OfficeInv, AloneAt
  <2> QED  BY <1>1, <2>1, <2>2 DEF AtArea
<1>4. \A a \in Areas \ contested' : AloneAt(a)'
  BY <1>1 DEF OfficeInv
<1> QED  BY <1>1, <1>3, <1>4 DEF OfficeInv

\* A statement of its own at an area: whoever is there contests it.
LEMMA OfficeOnce ==
    ASSUME OfficeInv, NEW a \in Areas, Once(a),
           area' \in [Areas -> Staff \cup {Nobody, NoArea}], asked' \subseteq AskedRow, IsFiniteSet(asked'),
           order' = order,
           \A x \in Areas : x # a => area'[x] = area[x],
           \A q \in asked' : q \in asked \/ q.area = a
    PROVE  OfficeInv'
<1>1. UNCHANGED <<req, now>> /\ contested \subseteq contested' /\ (a \notin contested' => InFlight(a) = {})
  BY MeetContests DEF Once
<1>2. ASSUME NEW j \in Slots, req'[j] # Idle PROVE AtArea(j)'
  <2>1. req'[j] = req[j] /\ AtArea(j)
    BY <1>1, <1>2 DEF OfficeInv
  <2>2. req[j].area \notin contested' => req[j].area # a
    BY <1>1, <1>2, <2>1 DEF InFlight, AtArea
  <2> QED  BY <1>1, <2>1, <2>2 DEF AtArea
<1>3. \A x \in Areas \ contested' : AloneAt(x)'
  BY <1>1 DEF OfficeInv, AloneAt, InFlight
<1> QED  BY <1>1, <1>2, <1>3 DEF OfficeInv

LEMMA AreaIsOpened ==
    ASSUME OfficeInv, NEW a \in Areas, CreateArea(a)
    PROVE  OfficeInv'
<1>1. PICK o \in Staff \cup {Nobody} : area' = [area EXCEPT ![a] = o]
  BY DEF CreateArea
<1>2. Once(a) /\ asked' = asked /\ order' = order
  BY DEF CreateArea
<1>3. area' \in [Areas -> Staff \cup {Nobody, NoArea}] /\ \A x \in Areas : x # a => area'[x] = area[x]
  BY <1>1 DEF OfficeInv
<1>4. asked' \subseteq AskedRow /\ IsFiniteSet(asked')
  BY <1>2 DEF OfficeInv
<1> QED  BY <1>2, <1>3, <1>4, OfficeOnce

LEMMA OrderIsLinked ==
    ASSUME OfficeInv, NEW q \in asked, NEW o \in DOMAIN order, LinkOrder(q, o)
    PROVE  OfficeInv'
<1> DEFINE p == [q EXCEPT !.order = o]
<1>1. asked' = (asked \ {q}) \cup {p} /\ Once(q.area) /\ area' = area /\ order' = order
  BY DEF LinkOrder
<1>2. q \in AskedRow /\ o \in NoOrder..MaxFiled
  BY MaxFiledNat DEF OfficeInv, NoOrder
<1>3. p \in AskedRow /\ p.area = q.area /\ q.area \in Areas
  BY <1>2 DEF AskedRow
<1> HIDE DEF p
<1>4. IsFiniteSet(asked')
  <2>1. IsFiniteSet(asked \ {q})
    BY FS_RemoveElement DEF OfficeInv
  <2> QED  BY <1>1, <2>1, FS_AddElement
<1>5. asked' \subseteq AskedRow /\ area' \in [Areas -> Staff \cup {Nobody, NoArea}]
  BY <1>1, <1>3 DEF OfficeInv
<1> QED  BY <1>1, <1>3, <1>4, <1>5, OfficeOnce

LEMMA AreaIsTaken ==
    ASSUME OfficeInv, NEW i \in Slots, NEW a \in Areas,
           UpdateArea(i, a) \/ DeleteArea(i, a) \/ CreateWorkOrder(i, a) \/ BeginAsk(i, a)
    PROVE  OfficeInv'
<1>1. PICK r : /\ Begin(i, r) /\ UNCHANGED officeVars /\ r.rows = {a} /\ r.area = a /\ r # Idle
               /\ r.op \in {"area", "deleteArea", "ask", "order"}
               /\ r.op \in {"area", "ask"} => r.owner \in Staff \cup {Nobody}
               /\ r.op = "deleteArea" => AskedIn(a) = {}
               /\ r.op = "ask" => area[a] = r.owner
  <2>1. ASSUME NEW o \in Staff \cup {Nobody},
               Begin(i, [op |-> "area", rows |-> {a}, area |-> a, owner |-> o]), UNCHANGED officeVars
        PROVE  \E r : /\ Begin(i, r) /\ UNCHANGED officeVars /\ r.rows = {a} /\ r.area = a /\ r # Idle
                      /\ r.op \in {"area", "deleteArea", "ask", "order"}
                      /\ r.op \in {"area", "ask"} => r.owner \in Staff \cup {Nobody}
                      /\ r.op = "deleteArea" => AskedIn(a) = {}
                      /\ r.op = "ask" => area[a] = r.owner
    <3> DEFINE r == [op |-> "area", rows |-> {a}, area |-> a, owner |-> o]
    <3>1. r # Idle /\ r.op = "area" /\ r.rows = {a} /\ r.area = a /\ r.owner = o
      BY DEF Idle
    <3>2. Begin(i, r)
      BY <2>1
    <3> HIDE DEF r
    <3> QED  BY <2>1, <3>1, <3>2
  <2>2. CASE UpdateArea(i, a)
    BY <2>1, <2>2 DEF UpdateArea
  <2>3. CASE DeleteArea(i, a)
    <3> DEFINE r == [op |-> "deleteArea", rows |-> {a}, area |-> a]
    <3>1. r # Idle /\ r.op = "deleteArea" /\ r.rows = {a} /\ r.area = a
      BY DEF Idle
    <3>2. Begin(i, r) /\ UNCHANGED officeVars /\ AskedIn(a) = {}
      BY <2>3 DEF DeleteArea
    <3> HIDE DEF r
    <3> QED  BY <3>1, <3>2
  <2>4. CASE CreateWorkOrder(i, a)
    <3> DEFINE r == [op |-> "order", rows |-> {a}, area |-> a]
    <3>1. r # Idle /\ r.op = "order" /\ r.rows = {a} /\ r.area = a
      BY DEF Idle
    <3>2. Begin(i, r) /\ UNCHANGED officeVars
      BY <2>4 DEF CreateWorkOrder
    <3> HIDE DEF r
    <3> QED  BY <3>1, <3>2
  <2>5. CASE BeginAsk(i, a)
    <3> DEFINE r == [op |-> "ask", rows |-> {a}, area |-> a, owner |-> area[a]]
    <3>1. r # Idle /\ r.op = "ask" /\ r.rows = {a} /\ r.area = a /\ r.owner = area[a]
      BY DEF Idle
    <3>2. Begin(i, r) /\ UNCHANGED officeVars /\ area[a] \in Staff \cup {Nobody}
      BY <2>5 DEF BeginAsk, Open, OfficeInv
    <3> HIDE DEF r
    <3> QED  BY <3>1, <3>2
  <2> QED  BY <2>2, <2>3, <2>4, <2>5
<1>2. req'[i] = r /\ area' = area /\ asked' = asked
  BY <1>1, BeginAlone DEF OfficeInv, officeVars
<1>3. AtArea(i)'
  BY <1>1, <1>2 DEF AtArea, AskedIn
<1> QED  BY <1>1, <1>3, OfficeBegins

LEMMA AreaIsWritten ==
    ASSUME OfficeInv, NEW i \in Slots, WriteArea(i) \/ RemoveArea(i)
    PROVE  OfficeInv'
<1>1. req[i] # Idle /\ End(i) /\ AtArea(i)
  BY DEF WriteArea, RemoveArea, OfficeInv
<1> DEFINE a == req[i].area
<1>2. a \in Areas /\ (req[i].op = "area" => req[i].owner \in Staff \cup {Nobody})
  BY <1>1 DEF AtArea
<1>3. CASE WriteArea(i)
  <2>1. /\ area' = (IF area[a] = NoArea THEN area ELSE [area EXCEPT ![a] = req[i].owner])
        /\ req[i].owner \in Staff \cup {Nobody} /\ asked' = asked /\ order' = order
    BY <1>2, <1>3 DEF WriteArea
  <2>2. area' \in [Areas -> Staff \cup {Nobody, NoArea}] /\ \A x \in Areas : x # a => area'[x] = area[x]
    BY <1>2, <2>1 DEF OfficeInv
  <2> QED  BY <1>1, <2>1, <2>2, OfficeGoesOn DEF OfficeInv
<1>4. CASE RemoveArea(i)
  <2>1. /\ area' = [area EXCEPT ![a] = NoArea] /\ asked' = asked \ AskedIn(a)
        /\ order' = [o \in DOMAIN order |->
                        IF order[o].area = a THEN [order[o] EXCEPT !.area = NoArea] ELSE order[o]]
    BY <1>4 DEF RemoveArea
  <2>2. area' \in [Areas -> Staff \cup {Nobody, NoArea}] /\ \A x \in Areas : x # a => area'[x] = area[x]
    BY <1>2, <2>1 DEF OfficeInv
  <2>3. order' \in Seq(WorkOrderRow) /\ Len(order') = Len(order)
    <3>1. \A o \in DOMAIN order : order[o] \in WorkOrderRow
      BY DEF OfficeInv
    <3>2. \A x \in WorkOrderRow : [x EXCEPT !.area = NoArea] \in WorkOrderRow
      BY DEF WorkOrderRow
    <3> DEFINE row(o) == IF order[o].area = a THEN [order[o] EXCEPT !.area = NoArea] ELSE order[o]
    <3>3. \A o \in 1..Len(order) : row(o) \in WorkOrderRow
      BY <3>1, <3>2 DEF OfficeInv
    <3>4. order' = [o \in 1..Len(order) |-> row(o)] /\ Len(order) \in Nat
      BY <2>1 DEF OfficeInv
    <3> HIDE DEF row
    <3> QED  BY <3>3, <3>4
  <2>4. asked' \subseteq asked /\ IsFiniteSet(asked')
    BY <2>1, FS_Difference DEF OfficeInv
  <2> QED  BY <1>1, <2>2, <2>3, <2>4, OfficeGoesOn DEF OfficeInv
<1> QED  BY <1>3, <1>4

LEMMA WorkOrderIsMade ==
    ASSUME OfficeInv, NEW i \in Slots, WriteWorkOrder(i) \/ (Abort(i) /\ UNCHANGED officeVars)
    PROVE  OfficeInv'
<1>1. req[i] # Idle /\ End(i) /\ area' = area /\ asked' = asked
  BY DEF WriteWorkOrder, Abort, officeVars
<1>2. order' = order \/ \E w \in Staff \cup {Nobody} :
                            /\ order' = Append(order, [area |-> req[i].area, worker |-> w])
                            /\ Len(order) < MaxFiled /\ req[i].area \in Areas
  BY DEF WriteWorkOrder, Abort, officeVars, Open
<1>3. order' \in Seq(WorkOrderRow) /\ Len(order') <= MaxFiled
  <2>1. CASE order' = order
    BY <2>1 DEF OfficeInv
  <2>2. CASE order' # order
    <3>1. PICK w \in Staff \cup {Nobody} : /\ order' = Append(order, [area |-> req[i].area, worker |-> w])
                                           /\ Len(order) < MaxFiled /\ req[i].area \in Areas
      BY <1>2, <2>2
    <3>2. [area |-> req[i].area, worker |-> w] \in WorkOrderRow
      BY <3>1 DEF WorkOrderRow
    <3> QED  BY <3>1, <3>2, MaxFiledNat DEF OfficeInv
  <2> QED  BY <2>1, <2>2
<1> QED  BY <1>1, <1>3, OfficeGoesOn DEF OfficeInv

\* The row of a request that is filed, and the order that comes with it.
LEMMA RequestIsAsked ==
    ASSUME OfficeInv, NEW i \in Slots, FileRequest(i), req[i].area \in Open
    PROVE  \E p \in AskedRow :
              /\ asked' = asked \cup {p} /\ p.area = req[i].area /\ area' = area
              /\ req[i].owner = Nobody => p.order = NoOrder /\ order' = order
              /\ req[i].owner # Nobody => /\ p.order = Len(order) + 1 /\ Len(order) < MaxFiled
                                          /\ order' = Append(order, [area |-> req[i].area, worker |-> req[i].owner])
<1> DEFINE a == req[i].area
           o == req[i].owner
           n == CHOOSE n \in 1..MaxFiled : \A q \in asked : q.id # n
           row == [area |-> a, order |-> NoOrder, status |-> "PENDING", id |-> n]
           made == [row EXCEPT !.order = Len(order'), !.status = "IN_PROGRESS"]
<1>1. /\ Cardinality(asked) < MaxFiled /\ Len(order) < MaxFiled /\ area' = area
      /\ o = Nobody => asked' = asked \cup {row} /\ order' = order
      /\ o # Nobody => asked' = asked \cup {made} /\ order' = Append(order, [area |-> a, worker |-> o])
  BY DEF FileRequest
<1>2. n \in 1..MaxFiled
  <2>1. \E m \in 1..MaxFiled : \A q \in asked : q.id # m
    BY <1>1, AnIdIsFree DEF OfficeInv
  <2> QED  BY <2>1
<1> HIDE DEF n
<1>3. a \in Areas
  BY DEF Open
<1> HIDE DEF a, o
<1>4. CASE o = Nobody
  <2>1. row \in AskedRow
    BY <1>2, <1>3, MaxFiledNat DEF AskedRow, NoOrder
  <2>2. row.area = a /\ row.order = NoOrder
    OBVIOUS
  <2> HIDE DEF row
  <2> QED  BY <1>1, <1>4, <2>1, <2>2 DEF a, o
<1>5. CASE o # Nobody
  <2>1. Len(order') = Len(order) + 1 /\ Len(order') \in 1..MaxFiled
    BY <1>1, <1>5, MaxFiledNat DEF OfficeInv
  <2>2. row \in AskedRow /\ row.area = a
    BY <1>2, <1>3, MaxFiledNat DEF AskedRow, NoOrder
  <2> HIDE DEF row
  <2> DEFINE m == Len(order')
  <2>3. m \in NoOrder..MaxFiled
    BY <2>1 DEF NoOrder
  <2> HIDE DEF m
  <2>4. made = [row EXCEPT !.order = m, !.status = "IN_PROGRESS"]
    BY DEF m
  <2> HIDE DEF made
  <2>5. made \in AskedRow /\ made.area = a /\ made.order = m
    BY <2>2, <2>3, <2>4 DEF AskedRow
  <2> QED  BY <1>1, <1>5, <2>1, <2>5 DEF a, o, m
<1> QED  BY <1>4, <1>5

LEMMA RequestIsFiledInArea ==
    ASSUME OfficeInv, NEW i \in Slots, FileRequest(i)
    PROVE  OfficeInv'
<1>1. req[i] # Idle /\ req[i].op = "ask" /\ End(i)
  BY DEF FileRequest
<1>2. CASE req[i].area \notin Open
  <2>1. area' = area /\ asked' = asked /\ order' = order
    BY <1>2 DEF FileRequest, officeVars
  <2> QED  BY <1>1, <2>1, OfficeGoesOn DEF OfficeInv
<1>3. CASE req[i].area \in Open
  <2>1. PICK p \in AskedRow :
          /\ asked' = asked \cup {p} /\ p.area = req[i].area /\ area' = area
          /\ req[i].owner = Nobody => p.order = NoOrder /\ order' = order
          /\ req[i].owner # Nobody => /\ p.order = Len(order) + 1 /\ Len(order) < MaxFiled
                                      /\ order' = Append(order, [area |-> req[i].area, worker |-> req[i].owner])
    BY <1>3, RequestIsAsked
  <2>2. req[i].area \in Areas /\ req[i].owner \in Staff \cup {Nobody}
    <3>1. AtArea(i)
      BY <1>1 DEF OfficeInv
    <3> QED  BY <1>1, <3>1 DEF AtArea
  <2>3. [area |-> req[i].area, worker |-> req[i].owner] \in WorkOrderRow
    BY <2>2 DEF WorkOrderRow
  <2>4. order' \in Seq(WorkOrderRow) /\ Len(order') <= MaxFiled
    BY <2>1, <2>3, MaxFiledNat DEF OfficeInv
  <2>5. IsFiniteSet(asked') /\ asked' \subseteq AskedRow
    BY <2>1, FS_AddElement DEF OfficeInv
  <2> QED  BY <1>1, <2>1, <2>4, <2>5, OfficeGoesOn DEF OfficeInv
<1> QED  BY <1>2, <1>3

LEMMA OfficeStays ==
    ASSUME OfficeInv, OfficeNext
    PROVE  OfficeInv'
<1>1. CASE CreateRequestType \/ DeactivateRequestType
  <2>1. UNCHANGED <<req, contested, now, area, asked, order>>
    BY <1>1 DEF CreateRequestType, DeactivateRequestType, requestVars
  <2> QED  BY <2>1 DEF OfficeInv, AtArea, AloneAt, InFlight
<1>2. ASSUME NEW i \in Slots, OfficeStep(i) PROVE OfficeInv'
  BY <1>2, AreaIsTaken, AreaIsWritten, WorkOrderIsMade, RequestIsFiledInArea
  DEF OfficeStep, CreateRequest, CreatePublicRequest
<1> QED  BY <1>1, <1>2, AreaIsOpened, OrderIsLinked, WorkOrderIsMade DEF OfficeNext

LEMMA OfficeInitially == Init => OfficeKept
<1> SUFFICES ASSUME Init PROVE OfficeKept
  OBVIOUS
<1>1. /\ area = [a \in Areas |-> NoArea] /\ asked = {} /\ order = <<>> /\ req = [i \in Slots |-> Idle]
      /\ contested = {} /\ now = 1
  BY DEF Init, OfficeInit, RequestsInit
<1>2. /\ 1 \in 1..MaxTime /\ IsFiniteSet({}) /\ order \in Seq(WorkOrderRow) /\ Len(order) <= MaxFiled
      /\ area \in [Areas -> Staff \cup {Nobody, NoArea}]
  BY <1>1, MaxTimeNat, MaxFiledNat, FS_EmptySet
<1> QED  BY <1>1, <1>2 DEF OfficeKept, OfficeInv, AloneAt, InFlight

LEMMA OfficeStaysKept == OfficeKept /\ [Next]_premisesVars => OfficeKept'
<1> SUFFICES ASSUME OfficeKept, [Next]_premisesVars PROVE OfficeKept'
  OBVIOUS
<1>1. CASE Next
  BY <1>1, DesksApart, OfficeStays DEF OfficeKept, officeVars
<1>2. CASE UNCHANGED premisesVars
  <2>1. UNCHANGED <<desk, req, contested, now, area, asked, order>>
    BY <1>2 DEF premisesVars, requestVars, officeVars
  <2> QED  BY <2>1 DEF OfficeKept, OfficeInv, AtArea, AloneAt, InFlight
<1> QED  BY <1>1, <1>2

\* A step takes no request out of an area nobody contests, and opens the order of the
\* owner with the request it files there.
LEMMA OfficeKeepsRequests ==
    ASSUME OfficeInv, OfficeNext
    PROVE  RequestsKept
<1> SUFFICES ASSUME NEW a \in Areas, a \notin contested'
             PROVE  /\ \A q \in asked : q.area = a => \E p \in asked' : p.area = a /\ p.id = q.id
                    /\ \A p \in asked' : p.area = a /\ (\A q \in asked : q.id # p.id)
                          => IF area[a] = Nobody THEN p.order = NoOrder
                             ELSE p.order # NoOrder /\ order'[p.order] = [area |-> a, worker |-> area[a]]
  BY DEF RequestsKept, AskedIn
<1>1. CASE asked' = asked
  BY <1>1
<1>2. ASSUME NEW q \in asked, NEW o \in DOMAIN order, LinkOrder(q, o)
      PROVE  /\ \A x \in asked : x.area = a => \E p \in asked' : p.area = a /\ p.id = x.id
             /\ \A p \in asked' : \E x \in asked : x.id = p.id
  <2> DEFINE p == [q EXCEPT !.order = o]
  <2>1. asked' = (asked \ {q}) \cup {p}
    BY <1>2 DEF LinkOrder
  <2>2. p.area = q.area /\ p.id = q.id
    BY DEF OfficeInv, AskedRow
  <2> HIDE DEF p
  <2> QED  BY <2>1, <2>2
<1>3. ASSUME NEW i \in Slots, RemoveArea(i)
      PROVE  asked' \subseteq asked /\ \A q \in asked : q.area = a => q \in asked'
  <2>1. /\ req[i] # Idle /\ req[i].op = "deleteArea" /\ asked' = asked \ AskedIn(req[i].area) /\ contested' = contested
    BY <1>3 DEF RemoveArea, End, Proceed
  <2>2. AtArea(i)
    BY <2>1 DEF OfficeInv
  <2> QED  BY <2>1, <2>2 DEF AtArea, AskedIn
<1>4. ASSUME NEW i \in Slots, FileRequest(i), req[i].area \in Open
      PROVE  /\ asked \subseteq asked'
             /\ \A p \in asked' : p.area = a /\ p \notin asked
                   => IF area[a] = Nobody THEN p.order = NoOrder
                      ELSE p.order # NoOrder /\ order'[p.order] = [area |-> a, worker |-> area[a]]
  <2>1. PICK p \in AskedRow :
          /\ asked' = asked \cup {p} /\ p.area = req[i].area /\ area' = area
          /\ req[i].owner = Nobody => p.order = NoOrder /\ order' = order
          /\ req[i].owner # Nobody => /\ p.order = Len(order) + 1 /\ Len(order) < MaxFiled
                                      /\ order' = Append(order, [area |-> req[i].area, worker |-> req[i].owner])
    BY <1>4, RequestIsAsked
  <2>2. req[i] # Idle /\ req[i].op = "ask" /\ contested' = contested
    BY <1>4 DEF FileRequest, End, Proceed
  <2>3. AtArea(i)
    BY <2>2 DEF OfficeInv
  <2>4. req[i].area = a => area[a] = req[i].owner
    BY <2>2, <2>3 DEF AtArea
  <2>5. Len(order) \in Nat /\ Len(order) + 1 # NoOrder
    BY DEF OfficeInv, NoOrder
  <2>6. req[i].owner # Nobody => order'[Len(order) + 1] = [area |-> req[i].area, worker |-> req[i].owner]
    BY <2>1, <2>5 DEF OfficeInv
  <2> QED  BY <2>1, <2>4, <2>5, <2>6
<1>5. \/ asked' = asked
      \/ \E q \in asked, o \in DOMAIN order : LinkOrder(q, o)
      \/ \E i \in Slots : RemoveArea(i)
      \/ \E i \in Slots : FileRequest(i) /\ req[i].area \in Open
  BY DEF OfficeNext, OfficeStep, CreateArea, CreateRequestType, DeactivateRequestType, UpdateArea, DeleteArea,
         CreateRequest, CreatePublicRequest, BeginAsk, CreateWorkOrder, WriteArea, WriteWorkOrder, FileRequest, officeVars
<1>6. CASE \E q \in asked, o \in DOMAIN order : LinkOrder(q, o)
  BY <1>2, <1>6
<1>7. CASE \E i \in Slots : RemoveArea(i)
  BY <1>3, <1>7
<1>8. CASE \E i \in Slots : FileRequest(i) /\ req[i].area \in Open
  BY <1>4, <1>8
<1> QED  BY <1>1, <1>5, <1>6, <1>7, <1>8

-----------------------------------------------------------------------------

\* What somebody handed in is not lost without a word nor doubled by any step of any
\* number of requests: a request with its area, an acknowledgement that was there before,
\* what came of an inspection unless a manager writes its result anew, a request a manager
\* files twice, a decision by an edit of its text.
THEOREM NothingHandedInIsLost == Spec => NothingIsLost
<1>1. /\ OfficeKept /\ AcksStand' /\ FilingKept' /\ TicketsKept /\ [Next]_premisesVars =>
         [CASE desk = "office" -> RequestsKept
            [] desk = "notices" -> AcksKept'
            [] desk = "filing" -> FiledOnce'
            [] desk = "tickets" -> EditsKeepTheDecision
            [] OTHER -> TRUE]_<<requestVars, officeVars, noticeVars, filed, ticket>>
  <2> SUFFICES ASSUME OfficeKept, AcksStand', FilingKept', TicketsKept, Next
               PROVE  [CASE desk = "office" -> RequestsKept
                         [] desk = "notices" -> AcksKept'
                         [] desk = "filing" -> FiledOnce'
                         [] desk = "tickets" -> EditsKeepTheDecision
                         [] OTHER -> TRUE]_<<requestVars, officeVars, noticeVars, filed, ticket>>
    BY DEF premisesVars
  <2>1. desk' = desk
    BY DesksApart
  <2>2. desk = "office" => RequestsKept
    BY DesksApart, OfficeKeepsRequests DEF OfficeKept
  <2>3. desk = "notices" => AcksKept'
    BY <2>1 DEF AcksStand
  <2>4. desk = "filing" => FiledOnce'
    BY <2>1 DEF FilingKept, FilingInv
  <2>5. desk = "tickets" => EditsKeepTheDecision
    BY DesksApart, EditsLeaveTheStatus DEF TicketsKept
  <2> QED  BY <2>2, <2>3, <2>4, <2>5
<1> QED  BY <1>1, AcksStandThere, OfficeInitially, OfficeStaysKept, NoticesInitially, NoticesStayKept, FilingInitially, FilingStaysKept,
         TicketsInitially, TicketsStayKept, PTL DEF Spec, NothingIsLost

-----------------------------------------------------------------------------
(***************************************************************************)
(* Meters.  A reading at a meter nobody contests is set off against the    *)
(* last value still, so what it bills comes after what is billed already.  *)
(***************************************************************************)

MeterRow == [last : Readings \cup {Unread}, rated : BOOLEAN, first : Readings \cup {Unread}, billed : 0..MaxBilled]

Metered(row) ==
    /\ row.last = Unread => row.billed = 0
    /\ row.last # Unread => row.billed <= row.last - row.first

ReadFrom(r, row) ==
    /\ row.last = Unread => r.billed = 0
    /\ row.last # Unread => r.value >= row.last /\ r.billed <= r.value - row.last

Reading(i) ==
    /\ req[i] # Idle /\ req[i].op = "read" /\ req[i].meter \in Installed /\ req[i].rows = {req[i].meter}
    /\ req[i].value \in Readings /\ req[i].rated \in BOOLEAN /\ req[i].billed \in Nat
    /\ req[i].meter \notin contested => ReadFrom(req[i], meter[req[i].meter])

MetersInv ==
    /\ now \in 1..MaxTime
    /\ meter = [m \in Meters |-> meter[m]]
    /\ \A m \in Installed : meter[m] \in MeterRow /\ (meter[m].last = Unread <=> meter[m].first = Unread)
    /\ req = [i \in Slots |-> req[i]]
    /\ \A i \in Slots : req[i] = Idle \/ Reading(i)
    /\ \A m \in Meters \ contested : AloneAt(m) /\ (m \in Installed => Metered(meter[m]))

MetersKept ==
    /\ desk = "meters" => MetersInv
    /\ desk # "meters" => meter = [m \in Meters |-> NoMeter]

LEMMA ReadingsCount == Unread # 0 /\ \A n \in Readings : n \in Nat /\ n # Unread
BY ReadingsAreNat DEF Unread

LEMMA MetersDiffer == NoMeter \notin MeterRow
BY DEF NoMeter, MeterRow

\* A statement that leaves what a meter has counted and billed, or installs it.
LEMMA MeterOnce ==
    ASSUME MetersInv, NEW m \in Meters, Once(m), NEW row \in MeterRow, meter' = [meter EXCEPT ![m] = row],
           row.last = Unread <=> row.first = Unread,
           m \in Installed => row.last = meter[m].last /\ row.first = meter[m].first /\ row.billed = meter[m].billed,
           m \notin Installed => Metered(row)
    PROVE  MetersInv'
<1>1. UNCHANGED <<req, now>> /\ contested \subseteq contested' /\ (m \notin contested' => InFlight(m) = {})
  BY MeetContests DEF Once
<1>2. meter' = [x \in Meters |-> meter'[x]] /\ meter'[m] = row /\ \A x \in Meters : x # m => meter'[x] = meter[x]
  BY DEF MetersInv
<1>3. Installed' = Installed \cup {m}
  BY <1>2, MetersDiffer DEF Installed
<1>4. ASSUME NEW j \in Slots, req'[j] # Idle PROVE Reading(j)'
  <2>1. Reading(j) /\ req'[j] = req[j]
    BY <1>1, <1>4 DEF MetersInv
  <2>2. req[j].meter \notin contested' => req[j].meter # m
    BY <1>1, <1>4, <2>1 DEF Reading, InFlight
  <2>3. req[j].meter \in Meters
    BY <2>1 DEF Reading, Installed
  <2>4. req[j].meter \notin contested' => meter'[req[j].meter] = meter[req[j].meter]
    BY <1>2, <2>2, <2>3
  <2> QED  BY <1>1, <1>3, <2>1, <2>4 DEF Reading
<1>5. ASSUME NEW x \in Meters, x \notin contested' PROVE AloneAt(x)' /\ (x \in Installed' => Metered(meter'[x]))
  <2>1. AloneAt(x)'
    BY <1>1, <1>5 DEF MetersInv, AloneAt, InFlight
  <2>2. m \in Installed /\ m \notin contested' => Metered(row)
    BY <1>1 DEF MetersInv, Metered
  <2> QED  BY <1>1, <1>2, <1>3, <1>5, <2>1, <2>2 DEF MetersInv
<1>6. \A x \in Installed' : meter'[x] \in MeterRow /\ (meter'[x].last = Unread <=> meter'[x].first = Unread)
  BY <1>2, <1>3 DEF MetersInv, Installed
<1> QED  BY <1>1, <1>2, <1>4, <1>5, <1>6 DEF MetersInv

LEMMA MeterIsInstalled ==
    ASSUME MetersInv, NEW m \in Meters, CreateUtilityMeter(m)
    PROVE  MetersInv'
<1>1. PICK rated \in BOOLEAN : meter' = [meter EXCEPT ![m] = [last |-> Unread, rated |-> rated, first |-> Unread, billed |-> 0]]
  BY DEF CreateUtilityMeter
<1> DEFINE row == [last |-> Unread, rated |-> rated, first |-> Unread, billed |-> 0]
<1>2. row \in MeterRow /\ row.last = Unread /\ row.first = Unread /\ row.billed = 0
  BY <1>1 DEF MeterRow, MaxBilled
<1>3. meter' = [meter EXCEPT ![m] = row] /\ m \notin Installed /\ Once(m)
  BY <1>1 DEF CreateUtilityMeter, Installed
<1> HIDE DEF row
<1> QED  BY <1>2, <1>3, MeterOnce DEF Metered

LEMMA MeterIsUpdated ==
    ASSUME MetersInv, NEW m \in Meters, UpdateUtilityMeter(m)
    PROVE  MetersInv'
<1>1. PICK rated \in BOOLEAN : meter' = [meter EXCEPT ![m].rated = rated]
  BY DEF UpdateUtilityMeter
<1> DEFINE old == meter[m]
           row == [old EXCEPT !.rated = rated]
<1>2. m \in Installed /\ Once(m) /\ old \in MeterRow /\ (old.last = Unread <=> old.first = Unread)
  BY DEF UpdateUtilityMeter, MetersInv
<1>3. meter' = [meter EXCEPT ![m] = row]
  BY <1>1
<1> HIDE DEF old
<1>4. row \in MeterRow /\ row.last = old.last /\ row.first = old.first /\ row.billed = old.billed
  BY <1>1, <1>2 DEF MeterRow
<1> HIDE DEF row
<1> QED  BY <1>2, <1>3, <1>4, MeterOnce DEF old

LEMMA MeterIsRead ==
    ASSUME MetersInv, NEW i \in Slots, NEW m \in Installed, RecordUtilityReading(i, m)
    PROVE  MetersInv'
<1> DEFINE last == meter[m].last
           bill(value, rated, post) == IF last # Unread /\ rated /\ post THEN value - last ELSE 0
           r(value, rated, n) == [op |-> "read", rows |-> {m}, meter |-> m, value |-> value, rated |-> rated, billed |-> n]
<1>1. PICK value \in Readings, rated \in {TRUE, meter[m].rated}, post \in BOOLEAN :
        (last # Unread => value >= last) /\ Begin(i, r(value, rated, bill(value, rated, post)))
  BY DEF RecordUtilityReading
<1>2. m \in Meters /\ meter[m] \in MeterRow /\ meter' = meter
  BY DEF RecordUtilityReading, MetersInv, Installed
<1>3. last \in Readings \cup {Unread} /\ rated \in BOOLEAN /\ value \in Nat
  BY <1>1, <1>2, ReadingsAreNat DEF MeterRow
<1> DEFINE n == bill(value, rated, post)
<1>4. n \in Nat /\ (last = Unread => n = 0) /\ (last # Unread => value >= last /\ n <= value - last)
  <2>1. last # Unread => last \in Nat
    BY <1>3, ReadingsCount
  <2>2. n = 0 \/ (last # Unread /\ n = value - last)
    OBVIOUS
  <2>3. last = Unread => n = 0
    BY <2>2
  <2> HIDE DEF n, last
  <2> QED  BY <1>1, <1>3, <2>1, <2>2, <2>3
<1> HIDE DEF n, bill, last
<1> DEFINE made == r(value, rated, n)
<1>5. /\ made # Idle /\ made.op = "read" /\ made.rows = {m} /\ made.meter = m /\ made.value = value
      /\ made.rated = rated /\ made.billed = n
  BY DEF Idle
<1>6. Begin(i, made)
  BY <1>1 DEF n
<1> HIDE DEF made, r
<1>7. /\ req[i] = Idle /\ req'[i] = made /\ req' = [j \in Slots |-> req'[j]] /\ contested \subseteq contested' /\ now' = now
      /\ \A j \in Slots : j # i => req'[j] = req[j]
      /\ \A row : AloneAt(row) /\ row \notin contested' => AloneAt(row)'
  BY <1>6, BeginAlone DEF MetersInv, Begin
<1>8. Installed' = Installed
  BY <1>2 DEF Installed
<1>9. ReadFrom(made, meter[m])
  BY <1>4, <1>5 DEF ReadFrom, last
<1>10. Reading(i)'
  BY <1>1, <1>2, <1>3, <1>4, <1>5, <1>7, <1>8, <1>9 DEF Reading
<1>11. ASSUME NEW j \in Slots, j # i, req'[j] # Idle PROVE Reading(j)'
  BY <1>2, <1>7, <1>8, <1>11 DEF MetersInv, Reading
<1>12. \A x \in Meters \ contested' : AloneAt(x)' /\ (x \in Installed' => Metered(meter'[x]))
  BY <1>2, <1>7, <1>8 DEF MetersInv
<1> QED  BY <1>2, <1>7, <1>8, <1>10, <1>11, <1>12 DEF MetersInv

LEMMA ReadingIsWritten ==
    ASSUME MetersInv, NEW i \in Slots, WriteReading(i) \/ (Abort(i) /\ meter' = meter)
    PROVE  MetersInv'
<1> DEFINE m == req[i].meter
           old == meter[m]
           first == IF old.first = Unread THEN req[i].value ELSE old.first
           row == [last |-> req[i].value, rated |-> req[i].rated, first |-> first, billed |-> old.billed + req[i].billed]
<1>1. req[i] # Idle /\ End(i) /\ now' = now
  BY DEF WriteReading, Abort, End, Proceed
<1>2. /\ req'[i] = Idle /\ req' = [j \in Slots |-> req'[j]] /\ contested' = contested
      /\ \A j \in Slots : j # i => req'[j] = req[j]
      /\ \A x : AloneAt(x) => AloneAt(x)'
  BY <1>1, ProceedAlone DEF MetersInv, End
<1>3. /\ m \in Installed /\ m \in Meters /\ req[i].rows = {m} /\ req[i].value \in Readings /\ req[i].rated \in BOOLEAN
      /\ req[i].billed \in Nat /\ (m \notin contested => ReadFrom(req[i], old))
      /\ old \in MeterRow /\ (old.last = Unread <=> old.first = Unread)
      /\ m \notin contested => Metered(old)
  BY <1>1 DEF MetersInv, Reading, Installed
<1>4. meter' = meter \/ (old.billed + req[i].billed <= MaxBilled /\ meter' = [meter EXCEPT ![m] = row])
  BY DEF WriteReading
<1>5. first \in Readings /\ req[i].value # Unread /\ req[i].value \in Nat /\ first # Unread
  <2>1. old.first \in Readings \cup {Unread}
    BY <1>3 DEF MeterRow
  <2>2. first \in Readings
    BY <1>3, <2>1
  <2> HIDE DEF first
  <2> QED  BY <1>3, <2>2, ReadingsCount
<1> HIDE DEF m, old
<1>6. /\ row.last = req[i].value /\ row.first = first /\ row.billed = old.billed + req[i].billed
      /\ old.billed + req[i].billed <= MaxBilled => row \in MeterRow
  BY <1>3, <1>5 DEF MeterRow, MaxBilled
<1>7. m \notin contested => Metered(row)
  <2> SUFFICES ASSUME m \notin contested PROVE row.billed <= row.last - row.first
    BY <1>5, <1>6 DEF Metered
  <2>1. CASE old.last = Unread
    <3>1. first = req[i].value /\ old.billed = 0 /\ req[i].billed = 0
      BY <1>3, <2>1 DEF Metered, ReadFrom
    <3> QED  BY <1>5, <1>6, <3>1
  <2>2. CASE old.last # Unread
    <3>1. /\ first = old.first /\ old.billed <= old.last - old.first /\ req[i].billed <= req[i].value - old.last
      BY <1>3, <2>2 DEF Metered, ReadFrom
    <3>2. old.last \in Nat /\ old.first \in Nat /\ old.billed \in Nat
      <4>1. old.last \in Readings /\ old.first \in Readings /\ old.billed \in 0..MaxBilled
        BY <1>3, <2>2 DEF MeterRow
      <4> QED  BY <4>1, ReadingsCount DEF MaxBilled
    <3> HIDE DEF first, row
    <3> QED  BY <1>3, <1>5, <1>6, <3>1, <3>2
  <2> QED  BY <2>1, <2>2
<1> HIDE DEF row
<1>8. /\ meter' = [x \in Meters |-> meter'[x]] /\ \A x \in Meters : x # m => meter'[x] = meter[x]
      /\ meter'[m] = old \/ (meter'[m] = row /\ row \in MeterRow)
  BY <1>3, <1>4, <1>6 DEF MetersInv, old
<1>9. Installed' = Installed
  <2>1. \A x : x \in Installed' <=> x \in Installed
    BY <1>3, <1>8, MetersDiffer DEF Installed, old
  <2> QED  BY <2>1
<1>10. ASSUME NEW j \in Slots, req'[j] # Idle PROVE Reading(j)'
  <2>1. j # i /\ req'[j] = req[j] /\ Reading(j)
    BY <1>2, <1>10 DEF MetersInv
  <2>2. req[j].meter \notin contested => req[j].meter # m
    <3> SUFFICES ASSUME req[j].meter = m, m \notin contested PROVE FALSE
      OBVIOUS
    <3>1. i \in InFlight(m) /\ j \in InFlight(m)
      BY <1>1, <1>3, <1>10, <2>1 DEF InFlight, Reading
    <3> QED  BY <1>3, <2>1, <3>1 DEF MetersInv, AloneAt
  <2>3. req[j].meter \notin contested => meter'[req[j].meter] = meter[req[j].meter]
    BY <1>8, <2>1, <2>2 DEF Reading, Installed
  <2> QED  BY <1>2, <1>9, <2>1, <2>3 DEF Reading
<1>11. \A x \in Meters \ contested' : AloneAt(x)' /\ (x \in Installed' => Metered(meter'[x]))
  BY <1>2, <1>3, <1>7, <1>8, <1>9 DEF MetersInv, old
<1>12. \A x \in Installed' : meter'[x] \in MeterRow /\ (meter'[x].last = Unread <=> meter'[x].first = Unread)
  BY <1>3, <1>5, <1>6, <1>8, <1>9 DEF MetersInv, Installed, old
<1> QED  BY <1>1, <1>2, <1>8, <1>10, <1>11, <1>12 DEF MetersInv

LEMMA MetersStay ==
    ASSUME MetersInv, MetersNext
    PROVE  MetersInv'
BY MeterIsInstalled, MeterIsUpdated, MeterIsRead, ReadingIsWritten DEF MetersNext

LEMMA MetersInitially == Init => MetersKept
<1> SUFFICES ASSUME Init PROVE MetersKept
  OBVIOUS
<1>1. meter = [m \in Meters |-> NoMeter] /\ req = [i \in Slots |-> Idle] /\ contested = {} /\ now = 1
  BY DEF Init, MetersInit, RequestsInit
<1>2. Installed = {} /\ 1 \in 1..MaxTime
  BY <1>1, MaxTimeNat DEF Installed
<1> QED  BY <1>1, <1>2 DEF MetersKept, MetersInv, AloneAt, InFlight

LEMMA MetersStayKept == MetersKept /\ [Next]_premisesVars => MetersKept'
<1> SUFFICES ASSUME MetersKept, [Next]_premisesVars PROVE MetersKept'
  OBVIOUS
<1>1. CASE Next
  BY <1>1, DesksApart, MetersStay DEF MetersKept
<1>2. CASE UNCHANGED premisesVars
  <2>1. UNCHANGED <<desk, req, contested, now, meter>>
    BY <1>2 DEF premisesVars, requestVars
  <2> QED  BY <2>1 DEF MetersKept, MetersInv, Reading, Installed, AloneAt, InFlight
<1> QED  BY <1>1, <1>2

\* No unit of usage is charged twice: what a meter has billed never exceeds what it has
\* counted, unless two readings of it were taken at once.
THEOREM UsageIsBilledOnce == Spec => [](desk = "meters" => UsageBilledOnce)
<1>1. MetersKept => (desk = "meters" => UsageBilledOnce)
  BY DEF MetersKept, MetersInv, UsageBilledOnce, Metered, Installed
<1> QED  BY <1>1, MetersInitially, MetersStayKept, PTL DEF Spec

-----------------------------------------------------------------------------
(***************************************************************************)
(* The types of all tables, each from the invariant of its desk.           *)
(***************************************************************************)

AmenitiesAreRows == amenity \in [Amenities -> [active : BOOLEAN, approval : BOOLEAN, exists : BOOLEAN]]

NobodyMovesElsewhere == desk # "residents" => manual = {} /\ unlooked = {}

LEMMA AmenitiesInitially == Init => AmenitiesAreRows /\ NobodyMovesElsewhere
BY DEF Init, BookingsInit, NoAmenity, ResidentsInit, AmenitiesAreRows, NobodyMovesElsewhere

LEMMA AmenitiesStayRows ==
    AmenitiesAreRows /\ NobodyMovesElsewhere /\ [Next]_premisesVars => AmenitiesAreRows' /\ NobodyMovesElsewhere'
<1> SUFFICES ASSUME AmenitiesAreRows, NobodyMovesElsewhere, [Next]_premisesVars
             PROVE  AmenitiesAreRows' /\ NobodyMovesElsewhere'
  OBVIOUS
<1>1. CASE UNCHANGED premisesVars
  BY <1>1 DEF premisesVars, bookingVars, residentVars, AmenitiesAreRows, NobodyMovesElsewhere
<1>2. ASSUME Next PROVE AmenitiesAreRows'
  <2>1. CASE amenity' = amenity
    BY <2>1 DEF AmenitiesAreRows
  <2>2. ASSUME NEW a \in Amenities, CreateAmenity(a) PROVE AmenitiesAreRows'
    BY <2>2 DEF CreateAmenity, AmenitiesAreRows
  <2>3. ASSUME NEW a \in Amenities, UpdateAmenity(a) PROVE AmenitiesAreRows'
    <3> DEFINE old == amenity[a]
    <3>1. PICK v \in BOOLEAN : \/ amenity' = [amenity EXCEPT ![a].active = v]
                               \/ amenity' = [amenity EXCEPT ![a].approval = v]
      BY <2>3 DEF UpdateAmenity
    <3>2. old \in [active : BOOLEAN, approval : BOOLEAN, exists : BOOLEAN]
      BY DEF AmenitiesAreRows
    <3>3. /\ [old EXCEPT !.active = v] \in [active : BOOLEAN, approval : BOOLEAN, exists : BOOLEAN]
          /\ [old EXCEPT !.approval = v] \in [active : BOOLEAN, approval : BOOLEAN, exists : BOOLEAN]
      BY <3>1, <3>2
    <3>4. amenity' = [amenity EXCEPT ![a] = [old EXCEPT !.active = v]] \/ amenity' = [amenity EXCEPT ![a] = [old EXCEPT !.approval = v]]
      BY <3>1
    <3> HIDE DEF old
    <3> QED  BY <3>3, <3>4 DEF AmenitiesAreRows
  <2>4. amenity' = amenity \/ \E a \in Amenities : CreateAmenity(a) \/ UpdateAmenity(a)
    BY <1>2, DesksApart DEF bookingVars, BookingsNext, CreateAmenityBooking, WriteBooking, UpdateAmenityBooking, RewriteBooking
  <2> QED  BY <2>1, <2>2, <2>3, <2>4
<1>3. ASSUME Next PROVE NobodyMovesElsewhere'
  BY <1>3, DesksApart DEF NobodyMovesElsewhere, residentVars
<1> QED  BY <1>1, <1>2, <1>3

LEMMA TypesOfTheDesks ==
    ASSUME BookingsKept, RegistryKept, ResidentsKept, OrdersKept, ChargesKept, LeasesKept, MetersKept, TicketsKept,
           OfficeKept, MaintenanceKept, EquipmentKept, NoticesKept, FilingKept, QuietKept,
           AmenitiesAreRows, NobodyMovesElsewhere
    PROVE  TypeOK
<1>1. now \in 1..MaxTime
  BY DEF QuietKept, Quiet, OrdersKept, OrdersInv
<1>2. BookingsTypeOK
  BY DEF BookingsKept, BookingInv, BookingTypes, BookingRow, BookingsTypeOK, AmenitiesAreRows
<1>3. RegistryTypeOK
  BY DEF RegistryKept, RegistryInv, EntryRow, RegistryTypeOK
<1>4. ResidentsTypeOK
  BY DEF ResidentsKept, ResidentsInv, ResidentsTypeOK, NoResident, NobodyMovesElsewhere
<1>5. WorkTypeOK
  <2>1. CASE desk = "work"
    BY <2>1 DEF OrdersKept, OrdersInv, WorkIs, WorkRow, WorkTypeOK
  <2>2. CASE desk # "work"
    BY <2>2 DEF OrdersKept, WorkTypeOK, Ordered, MaxAlerts
  <2> QED  BY <2>1, <2>2
<1>6. ChargesTypeOK
  <2>1. CASE desk = "charges"
    BY <2>1 DEF ChargesKept, ChargesInv, ChargeRow, ChargeStatuses, ReminderRow, ChargesTypeOK
  <2>2. CASE desk # "charges"
    <3>1. Charged = {} /\ reminders = [c \in Charges |-> [t \in ReminderTypes |-> [logged |-> FALSE, sent |-> 0]]]
      BY <2>2 DEF ChargesKept, Charged
    <3>2. [logged |-> FALSE, sent |-> 0] \in [logged : BOOLEAN, sent : 0..MaxSent]
      BY DEF MaxSent
    <3> QED  BY <3>1, <3>2 DEF ChargesTypeOK
  <2> QED  BY <2>1, <2>2
<1>7. LeasesTypeOK
  BY DEF LeasesKept, LeasesInv, LeaseRow, LeasesTypeOK, Let
<1>8. MetersTypeOK
  BY DEF MetersKept, MetersInv, MeterRow, MetersTypeOK, Installed
<1>9. TicketsTypeOK
  <2>1. ASSUME NEW k \in Tickets, ticket[k] # NoTicket PROVE TicketIs(ticket[k])
    BY <2>1 DEF TicketsKept, TicketsInv, Filed
  <2>2. ASSUME NEW t, TicketIs(t)
        PROVE  t.kind \in TicketKinds /\ t.status \in StatusesOf(t.kind) /\ t.at \in [Columns -> Never..MaxTime]
    BY <2>2 DEF TicketIs
  <2> QED  BY <2>1, <2>2 DEF TicketsTypeOK
<1>10. OfficeTypeOK
  <2>1. CASE desk = "office"
    BY <2>1 DEF OfficeKept, OfficeInv, AskedRow, WorkOrderRow, OfficeTypeOK
  <2>2. CASE desk # "office"
    BY <2>2 DEF OfficeKept, OfficeTypeOK
  <2> QED  BY <2>1, <2>2
<1>11. MaintenanceTypeOK
  <2>1. CASE desk = "maintenance"
    BY <2>1 DEF MaintenanceKept, MaintenanceInv, AssetRow, MaintenanceTypeOK
  <2>2. CASE desk # "maintenance"
    <3>1. /\ Held = {} /\ orders = [a \in Assets |-> [pm |-> 0, byHand |-> FALSE]]
          /\ served = [a \in Assets |-> Never]
      BY <2>2 DEF MaintenanceKept, Held
    <3>2. [pm |-> 0, byHand |-> FALSE] \in [pm : 0..MaxOrders, byHand : BOOLEAN] /\ Never \in Never..(MaxTime + 1)
      BY MaxTimeNat, MaxOrdersNat DEF Never
    <3> QED  BY <3>1, <3>2 DEF MaintenanceTypeOK
  <2> QED  BY <2>1, <2>2
<1>12. EquipmentTypeOK
  BY DEF EquipmentKept, EquipmentInv, MachineRow, EquipmentTypeOK, Owned
<1>13. NoticesTypeOK
  <2>1. CASE desk = "notices"
    BY <2>1 DEF NoticesKept, NoticesInv, FollowUpsAre, SettledIsThere, Holdings, NoticeRow, InspectionRow, NoticesTypeOK, Posted
  <2>2. CASE desk # "notices"
    BY <2>2 DEF NoticesKept, NoticesTypeOK, Blank
  <2> QED  BY <2>1, <2>2
<1>14. FilingTypeOK
  <2>1. CASE desk = "filing"
    BY <2>1 DEF FilingKept, FilingInv, FiledRow, FilingTypeOK
  <2>2. CASE desk # "filing"
    <3>1. filed = <<>>
      BY <2>2 DEF FilingKept
    <3>2. <<>> \in Seq([text : Texts, at : 1..MaxTime, by : {"manager", "resident"}]) /\ Len(<<>>) = 0
      OBVIOUS
    <3> QED  BY <3>1, <3>2, MaxRequestsNat DEF FilingTypeOK
  <2> QED  BY <2>1, <2>2
<1> QED  BY <1>1, <1>2, <1>3, <1>4, <1>5, <1>6, <1>7, <1>8, <1>9, <1>10, <1>11, <1>12, <1>13, <1>14 DEF TypeOK

\* Every table of the premises holds rows of its kind, whatever the requests and jobs do,
\* and the numbers in them stay in their bounds.
THEOREM TablesAreTyped == Spec => []TypeOK
BY TypesOfTheDesks, AmenitiesInitially, AmenitiesStayRows, BookingsInitially, BookingsStayKept, RegistryInitially,
   RegistryStaysKept, ResidentsInitially, ResidentsStayKept, OrdersInitially, OrdersStayKept, ChargesInitially,
   ChargesStayKept, LeasesInitially, LeasesStayKept, MetersInitially, MetersStayKept, TicketsInitially, TicketsStayKept,
   OfficeInitially, OfficeStaysKept, MaintenanceInitially, MaintenanceStaysKept, EquipmentInitially, EquipmentStaysKept,
   NoticesInitially, NoticesStayKept, FilingInitially, FilingStaysKept, QuietInitially, QuietStays, PTL DEF Spec

=============================================================================
