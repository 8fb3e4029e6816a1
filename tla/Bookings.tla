------------------------------ MODULE Bookings ------------------------------
(***************************************************************************)
(* Amenities and their bookings (property.service.ts).  A booking is       *)
(* checked against the live bookings of its amenity, then written.  A      *)
(* manager may move a booking and give it any status, so that a cancelled  *)
(* one comes back to life; a resident moves and cancels its own.           *)
(* Rejected, cancelled and completed bookings are alike here.              *)
(***************************************************************************)
EXTENDS Requests

CONSTANTS Amenities, Bookings, Windows

ASSUME WindowsAreOrdered == \A w \in Windows : w.from \in Nat /\ w.to \in Nat /\ w.from < w.to

VARIABLES amenity, booking

bookingVars == <<amenity, booking>>

NoAmenity == [active |-> FALSE, approval |-> FALSE, exists |-> FALSE]
NoBooking == [status |-> "none"]

BookingsInit ==
    /\ amenity = [a \in Amenities |-> NoAmenity]
    /\ booking = [b \in Bookings |-> NoBooking]

Booked == {b \in Bookings : booking[b] # NoBooking}

Live == {"REQUESTED", "APPROVED"}

BookingStatuses == Live \cup {"CANCELLED"}

\* Half-open: a booking may start when another one ends.
Overlaps(v, w) == v.from < w.to /\ w.from < v.to

\* Mutant: bookings that wait for approval do not hold their time.
TakenMutant(a, w, except) ==
    \E b \in Booked \ except :
        booking[b].amenity = a /\ booking[b].status = "APPROVED" /\ Overlaps(booking[b].window, w)

Taken(a, w, except) ==
    \E b \in Booked \ except :
        booking[b].amenity = a /\ booking[b].status \in Live /\ Overlaps(booking[b].window, w)

CreateAmenity(a) ==
    /\ ~amenity[a].exists
    /\ \E active, approval \in BOOLEAN :
          amenity' = [amenity EXCEPT ![a] = [active |-> active, approval |-> approval, exists |-> TRUE]]
    /\ UNCHANGED <<requestVars, booking>>

UpdateAmenity(a) ==
    /\ amenity[a].exists
    /\ \E v \in BOOLEAN :
          \/ amenity' = [amenity EXCEPT ![a].active = v]
          \/ amenity' = [amenity EXCEPT ![a].approval = v]
    /\ Once(a)
    /\ UNCHANGED booking

CreateAmenityBooking(i, a) ==
    /\ amenity[a].active
    /\ \E w \in Windows :
          /\ ~Taken(a, w, {})
          /\ Begin(i, [op |-> "book", rows |-> {a}, amenity |-> a, window |-> w,
                       status |-> IF amenity[a].approval THEN "REQUESTED" ELSE "APPROVED"])
    /\ UNCHANGED bookingVars

WriteBooking(i) ==
    LET r == req[i] IN
    /\ r # Idle /\ r.op = "book"
    /\ \E b \in Bookings :
          /\ booking[b] = NoBooking
          /\ booking' = [booking EXCEPT ![b] =
                [amenity |-> r.amenity, window |-> r.window, status |-> r.status]]
    /\ End(i)
    /\ UNCHANGED amenity

\* The status is written whether the caller names one or not, the times if it names them.
UpdateAmenityBooking(i, b) ==
    LET old == booking[b] IN
    /\ \E w \in Windows, s \in BookingStatuses :
          /\ s \in Live => ~Taken(old.amenity, w, {b})
          /\ Begin(i, [op |-> "rebook", rows |-> {old.amenity, b}, booking |-> b,
                       moved |-> w # old.window, window |-> w, status |-> s])
    /\ UNCHANGED bookingVars

RewriteBooking(i) ==
    LET r == req[i]
        old == booking[r.booking]
    IN /\ r # Idle /\ r.op = "rebook"
       /\ booking' = [booking EXCEPT ![r.booking] =
             [old EXCEPT !.window = IF r.moved THEN r.window ELSE @, !.status = r.status]]
       /\ End(i)
       /\ UNCHANGED amenity

BookingsNext ==
    \/ \E a \in Amenities : CreateAmenity(a) \/ UpdateAmenity(a)
    \/ \E i \in Slots :
          \/ \E a \in Amenities : CreateAmenityBooking(i, a)
          \/ WriteBooking(i)
          \/ \E b \in Booked : UpdateAmenityBooking(i, b)
          \/ RewriteBooking(i)
          \/ Abort(i) /\ UNCHANGED bookingVars

-----------------------------------------------------------------------------

BookingsTypeOK ==
    /\ amenity \in [Amenities -> [active : BOOLEAN, approval : BOOLEAN, exists : BOOLEAN]]
    /\ booking \in [Bookings -> [amenity : Amenities, window : Windows, status : BookingStatuses]
                                   \cup {NoBooking}]

\* Two live bookings of one amenity never share time, whatever is booked, moved,
\* cancelled and brought back in whatever order; only two requests in flight for the
\* same amenity at once can book it twice, for there is no constraint behind the check.
NoDoubleBooking ==
    \A b, c \in Booked :
        /\ b # c
        /\ booking[b].amenity = booking[c].amenity
        /\ booking[b].status \in Live /\ booking[c].status \in Live
        /\ booking[b].amenity \notin contested
        => ~Overlaps(booking[b].window, booking[c].window)

=============================================================================
