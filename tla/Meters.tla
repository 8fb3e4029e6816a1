------------------------------- MODULE Meters -------------------------------
(***************************************************************************)
(* Utility meters of an estate (estate-ops.service.ts).  A reading is set  *)
(* off against the last value read before the transaction that stores the  *)
(* reading, the charge for the usage and the new last value.               *)
(***************************************************************************)
EXTENDS Requests, Integers

CONSTANTS Meters, Readings

ASSUME ReadingsAreNat == Readings \subseteq Nat

VARIABLES meter

NoMeter == [billed |-> -1]
Unread == -1

MetersInit == meter = [m \in Meters |-> NoMeter]

Installed == {m \in Meters : meter[m] # NoMeter}

\* first and billed are kept for the property: the first reading, and the usage charged so far.
CreateUtilityMeter(m) ==
    /\ meter[m] = NoMeter
    /\ \E rated \in BOOLEAN :
          meter' = [meter EXCEPT ![m] =
              [last |-> Unread, rated |-> rated, first |-> Unread, billed |-> 0]]
    /\ Once(m)

\* The columns the caller names; the last value is not among them.
UpdateUtilityMeter(m) ==
    /\ m \in Installed
    /\ \E rated \in BOOLEAN : meter' = [meter EXCEPT ![m].rated = rated]
    /\ Once(m)

\* The rate is the caller's or the meter's and is stored with the reading; a first
\* reading has no usage, and a caller may ask for no charge.
RecordUtilityReading(i, m) ==
    LET last == meter[m].last IN
    /\ \E value \in Readings, rated \in {TRUE, meter[m].rated}, post \in BOOLEAN :
          /\ last # Unread => value >= last
          /\ Begin(i, [op |-> "read", rows |-> {m}, meter |-> m, value |-> value, rated |-> rated,
                       billed |-> IF last # Unread /\ rated /\ post THEN value - last ELSE 0])
    /\ UNCHANGED meter

MaxBilled == 4      \* bound of the model

WriteReading(i) ==
    LET r == req[i] IN
    /\ r # Idle /\ r.op = "read"
    /\ meter[r.meter].billed + r.billed <= MaxBilled
    /\ meter' = [meter EXCEPT ![r.meter] =
          [last |-> r.value, rated |-> r.rated,
           first |-> IF @.first = Unread THEN r.value ELSE @.first,
           billed |-> @.billed + r.billed]]
    /\ End(i)

MetersNext ==
    \/ \E m \in Meters : CreateUtilityMeter(m) \/ UpdateUtilityMeter(m)
    \/ \E i \in Slots :
          \/ \E m \in Installed : RecordUtilityReading(i, m)
          \/ WriteReading(i)
          \/ Abort(i) /\ UNCHANGED meter

-----------------------------------------------------------------------------

MetersTypeOK ==
    \A m \in Installed :
        meter[m] \in [last : Readings \cup {Unread}, rated : BOOLEAN,
                      first : Readings \cup {Unread}, billed : 0..MaxBilled]

\* A part of BooksBalance: no unit of usage is charged twice, so that what a meter has
\* billed never exceeds what it has counted; two readings taken from the same last
\* value would both bill the usage since.
UsageBilledOnce ==
    \A m \in Installed \ contested :
        IF meter[m].last = Unread THEN meter[m].billed = 0
        ELSE meter[m].billed <= meter[m].last - meter[m].first

=============================================================================
