------------------------------ MODULE Registry ------------------------------
(***************************************************************************)
(* The household members and vehicles of a resident (property.service.ts): *)
(* at most one of each is marked primary.  Marking one takes two           *)
(* statements, first every other mark is removed, then the row is written. *)
(* Members and vehicles are handled alike, but a vehicle has a plate that  *)
(* the database keeps unique.                                              *)
(***************************************************************************)
EXTENDS Requests

CONSTANTS Entries, Plates, NoPlate

ASSUME NoPlateIsNoPlate == NoPlate \notin Plates

VARIABLES entry      \* the rows of one resident

NoEntry == [plate |-> "none"]

RegistryInit == entry = [e \in Entries |-> NoEntry]

Registered == {e \in Entries : entry[e] # NoEntry}

Kind(plate) == IF plate = NoPlate THEN "household" ELSE "vehicle"

Alike(plate) == {e \in Registered : Kind(entry[e].plate) = Kind(plate)}

\* Plates are looked up before anything is written, and kept apart by the database too.
PlateTaken(plate, except) ==
    plate # NoPlate /\ \E e \in Registered \ except : entry[e].plate = plate

CreateEntry(i, plate, primary) ==
    /\ ~PlateTaken(plate, {})
    /\ Begin(i, [op |-> "register", rows |-> {Kind(plate)}, plate |-> plate, primary |-> primary,
                 clear |-> primary])
    /\ UNCHANGED entry

\* A caller that names no mark writes back the one it read; a plate is checked if it changes.
UpdateEntry(i, e) ==
    \E plate \in IF entry[e].plate = NoPlate THEN {NoPlate} ELSE Plates, primary \in BOOLEAN :
        /\ plate # entry[e].plate => ~PlateTaken(plate, {e})
        /\ Begin(i, [op |-> "reregister", rows |-> {Kind(plate)}, entry |-> e, plate |-> plate,
                     primary |-> primary, clear |-> primary])
        /\ UNCHANGED entry

\* Mutant: only a new row takes the mark from the others.
ClearMarksMutant(i) ==
    LET r == req[i]
        others == IF r.op = "register" THEN Alike(r.plate) ELSE {}
    IN /\ r # Idle /\ r.op \in {"register", "reregister"} /\ r.clear
       /\ entry' = [e \in Entries |-> IF e \in others THEN [entry[e] EXCEPT !.primary = FALSE]
                                      ELSE entry[e]]
       /\ Proceed(i, [r EXCEPT !.clear = FALSE])

ClearMarks(i) ==
    LET r == req[i]
        others == Alike(r.plate) \ (IF r.op = "reregister" THEN {r.entry} ELSE {})
    IN /\ r # Idle /\ r.op \in {"register", "reregister"} /\ r.clear
       /\ entry' = [e \in Entries |-> IF e \in others THEN [entry[e] EXCEPT !.primary = FALSE]
                                      ELSE entry[e]]
       /\ Proceed(i, [r EXCEPT !.clear = FALSE])

\* A new row is one no request in flight knows.
Known == {req[i].entry : i \in {j \in Slots : req[j].op = "reregister"}}

WriteEntry(i) ==
    LET r == req[i]
        row == [plate |-> r.plate, primary |-> r.primary]
    IN /\ r # Idle /\ r.op \in {"register", "reregister"} /\ ~r.clear
       /\ \/ /\ r.op = "register" /\ ~PlateTaken(r.plate, {})
             /\ \E e \in Entries \ (Registered \cup Known) : entry' = [entry EXCEPT ![e] = row]
          \/ /\ r.op = "reregister" /\ r.entry \in Registered /\ ~PlateTaken(r.plate, {r.entry})
             /\ entry' = [entry EXCEPT ![r.entry] = row]
       /\ End(i)

DeleteEntry(e) ==
    /\ e \in Registered
    /\ entry' = [entry EXCEPT ![e] = NoEntry]
    /\ Once(Kind(entry[e].plate))

RegistryStep(i) ==
    \/ \E plate \in Plates \cup {NoPlate}, primary \in BOOLEAN : CreateEntry(i, plate, primary)
    \/ \E e \in Registered : UpdateEntry(i, e)
    \/ ClearMarks(i)
    \/ WriteEntry(i)
    \/ Abort(i) /\ UNCHANGED entry

RegistryNext ==
    \/ \E e \in Entries : DeleteEntry(e)
    \/ \E i \in Slots : RegistryStep(i)

-----------------------------------------------------------------------------

RegistryTypeOK ==
    entry \in [Entries -> [plate : Plates \cup {NoPlate}, primary : BOOLEAN] \cup {NoEntry}]

\* A resident has at most one primary household member and one primary vehicle, though
\* removing the old mark and setting the new one are separate statements and the request
\* may be cut short between them; two requests in flight at once can leave two.
OnePrimary ==
    \A e, f \in Registered :
        /\ e # f
        /\ Kind(entry[e].plate) = Kind(entry[f].plate)
        /\ Kind(entry[e].plate) \notin contested
        => ~(entry[e].primary /\ entry[f].primary)

=============================================================================
