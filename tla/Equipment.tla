----------------------------- MODULE Equipment -----------------------------
(***************************************************************************)
(* Equipment of an apartment building (property.service.ts): the date of   *)
(* the next service is stored, worked out from the interval and the last   *)
(* service whenever a request touches one of the two.  A request reads the *)
(* row first and writes the columns it was given, so that the other one it *)
(* reckons with may be old by then.                                        *)
(***************************************************************************)
EXTENDS Requests

CONSTANTS Machines, MaxInterval

ASSUME MaxIntervalNat == MaxInterval \in Nat

VARIABLES machine

NoMachine == [next |-> "none"]
NoDate == 0         \* a null column, of a date or of the interval

EquipmentInit == machine = [m \in Machines |-> NoMachine]

Owned == {m \in Machines : machine[m] # NoMachine}

Intervals == NoDate..MaxInterval

NextService(last, interval) ==
    IF last # NoDate /\ interval # NoDate THEN last + interval ELSE NoDate

CreateApartmentAsset(m) ==
    /\ m \notin Owned /\ Fresh(m)
    /\ \E last \in {NoDate, now}, interval \in Intervals :
          machine' = [machine EXCEPT ![m] =
              [last |-> last, interval |-> interval, next |-> NextService(last, interval)]]
    /\ Once(m)

\* The caller gives one of the two columns, both or neither.  With both known the next
\* date is reckoned anew, from what was read of a column that was not given; otherwise it
\* is left as it is, even where the caller has just cleared one of them.
UpdateApartmentAsset(i, m) ==
    /\ \E w \in {<<>>} \cup [last : {NoDate, now}] \cup [interval : Intervals]
                    \cup [last : {NoDate, now}, interval : Intervals] :
          LET row == Written(w, machine[m])
              next == NextService(row.last, row.interval)
          IN Begin(i, [op |-> "machine", rows |-> {m}, machine |-> m,
                       write |-> IF next = NoDate THEN w ELSE Written([next |-> next], w)])
    /\ UNCHANGED machine

\* Mutant: the service is stored and the next one not reckoned.
LogApartmentAssetServiceMutant(i, m) ==
    /\ Begin(i, [op |-> "machine", rows |-> {m}, machine |-> m, write |-> [last |-> now]])
    /\ UNCHANGED machine

LogApartmentAssetService(i, m) ==
    /\ Begin(i, [op |-> "machine", rows |-> {m}, machine |-> m,
                 write |-> [last |-> now, next |-> NextService(now, machine[m].interval)]])
    /\ UNCHANGED machine

WriteMachine(i) ==
    LET r == req[i] IN
    /\ r # Idle /\ r.op = "machine"
    /\ machine' = IF r.machine \in Owned THEN [machine EXCEPT ![r.machine] = Written(r.write, @)] ELSE machine
    /\ End(i)

DeleteApartmentAsset(m) ==
    /\ m \in Owned
    /\ machine' = [machine EXCEPT ![m] = NoMachine]
    /\ Once(m)

EquipmentNext ==
    \/ \E m \in Machines : CreateApartmentAsset(m) \/ DeleteApartmentAsset(m)
    \/ \E i \in Slots :
          \/ \E m \in Owned : UpdateApartmentAsset(i, m) \/ LogApartmentAssetService(i, m)
          \/ WriteMachine(i)
          \/ Abort(i) /\ UNCHANGED machine
    \/ Tick /\ UNCHANGED machine

-----------------------------------------------------------------------------

EquipmentTypeOK ==
    \A m \in Owned :
        machine[m] \in [last : NoDate..MaxTime, interval : Intervals,
                        next : NoDate..(MaxTime + MaxInterval)]

\* A part of ServiceDatesHold: while a machine has an interval and a last service, its
\* next one is the one they give.
NextServiceFollows ==
    \A m \in Owned \ contested :
        machine[m].last # NoDate /\ machine[m].interval # NoDate
            => machine[m].next = machine[m].last + machine[m].interval

=============================================================================
