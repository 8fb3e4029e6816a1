------------------------------ MODULE Requests ------------------------------
(***************************************************************************)
(* The HTTP requests one Node process has in flight.  A handler runs       *)
(* without interruption from one await to the next, so a request that      *)
(* reads a row, decides and writes is two steps here: Begin when the read  *)
(* is back and the checks have passed (req keeps what was read or decided) *)
(* and End with the write.  Between them any other request may step, and   *)
(* an error, a timeout or a restart may cut the request short (Abort).  A  *)
(* request that the checks reject, or that only reads, changes nothing and *)
(* is no step.                                                             *)
(*                                                                         *)
(* contested remembers the rows of requests that were ever in flight with  *)
(* a row in common, and the rows a request left half done where that       *)
(* matters (Cut): several properties promise for the other rows what       *)
(* requests handled one after the other guarantee.                         *)
(***************************************************************************)
EXTENDS Naturals, FiniteSets

CONSTANTS Slots, MaxTime

ASSUME MaxTimeNat == MaxTime \in Nat \ {0}
ASSUME SlotsFinite == IsFiniteSet(Slots)

VARIABLES req, contested, now

requestVars == <<req, contested, now>>

Never == 0          \* a date column that is null; the clock starts at 1

Idle == [op |-> "idle"]

InFlight(row) == {i \in Slots : req[i] # Idle /\ row \in req[i].rows}

\* A row that is created is one no request in flight knows, though the model gives it
\* the place of a deleted one.
Fresh(row) == InFlight(row) = {}

\* An update writes the columns of w over those of the row.
Written(w, row) == [c \in DOMAIN w \cup DOMAIN row |-> IF c \in DOMAIN w THEN w[c] ELSE row[c]]

\* Two requests meet when they are in flight with a row in common; neither then
\* leaves its rows as if it had been alone.
Meet(rows) ==
    LET met == UNION {InFlight(r) : r \in rows}
    IN contested' = IF met = {} THEN contested
                    ELSE contested \cup rows \cup UNION {req[i].rows : i \in met}

\* A request reads its rows, r.rows, and goes on to write.
Begin(i, r) ==
    /\ req[i] = Idle
    /\ req' = [req EXCEPT ![i] = r]
    /\ Meet(r.rows)
    /\ UNCHANGED now

\* A request in flight takes another step, and its last one.
Proceed(i, r) ==
    /\ req' = [req EXCEPT ![i] = r]
    /\ UNCHANGED <<contested, now>>

End(i) == Proceed(i, Idle)

\* A request whose only write is one statement, with no read it depends on.
Once(row) ==
    /\ Meet({row})
    /\ UNCHANGED <<req, now>>

Abort(i) ==
    /\ req[i] # Idle
    /\ End(i)

\* The same where the rows of a request that was cut short are left half done.
Cut(i) ==
    /\ req[i] # Idle
    /\ req' = [req EXCEPT ![i] = Idle]
    /\ contested' = contested \cup req[i].rows
    /\ UNCHANGED now

Tick ==
    /\ now < MaxTime
    /\ now' = now + 1
    /\ UNCHANGED <<req, contested>>

RequestsInit ==
    /\ req = [i \in Slots |-> Idle]
    /\ contested = {}
    /\ now = 1

=============================================================================
