--------------------------- MODULE RequestsProofs ---------------------------
(***************************************************************************)
(* Lemmas about requests in flight, whatever they do: a row that is not    *)
(* contested has one request at it at most, so that what the request has   *)
(* read of the row is still so.                                            *)
(***************************************************************************)
EXTENDS Requests, TLAPS

\* Two requests at one row are the same one.
AloneAt(row) == \A i, j \in Slots : i \in InFlight(row) /\ j \in InFlight(row) => i = j

LEMMA AtRow ==
    ASSUME NEW row, NEW i \in Slots
    PROVE  i \in InFlight(row) <=> req[i] # Idle /\ row \in req[i].rows
BY DEF InFlight

\* Whoever is met at a row contests it.
LEMMA MeetContests ==
    ASSUME NEW rows, Meet(rows)
    PROVE  /\ contested \subseteq contested'
           /\ \A row \in rows : row \notin contested' => InFlight(row) = {}
<1> DEFINE met == UNION {InFlight(r) : r \in rows}
<1>1. contested' = IF met = {} THEN contested
                   ELSE contested \cup rows \cup UNION {req[i].rows : i \in met}
  BY DEF Meet
<1>2. \A row \in rows : InFlight(row) \subseteq met
  OBVIOUS
<1> HIDE DEF met
<1> QED  BY <1>1, <1>2

\* A request that begins is at its own rows, the others stay where they are; at a row
\* that stays uncontested it is alone.
LEMMA BeginAlone ==
    ASSUME req = [i \in Slots |-> req[i]], NEW i \in Slots, NEW r, Begin(i, r)
    PROVE  /\ req[i] = Idle /\ req'[i] = r /\ req' = [j \in Slots |-> req'[j]]
           /\ \A j \in Slots : j # i => req'[j] = req[j]
           /\ contested \subseteq contested'
           /\ \A row \in r.rows : row \notin contested' => InFlight(row) = {}
           /\ \A row : AloneAt(row) /\ row \notin contested' => AloneAt(row)'
<1>1. req[i] = Idle /\ req' = [req EXCEPT ![i] = r] /\ Meet(r.rows)
  BY DEF Begin
<1>2. req'[i] = r /\ req' = [j \in Slots |-> req'[j]] /\ \A j \in Slots : j # i => req'[j] = req[j]
  BY <1>1
<1>3. /\ contested \subseteq contested'
      /\ \A row \in r.rows : row \notin contested' => InFlight(row) = {}
  BY <1>1, MeetContests
<1>4. ASSUME NEW row, AloneAt(row), row \notin contested' PROVE AloneAt(row)'
  <2>1. \A j \in Slots : j # i => (j \in InFlight(row)' <=> j \in InFlight(row))
    BY <1>2 DEF InFlight
  <2>2. i \in InFlight(row)' => InFlight(row) = {}
    BY <1>2, <1>3, <1>4 DEF InFlight
  <2> QED  BY <1>4, <2>1, <2>2 DEF AloneAt
<1> QED  BY <1>1, <1>2, <1>3, <1>4

\* A request that goes on to r is at no row it was not at; and so is one that ends.
LEMMA ProceedAlone ==
    ASSUME req = [i \in Slots |-> req[i]], NEW i \in Slots, NEW r, Proceed(i, r), req[i] # Idle,
           r = Idle \/ r.rows \subseteq req[i].rows
    PROVE  /\ req'[i] = r /\ req' = [j \in Slots |-> req'[j]] /\ contested' = contested
           /\ \A j \in Slots : j # i => req'[j] = req[j]
           /\ \A row : AloneAt(row) => AloneAt(row)'
<1>1. req' = [req EXCEPT ![i] = r] /\ contested' = contested
  BY DEF Proceed
<1>2. req'[i] = r /\ req' = [j \in Slots |-> req'[j]] /\ \A j \in Slots : j # i => req'[j] = req[j]
  BY <1>1
<1>3. ASSUME NEW row, AloneAt(row) PROVE AloneAt(row)'
  <2>1. \A j \in Slots : j \in InFlight(row)' => j \in InFlight(row)
    BY <1>2 DEF InFlight
  <2> QED  BY <1>3, <2>1 DEF AloneAt
<1> QED  BY <1>1, <1>2, <1>3

=============================================================================
