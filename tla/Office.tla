------------------------------- MODULE Office -------------------------------
(***************************************************************************)
(* Office areas, the requests filed in them and the work orders            *)
(* (office.service.ts).  A request in an area with an owner opens a work   *)
(* order for the owner in the same transaction; the area was read before   *)
(* it.  Deleting an area counts its requests first, then deletes: the      *)
(* database deletes the requests of a deleted area with it and empties the *)
(* area column of its work orders.                                         *)
(***************************************************************************)
EXTENDS Requests, Sequences

CONSTANTS Areas, Staff, Nobody, MaxFiled

ASSUME MaxFiledNat == MaxFiled \in Nat
ASSUME NobodyIsNotStaff == Nobody \notin Staff

VARIABLES
    area,        \* per area its owner, or NoArea
    asked,       \* the office requests: area, the order they are linked to, status
    order,       \* the work orders: area, who works on them
    requestType  \* whether the custom request type is active

officeVars == <<area, asked, order, requestType>>

NoArea == "no area"
NoOrder == 0

OfficeInit ==
    /\ area = [a \in Areas |-> NoArea]
    /\ asked = {}
    /\ order = <<>>
    /\ requestType = FALSE

Open == {a \in Areas : area[a] # NoArea}

AskedIn(a) == {q \in asked : q.area = a}

\* The owner is checked to be an active member; the limit of the plan is in Limits.
CreateArea(a) ==
    /\ area[a] = NoArea /\ Fresh(a)
    /\ \E o \in Staff \cup {Nobody} : area' = [area EXCEPT ![a] = o]
    /\ Once(a)
    /\ UNCHANGED <<asked, order, requestType>>

UpdateArea(i, a) ==
    /\ a \in Open
    /\ \E o \in Staff \cup {Nobody} :
          Begin(i, [op |-> "area", rows |-> {a}, area |-> a, owner |-> o])
    /\ UNCHANGED officeVars

WriteArea(i) ==
    LET r == req[i] IN
    /\ r # Idle /\ r.op = "area"
    /\ area' = IF area[r.area] = NoArea THEN area ELSE [area EXCEPT ![r.area] = r.owner]
    /\ End(i)
    /\ UNCHANGED <<asked, order, requestType>>

\* Mutant: the requests of the area are not counted.
DeleteAreaMutant(i, a) ==
    /\ a \in Open
    /\ Begin(i, [op |-> "deleteArea", rows |-> {a}, area |-> a])
    /\ UNCHANGED officeVars

DeleteArea(i, a) ==
    /\ a \in Open
    /\ AskedIn(a) = {}
    /\ Begin(i, [op |-> "deleteArea", rows |-> {a}, area |-> a])
    /\ UNCHANGED officeVars

RemoveArea(i) ==
    LET r == req[i] IN
    /\ r # Idle /\ r.op = "deleteArea"
    /\ area' = [area EXCEPT ![r.area] = NoArea]
    /\ asked' = asked \ AskedIn(r.area)
    /\ order' = [o \in DOMAIN order |->
                    IF order[o].area = r.area THEN [order[o] EXCEPT !.area = NoArea] ELSE order[o]]
    /\ End(i)
    /\ UNCHANGED requestType

CreateRequestType ==
    /\ ~requestType
    /\ requestType' = TRUE
    /\ UNCHANGED <<requestVars, area, asked, order>>

DeactivateRequestType ==
    /\ requestType
    /\ requestType' = FALSE
    /\ UNCHANGED <<requestVars, area, asked, order>>

\* By staff, with a custom type only while it is active, or by a visitor's QR code.
BeginAsk(i, a) ==
    /\ a \in Open
    /\ Begin(i, [op |-> "ask", rows |-> {a}, area |-> a, owner |-> area[a]])
    /\ UNCHANGED officeVars

CreateRequest(i, a) ==
    \E custom \in BOOLEAN : (custom => requestType) /\ BeginAsk(i, a)

CreatePublicRequest(i, a) == BeginAsk(i, a)

\* The transaction: it fails if the area is gone.
FileRequest(i) ==
    LET r == req[i]
        row == [area |-> r.area, order |-> NoOrder, status |-> "PENDING",
                id |-> CHOOSE n \in 1..MaxFiled : \A q \in asked : q.id # n]
    IN /\ r # Idle /\ r.op = "ask"
       /\ IF r.area \notin Open
          THEN UNCHANGED officeVars
          ELSE /\ Cardinality(asked) < MaxFiled /\ Len(order) < MaxFiled
               /\ IF r.owner = Nobody
                  THEN asked' = asked \cup {row} /\ UNCHANGED order
                  ELSE /\ order' = Append(order, [area |-> r.area, worker |-> r.owner])
                       /\ asked' = asked \cup {[row EXCEPT !.order = Len(order'),
                                                         !.status = "IN_PROGRESS"]}
               /\ UNCHANGED <<area, requestType>>
       /\ End(i)

\* A work order made by hand; its area was looked up first.
CreateWorkOrder(i, a) ==
    /\ a \in Open
    /\ Begin(i, [op |-> "order", rows |-> {a}, area |-> a])
    /\ UNCHANGED officeVars

WriteWorkOrder(i) ==
    LET r == req[i] IN
    /\ r # Idle /\ r.op = "order"
    /\ IF r.area \in Open
       THEN /\ Len(order) < MaxFiled
            /\ \E w \in Staff \cup {Nobody} :
                  order' = Append(order, [area |-> r.area, worker |-> w])
       ELSE UNCHANGED order
    /\ End(i)
    /\ UNCHANGED <<area, asked, requestType>>

\* A manager may link any order to a request.
LinkOrder(q, o) ==
    /\ asked' = (asked \ {q}) \cup {[q EXCEPT !.order = o]}
    /\ Once(q.area)
    /\ UNCHANGED <<area, order, requestType>>

OfficeStep(i) ==
    \/ \E a \in Areas :
          \/ UpdateArea(i, a)
          \/ DeleteArea(i, a)
          \/ CreateRequest(i, a)
          \/ CreatePublicRequest(i, a)
          \/ CreateWorkOrder(i, a)
    \/ WriteArea(i)
    \/ RemoveArea(i)
    \/ FileRequest(i)
    \/ WriteWorkOrder(i)

OfficeNext ==
    \/ \E a \in Areas : CreateArea(a)
    \/ CreateRequestType
    \/ DeactivateRequestType
    \/ \E q \in asked, o \in DOMAIN order : LinkOrder(q, o)
    \/ \E i \in Slots : OfficeStep(i) \/ (Abort(i) /\ UNCHANGED officeVars)

-----------------------------------------------------------------------------

OfficeTypeOK ==
    /\ area \in [Areas -> Staff \cup {Nobody, NoArea}]
    /\ asked \subseteq [area : Areas, id : 1..MaxFiled, order : NoOrder..MaxFiled,
                        status : {"PENDING", "IN_PROGRESS"}]
    /\ order \in Seq([area : Areas \cup {NoArea}, worker : Staff \cup {Nobody}])

\* What a step of uncontested areas may not do (a part of NothingIsLost): take a request
\* away with its area, which the database would do without a word, or file one in an
\* area with an owner without an order for that owner.
RequestsKept ==
    \A a \in Areas \ contested' :
        /\ \A q \in AskedIn(a) : \E p \in asked' : p.area = a /\ p.id = q.id
        /\ \A p \in asked' : p.area = a /\ (\A q \in asked : q.id # p.id)
              => IF area[a] = Nobody THEN p.order = NoOrder
                 ELSE p.order # NoOrder /\ order'[p.order] = [area |-> a, worker |-> area[a]]

=============================================================================
