---------------------------- MODULE Maintenance ----------------------------
(***************************************************************************)
(* Preventive maintenance of office assets (office.service.ts and the      *)
(* hourly job of scheduler.service.ts).  The job lists the assets that are *)
(* due, then one transaction per asset opens a work order and moves the    *)
(* dates on from the interval it listed.  Managers edit, retire and delete *)
(* assets meanwhile, and the next run may start before this one has ended. *)
(***************************************************************************)
EXTENDS Requests

CONSTANTS Assets, MaxOrders

ASSUME MaxOrdersNat == MaxOrders \in Nat

VARIABLES
    asset,       \* the asset rows
    orders,      \* per asset: the work orders of the job, and whether any order was made by hand
    served       \* per asset: the due date the job last opened an order for, since it was set by hand

maintenanceVars == <<asset, orders, served>>

NoAsset == [status |-> "none"]

NoInterval == 0

MaintenanceInit ==
    /\ asset = [a \in Assets |-> NoAsset]
    /\ orders = [a \in Assets |-> [pm |-> 0, byHand |-> FALSE]]
    /\ served = [a \in Assets |-> Never]

Held == {a \in Assets : asset[a] # NoAsset}

CreateAsset(a) ==
    /\ a \notin Held /\ Fresh(a)
    /\ \E auto \in BOOLEAN, interval \in {NoInterval, 1}, next \in {Never, now} :
          asset' = [asset EXCEPT ![a] = [status |-> "ACTIVE", auto |-> auto, interval |-> interval,
                                         next |-> next]]
    /\ orders' = [orders EXCEPT ![a] = [pm |-> 0, byHand |-> FALSE]]
    /\ served' = [served EXCEPT ![a] = Never]
    /\ Once(a)

\* The columns the caller names are written, the others left alone.
UpdateAsset(i, a) ==
    /\ a \in Held
    /\ \E w \in [status : {"ACTIVE", "RETIRED"}] \cup [auto : BOOLEAN] \cup [interval : {NoInterval, 1}]
                \cup [next : {Never, now}] :
          Begin(i, [op |-> "asset", rows |-> {a}, asset |-> a, write |-> w])
    /\ UNCHANGED maintenanceVars

WriteAsset(i) ==
    LET r == req[i] IN
    /\ r # Idle /\ r.op = "asset"
    /\ asset' = IF r.asset \in Held THEN [asset EXCEPT ![r.asset] = Written(r.write, @)] ELSE asset
    /\ served' = IF "next" \in DOMAIN r.write THEN [served EXCEPT ![r.asset] = Never] ELSE served
    /\ End(i)
    /\ UNCHANGED orders

\* An asset with work orders is not deleted: they are counted first.
DeleteAsset(i, a) ==
    /\ a \in Held
    /\ orders[a] = [pm |-> 0, byHand |-> FALSE]
    /\ Begin(i, [op |-> "deleteAsset", rows |-> {a}, asset |-> a])
    /\ UNCHANGED maintenanceVars

RemoveAsset(i) ==
    LET r == req[i] IN
    /\ r # Idle /\ r.op = "deleteAsset"
    /\ asset' = [asset EXCEPT ![r.asset] = NoAsset]
    /\ End(i)
    /\ UNCHANGED <<orders, served>>

OrderForAsset(a) ==
    /\ a \in Held
    /\ orders' = [orders EXCEPT ![a].byHand = TRUE]
    /\ Once(a)
    /\ UNCHANGED <<asset, served>>

Due(a) ==
    /\ a \in Held
    /\ asset[a].auto
    /\ asset[a].interval # NoInterval
    /\ asset[a].next # Never /\ asset[a].next <= now
    /\ asset[a].status = "ACTIVE"

RunPreventiveMaintenance(i) ==
    LET due == {a \in Assets : Due(a)} IN
    /\ due # {}
    /\ Begin(i, [op |-> "pm", rows |-> due, left |-> due, at |-> now,
                 interval |-> [a \in due |-> asset[a].interval]])
    /\ UNCHANGED maintenanceVars

\* The transaction for one asset; it fails, and the job goes on, if the asset is gone.
OpenPmOrder(i) ==
    LET r == req[i] IN
    /\ r # Idle /\ r.op = "pm"
    /\ \E a \in r.left :
          /\ IF a \in Held
             THEN /\ orders[a].pm < MaxOrders
                  /\ orders' = [orders EXCEPT ![a].pm = @ + 1]
                  /\ asset' = [asset EXCEPT ![a].next = r.at + r.interval[a]]
                  /\ served' = [served EXCEPT ![a] = asset[a].next]
             ELSE UNCHANGED maintenanceVars
          /\ IF r.left = {a} THEN End(i) ELSE Proceed(i, [r EXCEPT !.left = @ \ {a}])

MaintenanceStep(i) ==
    \/ \E a \in Assets : UpdateAsset(i, a) \/ DeleteAsset(i, a)
    \/ WriteAsset(i)
    \/ RemoveAsset(i)
    \/ RunPreventiveMaintenance(i)
    \/ OpenPmOrder(i)

MaintenanceNext ==
    \/ \E a \in Assets : CreateAsset(a) \/ OrderForAsset(a)
    \/ \E i \in Slots : MaintenanceStep(i)
    \/ (Tick \/ \E i \in Slots : Abort(i)) /\ UNCHANGED maintenanceVars

-----------------------------------------------------------------------------

MaintenanceTypeOK ==
    /\ \A a \in Held : asset[a] \in [status : {"ACTIVE", "RETIRED"}, auto : BOOLEAN,
                                     interval : {NoInterval, 1}, next : Never..(MaxTime + 1)]
    /\ orders \in [Assets -> [pm : 0..MaxOrders, byHand : BOOLEAN]]
    /\ served \in [Assets -> Never..(MaxTime + 1)]

\* A part of ServiceDatesHold, of a step: the job opens one order per due date, and only
\* for an asset that is due and in service at that moment, though it decides from a list
\* it read long before: unless a manager, or another run, was at the asset too.
PmOncePerDueDate ==
    \A a \in Assets \ contested' :
        orders'[a].pm > orders[a].pm => Due(a) /\ asset[a].next # served[a]

=============================================================================
