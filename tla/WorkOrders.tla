----------------------------- MODULE WorkOrders -----------------------------
(***************************************************************************)
(* Work orders of apartments and estates (property.service.ts) and the job *)
(* that alerts about those past their deadline (scheduler.service.ts, every *)
(* half hour).  The job lists the orders in breach that were not alerted   *)
(* about, then mails and marks them one after the other; meanwhile orders  *)
(* are completed, cancelled and reopened, and the next run may start.      *)
(* IN_PROGRESS is like OPEN here.  The job's page of 200 orders is not      *)
(* reached.                                                                *)
(***************************************************************************)
EXTENDS Requests

CONSTANTS Orders

VARIABLES
    work,        \* the work order rows
    alerts       \* per order: alerts sent since it was created or last left COMPLETED

workVars == <<work, alerts>>

NoWork == [status |-> "none"]

WorkInit ==
    /\ work = [o \in Orders |-> NoWork]
    /\ alerts = [o \in Orders |-> 0]

Ordered == {o \in Orders : work[o] # NoWork}

WorkStatuses == {"OPEN", "WAITING", "COMPLETED", "CANCELLED"}
TerminalStatuses == {"COMPLETED", "CANCELLED"}

CreateOrder(o) ==
    /\ o \notin Ordered
    /\ \E deadline \in {Never, now, now + 1} :
          work' = [work EXCEPT ![o] =
              [status |-> "OPEN", reason |-> FALSE, completedAt |-> Never, deadline |-> deadline,
               alertedAt |-> Never]]
    /\ Once(o)
    /\ UNCHANGED alerts

\* Mutant: the date of the completion is left out.
CompletedAtMutant(old, next) == old.completedAt

CompletedAt(old, next) ==
    IF next = "COMPLETED" /\ old.status # "COMPLETED" THEN now ELSE old.completedAt

\* The status and the completion date are always written, as read or as named; the
\* reason and the mark of the alert only when they change.  The caller gives no reason,
\* a text or an empty one; a reason is what WAITING needs, and goes with it.
UpdateOrder(i, o) ==
    LET old == work[o] IN
    /\ \E next \in WorkStatuses, given \in {<<>>} \cup [reason : BOOLEAN] :
          /\ next = "WAITING" => Written(given, old).reason
          /\ Begin(i, [op |-> "work", rows |-> {o}, order |-> o, reopens |->
                          old.status = "COMPLETED" /\ next # "COMPLETED",
                       write |-> Written([status |-> next, completedAt |-> CompletedAt(old, next)],
                                         IF next = "WAITING" THEN [reason |-> TRUE]
                                         ELSE IF old.status = "WAITING" THEN [reason |-> FALSE]
                                         ELSE given)])
    /\ UNCHANGED workVars

WriteOrder(i) ==
    LET r == req[i] IN
    /\ r # Idle /\ r.op = "work"
    /\ work' = [work EXCEPT ![r.order] =
          Written(r.write, [work[r.order] EXCEPT !.alertedAt = IF r.reopens THEN Never ELSE @])]
    /\ alerts' = [alerts EXCEPT ![r.order] = IF r.reopens THEN 0 ELSE @]
    /\ End(i)

Breached(o) ==
    /\ o \in Ordered
    /\ work[o].deadline # Never /\ work[o].deadline <= now
    /\ work[o].alertedAt = Never
    /\ work[o].status \notin TerminalStatuses

RunSlaBreachAlerts(i) ==
    LET due == {o \in Orders : Breached(o)} IN
    /\ due # {}
    /\ Begin(i, [op |-> "sla", rows |-> due, left |-> due, mailed |-> {}])
    /\ UNCHANGED workVars

\* The owner, the managers and the assignee are mailed and notified; MaxAlerts is the
\* bound of the model on how often.
MaxAlerts == 2

MailAlert(i) ==
    LET r == req[i] IN
    /\ r # Idle /\ r.op = "sla" /\ r.mailed = {}
    /\ \E o \in r.left :
          /\ alerts[o] < MaxAlerts
          /\ alerts' = [alerts EXCEPT ![o] = @ + 1]
          /\ Proceed(i, [r EXCEPT !.mailed = {o}])
    /\ UNCHANGED work

\* The mark; where the update fails the job logs it and goes on with the next order.
MarkAlerted(i) ==
    LET r == req[i]
        rest == r.left \ r.mailed
    IN /\ r # Idle /\ r.op = "sla" /\ r.mailed # {}
       /\ \/ /\ work' = [o \in Orders |-> IF o \in r.mailed THEN [work[o] EXCEPT !.alertedAt = now]
                                          ELSE work[o]]
             /\ UNCHANGED contested
          \/ /\ contested' = contested \cup r.mailed
             /\ UNCHANGED work
       /\ req' = [req EXCEPT ![i] = IF rest = {} THEN Idle
                                    ELSE [r EXCEPT !.left = rest, !.mailed = {}]]
       /\ UNCHANGED <<now, alerts>>

WorkStep(i) ==
    \/ \E o \in Ordered : UpdateOrder(i, o)
    \/ WriteOrder(i)
    \/ RunSlaBreachAlerts(i)
    \/ MailAlert(i)
    \/ MarkAlerted(i)

WorkNext ==
    \/ \E o \in Orders : CreateOrder(o)
    \/ \E i \in Slots : WorkStep(i) \/ (Cut(i) /\ UNCHANGED workVars)
    \/ Tick /\ UNCHANGED workVars

-----------------------------------------------------------------------------

WorkTypeOK ==
    /\ \A o \in Ordered :
          /\ work[o] \in [status : WorkStatuses, reason : BOOLEAN, completedAt : Never..MaxTime,
                          deadline : Never..(MaxTime + 1), alertedAt : Never..MaxTime]
          /\ work[o].status = "WAITING" => work[o].reason
          /\ work[o].status = "COMPLETED" => work[o].completedAt # Never
    /\ alerts \in [Orders -> 0..MaxAlerts]

\* A part of RemindedOnce: one alert goes out per breach.  Marked orders are not listed
\* again, an order that is reopened after completion may be alerted about again, and only
\* one that was open and late when the mail left is.  Two runs of the job at once, a run that ends between the
\* mail and the mark, or a completion meanwhile are the exceptions.
AlertedOncePerBreach ==
    /\ \A o \in Ordered \ contested :
          /\ alerts[o] <= 1
          /\ work[o].alertedAt # Never => alerts[o] = 1
    /\ \A i \in Slots :
          req[i] # Idle /\ req[i].op = "sla"
            => \A o \in req[i].mailed \ contested : Breached(o)

=============================================================================
