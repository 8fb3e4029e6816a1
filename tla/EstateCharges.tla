--------------------------- MODULE EstateCharges ---------------------------
(***************************************************************************)
(* Charges to the residents of an estate and the payments made on them     *)
(* (apartment.service.ts), and the hourly job that reminds of the ones due *)
(* soon and overdue (scheduler.service.ts).  A payment is checked against  *)
(* the sum read before its transaction, which writes the payment and a     *)
(* status worked out from what was read.  The job works through a list it  *)
(* read at its start and stores OVERDUE in the rows it has reminded of.    *)
(* Amounts are counted in the smallest unit, as the code rounds them.      *)
(***************************************************************************)
EXTENDS Requests, Integers, FiniteSetsExt

CONSTANTS Charges, Amounts, DueIn, DueSoon

ASSUME AmountsArePositive == Amounts \subseteq Nat \ {0}
ASSUME DueSoonNat == DueSoon \in Nat /\ DueIn \subseteq Nat
ASSUME SendIsNoCharge == "send" \notin Charges      \* where the job is between two rows

VARIABLES
    charge,      \* the charge rows; paid is the sum of the payments of a row
    reminders    \* per charge and type: the log of the reminder, and how many were sent

chargeVars == <<charge, reminders>>

NoCharge == [status |-> "none"]

ReminderTypes == {"PAYMENT_DUE_SOON", "PAYMENT_OVERDUE"}

ChargesInit ==
    /\ charge = [c \in Charges |-> NoCharge]
    /\ reminders = [c \in Charges |-> [t \in ReminderTypes |-> [logged |-> FALSE, sent |-> 0]]]

Charged == {c \in Charges : charge[c] # NoCharge}

deriveEstateChargeStatus(amount, paid, due, forced) ==
    CASE forced = "VOID" -> "VOID"
      [] forced # "VOID" /\ paid >= amount -> "PAID"
      [] forced # "VOID" /\ paid < amount /\ due < now -> "OVERDUE"
      [] forced # "VOID" /\ paid < amount /\ due >= now /\ paid > 0 -> "PARTIALLY_PAID"
      [] OTHER -> "POSTED"

CreateFinanceCharge(c) ==
    /\ c \notin Charged
    /\ \E amount \in Amounts, due \in {now + d : d \in DueIn} :
          charge' = [charge EXCEPT ![c] =
              [amount |-> amount, paid |-> 0, due |-> due,
               status |-> deriveEstateChargeStatus(amount, 0, due, "none")]]
    /\ Once(c)
    /\ UNCHANGED reminders

\* The amount and the due date are written if named, the status always.
UpdateFinanceCharge(i, c) ==
    LET old == charge[c] IN
    /\ \E amount \in Amounts, due \in {old.due} \cup {now + d : d \in DueIn}, void \in BOOLEAN :
          /\ amount >= old.paid
          /\ Begin(i, [op |-> "charge", rows |-> {c}, charge |-> c,
                       amount |-> amount, newAmount |-> amount # old.amount,
                       due |-> due, newDue |-> due # old.due,
                       status |-> deriveEstateChargeStatus(amount, old.paid, due,
                                      IF void THEN "VOID" ELSE old.status)])
    /\ UNCHANGED chargeVars

WriteCharge(i) ==
    LET r == req[i]
        row == charge[r.charge]
    IN /\ r # Idle /\ r.op = "charge"
       /\ charge' = [charge EXCEPT ![r.charge] =
             [row EXCEPT !.amount = IF r.newAmount THEN r.amount ELSE @,
                         !.due = IF r.newDue THEN r.due ELSE @,
                         !.status = r.status]]
       /\ End(i)
       /\ UNCHANGED reminders

\* Mutant: a payment of more than what is left is taken.
RecordFinancePaymentMutant(i, c) ==
    LET old == charge[c] IN
    /\ old.status # "VOID" /\ old.paid < old.amount
    /\ \E p \in Amounts :
          Begin(i, [op |-> "pay", rows |-> {c}, charge |-> c, payment |-> p,
                    status |-> deriveEstateChargeStatus(old.amount, old.paid + p, old.due, old.status)])
    /\ UNCHANGED chargeVars

RecordFinancePayment(i, c) ==
    LET old == charge[c] IN
    /\ old.status # "VOID"
    /\ \E p \in Amounts :
          /\ p <= old.amount - old.paid
          /\ Begin(i, [op |-> "pay", rows |-> {c}, charge |-> c, payment |-> p,
                       status |-> deriveEstateChargeStatus(old.amount, old.paid + p, old.due, old.status)])
    /\ UNCHANGED chargeVars

WritePayment(i) ==
    LET r == req[i] IN
    /\ r # Idle /\ r.op = "pay"
    /\ charge' = [charge EXCEPT ![r.charge].paid = @ + r.payment, ![r.charge].status = r.status]
    /\ End(i)
    /\ UNCHANGED reminders

\* Mutant: the log is not looked at.
ToRemindMutant(type) ==
    {c \in Charged :
        IF type = "PAYMENT_DUE_SOON"
        THEN /\ charge[c].status \in {"POSTED", "PARTIALLY_PAID"}
             /\ now <= charge[c].due /\ charge[c].due <= now + DueSoon
        ELSE /\ charge[c].status \in {"POSTED", "PARTIALLY_PAID", "OVERDUE"}
             /\ charge[c].due < now}

\* The two lists of the job.  Every resident here has an address or a number: the job
\* skips a charge of one with neither.
ToRemind(type) ==
    {c \in Charged :
        /\ ~reminders[c][type].logged
        /\ IF type = "PAYMENT_DUE_SOON"
           THEN /\ charge[c].status \in {"POSTED", "PARTIALLY_PAID"}
                /\ now <= charge[c].due /\ charge[c].due <= now + DueSoon
           ELSE /\ charge[c].status \in {"POSTED", "PARTIALLY_PAID", "OVERDUE"}
                /\ charge[c].due < now}

SendEstateReminders(i, type) ==
    LET listed == ToRemind(type) IN
    /\ listed # {}
    /\ Begin(i, [op |-> "remind", rows |-> listed, left |-> listed, type |-> type, at |-> "send"])
    /\ UNCHANGED chargeVars

MaxSent == 2        \* bound of the model

\* One row after the other: the message, the log, the mark.
SendReminder(i) ==
    LET r == req[i] IN
    /\ r # Idle /\ r.op = "remind" /\ r.at = "send"
    /\ \E c \in r.left :
          /\ reminders[c][r.type].sent < MaxSent
          /\ reminders' = [reminders EXCEPT ![c][r.type].sent = @ + 1]
          /\ Proceed(i, [r EXCEPT !.at = c, !.left = @ \ {c}])
    /\ UNCHANGED charge

LogReminder(i) ==
    LET r == req[i] IN
    /\ r # Idle /\ r.op = "remind" /\ r.at \in Charges
    /\ ~reminders[r.at][r.type].logged
    /\ reminders' = [reminders EXCEPT ![r.at][r.type].logged = TRUE]
    /\ UNCHANGED <<requestVars, charge>>

NextRow(r) == IF r.left = {} THEN Idle ELSE [r EXCEPT !.at = "send"]

MarkReminded(i) ==
    LET r == req[i] IN
    /\ r # Idle /\ r.op = "remind" /\ r.at \in Charges
    /\ reminders[r.at][r.type].logged
    /\ charge' = [charge EXCEPT ![r.at].status = IF r.type = "PAYMENT_OVERDUE" THEN "OVERDUE" ELSE @]
    /\ Proceed(i, NextRow(r))
    /\ UNCHANGED reminders

\* An error leaves the row where it is, and the job goes on with the next one.
SkipReminder(i) ==
    LET r == req[i] IN
    /\ r # Idle /\ r.op = "remind" /\ r.at \in Charges
    /\ contested' = contested \cup {r.at}
    /\ req' = [req EXCEPT ![i] = NextRow(r)]
    /\ UNCHANGED <<now, chargeVars>>

\* What getFinanceSummary answers from the rows and the clock.
ActiveCharges == {c \in Charged : charge[c].status # "VOID"}

Outstanding(c) == Max({charge[c].amount - charge[c].paid, 0})

getFinanceSummary ==
    [billed |-> MapThenSumSet(LAMBDA c : charge[c].amount, ActiveCharges),
     paid |-> MapThenSumSet(LAMBDA c : charge[c].paid, ActiveCharges),
     outstanding |-> MapThenSumSet(Outstanding, ActiveCharges)]

ChargesStep(i) ==
    \/ \E c \in Charged : UpdateFinanceCharge(i, c) \/ RecordFinancePayment(i, c)
    \/ WriteCharge(i)
    \/ WritePayment(i)
    \/ \E type \in ReminderTypes : SendEstateReminders(i, type)
    \/ SendReminder(i)
    \/ LogReminder(i)
    \/ MarkReminded(i)
    \/ SkipReminder(i)

ChargesNext ==
    \/ \E c \in Charges : CreateFinanceCharge(c)
    \/ \E i \in Slots : ChargesStep(i) \/ (Cut(i) /\ UNCHANGED chargeVars)
    \/ Tick /\ UNCHANGED chargeVars

-----------------------------------------------------------------------------

ChargesTypeOK ==
    /\ \A c \in Charged :
          charge[c] \in [amount : Amounts, paid : Nat, due : Nat,
                         status : {"POSTED", "PARTIALLY_PAID", "PAID", "OVERDUE", "VOID"}]
    /\ reminders \in [Charges -> [ReminderTypes -> [logged : BOOLEAN, sent : 0..MaxSent]]]

\* A part of BooksBalance: a row that no two requests contested is never paid beyond its
\* amount and is marked PAID exactly when it is covered, and the totals add up.
RowsBalance ==
    LET sums == getFinanceSummary IN
    /\ \A c \in ActiveCharges \ contested :
          /\ charge[c].paid <= charge[c].amount
          /\ charge[c].status = "PAID" <=> charge[c].paid = charge[c].amount
    /\ Charged \cap contested = {} => sums.outstanding = sums.billed - sums.paid

\* The other part: a void charge stays void and takes no payment.
VoidStays ==
    \A c \in Charged \ contested' :
        charge[c].status = "VOID" => charge'[c].status = "VOID" /\ charge'[c].paid = charge[c].paid

\* A part of RemindedOnce: one message of each type per charge.
ChargesRemindedOnce ==
    \A c \in Charges \ contested, t \in ReminderTypes : reminders[c][t].sent <= 1

=============================================================================
