--------------------------- MODULE RecurringCharges ---------------------------
(***************************************************************************)
(* Recurring charges of an estate: the manager's requests that create,     *)
(* change and delete a schedule (ApartmentService), and the hourly job     *)
(* that posts the charges which are due (processRecurringCharges).         *)
(*                                                                         *)
(* The job reads the due schedules once.  For each it reads the residents, *)
(* posts a charge to every one, and moves nextRunAt, in three calls and no *)
(* transaction.  Nest starts it every hour whether or not the one before   *)
(* has ended.                                                              *)
(***************************************************************************)
EXTENDS Integers, Sequences

CONSTANTS
    Schedules, Residents,
    Sweeps,             \* slots for runs of the job
    MonthLengths,       \* days of the months, round and round
    HoursPerDay, DaysPerWeek, MonthsPerQuarter, MonthsPerYear,
    Offered,            \* the frequencies managers choose from
    DaysOffered,        \* and the days of the month
    Months,             \* bound on the clock: the last month
    MaxHours,           \* bound on a run of the job: the hours it may see pass
    MaxFaults           \* bound on restarts and failed calls

\* No month is twice as long as another, nor shorter than a week.
ASSUME CalendarAssumption ==
    /\ MonthLengths \in Seq(Nat \ {0}) /\ MonthLengths # <<>>
    /\ HoursPerDay \in Nat \ {0} /\ DaysPerWeek \in Nat \ {0}
    /\ MonthsPerQuarter \in Nat \ {0} /\ MonthsPerYear \in Nat \ {0}
    /\ \A i, j \in 1..Len(MonthLengths) :
          MonthLengths[i] < 2 * MonthLengths[j] /\ DaysPerWeek <= MonthLengths[i]
    /\ \A d \in DaysOffered :
          d \in Nat /\ \E i \in 1..Len(MonthLengths) : d <= MonthLengths[i]

ASSUME BoundsAssumption == Months \in Nat /\ MaxHours \in Nat /\ MaxFaults \in Nat

VARIABLES
    now,        \* the clock
    fired,      \* the job has been started in this hour
    schedule,   \* EstateRecurringCharge
    active,     \* the residents with status ACTIVE and a unit
    sweep,      \* the runs of the job
    charged,    \* months in which each schedule has charged whom (history)
    settled,    \* residents who have been active all the time (history)
    regular,    \* schedules never switched off, while the job has run every hour,
                \* alone and without fault (history)
    again,      \* whom those have charged twice in a month (history)
    faults

vars == <<now, fired, schedule, active, sweep, charged, settled, regular, again, faults>>
history == <<charged, settled, regular, again>>

-----------------------------------------------------------------------------
(* Dates.  An instant is a month, a day of it and a time of that day.  An  *)
(* hour h has the times 2h, the full hour, and 2h + 1, some milliseconds   *)
(* later: the job starts a little late, now more, now less, and keeps the  *)
(* milliseconds in nextRunAt.  The clock shows full hours.                 *)

Length(m) == MonthLengths[(m % Len(MonthLengths)) + 1]

Instant == {t \in [m : Nat, d : Nat, time : 0..(2 * HoursPerDay - 1)] : t.d \in 1..Length(t.m)}

Before(a, b) == \/ a.m < b.m
                \/ a.m = b.m /\ a.d < b.d
                \/ a.m = b.m /\ a.d = b.d /\ a.time < b.time

\* Date normalises a day the month does not have into the next month.
Date(m, d, time) ==
    IF d > Length(m) THEN [m |-> m + 1, d |-> d - Length(m), time |-> time]
                     ELSE [m |-> m, d |-> d, time |-> time]

AddDays(t, n) == Date(t.m, t.d + n, t.time)     \* setDate(getDate() + n)
AddMonths(t, n) == Date(t.m + n, t.d, t.time)   \* setMonth(getMonth() + n)
SetDay(t, n) == Date(t.m, n, t.time)            \* setDate(n)

Frequencies == {"DAILY", "WEEKLY", "MONTHLY", "QUARTERLY", "YEARLY"}

ASSUME OfferedAssumption == Offered \subseteq Frequencies

DaysOf == [DAILY |-> 1, WEEKLY |-> DaysPerWeek]
MonthsOf == [MONTHLY |-> 1, QUARTERLY |-> MonthsPerQuarter, YEARLY |-> MonthsPerYear]

\* Mutant: a month is as long as the first.
NextRunOfDays(frequency, dayOfMonth, t) ==
    IF frequency \in {"DAILY", "WEEKLY"} THEN AddDays(t, DaysOf[frequency])
    ELSE IF frequency \in {"MONTHLY", "QUARTERLY"} THEN AddDays(t, Length(0))
    ELSE AddMonths(t, MonthsOf[frequency])

\* Mutant: the month is counted on and the day of the month written as it is.
NextRunOnTheDay(frequency, dayOfMonth, t) ==
    IF frequency \in {"DAILY", "WEEKLY"} THEN AddDays(t, DaysOf[frequency])
    ELSE [t EXCEPT !.m = @ + MonthsOf[frequency], !.d = IF dayOfMonth = 0 THEN @ ELSE dayOfMonth]

\* The run after one at t; dayOfMonth is 0 where the row has null.
NextRun(frequency, dayOfMonth, t) ==
    IF frequency \in {"DAILY", "WEEKLY"} THEN AddDays(t, DaysOf[frequency])
    ELSE LET next == AddMonths(t, MonthsOf[frequency])
         IN  IF frequency = "YEARLY" \/ dayOfMonth = 0 THEN next ELSE SetDay(next, dayOfMonth)

-----------------------------------------------------------------------------
Never == [m |-> 0, d |-> 0, time |-> 0]

NoSchedule == [state |-> "none", frequency |-> "MONTHLY", dayOfMonth |-> 0,
               isActive |-> FALSE, nextRunAt |-> Never, lastRunAt |-> Never]
IdleSweep == [step |-> "idle"]

Exists(s) == schedule[s].state = "row"

Init ==
    /\ now = [m |-> 0, d |-> 1, time |-> 0] /\ fired = FALSE
    /\ schedule = [s \in Schedules |-> NoSchedule]
    /\ active \in SUBSET Residents
    /\ sweep = [x \in Sweeps |-> IdleSweep]
    /\ charged = [s \in Schedules |-> [r \in Residents |-> {}]]
    /\ settled = active
    /\ regular = Schedules
    /\ again = [s \in Schedules |-> {}]
    /\ faults = 0

-----------------------------------------------------------------------------
\* The schedules in ss leave the regular course.
NoLonger(ss) ==
    /\ regular' = regular \ ss
    /\ again' = [s \in Schedules |-> IF s \in ss THEN {} ELSE again[s]]

-----------------------------------------------------------------------------
(* The requests                                                            *)

CreateRecurringCharge(s) ==
    /\ schedule[s].state = "none"
    /\ \E frequency \in Offered, dayOfMonth \in DaysOffered :
         /\ frequency \in {"MONTHLY", "QUARTERLY"} \/ dayOfMonth = 0
         /\ schedule' = [schedule EXCEPT ![s] =
            [state |-> "row", frequency |-> frequency, dayOfMonth |-> dayOfMonth,
             isActive |-> TRUE, lastRunAt |-> Never,
             nextRunAt |-> [NextRun(frequency, dayOfMonth, now) EXCEPT !.time = 0]]]
    /\ UNCHANGED <<now, fired, active, sweep, history, faults>>

\* updateRecurringCharge writes isActive by id, as asked or as it was read some
\* time ago: a request that changes the title can switch a schedule on again.
\* So either value may be written at any time.
UpdateRecurringCharge(s) ==
    /\ Exists(s)
    /\ \E isActive \in BOOLEAN :
         /\ schedule' = [schedule EXCEPT ![s].isActive = isActive]
         /\ IF isActive THEN UNCHANGED <<regular, again>> ELSE NoLonger({s})
    /\ UNCHANGED <<now, fired, active, sweep, charged, settled, faults>>

DeleteRecurringCharge(s) ==
    /\ Exists(s)
    /\ schedule' = [schedule EXCEPT ![s] = [NoSchedule EXCEPT !.state = "deleted"]]
    /\ UNCHANGED <<now, fired, active, sweep, history, faults>>

\* A resident moves in or out; other requests do this.
ResidentMoves(r) ==
    /\ active' = IF r \in active THEN active \ {r} ELSE active \union {r}
    /\ settled' = settled \ {r}
    /\ UNCHANGED <<now, fired, schedule, sweep, charged, regular, again, faults>>

-----------------------------------------------------------------------------
(* processRecurringCharges                                                 *)

\* Mutant: a run is only made in its own hour, so that one missed is lost.
DueInItsHour(s, t) ==
    /\ Exists(s) /\ schedule[s].isActive
    /\ schedule[s].nextRunAt \in {t, [t EXCEPT !.time = (@ \div 2) * 2]}

Due(s, t) ==
    /\ Exists(s) /\ schedule[s].isActive
    /\ ~Before(t, schedule[s].nextRunAt)

\* The next schedule of a run, or its end.
GoOn(x, todo) ==
    sweep' = [sweep EXCEPT ![x] =
        IF todo = {} THEN IdleSweep
        ELSE [step |-> "residents", at |-> sweep[x].at, hours |-> sweep[x].hours, todo |-> todo]]

SweepRead(x) ==
    /\ sweep[x] = IdleSweep /\ ~fired
    /\ fired' = TRUE
    /\ \E late \in {0, 1} :
         LET at == [now EXCEPT !.time = @ + late]
             due == {s \in Schedules : Due(s, at)}
         IN  sweep' = IF due = {} THEN sweep
                      ELSE [sweep EXCEPT ![x] = [step |-> "residents", at |-> at, hours |-> 0, todo |-> due]]
    /\ UNCHANGED <<now, schedule, active, history, faults>>

\* Mutant: the schedule is moved on before the charges are posted.
SweepResidentsAdvancing(x) ==
    /\ sweep[x].step = "residents"
    /\ \E s \in sweep[x].todo :
         /\ sweep' = [sweep EXCEPT ![x] =
                [step |-> IF active = {} THEN "advance" ELSE "post", at |-> sweep[x].at,
                 hours |-> sweep[x].hours, todo |-> sweep[x].todo, s |-> s, who |-> active]]
         /\ schedule' = IF Exists(s) THEN [schedule EXCEPT ![s].lastRunAt = sweep[x].at] ELSE schedule
    /\ UNCHANGED <<now, fired, active, history, faults>>

SweepResidents(x) ==
    /\ sweep[x].step = "residents"
    /\ \E s \in sweep[x].todo :
         sweep' = [sweep EXCEPT ![x] =
            [step |-> IF active = {} THEN "advance" ELSE "post", at |-> sweep[x].at,
             hours |-> sweep[x].hours, todo |-> sweep[x].todo, s |-> s, who |-> active]]
    /\ UNCHANGED <<now, fired, schedule, active, history, faults>>

\* createMany: all the charges or none.
SweepPost(x) ==
    /\ sweep[x].step = "post"
    /\ LET s == sweep[x].s
           m == sweep[x].at.m
       IN  /\ charged' = [charged EXCEPT ![s] = [r \in Residents |->
                            IF r \in sweep[x].who THEN @[r] \union {m} ELSE @[r]]]
           /\ again' = IF s \notin regular THEN again
                        ELSE [again EXCEPT ![s] = @ \union {r \in sweep[x].who : m \in charged[s][r]}]
    /\ sweep' = [sweep EXCEPT ![x].step = "advance"]
    /\ UNCHANGED <<now, fired, schedule, active, settled, regular, faults>>

\* The row is moved on by its id, from the time of the run; the update of a
\* deleted row fails, which is logged.
SweepAdvance(x) ==
    /\ sweep[x].step = "advance"
    /\ LET s == sweep[x].s IN
         /\ schedule' = IF Exists(s)
              THEN [schedule EXCEPT
                      ![s].lastRunAt = sweep[x].at,
                      ![s].nextRunAt = NextRun(schedule[s].frequency, schedule[s].dayOfMonth, sweep[x].at)]
              ELSE schedule
         /\ GoOn(x, sweep[x].todo \ {s})
    /\ UNCHANGED <<now, fired, active, history, faults>>

\* A call fails; the job goes on with its next schedule.
SweepFails(x) ==
    /\ faults < MaxFaults /\ faults' = faults + 1
    /\ \/ /\ sweep[x].step = "residents"
          /\ \E s \in sweep[x].todo : GoOn(x, sweep[x].todo \ {s})
       \/ /\ sweep[x].step \in {"post", "advance"}
          /\ GoOn(x, sweep[x].todo \ {sweep[x].s})
    /\ NoLonger(Schedules)
    /\ UNCHANGED <<now, fired, schedule, active, charged, settled>>

-----------------------------------------------------------------------------
AllIdle == \A x \in Sweeps : sweep[x] = IdleSweep

\* The next hour.  The clock does not wait for the job to be started, for the
\* process may be down, nor for a run to end.
Tick ==
    LET next == IF now.time + 2 < 2 * HoursPerDay THEN [now EXCEPT !.time = @ + 2]
                ELSE [AddDays(now, 1) EXCEPT !.time = 0]
    IN  /\ \A x \in Sweeps : sweep[x] # IdleSweep => sweep[x].hours < MaxHours
        /\ sweep' = [x \in Sweeps |-> IF sweep[x] = IdleSweep THEN IdleSweep
                                      ELSE [sweep[x] EXCEPT !.hours = @ + 1]]
        /\ IF next.m <= Months THEN now' = next
           ELSE fired /\ UNCHANGED now    \* the bound: only the job goes on
        /\ fired' = FALSE
        /\ IF fired /\ AllIdle THEN UNCHANGED <<regular, again>> ELSE NoLonger(Schedules)
        /\ UNCHANGED <<schedule, active, charged, settled, faults>>

Restart ==
    /\ faults < MaxFaults /\ faults' = faults + 1
    /\ sweep' = [x \in Sweeps |-> IdleSweep]
    /\ NoLonger(Schedules)
    /\ UNCHANGED <<now, fired, schedule, active, charged, settled>>

SweepStep(x) == SweepResidents(x) \/ SweepPost(x) \/ SweepAdvance(x) \/ SweepFails(x)

Next ==
    \/ \E s \in Schedules : CreateRecurringCharge(s) \/ UpdateRecurringCharge(s) \/ DeleteRecurringCharge(s)
    \/ \E r \in Residents : ResidentMoves(r)
    \/ \E x \in Sweeps : SweepRead(x) \/ SweepStep(x)
    \/ Tick \/ Restart

Spec == Init /\ [][Next]_vars

\* The hours pass, the timer fires, and a run of the job goes on to its end.
Fairness ==
    /\ WF_vars(Tick)
    /\ WF_vars(\E x \in Sweeps : SweepRead(x))
    /\ \A x \in Sweeps : WF_vars(SweepStep(x))

FairSpec == Spec /\ Fairness

-----------------------------------------------------------------------------
Schedule == [state : {"none", "row", "deleted"}, frequency : Frequencies, dayOfMonth : {0} \union DaysOffered,
             isActive : BOOLEAN, nextRunAt : Instant \union {Never},
             lastRunAt : Instant \union {Never}]

Moments == {t \in Instant : t.m <= Months}

\* A run of the job, with what it has read.
Run == {IdleSweep}
       \union [step : {"residents"}, at : Moments, hours : 0..MaxHours, todo : SUBSET Schedules]
       \union [step : {"post", "advance"}, at : Moments, hours : 0..MaxHours, todo : SUBSET Schedules,
               s : Schedules, who : SUBSET Residents]

\* Types of the variables; every date on a row is a day its month has, however
\* the job and the requests reckon it.
TypeOK ==
    /\ now \in Moments /\ \E h \in 0..(HoursPerDay - 1) : now.time = 2 * h
    /\ fired \in BOOLEAN
    /\ schedule \in [Schedules -> Schedule]
    /\ active \in SUBSET Residents
    /\ sweep \in [Sweeps -> Run]
    /\ charged \in [Schedules -> [Residents -> SUBSET (0..Months)]]
    /\ settled \in SUBSET active
    /\ regular \in SUBSET Schedules
    /\ again \in [Schedules -> SUBSET Residents]
    /\ faults \in 0..MaxFaults

\* A schedule that says it has run has charged every resident who was there
\* all the time, although posting and moving on are two calls, runs of the job
\* overlap and write lastRunAt out of order, and the process may die between
\* (processRecurringCharges).
RunsWereCharged ==
    \A s \in Schedules : schedule[s].lastRunAt # Never =>
        \A r \in settled : schedule[s].lastRunAt.m \in charged[s][r]

\* While the job runs every hour, alone and without fault, a monthly or
\* quarterly schedule charges once a month or a quarter and leaves none out,
\* however late in the hour a run starts and however often the schedule is
\* edited.  It takes a day of the month which no month lacks, with a day to
\* spare: others are moved into the month after (NextRun).
EveryMonthCharged ==
    \A s \in regular, r \in settled :
        LET c == charged[s][r]
            step == MonthsOf[schedule[s].frequency]
        IN  /\ Exists(s)
            /\ schedule[s].frequency \in {"MONTHLY", "QUARTERLY"}
            /\ schedule[s].dayOfMonth > 0
            /\ \A m \in 0..Months : schedule[s].dayOfMonth < Length(m)
            => /\ r \notin again[s]
               /\ \A m \in c : /\ \A n \in 1..(step - 1) : m + n \notin c
                              /\ m + step < now.m => m + step \in c

\* A schedule that is due is moved on in the end, unless it is switched off or
\* deleted: not for one that was missed while the process was down, nor for
\* one whose charges were posted before a fault.
DueRunsAreMade ==
    \A s \in Schedules :
        (Exists(s) /\ schedule[s].isActive /\ Before(schedule[s].nextRunAt, now))
            ~> (~Exists(s) \/ ~schedule[s].isActive \/ ~Before(schedule[s].nextRunAt, now))

=============================================================================
