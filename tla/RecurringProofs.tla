--------------------------- MODULE RecurringProofs ---------------------------
(***************************************************************************)
(* Theorems about RecurringCharges, for every calendar and every number of *)
(* schedules, residents and overlapping runs of the job.                   *)
(***************************************************************************)
EXTENDS RecurringCharges, TLAPS

USE CalendarAssumption, BoundsAssumption

(***************************************************************************)
(* Dates.  A date that is one month's days too long is in the next month,  *)
(* and is a day of it, because no month is twice as long as another.       *)
(***************************************************************************)

LEMMA MonthLength ==
    ASSUME NEW m \in Nat
    PROVE  \E i \in 1..Len(MonthLengths) : Length(m) = MonthLengths[i]
<1>1. Len(MonthLengths) \in Nat \ {0}
  BY DEF CalendarAssumption
<1>2. (m % Len(MonthLengths)) + 1 \in 1..Len(MonthLengths)
  BY <1>1
<1> QED  BY <1>2 DEF Length

\* Any two months, and the week.
LEMMA TwoMonths ==
    ASSUME NEW m \in Nat, NEW n \in Nat
    PROVE  /\ Length(m) \in Nat \ {0} /\ Length(m) < 2 * Length(n)
           /\ DaysPerWeek \in Nat \ {0} /\ DaysPerWeek <= Length(m)
<1>1. PICK i \in 1..Len(MonthLengths) : Length(m) = MonthLengths[i]
  BY MonthLength
<1>2. PICK j \in 1..Len(MonthLengths) : Length(n) = MonthLengths[j]
  BY MonthLength
<1>3. MonthLengths[i] \in Nat \ {0} /\ MonthLengths[j] \in Nat \ {0}
  BY DEF CalendarAssumption
<1> QED  BY <1>1, <1>2, <1>3 DEF CalendarAssumption

\* A day within a month is within any two months together.
LEMMA DayInTwoMonths ==
    ASSUME NEW d \in Nat, NEW a \in Nat, NEW b \in Nat, NEW c \in Nat,
           d <= a, a < 2 * b, a < 2 * c
    PROVE  d <= b + c
OBVIOUS

LEMMA DateIsInstant ==
    ASSUME NEW m \in Nat, NEW d \in Nat \ {0}, NEW time \in 0..(2 * HoursPerDay - 1),
           d <= Length(m) + Length(m + 1)
    PROVE  Date(m, d, time) \in Instant
<1>1. Length(m) \in Nat \ {0} /\ Length(m + 1) \in Nat \ {0} /\ m + 1 \in Nat
  BY TwoMonths
<1>2. CASE d > Length(m)
  <2>1. d - Length(m) \in 1..Length(m + 1)
    BY <1>1, <1>2
  <2>2. Date(m, d, time) = [m |-> m + 1, d |-> d - Length(m), time |-> time]
    BY <1>2 DEF Date
  <2> HIDE DEF Date
  <2> QED  BY <1>1, <2>1, <2>2 DEF Instant
<1>3. CASE ~ (d > Length(m))
  <2>1. d \in 1..Length(m)
    BY <1>1, <1>3
  <2>2. Date(m, d, time) = [m |-> m, d |-> d, time |-> time]
    BY <1>3 DEF Date
  <2> HIDE DEF Date
  <2> QED  BY <2>1, <2>2 DEF Instant
<1> QED  BY <1>2, <1>3

LEMMA AddDaysIsInstant ==
    ASSUME NEW t \in Instant, NEW n \in Nat, n = 1 \/ n = DaysPerWeek
    PROVE  AddDays(t, n) \in Instant
<1>1. t.m \in Nat /\ t.m + 1 \in Nat /\ t.d \in 1..Length(t.m) /\ t.time \in 0..(2 * HoursPerDay - 1)
  BY DEF Instant
<1>2. /\ Length(t.m) \in Nat /\ Length(t.m + 1) \in Nat \ {0}
      /\ DaysPerWeek \in Nat /\ DaysPerWeek <= Length(t.m + 1)
  BY <1>1, TwoMonths
<1>3. t.d + n \in Nat \ {0} /\ t.d + n <= Length(t.m) + Length(t.m + 1)
  <2>1. ASSUME NEW a \in Nat, NEW b \in Nat \ {0}, NEW d \in 1..a, n <= b
        PROVE  d + n \in Nat \ {0} /\ d + n <= a + b
    BY <2>1
  <2>2. n <= Length(t.m + 1)
    BY <1>2
  <2> QED  BY <1>1, <1>2, <2>1, <2>2
<1>4. Date(t.m, t.d + n, t.time) \in Instant
  BY <1>1, <1>3, DateIsInstant
<1> QED  BY <1>4 DEF AddDays

LEMMA AddMonthsIsInstant ==
    ASSUME NEW t \in Instant, NEW n \in Nat
    PROVE  AddMonths(t, n) \in Instant
<1>1. /\ t.m \in Nat /\ t.m + n \in Nat /\ t.m + n + 1 \in Nat
      /\ t.d \in 1..Length(t.m) /\ t.time \in 0..(2 * HoursPerDay - 1)
  BY DEF Instant
<1>2. /\ Length(t.m) \in Nat /\ Length(t.m + n) \in Nat /\ Length(t.m + n + 1) \in Nat
      /\ Length(t.m) < 2 * Length(t.m + n) /\ Length(t.m) < 2 * Length(t.m + n + 1)
  BY <1>1, TwoMonths
<1>3. t.d \in Nat \ {0} /\ t.d <= Length(t.m)
  BY <1>1, <1>2
<1>4. t.d <= Length(t.m + n) + Length(t.m + n + 1)
  BY <1>2, <1>3, DayInTwoMonths
<1> QED  BY <1>1, <1>3, <1>4, DateIsInstant DEF AddMonths

LEMMA SetDayIsInstant ==
    ASSUME NEW t \in Instant, NEW n \in DaysOffered, n # 0
    PROVE  SetDay(t, n) \in Instant
<1>1. t.m \in Nat /\ t.m + 1 \in Nat /\ t.time \in 0..(2 * HoursPerDay - 1)
  BY DEF Instant
<1>2. PICK i \in 1..Len(MonthLengths) : n \in Nat /\ n <= MonthLengths[i]
  BY DEF CalendarAssumption
<1>3. PICK j \in 1..Len(MonthLengths) : Length(t.m) = MonthLengths[j]
  BY <1>1, MonthLength
<1>4. PICK k \in 1..Len(MonthLengths) : Length(t.m + 1) = MonthLengths[k]
  BY <1>1, MonthLength
<1>5. /\ MonthLengths[i] \in Nat /\ MonthLengths[j] \in Nat /\ MonthLengths[k] \in Nat
      /\ MonthLengths[i] < 2 * MonthLengths[j] /\ MonthLengths[i] < 2 * MonthLengths[k]
  <2>1. \A x \in 1..Len(MonthLengths) : MonthLengths[x] \in Nat
    BY DEF CalendarAssumption
  <2>2. \A x, y \in 1..Len(MonthLengths) : MonthLengths[x] < 2 * MonthLengths[y]
    BY DEF CalendarAssumption
  <2> QED  BY <2>1, <2>2
<1>6. n <= MonthLengths[j] + MonthLengths[k]
  BY <1>2, <1>5, DayInTwoMonths
<1>7. n \in Nat \ {0} /\ n <= Length(t.m) + Length(t.m + 1)
  BY <1>2, <1>3, <1>4, <1>6
<1> QED  BY <1>1, <1>7, DateIsInstant DEF SetDay

\* The next run of a schedule is a real date.
LEMMA NextRunIsInstant ==
    ASSUME NEW frequency \in Frequencies, NEW day \in {0} \union DaysOffered, NEW t \in Instant
    PROVE  NextRun(frequency, day, t) \in Instant
<1>1. CASE frequency \in {"DAILY", "WEEKLY"}
  <2>1. DaysOf[frequency] \in Nat /\ (DaysOf[frequency] = 1 \/ DaysOf[frequency] = DaysPerWeek)
    BY <1>1 DEF DaysOf, CalendarAssumption
  <2> QED  BY <1>1, <2>1, AddDaysIsInstant DEF NextRun
<1>2. CASE frequency \notin {"DAILY", "WEEKLY"}
  <2> DEFINE next == AddMonths(t, MonthsOf[frequency])
  <2>1. MonthsOf[frequency] \in Nat
    BY <1>2 DEF MonthsOf, Frequencies, CalendarAssumption
  <2>2. next \in Instant
    BY <2>1, AddMonthsIsInstant
  <2>3. NextRun(frequency, day, t) =
            IF frequency = "YEARLY" \/ day = 0 THEN next ELSE SetDay(next, day)
    BY <1>2 DEF NextRun
  <2> HIDE DEF next
  <2> QED  BY <2>2, <2>3, SetDayIsInstant
<1> QED  BY <1>1, <1>2

-----------------------------------------------------------------------------
(***************************************************************************)
(* The invariant.  RunsWereCharged is not inductive: when the job moves a  *)
(* schedule on, the charges were posted in an earlier step, to residents   *)
(* read in one before that, and other runs and requests came in between.   *)
(***************************************************************************)

\* Whom a run of the job has read or charged so far: every resident who has
\* been there all the time is among them.
RunsInHand ==
    \A x \in Sweeps :
        /\ sweep[x].step = "post" => settled \subseteq sweep[x].who
        /\ sweep[x].step = "advance" =>
              \A r \in settled : sweep[x].at.m \in charged[sweep[x].s][r]

IInv == TypeOK /\ RunsInHand /\ RunsWereCharged

\* What a run holds at each of its steps.
LEMMA RunAtStep ==
    ASSUME NEW run \in Run
    PROVE  /\ run.step \in {"idle", "residents", "post", "advance"}
           /\ run.step = "idle" => run = IdleSweep
           /\ run.step # "idle" =>
                 run.at \in Moments /\ run.hours \in 0..MaxHours /\ run.todo \in SUBSET Schedules
           /\ run.step \in {"post", "advance"} =>
                 /\ run.s \in Schedules /\ run.who \in SUBSET Residents
                 /\ run \in [step : {"post", "advance"}, at : Moments, hours : 0..MaxHours,
                             todo : SUBSET Schedules, s : Schedules, who : SUBSET Residents]
           /\ run.step = "residents" =>
                 run \in [step : {"residents"}, at : Moments, hours : 0..MaxHours,
                          todo : SUBSET Schedules]
BY DEF Run, IdleSweep

\* NoLonger concerns the history of regular schedules only.
LEMMA NoLongerTypes ==
    ASSUME TypeOK, NEW ss \in SUBSET Schedules, NoLonger(ss)
    PROVE  regular' \in SUBSET Schedules /\ again' \in [Schedules -> SUBSET Residents]
BY DEF TypeOK, NoLonger

\* What the job does between its schedules.
LEMMA GoOnTypes ==
    ASSUME TypeOK, NEW x \in Sweeps, sweep[x].step # "idle", NEW todo \in SUBSET Schedules, GoOn(x, todo)
    PROVE  /\ sweep' \in [Sweeps -> Run]
           /\ sweep'[x].step \notin {"post", "advance"}
           /\ \A y \in Sweeps \ {x} : sweep'[y] = sweep[y]
<1> DEFINE next == IF todo = {} THEN IdleSweep
                   ELSE [step |-> "residents", at |-> sweep[x].at, hours |-> sweep[x].hours, todo |-> todo]
<1>1. sweep \in [Sweeps -> Run] /\ sweep[x] \in Run
  BY DEF TypeOK
<1>2. sweep[x].at \in Moments /\ sweep[x].hours \in 0..MaxHours
  BY <1>1, RunAtStep
<1>3. next \in Run /\ next.step \notin {"post", "advance"}
  BY <1>2 DEF Run, IdleSweep
<1>4. sweep' = [sweep EXCEPT ![x] = next]
  BY DEF GoOn
<1> HIDE DEF next
<1> QED  BY <1>1, <1>3, <1>4

LEMMA InitEstablishesInvariant == Init => IInv
<1> SUFFICES ASSUME Init PROVE IInv
  OBVIOUS
<1>1. now \in Moments /\ \E h \in 0..(HoursPerDay - 1) : now.time = 2 * h
  <2>1. now = [m |-> 0, d |-> 1, time |-> 0] /\ Length(0) \in Nat \ {0}
    BY TwoMonths DEF Init
  <2>2. HoursPerDay \in Nat \ {0} /\ 0 \in 0..(HoursPerDay - 1) /\ 0 \in 0..(2 * HoursPerDay - 1) /\ 0 = 2 * 0
    BY DEF CalendarAssumption
  <2>3. 1 \in 1..Length(0) /\ 0 <= Months
    BY <2>1 DEF BoundsAssumption
  <2> QED  BY <2>1, <2>2, <2>3 DEF Instant, Moments
<1>2. NoSchedule \in Schedule
  BY DEF NoSchedule, Schedule, Frequencies
<1>3. IdleSweep \in Run /\ IdleSweep.step = "idle"
  BY DEF Run, IdleSweep
<1>4. TypeOK
  <2>1. schedule \in [Schedules -> Schedule] /\ sweep \in [Sweeps -> Run]
    BY <1>2, <1>3 DEF Init
  <2>2. fired \in BOOLEAN /\ active \in SUBSET Residents /\ settled \in SUBSET active
    BY DEF Init
  <2>3. charged \in [Schedules -> [Residents -> SUBSET (0..Months)]]
    BY DEF Init
  <2>4. regular \in SUBSET Schedules /\ again \in [Schedules -> SUBSET Residents]
    BY DEF Init
  <2>5. faults \in 0..MaxFaults
    BY DEF Init, BoundsAssumption
  <2> QED  BY <1>1, <2>1, <2>2, <2>3, <2>4, <2>5 DEF TypeOK
<1>5. RunsInHand
  BY <1>3 DEF Init, RunsInHand
<1>6. RunsWereCharged
  BY DEF Init, RunsWereCharged, NoSchedule
<1> QED  BY <1>4, <1>5, <1>6 DEF IInv

-----------------------------------------------------------------------------
(* One lemma for each step.                                                *)

LEMMA CreateKeepsInvariant ==
    ASSUME IInv, NEW s \in Schedules, CreateRecurringCharge(s)
    PROVE  IInv'
<1> USE DEF IInv
<1>1. PICK frequency \in Offered, day \in DaysOffered :
        schedule' = [schedule EXCEPT ![s] =
            [state |-> "row", frequency |-> frequency, dayOfMonth |-> day,
             isActive |-> TRUE, lastRunAt |-> Never,
             nextRunAt |-> [NextRun(frequency, day, now) EXCEPT !.time = 0]]]
  BY DEF CreateRecurringCharge
<1>2. /\ UNCHANGED <<now, fired, active, sweep, history, faults>>
  BY DEF CreateRecurringCharge
<1> DEFINE new == [state |-> "row", frequency |-> frequency, dayOfMonth |-> day,
                   isActive |-> TRUE, lastRunAt |-> Never,
                   nextRunAt |-> [NextRun(frequency, day, now) EXCEPT !.time = 0]]
<1>3. [NextRun(frequency, day, now) EXCEPT !.time = 0] \in Instant
  <2>1. NextRun(frequency, day, now) \in Instant
    <3>1. frequency \in Frequencies /\ day \in {0} \union DaysOffered /\ now \in Instant
      BY OfferedAssumption DEF TypeOK, Moments, OfferedAssumption
    <3> QED  BY <3>1, NextRunIsInstant
  <2>2. 0 \in 0..(2 * HoursPerDay - 1)
    BY DEF CalendarAssumption
  <2> QED  BY <2>1, <2>2 DEF Instant
<1>4. new \in Schedule
  BY <1>3, OfferedAssumption DEF Schedule, OfferedAssumption
<1>5. schedule' \in [Schedules -> Schedule]
  BY <1>1, <1>4 DEF TypeOK
<1>6. TypeOK'
  BY <1>2, <1>5 DEF TypeOK, history
<1>7. RunsInHand'
  BY <1>2 DEF RunsInHand, history
<1>8. RunsWereCharged'
  BY <1>1, <1>2 DEF RunsWereCharged, TypeOK, history
<1> QED  BY <1>6, <1>7, <1>8

LEMMA UpdateKeepsInvariant ==
    ASSUME IInv, NEW s \in Schedules, UpdateRecurringCharge(s)
    PROVE  IInv'
<1> USE DEF IInv
<1>1. PICK isActive \in BOOLEAN :
        /\ schedule' = [schedule EXCEPT ![s].isActive = isActive]
        /\ IF isActive THEN UNCHANGED <<regular, again>> ELSE NoLonger({s})
  BY DEF UpdateRecurringCharge
<1>2. UNCHANGED <<now, fired, active, sweep, charged, settled, faults>>
  BY DEF UpdateRecurringCharge
<1>3. schedule' \in [Schedules -> Schedule]
  BY <1>1 DEF TypeOK, Schedule
<1>4. regular' \in SUBSET Schedules /\ again' \in [Schedules -> SUBSET Residents]
  BY <1>1, NoLongerTypes DEF TypeOK
<1>5. \A u \in Schedules : schedule'[u].lastRunAt = schedule[u].lastRunAt
  BY <1>1 DEF TypeOK, Schedule
<1>6. TypeOK'
  BY <1>2, <1>3, <1>4 DEF TypeOK
<1>7. RunsInHand' /\ RunsWereCharged'
  BY <1>2, <1>5 DEF RunsInHand, RunsWereCharged
<1> QED  BY <1>6, <1>7

LEMMA DeleteKeepsInvariant ==
    ASSUME IInv, NEW s \in Schedules, DeleteRecurringCharge(s)
    PROVE  IInv'
<1> USE DEF IInv
<1> DEFINE gone == [NoSchedule EXCEPT !.state = "deleted"]
<1>1. schedule' = [schedule EXCEPT ![s] = gone] /\ UNCHANGED <<now, fired, active, sweep, history, faults>>
  BY DEF DeleteRecurringCharge
<1>2. gone \in Schedule /\ gone.lastRunAt = Never
  BY DEF NoSchedule, Schedule, Frequencies
<1> HIDE DEF gone
<1>3. TypeOK'
  BY <1>1, <1>2 DEF TypeOK, history
<1>4. RunsInHand' /\ RunsWereCharged'
  BY <1>1, <1>2 DEF RunsInHand, RunsWereCharged, TypeOK, history
<1> QED  BY <1>3, <1>4

LEMMA MoveKeepsInvariant ==
    ASSUME IInv, NEW r \in Residents, ResidentMoves(r)
    PROVE  IInv'
<1> USE DEF IInv
<1>1. /\ active' = IF r \in active THEN active \ {r} ELSE active \union {r}
      /\ settled' = settled \ {r}
      /\ UNCHANGED <<now, fired, schedule, sweep, charged, regular, again, faults>>
  BY DEF ResidentMoves
<1>2. TypeOK'
  BY <1>1 DEF TypeOK
<1>3. RunsInHand' /\ RunsWereCharged'
  BY <1>1 DEF RunsInHand, RunsWereCharged
<1> QED  BY <1>2, <1>3

\* The run reads its due schedules.
LEMMA SweepReadKeepsInvariant ==
    ASSUME IInv, NEW x \in Sweeps, SweepRead(x)
    PROVE  IInv'
<1> USE DEF IInv
<1>1. PICK late \in {0, 1} :
        LET at == [now EXCEPT !.time = @ + late]
            due == {s \in Schedules : Due(s, at)}
        IN  sweep' = IF due = {} THEN sweep
                     ELSE [sweep EXCEPT ![x] = [step |-> "residents", at |-> at, hours |-> 0, todo |-> due]]
  BY DEF SweepRead
<1> DEFINE at == [now EXCEPT !.time = @ + late]
           due == {s \in Schedules : Due(s, at)}
           new == [step |-> "residents", at |-> at, hours |-> 0, todo |-> due]
<1>2. fired' = TRUE /\ UNCHANGED <<now, schedule, active, history, faults>>
  BY DEF SweepRead
<1>3. at \in Moments
  <2>1. now \in Moments
    BY DEF TypeOK
  <2>2. PICK h \in 0..(HoursPerDay - 1) : now.time = 2 * h
    BY DEF TypeOK
  <2>3. HoursPerDay \in Nat
    BY DEF CalendarAssumption
  <2>4. now.time + late \in 0..(2 * HoursPerDay - 1)
    BY <2>2, <2>3
  <2> QED  BY <2>1, <2>4 DEF Moments, Instant
<1>4. new \in Run /\ new.step = "residents"
  <2>1. 0 \in 0..MaxHours
    BY DEF BoundsAssumption
  <2> HIDE DEF at, due
  <2>2. due \in SUBSET Schedules
    BY DEF due
  <2> QED  BY <1>3, <2>1, <2>2 DEF Run
<1>5. sweep' = sweep \/ sweep' = [sweep EXCEPT ![x] = new]
  BY <1>1
<1> HIDE DEF at, due, new
<1>6. sweep' \in [Sweeps -> Run]
  BY <1>4, <1>5 DEF TypeOK
<1>7. TypeOK'
  BY <1>2, <1>6 DEF TypeOK, history
<1>8. RunsInHand'
  BY <1>2, <1>4, <1>5 DEF RunsInHand, TypeOK, history
<1>9. RunsWereCharged'
  BY <1>2 DEF RunsWereCharged, history
<1> QED  BY <1>7, <1>8, <1>9

\* Those who have been there all the time are among those it reads.
LEMMA SweepResidentsKeepsInvariant ==
    ASSUME IInv, NEW x \in Sweeps, SweepResidents(x)
    PROVE  IInv'
<1> USE DEF IInv
<1>1. PICK s \in sweep[x].todo :
        sweep' = [sweep EXCEPT ![x] =
            [step |-> IF active = {} THEN "advance" ELSE "post", at |-> sweep[x].at,
             hours |-> sweep[x].hours, todo |-> sweep[x].todo, s |-> s, who |-> active]]
  BY DEF SweepResidents
<1> DEFINE new == [step |-> IF active = {} THEN "advance" ELSE "post", at |-> sweep[x].at,
                   hours |-> sweep[x].hours, todo |-> sweep[x].todo, s |-> s, who |-> active]
<1>2. sweep[x].step = "residents" /\ UNCHANGED <<now, fired, schedule, active, history, faults>>
  BY DEF SweepResidents
<1>3. /\ sweep[x].at \in Moments /\ sweep[x].hours \in 0..MaxHours
      /\ sweep[x].todo \in SUBSET Schedules
  <2>1. sweep[x] \in Run
    BY DEF TypeOK
  <2> QED  BY <1>2, <2>1, RunAtStep
<1>4. new \in Run
  <2>1. s \in Schedules /\ active \in SUBSET Residents
    BY <1>3 DEF TypeOK
  <2> QED  BY <1>3, <2>1 DEF Run
<1>5. /\ new.step = "post" => new.who = active
      /\ new.step = "advance" => active = {}
  OBVIOUS
<1>6. sweep' = [sweep EXCEPT ![x] = new]
  BY <1>1
<1> HIDE DEF new
<1>7. sweep' \in [Sweeps -> Run]
  BY <1>4, <1>6 DEF TypeOK
<1>8. TypeOK'
  BY <1>2, <1>7 DEF TypeOK, history
<1>9. RunsInHand'
  <2>1. settled \subseteq active
    BY DEF TypeOK
  <2> QED  BY <1>2, <1>5, <1>6, <2>1 DEF RunsInHand, TypeOK, history
<1>10. RunsWereCharged'
  BY <1>2 DEF RunsWereCharged, history
<1> QED  BY <1>8, <1>9, <1>10

\* Posting adds to what was charged, for all whom the run has read.
LEMMA SweepPostKeepsInvariant ==
    ASSUME IInv, NEW x \in Sweeps, SweepPost(x)
    PROVE  IInv'
<1> USE DEF IInv
<1> DEFINE s == sweep[x].s
           m == sweep[x].at.m
<1>1. /\ sweep[x].step = "post"
      /\ charged' = [charged EXCEPT ![s] = [r \in Residents |->
                        IF r \in sweep[x].who THEN @[r] \union {m} ELSE @[r]]]
      /\ again' = IF s \notin regular THEN again
                  ELSE [again EXCEPT ![s] = @ \union {r \in sweep[x].who : m \in charged[s][r]}]
      /\ sweep' = [sweep EXCEPT ![x].step = "advance"]
      /\ UNCHANGED <<now, fired, schedule, active, settled, regular, faults>>
  BY DEF SweepPost
<1>2. /\ sweep[x] \in [step : {"post", "advance"}, at : Moments, hours : 0..MaxHours,
                       todo : SUBSET Schedules, s : Schedules, who : SUBSET Residents]
      /\ s \in Schedules /\ sweep[x].who \in SUBSET Residents /\ sweep[x].at \in Moments
  <2>1. sweep[x] \in Run
    BY DEF TypeOK
  <2> QED  BY <1>1, <2>1, RunAtStep
<1>3. m \in 0..Months
  BY <1>2 DEF Moments, Instant, BoundsAssumption
<1>4. [sweep[x] EXCEPT !.step = "advance"] \in Run
  BY <1>2 DEF Run
<1>5. /\ sweep' \in [Sweeps -> Run] /\ sweep'[x] = [sweep[x] EXCEPT !.step = "advance"]
      /\ \A y \in Sweeps \ {x} : sweep'[y] = sweep[y]
  BY <1>1, <1>4 DEF TypeOK
<1>6. /\ sweep'[x].step = "advance" /\ sweep'[x].s = s /\ sweep'[x].at.m = m
  BY <1>2, <1>5
<1> HIDE DEF m, s
<1>7. charged' \in [Schedules -> [Residents -> SUBSET (0..Months)]]
  BY <1>1, <1>2, <1>3 DEF TypeOK
<1>8. again' \in [Schedules -> SUBSET Residents]
  <2>1. {r \in sweep[x].who : m \in charged[s][r]} \in SUBSET Residents
    BY <1>2
  <2> QED  BY <1>1, <1>2, <2>1 DEF TypeOK
<1>9. /\ \A u \in Schedules, r \in Residents : charged[u][r] \subseteq charged'[u][r]
      /\ \A r \in sweep[x].who : m \in charged'[s][r]
  BY <1>1, <1>2 DEF TypeOK
<1>10. TypeOK'
  BY <1>1, <1>5, <1>7, <1>8 DEF TypeOK
<1>11. settled \subseteq Residents
  BY DEF TypeOK
<1>12. RunsInHand'
  <2> SUFFICES ASSUME NEW y \in Sweeps
               PROVE  /\ sweep'[y].step = "post" => settled \subseteq sweep'[y].who
                      /\ sweep'[y].step = "advance" =>
                            \A r \in settled : sweep'[y].at.m \in charged'[sweep'[y].s][r]
    BY <1>1 DEF RunsInHand
  <2>1. CASE y = x
    <3>1. settled \subseteq sweep[x].who
      BY <1>1 DEF RunsInHand
    <3> QED  BY <1>6, <1>9, <2>1, <3>1
  <2>2. CASE y # x
    <3>1. sweep'[y] = sweep[y]
      BY <1>5, <2>2
    <3>2. sweep[y].step = "advance" => sweep[y].s \in Schedules
      <4>1. sweep[y] \in Run
        BY DEF TypeOK
      <4> QED  BY <4>1, RunAtStep
    <3> QED  BY <1>9, <1>11, <3>1, <3>2 DEF RunsInHand
  <2> QED  BY <2>1, <2>2
<1>13. RunsWereCharged'
  BY <1>1, <1>9, <1>11 DEF RunsWereCharged
<1> QED  BY <1>10, <1>12, <1>13

\* Moving on records the time of the run, whose charges are posted.
LEMMA SweepAdvanceKeepsInvariant ==
    ASSUME IInv, NEW x \in Sweeps, SweepAdvance(x)
    PROVE  IInv'
<1> USE DEF IInv
<1> DEFINE s == sweep[x].s
           next == NextRun(schedule[s].frequency, schedule[s].dayOfMonth, sweep[x].at)
<1>1. /\ sweep[x].step = "advance"
      /\ schedule' = IF Exists(s)
              THEN [schedule EXCEPT ![s].lastRunAt = sweep[x].at, ![s].nextRunAt = next]
              ELSE schedule
      /\ GoOn(x, sweep[x].todo \ {s})
      /\ UNCHANGED <<now, fired, active, history, faults>>
  BY DEF SweepAdvance
<1>2. s \in Schedules /\ sweep[x].at \in Moments /\ sweep[x].todo \ {s} \in SUBSET Schedules
  <2>1. sweep[x] \in Run
    BY DEF TypeOK
  <2> QED  BY <1>1, <2>1, RunAtStep
<1>3. next \in Instant
  <2>1. schedule[s].frequency \in Frequencies /\ schedule[s].dayOfMonth \in {0} \union DaysOffered
    BY <1>2 DEF TypeOK, Schedule
  <2> QED  BY <1>2, <2>1, NextRunIsInstant DEF Moments
<1>4. /\ sweep' \in [Sweeps -> Run] /\ sweep'[x].step \notin {"post", "advance"}
      /\ \A y \in Sweeps \ {x} : sweep'[y] = sweep[y]
  BY <1>1, <1>2, GoOnTypes
<1> HIDE DEF s, next
<1>5. schedule' \in [Schedules -> Schedule]
  <2>1. schedule[s] \in Schedule /\ sweep[x].at \in Instant
    BY <1>2 DEF TypeOK, Moments
  <2>2. [schedule[s] EXCEPT !.lastRunAt = sweep[x].at, !.nextRunAt = next] \in Schedule
    BY <1>3, <2>1 DEF Schedule
  <2> QED  BY <1>1, <1>2, <2>2 DEF TypeOK
<1>6. \A u \in Schedules :
        \/ schedule'[u].lastRunAt = schedule[u].lastRunAt
        \/ u = s /\ schedule'[u].lastRunAt = sweep[x].at
  <2>0. CASE ~ Exists(s)
    BY <1>1, <2>0
  <2> SUFFICES ASSUME NEW u \in Schedules, Exists(s)
               PROVE  \/ schedule'[u].lastRunAt = schedule[u].lastRunAt
                      \/ u = s /\ schedule'[u].lastRunAt = sweep[x].at
    BY <2>0
  <2>1. schedule' = [schedule EXCEPT ![s].lastRunAt = sweep[x].at, ![s].nextRunAt = next]
    BY <1>1
  <2>2. schedule \in [Schedules -> Schedule] /\ schedule[s] \in Schedule
    BY <1>2 DEF TypeOK
  <2>3. CASE u # s
    BY <2>1, <2>2, <2>3
  <2>4. CASE u = s
    <3>1. schedule'[s] = [schedule[s] EXCEPT !.lastRunAt = sweep[x].at, !.nextRunAt = next]
      BY <1>2, <2>1, <2>2
    <3>2. schedule'[s].lastRunAt = sweep[x].at
      BY <2>2, <3>1 DEF Schedule
    <3> QED  BY <2>4, <3>2
  <2> QED  BY <2>3, <2>4
<1>7. TypeOK'
  BY <1>1, <1>4, <1>5 DEF TypeOK, history
<1>8. RunsInHand'
  BY <1>1, <1>4 DEF RunsInHand, history
<1>9. RunsWereCharged'
  <2>1. \A r \in settled : sweep[x].at.m \in charged[s][r]
    BY <1>1 DEF RunsInHand, s
  <2> QED  BY <1>1, <1>6, <2>1 DEF RunsWereCharged, history
<1> QED  BY <1>7, <1>8, <1>9

LEMMA SweepFailsKeepsInvariant ==
    ASSUME IInv, NEW x \in Sweeps, SweepFails(x)
    PROVE  IInv'
<1> USE DEF IInv
<1>1. PICK s : sweep[x].step # "idle" /\ GoOn(x, sweep[x].todo \ {s})
  BY DEF SweepFails
<1>2. /\ faults < MaxFaults /\ faults' = faults + 1 /\ NoLonger(Schedules)
      /\ UNCHANGED <<now, fired, schedule, active, charged, settled>>
  BY DEF SweepFails
<1>3. sweep[x].todo \ {s} \in SUBSET Schedules
  <2>1. sweep[x] \in Run
    BY DEF TypeOK
  <2> QED  BY <1>1, <2>1, RunAtStep
<1>4. /\ sweep' \in [Sweeps -> Run] /\ sweep'[x].step \notin {"post", "advance"}
      /\ \A y \in Sweeps \ {x} : sweep'[y] = sweep[y]
  BY <1>1, <1>3, GoOnTypes
<1>5. regular' \in SUBSET Schedules /\ again' \in [Schedules -> SUBSET Residents]
  BY <1>2, NoLongerTypes
<1>6. faults' \in 0..MaxFaults
  BY <1>2 DEF TypeOK, BoundsAssumption
<1>7. TypeOK'
  BY <1>2, <1>4, <1>5, <1>6 DEF TypeOK
<1>8. RunsInHand' /\ RunsWereCharged'
  BY <1>2, <1>4 DEF RunsInHand, RunsWereCharged
<1> QED  BY <1>7, <1>8

\* The clock moves to a real date.
LEMMA TickKeepsInvariant ==
    ASSUME IInv, Tick
    PROVE  IInv'
<1> USE DEF IInv
<1> DEFINE next == IF now.time + 2 < 2 * HoursPerDay THEN [now EXCEPT !.time = @ + 2]
                   ELSE [AddDays(now, 1) EXCEPT !.time = 0]
<1>1. /\ \A x \in Sweeps : sweep[x] # IdleSweep => sweep[x].hours < MaxHours
      /\ sweep' = [x \in Sweeps |-> IF sweep[x] = IdleSweep THEN IdleSweep
                                    ELSE [sweep[x] EXCEPT !.hours = @ + 1]]
      /\ IF next.m <= Months THEN now' = next ELSE fired /\ UNCHANGED now
      /\ fired' = FALSE
      /\ IF fired /\ AllIdle THEN UNCHANGED <<regular, again>> ELSE NoLonger(Schedules)
      /\ UNCHANGED <<schedule, active, charged, settled, faults>>
  BY DEF Tick
<1>2. PICK h \in 0..(HoursPerDay - 1) : now.time = 2 * h
  BY DEF TypeOK
<1>3. HoursPerDay \in Nat \ {0} /\ now \in Instant
  BY DEF TypeOK, Moments, CalendarAssumption
<1>4. next \in Instant /\ \E k \in 0..(HoursPerDay - 1) : next.time = 2 * k
  <2>1. CASE now.time + 2 < 2 * HoursPerDay
    <3>1. h + 1 \in 0..(HoursPerDay - 1) /\ now.time + 2 = 2 * (h + 1)
      BY <1>2, <1>3, <2>1
    <3>2. next = [now EXCEPT !.time = @ + 2]
      BY <2>1
    <3>3. now.time + 2 \in 0..(2 * HoursPerDay - 1)
      BY <1>3, <3>1
    <3> HIDE DEF next
    <3>4. next \in Instant /\ next.time = 2 * (h + 1)
      BY <1>3, <3>1, <3>2, <3>3 DEF Instant
    <3> QED  BY <3>1, <3>4
  <2>2. CASE ~ (now.time + 2 < 2 * HoursPerDay)
    <3>1. AddDays(now, 1) \in Instant
      BY <1>3, AddDaysIsInstant
    <3>2. next = [AddDays(now, 1) EXCEPT !.time = 0]
      BY <2>2
    <3>3. 0 \in 0..(2 * HoursPerDay - 1) /\ 0 \in 0..(HoursPerDay - 1) /\ 0 = 2 * 0
      BY <1>3
    <3> HIDE DEF next
    <3>4. next \in Instant /\ next.time = 0
      BY <3>1, <3>2, <3>3 DEF Instant
    <3> QED  BY <3>3, <3>4
  <2> QED  BY <2>1, <2>2
<1> HIDE DEF next
<1>5. now' \in Moments /\ \E k \in 0..(HoursPerDay - 1) : now'.time = 2 * k
  BY <1>1, <1>4 DEF TypeOK, Moments
<1>6. \A x \in Sweeps :
        /\ sweep'[x] \in Run
        /\ sweep'[x].step = sweep[x].step
        /\ sweep[x].step # "idle" => sweep'[x].at = sweep[x].at
        /\ sweep[x].step \in {"post", "advance"} => sweep'[x].s = sweep[x].s /\ sweep'[x].who = sweep[x].who
  <2> SUFFICES ASSUME NEW x \in Sweeps, sweep[x] # IdleSweep
               PROVE  LET new == [sweep[x] EXCEPT !.hours = @ + 1] IN
                      /\ new \in Run
                      /\ new.step = sweep[x].step
                      /\ sweep[x].step # "idle" => new.at = sweep[x].at
                      /\ sweep[x].step \in {"post", "advance"} => new.s = sweep[x].s /\ new.who = sweep[x].who
    BY <1>1 DEF TypeOK
  <2>1. sweep[x] \in Run /\ sweep[x].step # "idle" /\ sweep[x].step \in {"idle", "residents", "post", "advance"}
    <3>1. sweep[x] \in Run
      BY DEF TypeOK
    <3> QED  BY <3>1, RunAtStep
  <2>2. sweep[x].hours + 1 \in 0..MaxHours
    <3>1. sweep[x].hours \in 0..MaxHours
      BY <2>1, RunAtStep
    <3>2. sweep[x].hours < MaxHours
      BY <1>1
    <3>3. ASSUME NEW k \in 0..MaxHours, k < MaxHours PROVE k + 1 \in 0..MaxHours
      BY <3>3 DEF BoundsAssumption
    <3> QED  BY <3>1, <3>2, <3>3
  <2>3. CASE sweep[x].step = "residents"
    <3>1. sweep[x] \in [step : {"residents"}, at : Moments, hours : 0..MaxHours, todo : SUBSET Schedules]
      BY <2>1, <2>3, RunAtStep
    <3> QED  BY <2>2, <2>3, <3>1 DEF Run
  <2>4. CASE sweep[x].step \in {"post", "advance"}
    <3>1. sweep[x] \in [step : {"post", "advance"}, at : Moments, hours : 0..MaxHours,
                        todo : SUBSET Schedules, s : Schedules, who : SUBSET Residents]
      BY <2>1, <2>4, RunAtStep
    <3> QED  BY <2>2, <2>4, <3>1 DEF Run
  <2> QED  BY <2>1, <2>3, <2>4
<1>7. sweep' \in [Sweeps -> Run]
  BY <1>1, <1>6
<1>8. regular' \in SUBSET Schedules /\ again' \in [Schedules -> SUBSET Residents]
  BY <1>1, NoLongerTypes DEF TypeOK
<1>9. TypeOK'
  BY <1>1, <1>5, <1>7, <1>8 DEF TypeOK
<1>10. RunsInHand'
  BY <1>1, <1>6 DEF RunsInHand
<1>11. RunsWereCharged'
  BY <1>1 DEF RunsWereCharged
<1> QED  BY <1>9, <1>10, <1>11

LEMMA RestartKeepsInvariant ==
    ASSUME IInv, Restart
    PROVE  IInv'
<1> USE DEF IInv
<1>1. /\ faults < MaxFaults /\ faults' = faults + 1
      /\ sweep' = [x \in Sweeps |-> IdleSweep] /\ NoLonger(Schedules)
      /\ UNCHANGED <<now, fired, schedule, active, charged, settled>>
  BY DEF Restart
<1>2. IdleSweep \in Run /\ IdleSweep.step = "idle"
  BY DEF Run, IdleSweep
<1>3. regular' \in SUBSET Schedules /\ again' \in [Schedules -> SUBSET Residents]
  BY <1>1, NoLongerTypes
<1>4. sweep' \in [Sweeps -> Run] /\ faults' \in 0..MaxFaults
  BY <1>1, <1>2 DEF TypeOK, BoundsAssumption
<1>5. TypeOK'
  BY <1>1, <1>3, <1>4 DEF TypeOK
<1>6. RunsInHand' /\ RunsWereCharged'
  BY <1>1, <1>2 DEF RunsInHand, RunsWereCharged
<1> QED  BY <1>5, <1>6

-----------------------------------------------------------------------------
LEMMA NextKeepsInvariant == IInv /\ [Next]_vars => IInv'
<1> SUFFICES ASSUME IInv, [Next]_vars PROVE IInv'
  OBVIOUS
<1>1. CASE UNCHANGED vars
  BY <1>1 DEF IInv, vars, history, TypeOK, RunsInHand, RunsWereCharged
<1>2. ASSUME NEW s \in Schedules,
             CreateRecurringCharge(s) \/ UpdateRecurringCharge(s) \/ DeleteRecurringCharge(s)
      PROVE  IInv'
  BY <1>2, CreateKeepsInvariant, UpdateKeepsInvariant, DeleteKeepsInvariant
<1>3. ASSUME NEW r \in Residents, ResidentMoves(r) PROVE IInv'
  BY <1>3, MoveKeepsInvariant
<1>4. ASSUME NEW x \in Sweeps, SweepRead(x) \/ SweepStep(x) PROVE IInv'
  BY <1>4, SweepReadKeepsInvariant, SweepResidentsKeepsInvariant, SweepPostKeepsInvariant,
     SweepAdvanceKeepsInvariant, SweepFailsKeepsInvariant DEF SweepStep
<1>5. CASE Tick \/ Restart
  BY <1>5, TickKeepsInvariant, RestartKeepsInvariant
<1> QED  BY <1>1, <1>2, <1>3, <1>4, <1>5 DEF Next

LEMMA Invariance == Spec => []IInv
<1> QED  BY InitEstablishesInvariant, NextKeepsInvariant, PTL DEF Spec

\* Every reachable state is well typed; above all, every date on a row is a day
\* its month has, whatever the calendar and however dates are reckoned on
\* (createRecurringCharge, processRecurringCharges).
THEOREM RecurringTypeCorrect == Spec => []TypeOK
<1>1. IInv => TypeOK
  BY DEF IInv
<1> QED  BY <1>1, Invariance, PTL

\* A schedule that says it has run has charged every resident who was there
\* all the time, for any number of overlapping, failing and dying runs of the
\* job (processRecurringCharges).
THEOREM RunsCharged == Spec => []RunsWereCharged
<1>1. IInv => RunsWereCharged
  BY DEF IInv
<1> QED  BY <1>1, Invariance, PTL

-----------------------------------------------------------------------------
(***************************************************************************)
(* Every month is charged.  What the property says of the months charged   *)
(* is kept by what it does not mention: when a schedule of the regular     *)
(* course runs next, and that this is never left behind by the clock.      *)
(***************************************************************************)

\* The schedules the property is about: by a day of the month no month lacks.
ByTheMonth(s) ==
    /\ Exists(s)
    /\ schedule[s].frequency \in {"MONTHLY", "QUARTERLY"}
    /\ schedule[s].dayOfMonth > 0
    /\ \A m \in 0..Months : schedule[s].dayOfMonth < Length(m)

\* The job is started once an hour and ends in it.
OneRunAnHour ==
    regular # {} =>
        /\ ~fired => AllIdle
        /\ \A x, y \in Sweeps : sweep[x].step # "idle" /\ sweep[y].step # "idle" => x = y
        /\ \A x \in Sweeps : sweep[x].step # "idle" =>
              sweep[x].at.m = now.m /\ sweep[x].at.d = now.d /\ sweep[x].at.time \in {now.time, now.time + 1}

\* A run is busy with one of its schedules; nothing is known of those not made.
TodoKnown ==
    /\ \A x \in Sweeps : sweep[x].step \in {"post", "advance"} => sweep[x].s \in sweep[x].todo
    /\ \A s \in Schedules : schedule[s].state = "none" =>
          /\ again[s] = {} /\ \A r \in Residents : charged[s][r] = {}
          /\ \A x \in Sweeps : sweep[x].step # "idle" => s \notin sweep[x].todo

\* The next run is not before the clock, or in the hour that has just passed.
NotLongPast(next) ==
    \/ ~Before(next, now)
    \/ next.m = now.m /\ next.d = now.d /\ next.time = now.time - 1
    \/ next.m = now.m /\ next.d = now.d - 1 /\ next.time = 2 * HoursPerDay - 1 /\ now.time = 0

InTodo(s) == \E x \in Sweeps : sweep[x].step # "idle" /\ s \in sweep[x].todo
Posted(s) == \E x \in Sweeps : sweep[x].step = "advance" /\ s = sweep[x].s

\* Where a schedule stands that has run every hour.
RunsInTime(s) ==
    LET next == schedule[s].nextRunAt IN
    /\ schedule[s].isActive
    /\ next.m <= Months => next.d = schedule[s].dayOfMonth
    /\ NotLongPast(next)
    /\ fired /\ ~InTodo(s) => Before(now, next)
    /\ \A x \in Sweeps : sweep[x].step # "idle" /\ s \in sweep[x].todo => ~Before(sweep[x].at, next)

\* The months a resident has been charged, up to the next run.
MonthsInStep(s, r) ==
    LET next == schedule[s].nextRunAt
        step == MonthsOf[schedule[s].frequency]
        c == charged[s][r]
    IN  /\ r \notin again[s]
        /\ \A m, n \in c : m < n => m + step <= n
        /\ \A m \in c :
              \/ m = next.m /\ Posted(s)
              \/ m + step <= next.m /\ (m + step \in c \/ m + step = next.m \/ Months < m + step)

OnCourse ==
    \A s \in regular : ByTheMonth(s) => RunsInTime(s) /\ \A r \in settled : MonthsInStep(s, r)

CourseInv == OneRunAnHour /\ TodoKnown /\ OnCourse

-----------------------------------------------------------------------------
LEMMA MonthlySteps ==
    ASSUME NEW frequency \in {"MONTHLY", "QUARTERLY"}
    PROVE  MonthsOf[frequency] \in Nat \ {0}
BY DEF MonthsOf, CalendarAssumption

LEMMA LengthNat ==
    ASSUME NEW m \in Nat
    PROVE  Length(m) \in Nat
BY TwoMonths

\* What a date comes to.
LEMMA DateParts ==
    ASSUME NEW m \in Nat, NEW d \in Nat, NEW time
    PROVE  LET t == Date(m, d, time) IN
           /\ t.time = time
           /\ d > Length(m) => t.m = m + 1 /\ t.d = d - Length(m)
           /\ ~ (d > Length(m)) => t.m = m /\ t.d = d
BY DEF Date

\* The next run of a schedule by the month is a step further on; and exactly a
\* step, on its day, when the last was on that day or the one after.
LEMMA NextRunByTheMonth ==
    ASSUME NEW frequency \in {"MONTHLY", "QUARTERLY"}, NEW day \in Nat \ {0}, NEW t \in Moments,
           \A m \in 0..Months : day < Length(m)
    PROVE  LET next == NextRun(frequency, day, t)
               step == MonthsOf[frequency]
           IN  /\ next.m \in Nat /\ t.m + step <= next.m
               /\ next.m <= Months => next.d = day
               /\ t.d <= day + 1 /\ t.m + step <= Months => next.m = t.m + step
<1> DEFINE step == MonthsOf[frequency]
           moved == AddMonths(t, step)
           next == NextRun(frequency, day, t)
<1>1. step \in Nat \ {0}
  BY MonthlySteps
<1>2. t.m \in Nat /\ t.d \in Nat
  <2>1. t.m \in Nat /\ t.d \in 1..Length(t.m)
    BY DEF Moments, Instant
  <2>2. Length(t.m) \in Nat
    BY <2>1, LengthNat
  <2> QED  BY <2>1, <2>2
<1>3. next = SetDay(moved, day)
  BY DEF NextRun
<1> HIDE DEF step
<1>4. t.m + step \in Nat /\ Length(t.m + step) \in Nat
  <2>1. t.m + step \in Nat
    BY <1>1, <1>2
  <2> QED  BY <2>1, LengthNat
<1>5. /\ moved = Date(t.m + step, t.d, t.time)
      /\ t.d > Length(t.m + step) => moved.m = t.m + step + 1
      /\ ~ (t.d > Length(t.m + step)) => moved.m = t.m + step
  BY <1>2, <1>4, DateParts DEF AddMonths
<1> HIDE DEF moved
<1>6. moved.m \in Nat /\ t.m + step <= moved.m /\ Length(moved.m) \in Nat
  <2>1. moved.m \in Nat /\ t.m + step <= moved.m
    BY <1>4, <1>5
  <2> QED  BY <2>1, LengthNat
<1>7. /\ next = Date(moved.m, day, moved.time)
      /\ day > Length(moved.m) => next.m = moved.m + 1
      /\ ~ (day > Length(moved.m)) => next.m = moved.m /\ next.d = day
  BY <1>3, <1>6, DateParts DEF SetDay
<1> HIDE DEF next
<1>8. next.m \in Nat /\ t.m + step <= next.m
  BY <1>4, <1>6, <1>7
<1>9. ASSUME moved.m <= Months PROVE ~ (day > Length(moved.m))
  BY <1>6, <1>9 DEF BoundsAssumption
<1>10. next.m <= Months => next.d = day
  BY <1>6, <1>7, <1>9 DEF BoundsAssumption
<1>11. ASSUME t.d <= day + 1, t.m + step <= Months PROVE next.m = t.m + step
  <2>1. day < Length(t.m + step)
    BY <1>4, <1>11 DEF BoundsAssumption
  <2>2. moved.m = t.m + step
    BY <1>2, <1>4, <1>5, <1>11, <2>1
  <2> QED  BY <1>7, <1>9, <1>11, <2>2
<1> QED  BY <1>8, <1>10, <1>11 DEF next, step

\* The numbers the argument reckons with.
LEMMA CourseTypes ==
    ASSUME TypeOK, NEW s \in Schedules
    PROVE  /\ schedule[s].nextRunAt.m \in Nat /\ schedule[s].nextRunAt.d \in Nat
           /\ schedule[s].nextRunAt.time \in 0..(2 * HoursPerDay - 1)
           /\ now.m \in 0..Months /\ now.d \in 1..Length(now.m) /\ now.d \in Nat
           /\ now.time \in 0..(2 * HoursPerDay - 1)
           /\ schedule[s].dayOfMonth \in Nat
           /\ \A r \in Residents : charged[s][r] \in SUBSET (0..Months)
<1>1. now \in Moments /\ schedule[s] \in Schedule /\ charged \in [Schedules -> [Residents -> SUBSET (0..Months)]]
  BY DEF TypeOK
<1>2. ASSUME NEW t \in Instant \union {Never}
      PROVE  t.m \in Nat /\ t.d \in Nat /\ t.time \in 0..(2 * HoursPerDay - 1)
  <2>1. CASE t \in Instant
    <3>1. t.m \in Nat /\ t.d \in 1..Length(t.m) /\ t.time \in 0..(2 * HoursPerDay - 1)
      BY <2>1 DEF Instant
    <3>2. Length(t.m) \in Nat
      BY <3>1, LengthNat
    <3> QED  BY <3>1, <3>2
  <2>2. CASE t = Never
    <3>1. 0 \in 0..(2 * HoursPerDay - 1)
      BY DEF CalendarAssumption
    <3> QED  BY <2>2, <3>1 DEF Never
  <2> QED  BY <2>1, <2>2
<1>3. schedule[s].nextRunAt \in Instant \union {Never} /\ schedule[s].dayOfMonth \in {0} \union DaysOffered
  BY <1>1 DEF Schedule
<1>4. now \in Instant \union {Never} /\ now.m <= Months /\ now.d \in 1..Length(now.m)
  BY <1>1 DEF Moments, Instant
<1>5. now.m \in 0..Months
  BY <1>2, <1>4 DEF BoundsAssumption
<1>6. schedule[s].dayOfMonth \in Nat
  BY <1>3 DEF CalendarAssumption
<1>7. now.m \in Nat /\ now.d \in Nat /\ now.time \in 0..(2 * HoursPerDay - 1)
  BY <1>2, <1>4
<1>8. /\ schedule[s].nextRunAt.m \in Nat /\ schedule[s].nextRunAt.d \in Nat
      /\ schedule[s].nextRunAt.time \in 0..(2 * HoursPerDay - 1)
  BY <1>2, <1>3
<1> QED  BY <1>1, <1>4, <1>5, <1>6, <1>7, <1>8

\* The property follows.
LEMMA CourseCharges == TypeOK /\ CourseInv => EveryMonthCharged
<1> SUFFICES ASSUME TypeOK, CourseInv, NEW s \in regular, NEW r \in settled, ByTheMonth(s)
             PROVE  LET c == charged[s][r]
                        step == MonthsOf[schedule[s].frequency]
                    IN  /\ r \notin again[s]
                        /\ \A m \in c : /\ \A n \in 1..(step - 1) : m + n \notin c
                                       /\ m + step < now.m => m + step \in c
  BY DEF EveryMonthCharged, ByTheMonth
<1> DEFINE c == charged[s][r]
           step == MonthsOf[schedule[s].frequency]
           next == schedule[s].nextRunAt
<1>1. s \in Schedules /\ r \in Residents
  BY DEF TypeOK
<1>2. RunsInTime(s) /\ MonthsInStep(s, r)
  BY DEF CourseInv, OnCourse
<1>3. step \in Nat \ {0}
  BY MonthlySteps DEF ByTheMonth
<1>4. next.m \in Nat /\ now.m \in 0..Months /\ c \in SUBSET (0..Months) /\ Months \in Nat
  BY <1>1, CourseTypes DEF BoundsAssumption
<1>5. now.m <= next.m
  <2>1. NotLongPast(next)
    BY <1>2 DEF RunsInTime
  <2> HIDE DEF next
  <2> QED  BY <1>4, <2>1 DEF NotLongPast, Before
<1>6. /\ r \notin again[s]
      /\ \A m, n \in c : m < n => m + step <= n
      /\ \A m \in c :
              \/ m = next.m
              \/ m + step <= next.m /\ (m + step \in c \/ m + step = next.m \/ Months < m + step)
  BY <1>2 DEF MonthsInStep
<1> HIDE DEF c, step, next
<1>7. ASSUME NEW m \in c, NEW n \in 1..(step - 1) PROVE m + n \notin c
  BY <1>3, <1>4, <1>6, <1>7
<1>8. ASSUME NEW m \in c, m + step < now.m PROVE m + step \in c
  BY <1>3, <1>4, <1>5, <1>6, <1>8
<1> QED  BY <1>6, <1>7, <1>8 DEF c, step

-----------------------------------------------------------------------------
(* One lemma for each step.  A step that leaves the regular course leaves  *)
(* nothing to show of it.                                                  *)

LEMMA NoneIsRegular ==
    ASSUME TypeOK, NoLonger(Schedules)
    PROVE  regular' = {} /\ OneRunAnHour' /\ OnCourse' /\ \A s \in Schedules : again'[s] = {}
<1>1. regular' = {}
  BY DEF NoLonger, TypeOK
<1> QED  BY <1>1 DEF NoLonger, OneRunAnHour, OnCourse

\* What the argument is about stays as it is, for fewer schedules or residents.
LEMMA CourseFrame ==
    ASSUME CourseInv, UNCHANGED <<now, fired, schedule, sweep, charged, again>>,
           regular' \subseteq regular, settled' \subseteq settled
    PROVE  CourseInv'
<1>1. TodoKnown'
  BY DEF CourseInv, TodoKnown
<1>2. OneRunAnHour'
  BY DEF CourseInv, OneRunAnHour, AllIdle
<1>3. OnCourse'
  <2>1. \A s \in regular : ByTheMonth(s)' = ByTheMonth(s)
    BY DEF ByTheMonth, Exists
  <2>2. \A s \in regular : RunsInTime(s) => RunsInTime(s)'
    BY DEF RunsInTime, NotLongPast, InTodo
  <2>3. \A s \in regular, r \in settled : MonthsInStep(s, r) => MonthsInStep(s, r)'
    BY DEF MonthsInStep, Posted
  <2> QED  BY <2>1, <2>2, <2>3 DEF CourseInv, OnCourse
<1> QED  BY <1>1, <1>2, <1>3 DEF CourseInv

\* One schedule is edited, the others stay.
LEMMA OthersStay ==
    ASSUME CourseInv, UNCHANGED <<now, fired, sweep, charged, settled>>,
           NEW s \in Schedules, \A u \in Schedules \ {s} : schedule'[u] = schedule[u] /\ again'[u] = again[u],
           regular' \subseteq regular, regular \in SUBSET Schedules,
           schedule'[s].state = "none" => again'[s] = {} /\ schedule[s].state = "none",
           s \in regular' /\ ByTheMonth(s)' => RunsInTime(s)' /\ \A r \in settled : MonthsInStep(s, r)'
    PROVE  CourseInv'
<1>1. TodoKnown'
  BY DEF CourseInv, TodoKnown
<1>2. OneRunAnHour'
  BY DEF CourseInv, OneRunAnHour, AllIdle
<1>3. ASSUME NEW u \in regular', u # s
      PROVE  /\ ByTheMonth(u)' => ByTheMonth(u)
             /\ RunsInTime(u) => RunsInTime(u)'
             /\ \A r \in settled : MonthsInStep(u, r) => MonthsInStep(u, r)'
  <2>1. schedule'[u] = schedule[u] /\ again'[u] = again[u] /\ u \in regular
    BY <1>3
  <2>2. ByTheMonth(u)' => ByTheMonth(u)
    BY <2>1 DEF ByTheMonth, Exists
  <2>3. RunsInTime(u) => RunsInTime(u)'
    BY <2>1 DEF RunsInTime, NotLongPast, InTodo
  <2>4. \A r \in settled : MonthsInStep(u, r) => MonthsInStep(u, r)'
    BY <2>1 DEF MonthsInStep, Posted
  <2> QED  BY <2>2, <2>3, <2>4
<1>4. OnCourse'
  <2> SUFFICES ASSUME NEW u \in regular', ByTheMonth(u)'
               PROVE  RunsInTime(u)' /\ \A r \in settled : MonthsInStep(u, r)'
    BY DEF OnCourse
  <2>1. CASE u = s
    BY <2>1
  <2>2. CASE u # s
    BY <1>3, <2>2 DEF CourseInv, OnCourse
  <2> QED  BY <2>1, <2>2
<1> QED  BY <1>1, <1>2, <1>4 DEF CourseInv

LEMMA InitEstablishesCourse == Init => CourseInv
<1> SUFFICES ASSUME Init PROVE CourseInv
  OBVIOUS
<1>1. \A x \in Sweeps : sweep[x] = IdleSweep /\ sweep[x].step = "idle"
  BY DEF Init, IdleSweep
<1>2. OneRunAnHour
  BY <1>1 DEF OneRunAnHour, AllIdle
<1>3. TodoKnown
  BY <1>1 DEF TodoKnown, Init
<1>4. OnCourse
  BY DEF OnCourse, ByTheMonth, Exists, Init, NoSchedule
<1> QED  BY <1>2, <1>3, <1>4 DEF CourseInv

LEMMA MoveKeepsCourse ==
    ASSUME CourseInv, NEW r \in Residents, ResidentMoves(r)
    PROVE  CourseInv'
<1>1. UNCHANGED <<now, fired, schedule, sweep, charged, again>> /\ regular' = regular /\ settled' \subseteq settled
  BY DEF ResidentMoves
<1> QED  BY <1>1, CourseFrame

LEMMA UpdateKeepsCourse ==
    ASSUME TypeOK, CourseInv, NEW s \in Schedules, UpdateRecurringCharge(s)
    PROVE  CourseInv'
<1>1. PICK isActive \in BOOLEAN :
        /\ schedule' = [schedule EXCEPT ![s].isActive = isActive]
        /\ IF isActive THEN UNCHANGED <<regular, again>> ELSE NoLonger({s})
  BY DEF UpdateRecurringCharge
<1>2. UNCHANGED <<now, fired, active, sweep, charged, settled, faults>> /\ schedule[s].state = "row"
  BY DEF UpdateRecurringCharge, Exists
<1>3. /\ schedule \in [Schedules -> Schedule] /\ schedule[s] \in Schedule
      /\ regular \in SUBSET Schedules /\ again \in [Schedules -> SUBSET Residents]
  BY DEF TypeOK
<1>4. schedule'[s] = [schedule[s] EXCEPT !.isActive = isActive]
  BY <1>1, <1>3
<1>5. /\ schedule'[s].state = schedule[s].state /\ schedule'[s].frequency = schedule[s].frequency
      /\ schedule'[s].dayOfMonth = schedule[s].dayOfMonth /\ schedule'[s].nextRunAt = schedule[s].nextRunAt
      /\ schedule'[s].isActive = isActive
  BY <1>3, <1>4 DEF Schedule
<1>6. \A u \in Schedules \ {s} : schedule'[u] = schedule[u] /\ again'[u] = again[u]
  BY <1>1, <1>3 DEF NoLonger
<1>7. regular' \subseteq regular
  BY <1>1 DEF NoLonger
<1>8. ASSUME s \in regular', ByTheMonth(s)' PROVE RunsInTime(s)' /\ \A r \in settled : MonthsInStep(s, r)'
  <2>1. isActive /\ again' = again /\ s \in regular
    BY <1>1, <1>8 DEF NoLonger
  <2>2. ByTheMonth(s)
    BY <1>5, <1>8 DEF ByTheMonth, Exists
  <2>3. RunsInTime(s) /\ \A r \in settled : MonthsInStep(s, r)
    BY <2>1, <2>2 DEF CourseInv, OnCourse
  <2>4. RunsInTime(s)'
    BY <1>2, <1>5, <2>1, <2>3 DEF RunsInTime, NotLongPast, InTodo
  <2>5. \A r \in settled : MonthsInStep(s, r)'
    BY <1>2, <1>5, <2>1, <2>3 DEF MonthsInStep, Posted
  <2> QED  BY <2>4, <2>5
<1> QED  BY <1>2, <1>3, <1>5, <1>6, <1>7, <1>8, OthersStay

LEMMA DeleteKeepsCourse ==
    ASSUME TypeOK, CourseInv, NEW s \in Schedules, DeleteRecurringCharge(s)
    PROVE  CourseInv'
<1> DEFINE gone == [NoSchedule EXCEPT !.state = "deleted"]
<1>1. schedule' = [schedule EXCEPT ![s] = gone] /\ UNCHANGED <<now, fired, active, sweep, history, faults>>
  BY DEF DeleteRecurringCharge
<1>2. gone.state = "deleted"
  BY DEF NoSchedule
<1>3. schedule \in [Schedules -> Schedule] /\ regular \in SUBSET Schedules
  BY DEF TypeOK
<1> HIDE DEF gone
<1>4. schedule'[s].state = "deleted" /\ \A u \in Schedules \ {s} : schedule'[u] = schedule[u]
  BY <1>1, <1>2, <1>3
<1>5. ~ ByTheMonth(s)'
  BY <1>4 DEF ByTheMonth, Exists
<1>6. UNCHANGED <<now, fired, sweep, charged, settled, regular, again>>
  BY <1>1 DEF history
<1> QED  BY <1>3, <1>4, <1>5, <1>6, OthersStay

\* A new schedule first runs in a later month, on its day.
LEMMA CreateKeepsCourse ==
    ASSUME TypeOK, CourseInv, NEW s \in Schedules, CreateRecurringCharge(s)
    PROVE  CourseInv'
<1>1. PICK frequency \in Offered, day \in DaysOffered :
        schedule' = [schedule EXCEPT ![s] =
            [state |-> "row", frequency |-> frequency, dayOfMonth |-> day,
             isActive |-> TRUE, lastRunAt |-> Never,
             nextRunAt |-> [NextRun(frequency, day, now) EXCEPT !.time = 0]]]
  BY DEF CreateRecurringCharge
<1>2. schedule[s].state = "none" /\ UNCHANGED <<now, fired, active, sweep, history, faults>>
  BY DEF CreateRecurringCharge
<1>3. schedule \in [Schedules -> Schedule] /\ regular \in SUBSET Schedules /\ now \in Moments /\ settled \subseteq Residents
  BY DEF TypeOK
<1>4. PICK run : run = NextRun(frequency, day, now)
  OBVIOUS
<1>5. PICK next : next = [run EXCEPT !.time = 0]
  OBVIOUS
<1>6. run \in Instant
  <2>1. frequency \in Frequencies /\ day \in {0} \union DaysOffered /\ now \in Instant
    BY <1>3, OfferedAssumption DEF Moments, OfferedAssumption
  <2> QED  BY <1>4, <2>1, NextRunIsInstant
<1>7. next.m = run.m /\ next.d = run.d
  BY <1>5, <1>6 DEF Instant
<1>8. /\ schedule'[s].state = "row" /\ schedule'[s].frequency = frequency /\ schedule'[s].dayOfMonth = day
      /\ schedule'[s].isActive = TRUE /\ schedule'[s].nextRunAt = next
      /\ \A u \in Schedules \ {s} : schedule'[u] = schedule[u]
  BY <1>1, <1>3, <1>4, <1>5
<1>9. UNCHANGED <<now, fired, sweep, charged, settled, regular, again>>
  BY <1>2 DEF history
<1>10. ASSUME s \in regular', ByTheMonth(s)' PROVE RunsInTime(s)' /\ \A r \in settled : MonthsInStep(s, r)'
  <2>1. frequency \in {"MONTHLY", "QUARTERLY"} /\ day > 0 /\ \A m \in 0..Months : day < Length(m)
    BY <1>8, <1>10 DEF ByTheMonth
  <2>2. day \in Nat \ {0}
    BY <2>1 DEF CalendarAssumption
  <2>3. PICK step : step = MonthsOf[frequency]
    OBVIOUS
  <2>4. step \in Nat \ {0}
    BY <2>1, <2>3, MonthlySteps
  <2>5. run.m \in Nat /\ now.m + step <= run.m /\ (run.m <= Months => run.d = day)
    BY <1>3, <1>4, <2>1, <2>2, <2>3, NextRunByTheMonth
  <2>6. now.m \in Nat
    BY <1>3 DEF Moments, Instant
  <2>7. Before(now, next) /\ ~ Before(next, now)
    BY <1>7, <2>4, <2>5, <2>6 DEF Before
  <2>8. ~ InTodo(s) /\ \A r \in settled : charged[s][r] = {} /\ r \notin again[s]
    BY <1>2, <1>3 DEF CourseInv, TodoKnown, InTodo
  <2>9. RunsInTime(s)'
    <3>1. NotLongPast(next)'
      BY <1>9, <2>7 DEF NotLongPast
    <3> QED  BY <1>7, <1>8, <1>9, <2>5, <2>7, <2>8, <3>1 DEF RunsInTime, InTodo, NotLongPast
  <2>10. \A r \in settled : MonthsInStep(s, r)'
    BY <1>9, <2>8 DEF MonthsInStep
  <2> QED  BY <2>9, <2>10
<1>11. schedule'[s].state # "none"
  BY <1>8
<1> QED  BY <1>3, <1>8, <1>9, <1>10, <1>11, OthersStay

-----------------------------------------------------------------------------
(* The job.  A run reads every schedule that is due.                       *)

LEMMA SweepReadKeepsCourse ==
    ASSUME TypeOK, CourseInv, NEW x \in Sweeps, SweepRead(x)
    PROVE  CourseInv'
<1>1. PICK late \in {0, 1} :
        LET at == [now EXCEPT !.time = @ + late]
            due == {s \in Schedules : Due(s, at)}
        IN  sweep' = IF due = {} THEN sweep
                     ELSE [sweep EXCEPT ![x] = [step |-> "residents", at |-> at, hours |-> 0, todo |-> due]]
  BY DEF SweepRead
<1>2. PICK at : at = [now EXCEPT !.time = @ + late]
  OBVIOUS
<1>3. PICK due : due = {s \in Schedules : Due(s, at)}
  OBVIOUS
<1>4. PICK new : new = [step |-> "residents", at |-> at, hours |-> 0, todo |-> due]
  OBVIOUS
<1>5. /\ sweep' = IF due = {} THEN sweep ELSE [sweep EXCEPT ![x] = new]
      /\ new.step = "residents" /\ new.at = at /\ new.todo = due
  BY <1>1, <1>2, <1>3, <1>4
<1>6. ~fired /\ fired' /\ UNCHANGED <<now, schedule, active, history, faults>> /\ sweep[x] = IdleSweep
  BY DEF SweepRead
<1>7. /\ sweep \in [Sweeps -> Run] /\ now \in Moments /\ regular \in SUBSET Schedules
      /\ IdleSweep.step = "idle"
  BY DEF TypeOK, IdleSweep
<1>8. at.m = now.m /\ at.d = now.d /\ at.time \in {now.time, now.time + 1}
  <2>1. now.m \in Nat /\ now.time \in 0..(2 * HoursPerDay - 1)
    BY <1>7 DEF Moments, Instant
  <2>2. now.time + late \in {now.time, now.time + 1}
    BY <2>1
  <2> QED  BY <1>2, <1>7, <2>2 DEF Moments, Instant
<1>9. ASSUME NEW y \in Sweeps
      PROVE  /\ y # x \/ due = {} => sweep'[y] = sweep[y]
             /\ y = x /\ due # {} => sweep'[y] = new
  BY <1>5, <1>7
<1>10. ASSUME regular # {}, NEW y \in Sweeps, sweep'[y].step # "idle"
       PROVE  y = x /\ due # {} /\ sweep'[y] = new
  <2>1. sweep[y] = IdleSweep
    BY <1>6, <1>10 DEF CourseInv, OneRunAnHour, AllIdle
  <2> QED  BY <1>7, <1>9, <1>10, <2>1
<1>11. OneRunAnHour'
  <2>1. regular' = regular /\ now' = now
    BY <1>6 DEF history
  <2> QED  BY <1>5, <1>6, <1>8, <1>10, <2>1 DEF OneRunAnHour
<1>12. TodoKnown'
  <2>1. \A y \in Sweeps : sweep'[y].step \in {"post", "advance"} => sweep'[y].s \in sweep'[y].todo
    BY <1>5, <1>9 DEF CourseInv, TodoKnown
  <2>2. ASSUME NEW s \in Schedules, schedule[s].state = "none", NEW y \in Sweeps, sweep'[y].step # "idle"
        PROVE  s \notin sweep'[y].todo
    <3>1. s \notin due
      BY <1>3, <2>2 DEF Due, Exists
    <3> QED  BY <1>5, <1>7, <1>9, <2>2, <3>1 DEF CourseInv, TodoKnown
  <2> QED  BY <1>6, <2>1, <2>2 DEF CourseInv, TodoKnown, history
<1>13. ASSUME NEW s \in regular, ByTheMonth(s)
       PROVE  RunsInTime(s)' /\ \A r \in settled : MonthsInStep(s, r)'
  <2>1. RunsInTime(s) /\ \A r \in settled : MonthsInStep(s, r)
    BY <1>13 DEF CourseInv, OnCourse
  <2>2. PICK next : next = schedule[s].nextRunAt
    OBVIOUS
  <2>3. s \in due <=> ~Before(at, next)
    BY <1>3, <1>7, <1>13, <2>1, <2>2 DEF Due, ByTheMonth, RunsInTime
  <2>4. InTodo(s)' <=> s \in due
    <3>1. ASSUME s \in due PROVE InTodo(s)'
      BY <1>5, <1>9, <3>1 DEF InTodo
    <3>2. ASSUME InTodo(s)' PROVE s \in due
      BY <1>5, <1>10, <1>13, <3>2 DEF InTodo
    <3> QED  BY <3>1, <3>2
  <2>5. s \notin due => Before(now, next)
    <3>1. /\ next.m \in Nat /\ next.d \in Nat /\ next.time \in 0..(2 * HoursPerDay - 1)
          /\ now.m \in Nat /\ now.d \in Nat /\ now.time \in 0..(2 * HoursPerDay - 1)
      BY <1>7, <2>2, CourseTypes
    <3>2. HoursPerDay \in Nat
      BY DEF CalendarAssumption
    <3> QED  BY <1>8, <2>3, <3>1, <3>2 DEF Before
  <2>6. NotLongPast(next)' = NotLongPast(next)
    BY <1>6 DEF NotLongPast
  <2>7. RunsInTime(s)'
    BY <1>5, <1>6, <1>10, <1>13, <2>1, <2>2, <2>3, <2>4, <2>5, <2>6 DEF RunsInTime, NotLongPast
  <2>8. Posted(s)' <=> Posted(s)
    BY <1>5, <1>6, <1>7, <1>9 DEF Posted
  <2>9. \A r \in settled : MonthsInStep(s, r)'
    BY <1>6, <2>1, <2>8 DEF MonthsInStep, history
  <2> QED  BY <2>7, <2>9
<1>14. OnCourse'
  BY <1>6, <1>13 DEF OnCourse, ByTheMonth, Exists, history
<1> QED  BY <1>11, <1>12, <1>14 DEF CourseInv

\* A run goes on in its hour, with the same schedules before it.
LEMMA RunGoesOn ==
    ASSUME TypeOK, CourseInv, NEW x \in Sweeps, sweep[x].step # "idle", NEW new,
           sweep' = [sweep EXCEPT ![x] = new], new.step # "idle",
           new.at = sweep[x].at, new.todo = sweep[x].todo,
           new.step \in {"post", "advance"} => new.s \in new.todo,
           UNCHANGED <<now, fired, schedule, regular>>
    PROVE  /\ OneRunAnHour'
           /\ \A y \in Sweeps : sweep'[y].step \in {"post", "advance"} => sweep'[y].s \in sweep'[y].todo
           /\ \A s \in Schedules : schedule[s].state = "none" =>
                 \A y \in Sweeps : sweep'[y].step # "idle" => s \notin sweep'[y].todo
           /\ \A s \in regular : RunsInTime(s) => RunsInTime(s)'
<1>1. sweep \in [Sweeps -> Run]
  BY DEF TypeOK
<1>2. sweep'[x] = new /\ \A y \in Sweeps \ {x} : sweep'[y] = sweep[y]
  BY <1>1
<1>3. \A y \in Sweeps : /\ sweep'[y].step # "idle" <=> sweep[y].step # "idle"
                        /\ sweep'[y].at = sweep[y].at /\ sweep'[y].todo = sweep[y].todo
  BY <1>2
<1>4. ASSUME regular # {} PROVE fired
  BY <1>4 DEF CourseInv, OneRunAnHour, AllIdle, IdleSweep
<1>5. OneRunAnHour'
  BY <1>3, <1>4 DEF CourseInv, OneRunAnHour
<1>6. \A y \in Sweeps : sweep'[y].step \in {"post", "advance"} => sweep'[y].s \in sweep'[y].todo
  BY <1>2 DEF CourseInv, TodoKnown
<1>7. \A s \in Schedules : schedule[s].state = "none" =>
          \A y \in Sweeps : sweep'[y].step # "idle" => s \notin sweep'[y].todo
  BY <1>3 DEF CourseInv, TodoKnown
<1>8. \A s \in regular : InTodo(s)' <=> InTodo(s)
  BY <1>3 DEF InTodo
<1>9. \A s \in regular : RunsInTime(s) => RunsInTime(s)'
  BY <1>3, <1>8 DEF RunsInTime, NotLongPast
<1> QED  BY <1>5, <1>6, <1>7, <1>9

LEMMA SweepResidentsKeepsCourse ==
    ASSUME TypeOK, CourseInv, NEW x \in Sweeps, SweepResidents(x)
    PROVE  CourseInv'
<1>1. sweep[x].step = "residents" /\ UNCHANGED <<now, fired, schedule, active, history, faults>>
  BY DEF SweepResidents
<1>2. PICK s \in sweep[x].todo :
         sweep' = [sweep EXCEPT ![x] =
            [step |-> IF active = {} THEN "advance" ELSE "post", at |-> sweep[x].at,
             hours |-> sweep[x].hours, todo |-> sweep[x].todo, s |-> s, who |-> active]]
  BY DEF SweepResidents
<1>3. PICK new : new = [step |-> IF active = {} THEN "advance" ELSE "post", at |-> sweep[x].at,
                        hours |-> sweep[x].hours, todo |-> sweep[x].todo, s |-> s, who |-> active]
  OBVIOUS
<1>4. /\ sweep' = [sweep EXCEPT ![x] = new]
      /\ new.step \in {"post", "advance"} /\ (new.step = "advance" => active = {})
      /\ new.at = sweep[x].at /\ new.todo = sweep[x].todo /\ new.s \in new.todo
  BY <1>2, <1>3
<1>5. UNCHANGED <<now, fired, schedule, regular>>
  BY <1>1 DEF history
<1>6. /\ OneRunAnHour'
      /\ \A y \in Sweeps : sweep'[y].step \in {"post", "advance"} => sweep'[y].s \in sweep'[y].todo
      /\ \A u \in Schedules : schedule[u].state = "none" =>
            \A y \in Sweeps : sweep'[y].step # "idle" => u \notin sweep'[y].todo
      /\ \A u \in regular : RunsInTime(u) => RunsInTime(u)'
  BY <1>1, <1>4, <1>5, RunGoesOn
<1>7. TodoKnown'
  BY <1>1, <1>6 DEF CourseInv, TodoKnown, history
<1>8. ASSUME NEW u \in Schedules, NEW r \in settled, MonthsInStep(u, r) PROVE MonthsInStep(u, r)'
  <2>1. settled \subseteq active /\ sweep \in [Sweeps -> Run]
    BY DEF TypeOK
  <2>2. Posted(u) => Posted(u)'
    BY <1>1, <1>4, <2>1 DEF Posted
  <2> QED  BY <1>1, <1>8, <2>2 DEF MonthsInStep, history
<1>9. OnCourse'
  <2>1. regular \subseteq Schedules
    BY DEF TypeOK
  <2> QED  BY <1>1, <1>6, <1>8, <2>1 DEF CourseInv, OnCourse, ByTheMonth, Exists, history
<1> QED  BY <1>6, <1>7, <1>9 DEF CourseInv

\* The schedule a run is at is due in this month: this is where it was left
\* behind by no more than the hour.
LEMMA DueThisMonth ==
    ASSUME TypeOK, CourseInv, NEW x \in Sweeps, sweep[x].step # "idle",
           NEW s \in regular, s \in sweep[x].todo, ByTheMonth(s)
    PROVE  /\ schedule[s].nextRunAt.m = sweep[x].at.m /\ sweep[x].at.m = now.m /\ sweep[x].at.d = now.d
           /\ schedule[s].nextRunAt.d = schedule[s].dayOfMonth
           /\ sweep[x].at.d <= schedule[s].dayOfMonth + 1
           /\ schedule[s].dayOfMonth \in Nat \ {0}
<1>1. PICK next : next = schedule[s].nextRunAt
  OBVIOUS
<1>2. PICK at : at = sweep[x].at
  OBVIOUS
<1>3. s \in Schedules
  BY DEF TypeOK
<1>4. /\ next.m \in Nat /\ next.d \in Nat /\ next.time \in 0..(2 * HoursPerDay - 1)
      /\ now.m \in 0..Months /\ now.d \in Nat /\ now.time \in 0..(2 * HoursPerDay - 1)
      /\ schedule[s].dayOfMonth \in Nat /\ HoursPerDay \in Nat /\ Months \in Nat
  BY <1>1, <1>3, CourseTypes DEF CalendarAssumption, BoundsAssumption
<1>5. at.m = now.m /\ at.d = now.d /\ at.time \in {now.time, now.time + 1}
  BY <1>2 DEF CourseInv, OneRunAnHour
<1>6. RunsInTime(s)
  BY DEF CourseInv, OnCourse
<1>7. ~ Before(at, next) /\ NotLongPast(next) /\ (next.m <= Months => next.d = schedule[s].dayOfMonth)
  BY <1>1, <1>2, <1>6 DEF RunsInTime
<1>8. next.m = now.m
  BY <1>4, <1>5, <1>7 DEF Before, NotLongPast
<1>9. next.d = schedule[s].dayOfMonth
  BY <1>4, <1>7, <1>8
<1>10. now.d <= next.d + 1
  BY <1>4, <1>5, <1>7, <1>8 DEF Before, NotLongPast
<1>11. schedule[s].dayOfMonth > 0
  BY DEF ByTheMonth
<1> QED  BY <1>1, <1>2, <1>4, <1>5, <1>8, <1>9, <1>10, <1>11

-----------------------------------------------------------------------------
\* Posting charges the month the next run was set to, which no earlier run has
\* charged.
LEMMA SweepPostKeepsCourse ==
    ASSUME IInv, CourseInv, NEW x \in Sweeps, SweepPost(x)
    PROVE  CourseInv'
<1>1. PICK s : s = sweep[x].s
  OBVIOUS
<1>2. PICK m : m = sweep[x].at.m
  OBVIOUS
<1>3. PICK who : who = sweep[x].who
  OBVIOUS
<1>4. /\ sweep[x].step = "post"
      /\ charged' = [charged EXCEPT ![s] = [r \in Residents |-> IF r \in who THEN @[r] \union {m} ELSE @[r]]]
      /\ again' = IF s \notin regular THEN again
                  ELSE [again EXCEPT ![s] = @ \union {r \in who : m \in charged[s][r]}]
      /\ sweep' = [sweep EXCEPT ![x].step = "advance"]
      /\ UNCHANGED <<now, fired, schedule, active, settled, regular, faults>>
  BY <1>1, <1>2, <1>3 DEF SweepPost
<1>5. PICK new : new = [sweep[x] EXCEPT !.step = "advance"]
  OBVIOUS
<1>6. /\ sweep \in [Sweeps -> Run] /\ settled \subseteq Residents /\ regular \subseteq Schedules
      /\ charged \in [Schedules -> [Residents -> SUBSET (0..Months)]]
      /\ again \in [Schedules -> SUBSET Residents] /\ TypeOK
  BY DEF IInv, TypeOK
<1>7. /\ sweep[x] \in [step : {"post", "advance"}, at : Moments, hours : 0..MaxHours,
                       todo : SUBSET Schedules, s : Schedules, who : SUBSET Residents]
  BY <1>4, <1>6, RunAtStep
<1>8. /\ new.step = "advance" /\ new.at = sweep[x].at /\ new.todo = sweep[x].todo /\ new.s = s
      /\ s \in sweep[x].todo /\ s \in Schedules /\ who \subseteq Residents
  BY <1>1, <1>3, <1>4, <1>5, <1>7 DEF CourseInv, TodoKnown
<1>9. sweep' = [sweep EXCEPT ![x] = new]
  BY <1>4, <1>5, <1>6
<1>10. /\ OneRunAnHour'
       /\ \A y \in Sweeps : sweep'[y].step \in {"post", "advance"} => sweep'[y].s \in sweep'[y].todo
       /\ \A u \in Schedules : schedule[u].state = "none" =>
             \A y \in Sweeps : sweep'[y].step # "idle" => u \notin sweep'[y].todo
       /\ \A u \in regular : RunsInTime(u) => RunsInTime(u)'
  BY <1>4, <1>6, <1>8, <1>9, RunGoesOn
<1>11. \A u \in Schedules \ {s} : charged'[u] = charged[u] /\ again'[u] = again[u]
  BY <1>4, <1>6
<1>12. TodoKnown'
  <2>1. schedule[s].state # "none"
    BY <1>4, <1>8 DEF CourseInv, TodoKnown
  <2> QED  BY <1>4, <1>10, <1>11, <2>1 DEF CourseInv, TodoKnown
<1>13. ASSUME NEW u \in regular, u # s, NEW r \in settled, MonthsInStep(u, r) PROVE MonthsInStep(u, r)'
  <2>1. charged'[u] = charged[u] /\ again'[u] = again[u] /\ schedule' = schedule
    BY <1>4, <1>6, <1>11, <1>13
  <2>2. Posted(u) => Posted(u)'
    BY <1>4, <1>6, <1>9 DEF Posted
  <2> QED  BY <1>13, <2>1, <2>2 DEF MonthsInStep
<1>14. ASSUME s \in regular, ByTheMonth(s), NEW r \in settled PROVE MonthsInStep(s, r)'
  <2>1. PICK c : c = charged[s][r]
    OBVIOUS
  <2>2. PICK step : step = MonthsOf[schedule[s].frequency]
    OBVIOUS
  <2>3. step \in Nat \ {0} /\ r \in Residents /\ c \in SUBSET (0..Months)
    BY <1>6, <1>8, <1>14, <2>1, <2>2, MonthlySteps DEF ByTheMonth
  <2>4. schedule[s].nextRunAt.m = m /\ m \in Nat
    <3>1. sweep[x].step # "idle"
      BY <1>4
    <3>2. schedule[s].nextRunAt.m = m
      BY <1>2, <1>6, <1>8, <1>14, <3>1, DueThisMonth
    <3> QED  BY <1>6, <1>8, <3>2, CourseTypes
  <2>5. MonthsInStep(s, r)
    BY <1>14 DEF CourseInv, OnCourse
  <2>6. ~ Posted(s)
    <3>1. ASSUME NEW y \in Sweeps, sweep[y].step = "advance" PROVE FALSE
      BY <1>4, <1>14, <3>1 DEF CourseInv, OneRunAnHour
    <3> QED  BY <3>1 DEF Posted
  <2>7. /\ r \notin again[s] /\ \A a, b \in c : a < b => a + step <= b
        /\ \A a \in c : a + step <= m /\ (a + step \in c \/ a + step = m \/ Months < a + step)
    BY <2>1, <2>2, <2>4, <2>5, <2>6 DEF MonthsInStep
  <2>8. m \notin c
    <3> SUFFICES ASSUME m \in c PROVE FALSE
      OBVIOUS
    <3>1. m + step <= m
      BY <2>7
    <3> QED  BY <2>3, <2>4, <3>1
  <2>9. r \notin again'[s]
    <3>1. again'[s] = again[s] \union {q \in who : m \in charged[s][q]}
      BY <1>4, <1>6, <1>8, <1>14
    <3>2. m \notin charged[s][r]
      BY <2>1, <2>8
    <3> QED  BY <2>7, <3>1, <3>2
  <2>10. r \in who
    BY <1>3, <1>4, <1>14 DEF IInv, RunsInHand
  <2>11. PICK d : d = c \union {m}
    OBVIOUS
  <2>12. charged'[s][r] = d
    BY <1>4, <1>6, <1>8, <2>1, <2>3, <2>10, <2>11
  <2>13. Posted(s)'
    BY <1>6, <1>8, <1>9 DEF Posted
  <2>14. \A a, b \in d : a < b => a + step <= b
    BY <2>3, <2>4, <2>7, <2>11
  <2>15. \A a \in d : \/ a = m
                      \/ a + step <= m /\ (a + step \in d \/ a + step = m \/ Months < a + step)
    BY <2>7, <2>11
  <2> QED  BY <1>4, <2>2, <2>4, <2>9, <2>12, <2>13, <2>14, <2>15 DEF MonthsInStep
<1>15. OnCourse'
  <2>1. regular' = regular /\ settled' = settled /\ \A u \in regular : ByTheMonth(u)' = ByTheMonth(u)
    BY <1>4 DEF ByTheMonth, Exists
  <2> QED  BY <1>10, <1>13, <1>14, <2>1 DEF CourseInv, OnCourse
<1> QED  BY <1>10, <1>12, <1>15 DEF CourseInv

\* Moving on sets the next run a step after the month just charged.
LEMMA SweepAdvanceKeepsCourse ==
    ASSUME IInv, CourseInv, NEW x \in Sweeps, SweepAdvance(x)
    PROVE  CourseInv'
<1>1. PICK s : s = sweep[x].s
  OBVIOUS
<1>2. PICK at : at = sweep[x].at
  OBVIOUS
<1>3. PICK next : next = NextRun(schedule[s].frequency, schedule[s].dayOfMonth, at)
  OBVIOUS
<1>4. /\ sweep[x].step = "advance"
      /\ schedule' = IF Exists(s)
              THEN [schedule EXCEPT ![s].lastRunAt = at, ![s].nextRunAt = next]
              ELSE schedule
      /\ GoOn(x, sweep[x].todo \ {s})
      /\ UNCHANGED <<now, fired, active, history, faults>>
  BY <1>1, <1>2, <1>3 DEF SweepAdvance
<1>5. /\ sweep \in [Sweeps -> Run] /\ schedule \in [Schedules -> Schedule]
      /\ settled \subseteq Residents /\ regular \subseteq Schedules /\ TypeOK
  BY DEF IInv, TypeOK
<1>6. s \in Schedules /\ at \in Moments /\ sweep[x].todo \in SUBSET Schedules /\ s \in sweep[x].todo
  BY <1>1, <1>2, <1>4, <1>5, RunAtStep DEF CourseInv, TodoKnown
<1>7. PICK todo : todo = sweep[x].todo \ {s}
  OBVIOUS
<1>8. PICK new : new = IF todo = {} THEN IdleSweep
                       ELSE [step |-> "residents", at |-> at, hours |-> sweep[x].hours, todo |-> todo]
  OBVIOUS
<1>9. /\ sweep' = [sweep EXCEPT ![x] = new]
      /\ new.step \in {"idle", "residents"} /\ (new.step # "idle" => new.at = at /\ new.todo = todo)
      /\ new.step = "idle" => todo = {}
  BY <1>2, <1>4, <1>7, <1>8 DEF GoOn, IdleSweep
<1>10. sweep'[x] = new /\ \A y \in Sweeps \ {x} : sweep'[y] = sweep[y]
  BY <1>5, <1>9
<1>11. \A u \in Schedules \ {s} : schedule'[u] = schedule[u]
  BY <1>4, <1>5, <1>6
<1>12. /\ schedule'[s].state = schedule[s].state /\ schedule'[s].frequency = schedule[s].frequency
       /\ schedule'[s].dayOfMonth = schedule[s].dayOfMonth /\ schedule'[s].isActive = schedule[s].isActive
       /\ Exists(s) => schedule'[s].nextRunAt = next
  <2>1. schedule[s] \in Schedule
    BY <1>5, <1>6
  <2>2. CASE ~ Exists(s)
    BY <1>4, <2>2
  <2>3. CASE Exists(s)
    <3>1. schedule'[s] = [schedule[s] EXCEPT !.lastRunAt = at, !.nextRunAt = next]
      BY <1>4, <1>5, <1>6, <2>3
    <3> QED  BY <2>1, <3>1 DEF Schedule
  <2> QED  BY <2>2, <2>3
<1>13. OneRunAnHour'
  <2>1. regular # {} => fired
    BY <1>4 DEF CourseInv, OneRunAnHour, AllIdle, IdleSweep
  <2>2. \A y \in Sweeps : sweep'[y].step # "idle" => sweep[y].step # "idle" /\ sweep'[y].at = sweep[y].at
    BY <1>2, <1>4, <1>9, <1>10
  <2> QED  BY <1>4, <2>1, <2>2 DEF CourseInv, OneRunAnHour, history
<1>14. TodoKnown'
  <2>1. \A y \in Sweeps : sweep'[y].step \in {"post", "advance"} => sweep'[y].s \in sweep'[y].todo
    BY <1>9, <1>10 DEF CourseInv, TodoKnown
  <2>2. \A y \in Sweeps : sweep'[y].step # "idle" =>
            sweep[y].step # "idle" /\ sweep'[y].todo \subseteq sweep[y].todo
    BY <1>4, <1>7, <1>9, <1>10
  <2>3. \A u \in Schedules : schedule'[u].state = schedule[u].state
    BY <1>11, <1>12
  <2>4. ASSUME NEW u \in Schedules, schedule[u].state = "none"
        PROVE  /\ again'[u] = {} /\ \A r \in Residents : charged'[u][r] = {}
               /\ \A y \in Sweeps : sweep'[y].step # "idle" => u \notin sweep'[y].todo
    <3>1. again[u] = {} /\ \A r \in Residents : charged[u][r] = {}
      BY <2>4 DEF CourseInv, TodoKnown
    <3>2. \A y \in Sweeps : sweep[y].step # "idle" => u \notin sweep[y].todo
      BY <2>4 DEF CourseInv, TodoKnown
    <3> QED  BY <1>4, <2>2, <3>1, <3>2 DEF history
  <2> QED  BY <2>1, <2>3, <2>4 DEF TodoKnown
<1>15. ASSUME NEW u \in regular, u # s, RunsInTime(u) PROVE RunsInTime(u)'
  <2>1. schedule'[u] = schedule[u]
    BY <1>5, <1>11, <1>15
  <2>2. InTodo(u) => InTodo(u)'
    BY <1>7, <1>9, <1>10, <1>15 DEF InTodo
  <2>3. \A y \in Sweeps : sweep'[y].step # "idle" /\ u \in sweep'[y].todo =>
            sweep[y].step # "idle" /\ u \in sweep[y].todo /\ sweep'[y].at = sweep[y].at
    BY <1>2, <1>4, <1>7, <1>9, <1>10
  <2> QED  BY <1>4, <1>15, <2>1, <2>2, <2>3 DEF RunsInTime, NotLongPast
<1>16. ASSUME NEW u \in regular, u # s, NEW r \in settled, MonthsInStep(u, r) PROVE MonthsInStep(u, r)'
  <2>1. schedule'[u] = schedule[u]
    BY <1>5, <1>11, <1>16
  <2>2. Posted(u) => Posted(u)'
    BY <1>1, <1>10, <1>16 DEF Posted
  <2> QED  BY <1>4, <1>16, <2>1, <2>2 DEF MonthsInStep, history
<1>17. ASSUME s \in regular, ByTheMonth(s)
       PROVE  RunsInTime(s)' /\ \A r \in settled : MonthsInStep(s, r)'
  <2>1. PICK step : step = MonthsOf[schedule[s].frequency]
    OBVIOUS
  <2>2. PICK day : day = schedule[s].dayOfMonth
    OBVIOUS
  <2>3. /\ schedule[s].frequency \in {"MONTHLY", "QUARTERLY"} /\ Exists(s)
        /\ \A k \in 0..Months : day < Length(k)
    BY <1>17, <2>2 DEF ByTheMonth
  <2>4. /\ schedule[s].nextRunAt.m = at.m /\ at.m = now.m /\ at.d = now.d
        /\ at.d <= day + 1 /\ day \in Nat \ {0}
    <3>1. sweep[x].step # "idle"
      BY <1>4
    <3> QED  BY <1>2, <1>5, <1>6, <1>17, <2>2, <3>1, DueThisMonth
  <2>5. step \in Nat \ {0} /\ at.m \in Nat /\ Months \in Nat
    BY <1>6, <2>1, <2>3, MonthlySteps DEF Moments, Instant, BoundsAssumption
  <2>6. /\ next.m \in Nat /\ at.m + step <= next.m
        /\ next.m <= Months => next.d = day
        /\ at.m + step <= Months => next.m = at.m + step
    BY <1>3, <1>6, <2>1, <2>2, <2>3, <2>4, NextRunByTheMonth
  <2>7. RunsInTime(s) /\ \A r \in settled : MonthsInStep(s, r)
    BY <1>17 DEF CourseInv, OnCourse
  <2>8. RunsInTime(s)'
    <3>1. Before(now, next) /\ ~ Before(next, now)
      BY <2>4, <2>5, <2>6 DEF Before
    <3>2. ~ InTodo(s)'
      <4>1. ASSUME NEW y \in Sweeps, sweep'[y].step # "idle" PROVE y = x /\ sweep'[y].todo = todo
        <5>1. y = x
          BY <1>4, <1>10, <1>17, <4>1 DEF CourseInv, OneRunAnHour
        <5> QED  BY <1>9, <1>10, <4>1, <5>1
      <4> QED  BY <1>7, <4>1 DEF InTodo
    <3>3. NotLongPast(next)'
      BY <1>4, <3>1 DEF NotLongPast
    <3>4. schedule'[s].isActive /\ schedule'[s].nextRunAt = next /\ schedule'[s].dayOfMonth = day
      BY <1>12, <2>2, <2>3, <2>7 DEF RunsInTime
    <3> QED  BY <1>4, <2>6, <3>1, <3>2, <3>3, <3>4 DEF RunsInTime, InTodo, NotLongPast
  <2>9. ASSUME NEW r \in settled PROVE MonthsInStep(s, r)'
    <3>1. PICK c : c = charged[s][r]
      OBVIOUS
    <3>2. c \in SUBSET (0..Months)
      BY <1>5, <1>6, <3>1, CourseTypes
    <3>3. at.m \in c
      BY <1>1, <1>2, <1>4, <3>1 DEF IInv, RunsInHand
    <3>4. /\ r \notin again[s] /\ \A a, b \in c : a < b => a + step <= b
          /\ \A a \in c : \/ a = at.m
                          \/ a + step <= at.m /\ (a + step \in c \/ a + step = at.m \/ Months < a + step)
      BY <2>1, <2>4, <2>7, <3>1 DEF MonthsInStep
    <3>5. ASSUME NEW a \in c
          PROVE  a + step <= next.m /\ (a + step \in c \/ a + step = next.m \/ Months < a + step)
      <4>1. a \in 0..Months /\ a \in Nat
        BY <2>5, <3>2
      <4>2. a = at.m \/ a + step \in c \/ a + step = at.m \/ Months < a + step
        BY <3>4
      <4>3. a = at.m \/ a + step <= at.m
        BY <3>4
      <4>4. a + step <= next.m
        BY <2>5, <2>6, <4>1, <4>3
      <4>5. a = at.m => a + step = next.m \/ Months < a + step
        BY <2>5, <2>6
      <4> QED  BY <3>3, <4>2, <4>4, <4>5
    <3>6. schedule'[s].nextRunAt = next /\ schedule'[s].frequency = schedule[s].frequency
      BY <1>12, <2>3
    <3> QED  BY <1>4, <2>1, <3>1, <3>4, <3>5, <3>6 DEF MonthsInStep, history
  <2> QED  BY <2>8, <2>9
<1>18. OnCourse'
  <2>1. regular' = regular /\ settled' = settled
    BY <1>4 DEF history
  <2>2. \A u \in regular : ByTheMonth(u)' => ByTheMonth(u)
    BY <1>5, <1>11, <1>12 DEF ByTheMonth, Exists
  <2> QED  BY <1>15, <1>16, <1>17, <2>1, <2>2 DEF CourseInv, OnCourse
<1> QED  BY <1>13, <1>14, <1>18 DEF CourseInv

-----------------------------------------------------------------------------
\* After a fault no schedule is on the regular course.
LEMMA SweepFailsKeepsCourse ==
    ASSUME IInv, CourseInv, NEW x \in Sweeps, SweepFails(x)
    PROVE  CourseInv'
<1>1. /\ NoLonger(Schedules)
      /\ UNCHANGED <<now, fired, schedule, active, charged, settled>>
  BY DEF SweepFails
<1>2. PICK s : sweep[x].step # "idle" /\ GoOn(x, sweep[x].todo \ {s})
  BY DEF SweepFails
<1>3. PICK todo : todo = sweep[x].todo \ {s}
  OBVIOUS
<1>4. PICK new : new = IF todo = {} THEN IdleSweep
                       ELSE [step |-> "residents", at |-> sweep[x].at, hours |-> sweep[x].hours, todo |-> todo]
  OBVIOUS
<1>5. /\ sweep' = [sweep EXCEPT ![x] = new]
      /\ new.step \in {"idle", "residents"} /\ (new.step # "idle" => new.todo = todo)
  BY <1>2, <1>3, <1>4 DEF GoOn, IdleSweep
<1>6. sweep \in [Sweeps -> Run] /\ TypeOK
  BY DEF IInv, TypeOK
<1>7. sweep'[x] = new /\ \A y \in Sweeps \ {x} : sweep'[y] = sweep[y]
  BY <1>5, <1>6
<1>8. \A u \in Schedules : again'[u] = {}
  BY <1>1, <1>6, NoneIsRegular
<1>9. TodoKnown'
  <2>1. \A y \in Sweeps : sweep'[y].step \in {"post", "advance"} => sweep'[y].s \in sweep'[y].todo
    BY <1>5, <1>7 DEF CourseInv, TodoKnown
  <2>2. \A y \in Sweeps : sweep'[y].step # "idle" =>
            sweep[y].step # "idle" /\ sweep'[y].todo \subseteq sweep[y].todo
    BY <1>2, <1>3, <1>5, <1>7
  <2>3. ASSUME NEW u \in Schedules, schedule[u].state = "none"
        PROVE  /\ \A r \in Residents : charged[u][r] = {}
               /\ \A y \in Sweeps : sweep[y].step # "idle" => u \notin sweep[y].todo
    BY <2>3 DEF CourseInv, TodoKnown
  <2> QED  BY <1>1, <1>8, <2>1, <2>2, <2>3 DEF TodoKnown
<1> QED  BY <1>1, <1>6, <1>9, NoneIsRegular DEF CourseInv

LEMMA RestartKeepsCourse ==
    ASSUME IInv, CourseInv, Restart
    PROVE  CourseInv'
<1>1. /\ sweep' = [x \in Sweeps |-> IdleSweep] /\ NoLonger(Schedules)
      /\ UNCHANGED <<now, fired, schedule, active, charged, settled>>
  BY DEF Restart
<1>2. TypeOK /\ IdleSweep.step = "idle"
  BY DEF IInv, IdleSweep
<1>3. \A u \in Schedules : again'[u] = {}
  BY <1>1, <1>2, NoneIsRegular
<1>4. TodoKnown'
  BY <1>1, <1>2, <1>3 DEF CourseInv, TodoKnown
<1> QED  BY <1>1, <1>2, <1>4, NoneIsRegular DEF CourseInv

\* The clock moves on by an hour: what was ahead of it is now at most in the
\* hour just passed.  At the end of a month nothing of it is left ahead, for
\* the day of the schedule is not the last.
LEMMA HourPasses ==
    ASSUME TypeOK, Tick, NEW s \in Schedules, ByTheMonth(s), Before(now, schedule[s].nextRunAt),
           schedule[s].nextRunAt.m <= Months => schedule[s].nextRunAt.d = schedule[s].dayOfMonth
    PROVE  NotLongPast(schedule[s].nextRunAt)'
<1>1. PICK run : run = schedule[s].nextRunAt
  OBVIOUS
<1>2. PICK day : day = schedule[s].dayOfMonth
  OBVIOUS
<1>3. schedule' = schedule
  BY DEF Tick
<1>4. /\ run.m \in Nat /\ run.d \in Nat /\ run.time \in 0..(2 * HoursPerDay - 1)
      /\ now.m \in Nat /\ now.m <= Months /\ now.d \in Nat
      /\ now.time \in 0..(2 * HoursPerDay - 1) /\ day \in Nat
      /\ HoursPerDay \in Nat /\ Months \in Nat
  <2>1. now.m \in 0..Months /\ Months \in Nat /\ HoursPerDay \in Nat
    BY CourseTypes DEF CalendarAssumption, BoundsAssumption
  <2>2. now.m \in Nat /\ now.m <= Months
    BY <2>1
  <2> QED  BY <1>1, <1>2, <2>1, <2>2, CourseTypes
<1>5. Length(now.m) \in Nat /\ now.d <= Length(now.m)
  <2>1. now.d \in 1..Length(now.m)
    BY CourseTypes
  <2>2. Length(now.m) \in Nat
    BY <1>4, LengthNat
  <2> QED  BY <2>1, <2>2
<1>6. PICK h \in 0..(HoursPerDay - 1) : now.time = 2 * h
  BY DEF TypeOK
<1>7. day > 0 /\ day < Length(now.m)
  BY <1>2, <1>4 DEF ByTheMonth
<1>8. Before(now, run) /\ (run.m <= Months => run.d = day)
  BY <1>1, <1>2
<1>9. now \in Instant
  BY DEF TypeOK, Moments
<1>10. CASE now' = now
  <2>1. ~ Before(run, now)
    <3>1. now.m < run.m \/ now.m = run.m
      BY <1>8 DEF Before
    <3>2. CASE now.m < run.m
      BY <1>4, <3>2 DEF Before
    <3>3. CASE now.m = run.m
      <4>1. now.d < run.d \/ (now.d = run.d /\ now.time < run.time)
        BY <1>4, <1>8, <3>3 DEF Before
      <4> QED  BY <1>4, <3>3, <4>1 DEF Before
    <3> QED  BY <3>1, <3>2, <3>3
  <2> QED  BY <1>1, <1>3, <1>10, <2>1 DEF NotLongPast, Before
<1>11. CASE now.time + 2 < 2 * HoursPerDay /\ now' = [now EXCEPT !.time = @ + 2]
  <2>1. now'.m = now.m /\ now'.d = now.d /\ now'.time = now.time + 2
    BY <1>9, <1>11 DEF Instant
  <2>2. PICK later : later = now'
    OBVIOUS
  <2>3. later.m = now.m /\ later.d = now.d /\ later.time = now.time + 2 /\ now.time \in Nat /\ run.time \in Nat
    BY <1>4, <2>1, <2>2
  <2>4. \/ ~ Before(run, later)
        \/ run.m = later.m /\ run.d = later.d /\ run.time = later.time - 1
    <3>1. CASE run.m = now.m /\ run.d = now.d
      <4>1. now.time < run.time
        BY <1>4, <1>8, <3>1 DEF Before
      <4>2. run.time = later.time - 1 \/ later.time <= run.time
        BY <2>3, <4>1
      <4> QED  BY <1>4, <2>3, <3>1, <4>2 DEF Before
    <3>2. CASE ~ (run.m = now.m /\ run.d = now.d)
      <4>1. now.m < run.m \/ (now.m = run.m /\ now.d < run.d)
        BY <1>4, <1>8, <3>2 DEF Before
      <4> QED  BY <1>4, <2>3, <4>1 DEF Before
    <3> QED  BY <3>1, <3>2
  <2> QED  BY <1>1, <1>3, <2>2, <2>4 DEF NotLongPast
<1>12. CASE ~ (now.time + 2 < 2 * HoursPerDay) /\ now' = [AddDays(now, 1) EXCEPT !.time = 0] /\ now'.m <= Months
  <2>1. PICK t : t = Date(now.m, now.d + 1, now.time)
    OBVIOUS
  <2>2. t \in Instant
    BY <1>9, <2>1, AddDaysIsInstant DEF AddDays
  <2>3. now'.m = t.m /\ now'.d = t.d /\ now'.time = 0
    <3>1. now' = [t EXCEPT !.time = 0]
      BY <1>12, <2>1 DEF AddDays
    <3> QED  BY <2>2, <3>1 DEF Instant
  <2>4. now.time = 2 * HoursPerDay - 2 /\ now.time \in Nat /\ run.time \in Nat
    <3>1. h \in Nat /\ h <= HoursPerDay - 1 /\ ~ (2 * h + 2 < 2 * HoursPerDay)
      BY <1>4, <1>6, <1>12
    <3>2. 2 * h = 2 * HoursPerDay - 2
      BY <1>4, <3>1
    <3>3. now.time = 2 * HoursPerDay - 2
      BY <1>6, <3>2
    <3>4. now.time \in Nat /\ run.time \in Nat
      BY <1>4
    <3> QED  BY <3>3, <3>4
  <2>5. PICK d : d = now.d + 1
    OBVIOUS
  <2>6. /\ now.d + 1 > Length(now.m) => t.m = now.m + 1 /\ t.d = now.d + 1 - Length(now.m)
        /\ ~ (now.d + 1 > Length(now.m)) => t.m = now.m /\ t.d = now.d + 1
    <3>1. now.m \in Nat /\ d \in Nat /\ t = Date(now.m, d, now.time)
      BY <1>4, <2>1, <2>5
    <3>2. /\ d > Length(now.m) => t.m = now.m + 1 /\ t.d = d - Length(now.m)
          /\ ~ (d > Length(now.m)) => t.m = now.m /\ t.d = d
      BY <3>1, DateParts
    <3> QED  BY <1>4, <1>5, <2>5, <3>2
  <2>7. CASE now.d + 1 > Length(now.m)
    <3>1. now.d = Length(now.m) /\ t.m = now.m + 1 /\ t.d = 1
      BY <1>4, <1>5, <2>6, <2>7
    <3>2. run.m # now.m
      <4> SUFFICES ASSUME run.m = now.m PROVE FALSE
        OBVIOUS
      <4>1. run.d = day /\ day < now.d
        BY <1>4, <1>7, <1>8, <3>1
      <4>2. now.d <= run.d
        BY <1>4, <1>8 DEF Before
      <4> QED  BY <1>4, <4>1, <4>2
    <3>3. now.m + 1 <= run.m
      BY <1>4, <1>8, <3>2 DEF Before
    <3>4. now.m + 1 <= Months
      BY <1>12, <2>3, <3>1
    <3>5. run.m = now.m + 1 => run.d >= 1
      BY <1>4, <1>7, <1>8, <3>4
    <3>6. ~ Before(run, now')
      BY <1>4, <2>3, <3>1, <3>3, <3>5 DEF Before
    <3> QED  BY <1>1, <1>3, <3>6 DEF NotLongPast, Before
  <2>8. CASE ~ (now.d + 1 > Length(now.m))
    <3>1. t.m = now.m /\ t.d = now.d + 1
      BY <2>6, <2>8
    <3>2. PICK later : later = now'
      OBVIOUS
    <3>3. later.m = now.m /\ later.d = now.d + 1 /\ later.time = 0
      BY <2>3, <3>1, <3>2
    <3>4. \/ ~ Before(run, later)
          \/ run.m = later.m /\ run.d = later.d - 1 /\ run.time = 2 * HoursPerDay - 1 /\ later.time = 0
      <4>1. CASE run.m = now.m /\ run.d = now.d
        <5>1. now.time < run.time
          BY <1>4, <1>8, <4>1 DEF Before
        <5>2. run.time <= 2 * HoursPerDay - 1
          BY <1>4
        <5>3. run.time = 2 * HoursPerDay - 1
          <6>1. ASSUME NEW k \in Nat, NEW n \in Nat, NEW b \in Int, n = b - 2, n < k, k <= b - 1
                PROVE  k = b - 1
            BY <6>1
          <6>2. 2 * HoursPerDay \in Int
            BY <1>4
          <6> QED  BY <2>4, <5>1, <5>2, <6>1, <6>2
        <5> QED  BY <1>4, <3>3, <4>1, <5>3
      <4>2. CASE run.m = now.m /\ run.d # now.d
        BY <1>4, <1>8, <2>4, <3>3, <4>2 DEF Before
      <4>3. CASE run.m # now.m
        BY <1>4, <1>8, <2>4, <3>3, <4>3 DEF Before
      <4> QED  BY <4>1, <4>2, <4>3
    <3> QED  BY <1>1, <1>3, <3>2, <3>4 DEF NotLongPast
  <2> QED  BY <2>7, <2>8
<1>13. \/ now' = now
       \/ now.time + 2 < 2 * HoursPerDay /\ now' = [now EXCEPT !.time = @ + 2]
       \/ ~ (now.time + 2 < 2 * HoursPerDay) /\ now' = [AddDays(now, 1) EXCEPT !.time = 0] /\ now'.m <= Months
  BY DEF Tick
<1> QED  BY <1>10, <1>11, <1>12, <1>13

LEMMA TickKeepsCourse ==
    ASSUME IInv, CourseInv, Tick
    PROVE  CourseInv'
<1>1. /\ sweep' = [x \in Sweeps |-> IF sweep[x] = IdleSweep THEN IdleSweep
                                    ELSE [sweep[x] EXCEPT !.hours = @ + 1]]
      /\ fired' = FALSE
      /\ IF fired /\ AllIdle THEN UNCHANGED <<regular, again>> ELSE NoLonger(Schedules)
      /\ UNCHANGED <<schedule, active, charged, settled, faults>>
  BY DEF Tick
<1>2. sweep \in [Sweeps -> Run] /\ TypeOK /\ IdleSweep.step = "idle" /\ regular \subseteq Schedules
  BY DEF IInv, TypeOK, IdleSweep
<1>3. ASSUME NEW y \in Sweeps
      PROVE  /\ sweep'[y].step = sweep[y].step
             /\ sweep[y].step # "idle" => sweep'[y].todo = sweep[y].todo
             /\ sweep[y].step \in {"post", "advance"} => sweep'[y].s = sweep[y].s
  <2>1. sweep[y] \in Run
    BY <1>2
  <2>2. CASE sweep[y] = IdleSweep
    BY <1>1, <1>2, <2>2
  <2>3. CASE sweep[y] # IdleSweep
    <3>1. sweep'[y] = [sweep[y] EXCEPT !.hours = @ + 1]
      BY <1>1, <2>3
    <3>2. sweep[y].step # "idle" /\ sweep[y].step \in {"idle", "residents", "post", "advance"}
      BY <2>1, <2>3, RunAtStep
    <3>3. CASE sweep[y].step = "residents"
      <4>1. sweep[y] \in [step : {"residents"}, at : Moments, hours : 0..MaxHours, todo : SUBSET Schedules]
        BY <2>1, <3>3, RunAtStep
      <4> QED  BY <3>1, <3>3, <4>1
    <3>4. CASE sweep[y].step \in {"post", "advance"}
      <4>1. sweep[y] \in [step : {"post", "advance"}, at : Moments, hours : 0..MaxHours,
                          todo : SUBSET Schedules, s : Schedules, who : SUBSET Residents]
        BY <2>1, <3>4, RunAtStep
      <4> QED  BY <3>1, <3>4, <4>1
    <3> QED  BY <3>2, <3>3, <3>4
  <2> QED  BY <2>2, <2>3
<1>4. TodoKnown'
  <2>1. \A y \in Sweeps : sweep'[y].step \in {"post", "advance"} => sweep'[y].s \in sweep'[y].todo
    BY <1>3 DEF CourseInv, TodoKnown
  <2>2. ASSUME NEW u \in Schedules, schedule[u].state = "none"
        PROVE  /\ again[u] = {} /\ \A r \in Residents : charged[u][r] = {}
               /\ \A y \in Sweeps : sweep[y].step # "idle" => u \notin sweep[y].todo
    BY <2>2 DEF CourseInv, TodoKnown
  <2>3. \A u \in Schedules : again'[u] = again[u] \/ again'[u] = {}
    BY <1>1, <1>2, NoneIsRegular
  <2>4. schedule' = schedule /\ charged' = charged
    BY <1>1
  <2>5. ASSUME NEW u \in Schedules, schedule[u].state = "none"
        PROVE  /\ again'[u] = {} /\ \A r \in Residents : charged'[u][r] = {}
               /\ \A y \in Sweeps : sweep'[y].step # "idle" => u \notin sweep'[y].todo
    <3>1. again'[u] = {}
      BY <2>2, <2>3, <2>5
    <3>2. \A y \in Sweeps : sweep'[y].step # "idle" => u \notin sweep'[y].todo
      BY <1>3, <2>2, <2>5
    <3> QED  BY <2>2, <2>4, <2>5, <3>1, <3>2
  <2> QED  BY <2>1, <2>4, <2>5 DEF TodoKnown
<1>5. CASE ~ (fired /\ AllIdle)
  BY <1>1, <1>2, <1>4, <1>5, NoneIsRegular DEF CourseInv
<1>6. CASE fired /\ AllIdle
  <2>1. regular' = regular /\ again' = again
    BY <1>1, <1>6
  <2>2. \A y \in Sweeps : sweep'[y] = IdleSweep /\ sweep'[y].step = "idle" /\ sweep[y].step = "idle"
    BY <1>1, <1>2, <1>6 DEF AllIdle
  <2>3. OneRunAnHour'
    BY <2>2 DEF OneRunAnHour, AllIdle
  <2>4. ASSUME NEW s \in regular, ByTheMonth(s)
        PROVE  RunsInTime(s)' /\ \A r \in settled : MonthsInStep(s, r)'
    <3>1. RunsInTime(s) /\ \A r \in settled : MonthsInStep(s, r)
      BY <2>4 DEF CourseInv, OnCourse
    <3>2. ~ InTodo(s) /\ ~ Posted(s)
      BY <2>2 DEF InTodo, Posted
    <3>3. /\ Before(now, schedule[s].nextRunAt)
          /\ schedule[s].nextRunAt.m <= Months => schedule[s].nextRunAt.d = schedule[s].dayOfMonth
      BY <1>6, <3>1, <3>2 DEF RunsInTime
    <3>4. NotLongPast(schedule[s].nextRunAt)'
      BY <1>2, <2>4, <3>3, HourPasses
    <3>5. RunsInTime(s)'
      BY <1>1, <2>2, <3>1, <3>4 DEF RunsInTime
    <3>6. \A r \in settled : MonthsInStep(s, r)'
      BY <1>1, <2>1, <3>1, <3>2 DEF MonthsInStep
    <3> QED  BY <3>5, <3>6
  <2>5. OnCourse'
    BY <1>1, <2>1, <2>4 DEF OnCourse, ByTheMonth, Exists
  <2> QED  BY <1>4, <2>3, <2>5 DEF CourseInv
<1> QED  BY <1>5, <1>6

LEMMA NextKeepsCourse == IInv /\ CourseInv /\ [Next]_vars => CourseInv'
<1> SUFFICES ASSUME IInv, CourseInv, [Next]_vars PROVE CourseInv'
  OBVIOUS
<1>0. TypeOK
  BY DEF IInv
<1>1. CASE UNCHANGED vars
  BY <1>1, CourseFrame DEF vars, history
<1>2. ASSUME NEW s \in Schedules,
             CreateRecurringCharge(s) \/ UpdateRecurringCharge(s) \/ DeleteRecurringCharge(s)
      PROVE  CourseInv'
  BY <1>0, <1>2, CreateKeepsCourse, UpdateKeepsCourse, DeleteKeepsCourse
<1>3. ASSUME NEW r \in Residents, ResidentMoves(r) PROVE CourseInv'
  BY <1>3, MoveKeepsCourse
<1>4. ASSUME NEW x \in Sweeps, SweepRead(x) \/ SweepStep(x) PROVE CourseInv'
  BY <1>0, <1>4, SweepReadKeepsCourse, SweepResidentsKeepsCourse, SweepPostKeepsCourse,
     SweepAdvanceKeepsCourse, SweepFailsKeepsCourse DEF SweepStep
<1>5. CASE Tick \/ Restart
  BY <1>5, TickKeepsCourse, RestartKeepsCourse
<1> QED  BY <1>1, <1>2, <1>3, <1>4, <1>5 DEF Next

\* While the job runs every hour, alone and without fault, a schedule by a day
\* of the month that no month lacks charges every resident once in each of its
\* months and leaves none out: in every calendar, however late in the hour the
\* runs start, and although each counts on from the time it was started at and
\* not from the day it was due (getNextRunDate, processRecurringCharges).
THEOREM NoMonthIsMissed == Spec => []EveryMonthCharged
<1>1. IInv => TypeOK
  BY DEF IInv
<1> QED  BY <1>1, Invariance, InitEstablishesCourse, NextKeepsCourse, CourseCharges, PTL DEF Spec

=============================================================================
