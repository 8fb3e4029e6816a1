----------------------------- MODULE MailProofs -----------------------------
(***************************************************************************)
(* Theorems about MailQueue, for every set of letters and sweeps and for   *)
(* every limit on attempts.                                                *)
(***************************************************************************)
EXTENDS MailQueue, SequenceTheorems, TLAPS

(***************************************************************************)
(* The invariant.  VerdictsAreTrue alone is not inductive: a sweep counts  *)
(* from the attempts it has read, so that what every count stands for has  *)
(* to be kept too, for the rows and for what the sweeps remember of them.  *)
(***************************************************************************)

\* A row on its way to a verdict has been retried once for each number up to
\* its attempts, in vain; the first attempt is the call of send.
CountsAreTries ==
    \A l \in Letters :
        Waiting(l) => /\ row[l].attempts \in 1..(MaxAttempts - 1)
                      /\ 2..row[l].attempts \subseteq refused[l]

\* The same of the attempts a sweep has read, however long ago.
ReadCountsAreTries ==
    \A s \in Sweeps : \A i \in 1..Len(sweep[s].todo) :
        LET r == sweep[s].todo[i] IN 2..r.attempts \subseteq refused[r.letter]

\* Between the retry and its record, the outcome in hand is a real one.
OutcomesAreTrue ==
    \A s \in Sweeps :
        /\ sweep[s].step # "idle" => sweep[s].todo # <<>>
        /\ sweep[s].step = "sent" => Head(sweep[s].todo).letter \in arrived
        /\ sweep[s].step = "failed" =>
               Head(sweep[s].todo).attempts + 1 \in refused[Head(sweep[s].todo).letter]

\* The due queue holds waiting rows, each once.
DueRowsWait ==
    /\ \A i \in 1..Len(dueQueue) : Waiting(dueQueue[i])
    /\ \A i, j \in 1..Len(dueQueue) : dueQueue[i] = dueQueue[j] => i = j

IInv ==
    /\ TypeOK
    /\ CountsAreTries
    /\ ReadCountsAreTries
    /\ OutcomesAreTrue
    /\ DueRowsWait
    /\ VerdictsAreTrue

-----------------------------------------------------------------------------
(* Sequences.                                                              *)

\* What is left when the first element is taken away.
LEMMA TailElements ==
    ASSUME NEW S, NEW q \in Seq(S), q # <<>>
    PROVE  /\ Head(q) \in S /\ Tail(q) \in Seq(S)
           /\ Len(Tail(q)) = Len(q) - 1 /\ Len(q) \in Nat
           /\ \A i \in 1..Len(Tail(q)) : i + 1 \in 1..Len(q) /\ Tail(q)[i] = q[i + 1]
BY HeadTailProperties

\* Removing one element of a sequence leaves the others, in places that are
\* places of the sequence.
LEMMA RemoveAtElements ==
    ASSUME NEW S, NEW q \in Seq(S), NEW k \in 1..Len(q)
    PROVE  /\ RemoveAt(q, k) \in Seq(S)
           /\ Len(RemoveAt(q, k)) = Len(q) - 1
           /\ \A i \in 1..(Len(q) - 1) :
                 RemoveAt(q, k)[i] = IF i < k THEN q[i] ELSE q[i + 1]
<1> DEFINE a == SubSeq(q, 1, k - 1)  b == SubSeq(q, k + 1, Len(q))
<1>1. Len(q) \in Nat /\ k \in Nat  OBVIOUS
<1>2. a \in Seq(S) /\ Len(a) = k - 1 /\ \A i \in 1..(k - 1) : a[i] = q[i]
  BY <1>1, SubSeqProperties
<1>3. b \in Seq(S) /\ Len(b) = Len(q) - k /\ \A i \in 1..(Len(q) - k) : b[i] = q[k + i]
  BY <1>1, SubSeqProperties
<1> HIDE DEF a, b
<1>4. /\ a \o b \in Seq(S) /\ Len(a \o b) = Len(q) - 1
      /\ \A i \in 1..(Len(q) - 1) : (a \o b)[i] = IF i <= k - 1 THEN a[i] ELSE b[i - (k - 1)]
  <2>1. /\ a \o b \in Seq(S) /\ Len(a \o b) = Len(a) + Len(b)
        /\ \A i \in 1..(Len(a) + Len(b)) : (a \o b)[i] = IF i <= Len(a) THEN a[i] ELSE b[i - Len(a)]
    BY <1>2, <1>3, ConcatProperties
  <2>2. Len(a) + Len(b) = Len(q) - 1
    BY <1>1, <1>2, <1>3
  <2> QED  BY <1>2, <2>1, <2>2
<1>5. ASSUME NEW i \in 1..(Len(q) - 1)
      PROVE  (a \o b)[i] = IF i < k THEN q[i] ELSE q[i + 1]
  <2>1. CASE i < k
    BY <1>1, <1>2, <1>4, <2>1
  <2>2. CASE ~ (i < k)
    <3>1. i - (k - 1) \in 1..(Len(q) - k) /\ k + (i - (k - 1)) = i + 1
      BY <1>1, <2>2
    <3> QED  BY <1>1, <1>3, <1>4, <2>2, <3>1
  <2> QED  BY <2>1, <2>2
<1> QED  BY <1>4, <1>5 DEF RemoveAt, a, b

\* The due queue without a letter is a queue of the other letters, each once.
LEMMA DueWithoutElements ==
    ASSUME TypeOK, DueRowsWait, NEW l \in Letters
    PROVE  /\ DueWithout(l) \in Seq(Letters)
           /\ \A i \in 1..Len(DueWithout(l)) :
                 DueWithout(l)[i] # l /\ \E k \in 1..Len(dueQueue) : DueWithout(l)[i] = dueQueue[k]
           /\ \A i, j \in 1..Len(DueWithout(l)) : DueWithout(l)[i] = DueWithout(l)[j] => i = j
<1>1. dueQueue \in Seq(Letters) /\ Len(dueQueue) \in Nat
  BY DEF TypeOK
<1>2. CASE ~Contains(dueQueue, l)
  BY <1>1, <1>2 DEF DueWithout, Contains, DueRowsWait
<1>3. CASE Contains(dueQueue, l)
  <2> DEFINE k == CHOOSE i \in DOMAIN dueQueue : dueQueue[i] = l
             r == RemoveAt(dueQueue, k)
  <2>1. k \in 1..Len(dueQueue) /\ dueQueue[k] = l
    BY <1>1, <1>3 DEF Contains
  <2>2. /\ r \in Seq(Letters) /\ Len(r) = Len(dueQueue) - 1
        /\ \A i \in 1..(Len(dueQueue) - 1) : r[i] = IF i < k THEN dueQueue[i] ELSE dueQueue[i + 1]
    <3> HIDE DEF k
    <3> QED  BY <1>1, <2>1, RemoveAtElements
  <2>3. DueWithout(l) = r
    BY <1>3 DEF DueWithout
  <2> HIDE DEF k, r
  <2>4. \A i, j \in 1..Len(dueQueue) : dueQueue[i] = dueQueue[j] => i = j
    BY DEF DueRowsWait
  <2>5. ASSUME NEW i \in 1..Len(r)
        PROVE  r[i] # l /\ \E m \in 1..Len(dueQueue) : r[i] = dueQueue[m]
    BY <1>1, <2>1, <2>2, <2>4
  <2>6. ASSUME NEW i \in 1..Len(r), NEW j \in 1..Len(r), r[i] = r[j]
        PROVE  i = j
    <3>1. /\ i \in 1..Len(dueQueue) /\ i + 1 \in 1..Len(dueQueue)
          /\ j \in 1..Len(dueQueue) /\ j + 1 \in 1..Len(dueQueue) /\ k \in Nat
      BY <1>1, <2>1, <2>2
    <3>2. CASE i < k /\ j < k  BY <2>2, <2>4, <2>6, <3>1, <3>2
    <3>3. CASE ~ (i < k) /\ ~ (j < k)  BY <2>2, <2>4, <2>6, <3>1, <3>3
    <3>4. CASE i < k /\ ~ (j < k)  BY <2>2, <2>4, <2>6, <3>1, <3>4
    <3>5. CASE ~ (i < k) /\ j < k  BY <2>2, <2>4, <2>6, <3>1, <3>5
    <3> QED  BY <3>2, <3>3, <3>4, <3>5
  <2> QED  BY <2>2, <2>3, <2>5, <2>6
<1> QED  BY <1>2, <1>3

\* A sweep reads waiting rows, with the attempts they count.
LEMMA BatchElements ==
    ASSUME ParametersAssumption, TypeOK, CountsAreTries, DueRowsWait
    PROVE  /\ Batch \in Seq(DueRow)
           /\ dueQueue # <<>> => Batch # <<>>
           /\ \A i \in 1..Len(Batch) : 2..Batch[i].attempts \subseteq refused[Batch[i].letter]
<1> DEFINE n == IF Len(dueQueue) < Take THEN Len(dueQueue) ELSE Take
           f(i) == [letter |-> dueQueue[i], attempts |-> row[dueQueue[i]].attempts]
<1>1. dueQueue \in Seq(Letters) /\ Len(dueQueue) \in Nat /\ Take \in Nat \ {0}
  BY DEF TypeOK, ParametersAssumption
<1>2. n \in Nat /\ n <= Len(dueQueue) /\ (dueQueue # <<>> => n > 0)
  BY <1>1
<1>3. ASSUME NEW i \in 1..n
      PROVE  f(i) \in DueRow /\ 2..f(i).attempts \subseteq refused[f(i).letter]
  <2>1. i \in 1..Len(dueQueue) /\ dueQueue[i] \in Letters
    BY <1>1, <1>2
  <2> QED  BY <2>1 DEF DueRowsWait, CountsAreTries, DueRow
<1>4. Batch = [i \in 1..n |-> f(i)]
  BY DEF Batch
<1> HIDE DEF n, f
<1>5. Batch \in [1..n -> DueRow]
  BY <1>3, <1>4
<1>6. Batch \in Seq(DueRow) /\ Len(Batch) = n
  BY <1>2, <1>5
<1> QED  BY <1>2, <1>3, <1>4, <1>6

-----------------------------------------------------------------------------
(* The invariant holds initially, and no step breaks it.                   *)

LEMMA InitInvariant == Init => IInv
<1> SUFFICES ASSUME Init PROVE IInv
  OBVIOUS
<1> USE ParametersAssumption
<1>1. TypeOK
  BY DEF Init, TypeOK, Row, NoRow, Idle
<1>2. \A l \in Letters : row[l].status = "NONE"
  BY DEF Init, NoRow
<1>3. \A s \in Sweeps : sweep[s].step = "idle" /\ sweep[s].todo = <<>>
  BY DEF Init, Idle
<1>4. CountsAreTries /\ VerdictsAreTrue
  BY <1>2 DEF CountsAreTries, VerdictsAreTrue, Waiting
<1>5. ReadCountsAreTries /\ OutcomesAreTrue
  BY <1>3 DEF ReadCountsAreTries, OutcomesAreTrue
<1>6. DueRowsWait
  BY DEF Init, DueRowsWait
<1> QED  BY <1>1, <1>4, <1>5, <1>6 DEF IInv

\* send leaves the sweeps, the retries and the rows alone, apart from parking.
LEMMA SendKeepsInvariant ==
    ASSUME IInv, NEW l \in Letters, SendStep(l)
    PROVE  IInv'
<1> USE ParametersAssumption DEF IInv, ParametersAssumption
<1>1. arrived \subseteq arrived' /\ arrived' \in SUBSET Letters /\ UNCHANGED <<dueQueue, sweep, refused>>
  BY DEF SendStep, SendWithResend, SendWithoutResend, SendWithSmtp, EnqueueDeadLetter,
         EnqueueFails, Arrives, TypeOK
<1>2. \/ row' = row
      \/ row' = [row EXCEPT ![l] = [status |-> "PENDING", attempts |-> 1, wait |-> 1]]
  BY DEF SendStep, SendWithResend, SendWithoutResend, SendWithSmtp, EnqueueDeadLetter,
         EnqueueFails
<1>3. TypeOK'
  <2>1. row' \in [Letters -> Row]
    <3>1. [status |-> "PENDING", attempts |-> 1, wait |-> 1] \in Row
      BY DEF Row
    <3> QED  BY <1>2, <3>1 DEF TypeOK
  <2>2. env' = env /\ call' \in [Letters -> {"new", "smtp", "park", "done", "skipped", "lost"}]
    BY DEF SendStep, SendWithResend, SendWithoutResend, SendWithSmtp, EnqueueDeadLetter,
           EnqueueFails, AfterResend, TypeOK
  <2>3. faults' \in 0..MaxFaults
    BY DEF SendStep, SendWithResend, SendWithoutResend, SendWithSmtp, EnqueueDeadLetter,
           EnqueueFails, TypeOK
  <2> QED  BY <1>1, <2>1, <2>2, <2>3 DEF TypeOK
<1>4. CountsAreTries' /\ VerdictsAreTrue'
  <2> SUFFICES ASSUME NEW m \in Letters
               PROVE  /\ Waiting(m)' => row'[m].attempts \in 1..(MaxAttempts - 1)
                                        /\ 2..row'[m].attempts \subseteq refused'[m]
                      /\ row'[m].status = "SENT" => m \in arrived'
                      /\ row'[m].status = "FAILED" => 2..MaxAttempts \subseteq refused'[m]
    BY DEF CountsAreTries, VerdictsAreTrue
  <2>1. CASE row'[m] = row[m]
    BY <1>1, <2>1 DEF CountsAreTries, VerdictsAreTrue, Waiting
  <2>2. CASE row'[m] = [status |-> "PENDING", attempts |-> 1, wait |-> 1]
    BY <2>2 DEF Waiting
  <2> QED  BY <1>2, <2>1, <2>2 DEF TypeOK
<1>5. ReadCountsAreTries' /\ OutcomesAreTrue'
  BY <1>1 DEF ReadCountsAreTries, OutcomesAreTrue
<1>6. DueRowsWait'
  <2>1. ASSUME NEW m \in Letters, Waiting(m) PROVE Waiting(m)'
    <3>1. row'[m] = row[m] \/ row'[m] = [status |-> "PENDING", attempts |-> 1, wait |-> 1]
      BY <1>2 DEF TypeOK
    <3> QED  BY <2>1, <3>1 DEF Waiting
  <2> QED  BY <1>1, <2>1 DEF DueRowsWait, TypeOK
<1> QED  BY <1>3, <1>4, <1>5, <1>6

LEMMA FallsDueKeepsInvariant ==
    ASSUME IInv, NEW l \in Letters, FallsDue(l)
    PROVE  IInv'
<1> USE DEF IInv
<1>1. /\ UNCHANGED <<env, call, row, sweep, arrived, refused, faults>>
      /\ dueQueue \in Seq(Letters) /\ dueQueue' = Append(dueQueue, l)
      /\ Waiting(l) /\ \A i \in 1..Len(dueQueue) : dueQueue[i] # l
  BY DEF FallsDue, TypeOK, Contains
<1>2. /\ dueQueue' \in Seq(Letters) /\ Len(dueQueue') = Len(dueQueue) + 1 /\ Len(dueQueue) \in Nat
      /\ \A i \in 1..Len(dueQueue) : dueQueue'[i] = dueQueue[i]
      /\ dueQueue'[Len(dueQueue) + 1] = l
  BY <1>1, AppendProperties
<1>3. TypeOK'
  BY <1>1, <1>2 DEF TypeOK
<1>4. CountsAreTries' /\ VerdictsAreTrue' /\ ReadCountsAreTries' /\ OutcomesAreTrue'
  BY <1>1 DEF CountsAreTries, VerdictsAreTrue, ReadCountsAreTries, OutcomesAreTrue, Waiting
<1>5. DueRowsWait'
  BY <1>1, <1>2 DEF DueRowsWait, Waiting
<1> QED  BY <1>3, <1>4, <1>5

LEMMA SweepReadKeepsInvariant ==
    ASSUME IInv, NEW s \in Sweeps, SweepRead(s)
    PROVE  IInv'
<1> USE ParametersAssumption DEF IInv
<1>1. /\ UNCHANGED <<env, call, row, dueQueue, arrived, refused, faults>>
      /\ sweep' = [sweep EXCEPT ![s] = [step |-> "try", todo |-> Batch]]
      /\ dueQueue # <<>>
  BY DEF SweepRead
<1>2. /\ Batch \in Seq(DueRow) /\ Batch # <<>>
      /\ \A i \in 1..Len(Batch) : 2..Batch[i].attempts \subseteq refused[Batch[i].letter]
  BY <1>1, BatchElements
<1> HIDE DEF Batch
<1>3. \A x \in Sweeps : sweep'[x] = IF x = s THEN [step |-> "try", todo |-> Batch] ELSE sweep[x]
  BY <1>1 DEF TypeOK
<1>4. TypeOK'
  <2>1. [step |-> "try", todo |-> Batch] \in [step : {"idle", "try", "sent", "failed"}, todo : Seq(DueRow)]
    BY <1>2
  <2> QED  BY <1>1, <2>1 DEF TypeOK
<1>5. ReadCountsAreTries' /\ OutcomesAreTrue'
  <2> SUFFICES ASSUME NEW x \in Sweeps
               PROVE  /\ \A i \in 1..Len(sweep'[x].todo) :
                             2..sweep'[x].todo[i].attempts \subseteq refused'[sweep'[x].todo[i].letter]
                      /\ sweep'[x].step # "idle" => sweep'[x].todo # <<>>
                      /\ sweep'[x].step = "sent" => Head(sweep'[x].todo).letter \in arrived'
                      /\ sweep'[x].step = "failed" =>
                            Head(sweep'[x].todo).attempts + 1 \in refused'[Head(sweep'[x].todo).letter]
    BY DEF ReadCountsAreTries, OutcomesAreTrue
  <2>1. CASE x = s
    BY <1>1, <1>2, <1>3, <2>1
  <2>2. CASE x # s
    BY <1>1, <1>3, <2>2 DEF ReadCountsAreTries, OutcomesAreTrue
  <2> QED  BY <2>1, <2>2
<1>6. CountsAreTries' /\ VerdictsAreTrue' /\ DueRowsWait'
  BY <1>1 DEF CountsAreTries, VerdictsAreTrue, DueRowsWait, Waiting
<1> QED  BY <1>4, <1>5, <1>6

LEMMA SweepTryKeepsInvariant ==
    ASSUME IInv, NEW s \in Sweeps, SweepTry(s)
    PROVE  IInv'
<1> USE ParametersAssumption DEF IInv
<1> DEFINE next == Head(sweep[s].todo)
<1>1. /\ sweep[s].step = "try" /\ sweep[s].todo \in Seq(DueRow) /\ sweep[s].todo # <<>>
      /\ next \in DueRow
  <2>1. sweep[s].todo \in Seq(DueRow) /\ sweep[s].todo # <<>> /\ sweep[s].step = "try"
    BY DEF SweepTry, TypeOK, OutcomesAreTrue
  <2> QED  BY <2>1, TailElements
<1>2. /\ next.letter \in Letters /\ next.attempts \in 1..(MaxAttempts - 1)
      /\ next.attempts + 1 \in 2..MaxAttempts
  BY <1>1 DEF DueRow, ParametersAssumption
<1>3. PICK outcome :
      /\ Arrives(next.letter, outcome)
      /\ refused' = IF outcome = "taken" THEN refused
                    ELSE [refused EXCEPT ![next.letter] = @ \union {next.attempts + 1}]
      /\ sweep' = [sweep EXCEPT ![s].step = IF outcome = "taken" THEN "sent" ELSE "failed"]
  BY DEF SweepTry
<1>4. UNCHANGED <<env, call, row, dueQueue, faults>>
  BY DEF SweepTry
<1> HIDE DEF next
<1>5. /\ arrived \subseteq arrived' /\ arrived' \in SUBSET Letters
      /\ outcome = "taken" => next.letter \in arrived'
  BY <1>2, <1>3 DEF Arrives, TypeOK
<1>6. /\ refused' \in [Letters -> SUBSET (2..MaxAttempts)]
      /\ \A l \in Letters : refused[l] \subseteq refused'[l]
      /\ outcome # "taken" => next.attempts + 1 \in refused'[next.letter]
  BY <1>2, <1>3 DEF TypeOK
<1>7. /\ sweep' \in [Sweeps -> [step : {"idle", "try", "sent", "failed"}, todo : Seq(DueRow)]]
      /\ \A x \in Sweeps : sweep'[x].todo = sweep[x].todo
      /\ \A x \in Sweeps \ {s} : sweep'[x] = sweep[x]
      /\ sweep'[s].step = IF outcome = "taken" THEN "sent" ELSE "failed"
  BY <1>3 DEF TypeOK
<1>8. TypeOK'
  BY <1>4, <1>5, <1>6, <1>7 DEF TypeOK
<1>9. CountsAreTries' /\ VerdictsAreTrue' /\ DueRowsWait'
  BY <1>4, <1>5, <1>6 DEF CountsAreTries, VerdictsAreTrue, DueRowsWait, Waiting
<1>10. ReadCountsAreTries'
  <2> SUFFICES ASSUME NEW x \in Sweeps, NEW i \in 1..Len(sweep[x].todo)
               PROVE  2..sweep[x].todo[i].attempts \subseteq refused'[sweep[x].todo[i].letter]
    BY <1>7 DEF ReadCountsAreTries
  <2>1. sweep[x].todo \in Seq(DueRow)
    BY DEF TypeOK
  <2>2. sweep[x].todo[i].letter \in Letters
    <3>1. sweep[x].todo[i] \in DueRow  BY <2>1
    <3> QED  BY <3>1 DEF DueRow
  <2> QED  BY <1>6, <2>2 DEF ReadCountsAreTries
<1>11. OutcomesAreTrue'
  <2> SUFFICES ASSUME NEW x \in Sweeps
               PROVE  /\ sweep'[x].step # "idle" => sweep[x].todo # <<>>
                      /\ sweep'[x].step = "sent" => Head(sweep[x].todo).letter \in arrived'
                      /\ sweep'[x].step = "failed" =>
                            Head(sweep[x].todo).attempts + 1 \in refused'[Head(sweep[x].todo).letter]
    BY <1>7 DEF OutcomesAreTrue
  <2>1. CASE x = s
    BY <1>1, <1>5, <1>6, <1>7, <2>1 DEF next
  <2>2. CASE x # s
    <3>1. sweep'[x] = sweep[x] /\ sweep[x].todo \in Seq(DueRow)
      BY <1>7, <2>2 DEF TypeOK
    <3>2. sweep[x].todo # <<>> => Head(sweep[x].todo).letter \in Letters
      <4>1. sweep[x].todo # <<>> => Head(sweep[x].todo) \in DueRow  BY <3>1, TailElements
      <4> QED  BY <4>1 DEF DueRow
    <3> QED  BY <1>5, <1>6, <3>1, <3>2 DEF OutcomesAreTrue
  <2> QED  BY <2>1, <2>2
<1> QED  BY <1>8, <1>9, <1>10, <1>11

\* What both ends of a retry do to the sweep: it goes on with rows it had.
LEMMA NextRowElements ==
    ASSUME TypeOK, ReadCountsAreTries, OutcomesAreTrue, NEW s \in Sweeps,
           sweep[s].step # "idle", NextRow(s)
    PROVE  /\ sweep' \in [Sweeps -> [step : {"idle", "try", "sent", "failed"}, todo : Seq(DueRow)]]
           /\ \A x \in Sweeps \ {s} : sweep'[x] = sweep[x]
           /\ sweep'[s].step \in {"idle", "try"}
           /\ sweep'[s].step # "idle" => sweep'[s].todo # <<>>
           /\ \A i \in 1..Len(sweep'[s].todo) :
                 2..sweep'[s].todo[i].attempts \subseteq refused[sweep'[s].todo[i].letter]
<1> DEFINE rest == Tail(sweep[s].todo)
           new == IF rest = <<>> THEN Idle ELSE [step |-> "try", todo |-> rest]
<1>1. sweep[s].todo \in Seq(DueRow) /\ sweep[s].todo # <<>>
  BY DEF TypeOK, OutcomesAreTrue
<1>2. /\ rest \in Seq(DueRow)
      /\ \A i \in 1..Len(rest) : i + 1 \in 1..Len(sweep[s].todo) /\ rest[i] = sweep[s].todo[i + 1]
  BY <1>1, TailElements
<1> HIDE DEF rest
<1>3. /\ new \in [step : {"idle", "try", "sent", "failed"}, todo : Seq(DueRow)]
      /\ new.step \in {"idle", "try"} /\ (new.step # "idle" => new.todo # <<>>)
      /\ new.todo = rest
  BY <1>2 DEF Idle
<1> HIDE DEF new
<1>4. sweep' = [sweep EXCEPT ![s] = new]
  BY DEF NextRow, new, rest
<1>5. sweep' \in [Sweeps -> [step : {"idle", "try", "sent", "failed"}, todo : Seq(DueRow)]]
  BY <1>3, <1>4 DEF TypeOK
<1>6. sweep'[s] = new /\ \A x \in Sweeps \ {s} : sweep'[x] = sweep[x]
  BY <1>4 DEF TypeOK
<1> QED  BY <1>2, <1>3, <1>5, <1>6 DEF ReadCountsAreTries

\* The row after a retry has the attempts that were made, and a true verdict.
LEMMA AfterRetryRow ==
    ASSUME ParametersAssumption, NEW n \in 2..MaxAttempts, NEW step \in {"sent", "failed"}
    PROVE  LET r == AfterRetry(step, n) IN
           /\ r \in Row /\ r.attempts = n
           /\ r.status \in {"SENT", "FAILED", "RETRYING"}
           /\ r.status = "SENT" <=> step = "sent"
           /\ r.status = "FAILED" => n = MaxAttempts
           /\ r.status = "RETRYING" => n < MaxAttempts
<1>1. WaitAfter(n) \in Nat
  <2>1. (IF n < 5 THEN n ELSE 5) + 1 \in 1..6
    BY DEF ParametersAssumption
  <2>2. \A i \in 1..6 : Backoff[i] \in Nat
    BY ElementOfSeq DEF ParametersAssumption
  <2> QED  BY <2>1, <2>2 DEF WaitAfter
<1> QED  BY <1>1 DEF AfterRetry, Row, ParametersAssumption

LEMMA SweepRecordKeepsInvariant ==
    ASSUME IInv, NEW s \in Sweeps, SweepRecord(s)
    PROVE  IInv'
<1> USE ParametersAssumption DEF IInv
<1> DEFINE next == Head(sweep[s].todo)
           r == AfterRetry(sweep[s].step, next.attempts + 1)
<1>1. /\ sweep[s].step \in {"sent", "failed"} /\ NextRow(s)
      /\ row' = [row EXCEPT ![next.letter] = r]
      /\ dueQueue' = DueWithout(next.letter)
      /\ UNCHANGED <<env, call, arrived, refused, faults>>
  BY DEF SweepRecord
<1>2. sweep[s].todo \in Seq(DueRow) /\ sweep[s].todo # <<>>
  BY <1>1 DEF TypeOK, OutcomesAreTrue
<1>3. /\ next.letter \in Letters /\ next.attempts \in 1..(MaxAttempts - 1)
      /\ next.attempts + 1 \in 2..MaxAttempts
  <2>1. next \in DueRow
    BY <1>2, TailElements
  <2> QED  BY <2>1 DEF DueRow, ParametersAssumption
<1>4. 2..next.attempts \subseteq refused[next.letter]
  <2>1. 1 \in 1..Len(sweep[s].todo) /\ next = sweep[s].todo[1]
    BY <1>2
  <2> QED  BY <2>1 DEF ReadCountsAreTries
<1>5. sweep[s].step = "failed" => 2..(next.attempts + 1) \subseteq refused[next.letter]
  <2>1. sweep[s].step = "failed" => next.attempts + 1 \in refused[next.letter]
    BY DEF OutcomesAreTrue
  <2> QED  BY <1>3, <1>4, <2>1
<1>6. sweep[s].step = "sent" => next.letter \in arrived
  BY DEF OutcomesAreTrue
<1>7. /\ r \in Row /\ r.attempts = next.attempts + 1
      /\ r.status \in {"SENT", "FAILED", "RETRYING"}
      /\ r.status = "SENT" <=> sweep[s].step = "sent"
      /\ r.status = "FAILED" => next.attempts + 1 = MaxAttempts
      /\ r.status = "RETRYING" => next.attempts + 1 < MaxAttempts
  BY <1>1, <1>3, AfterRetryRow
<1> HIDE DEF next, r
<1>8. \A l \in Letters : row'[l] = IF l = next.letter THEN r ELSE row[l]
  BY <1>1, <1>3 DEF TypeOK
<1>9. /\ DueWithout(next.letter) \in Seq(Letters)
      /\ \A i \in 1..Len(dueQueue') :
            dueQueue'[i] # next.letter /\ \E k \in 1..Len(dueQueue) : dueQueue'[i] = dueQueue[k]
      /\ \A i, j \in 1..Len(dueQueue') : dueQueue'[i] = dueQueue'[j] => i = j
  BY <1>1, <1>3, DueWithoutElements
<1>10. sweep' \in [Sweeps -> [step : {"idle", "try", "sent", "failed"}, todo : Seq(DueRow)]]
  BY <1>1, NextRowElements
<1>11. TypeOK'
  BY <1>1, <1>7, <1>9, <1>10 DEF TypeOK
<1>12. CountsAreTries'
  <2> SUFFICES ASSUME NEW l \in Letters, Waiting(l)'
               PROVE  /\ row'[l].attempts \in 1..(MaxAttempts - 1)
                      /\ 2..row'[l].attempts \subseteq refused[l]
    BY <1>1 DEF CountsAreTries
  <2>1. CASE l = next.letter
    <3>1. row'[l] = r /\ r.status = "RETRYING" /\ sweep[s].step = "failed"
      BY <1>1, <1>7, <1>8, <2>1 DEF Waiting
    <3>2. next.attempts + 1 \in 1..(MaxAttempts - 1)
      BY <1>3, <1>7, <3>1 DEF ParametersAssumption
    <3> QED  BY <1>5, <1>7, <2>1, <3>1, <3>2
  <2>2. CASE l # next.letter
    BY <1>8, <2>2 DEF Waiting, CountsAreTries
  <2> QED  BY <2>1, <2>2
<1>13. VerdictsAreTrue'
  <2> SUFFICES ASSUME NEW l \in Letters
               PROVE  /\ row'[l].status = "SENT" => l \in arrived
                      /\ row'[l].status = "FAILED" => 2..MaxAttempts \subseteq refused[l]
    BY <1>1 DEF VerdictsAreTrue
  <2>1. CASE l = next.letter
    BY <1>1, <1>5, <1>6, <1>7, <1>8, <2>1
  <2>2. CASE l # next.letter
    BY <1>8, <2>2 DEF VerdictsAreTrue
  <2> QED  BY <2>1, <2>2
<1>14. ReadCountsAreTries' /\ OutcomesAreTrue'
  <2>1. /\ \A x \in Sweeps \ {s} : sweep'[x] = sweep[x]
        /\ sweep'[s].step \in {"idle", "try"}
        /\ sweep'[s].step # "idle" => sweep'[s].todo # <<>>
        /\ \A i \in 1..Len(sweep'[s].todo) :
              2..sweep'[s].todo[i].attempts \subseteq refused[sweep'[s].todo[i].letter]
    BY <1>1, NextRowElements
  <2> SUFFICES ASSUME NEW x \in Sweeps
               PROVE  /\ \A i \in 1..Len(sweep'[x].todo) :
                             2..sweep'[x].todo[i].attempts \subseteq refused[sweep'[x].todo[i].letter]
                      /\ sweep'[x].step # "idle" => sweep'[x].todo # <<>>
                      /\ sweep'[x].step = "sent" => Head(sweep'[x].todo).letter \in arrived
                      /\ sweep'[x].step = "failed" =>
                            Head(sweep'[x].todo).attempts + 1 \in refused[Head(sweep'[x].todo).letter]
    BY <1>1 DEF ReadCountsAreTries, OutcomesAreTrue
  <2>2. CASE x = s
    BY <2>1, <2>2
  <2>3. CASE x # s
    BY <2>1, <2>3 DEF ReadCountsAreTries, OutcomesAreTrue
  <2> QED  BY <2>2, <2>3
<1>15. DueRowsWait'
  <2>1. ASSUME NEW i \in 1..Len(dueQueue') PROVE Waiting(dueQueue[i])'
    <3>1. PICK k \in 1..Len(dueQueue) : dueQueue'[i] = dueQueue[k]
      BY <1>9
    <3>2. dueQueue[k] \in Letters
      <4>1. dueQueue \in Seq(Letters)  BY DEF TypeOK
      <4> QED  BY <4>1, ElementOfSeq
    <3>3. dueQueue[k] # next.letter  BY <1>9, <3>1
    <3>4. row'[dueQueue[k]] = row[dueQueue[k]]  BY <1>8, <3>2, <3>3
    <3>5. Waiting(dueQueue[k])  BY DEF DueRowsWait
    <3> QED  BY <3>1, <3>4, <3>5 DEF Waiting
  <2> QED  BY <1>9, <2>1 DEF DueRowsWait
<1> QED  BY <1>11, <1>12, <1>13, <1>14, <1>15

LEMMA SweepRecordFailsKeepsInvariant ==
    ASSUME IInv, NEW s \in Sweeps, SweepRecordFails(s)
    PROVE  IInv'
<1> USE ParametersAssumption DEF IInv
<1>1. /\ sweep[s].step \in {"sent", "failed"} /\ NextRow(s) /\ faults' \in 0..MaxFaults
      /\ UNCHANGED <<env, call, row, dueQueue, arrived, refused>>
  BY DEF SweepRecordFails, TypeOK, ParametersAssumption
<1>2. /\ sweep' \in [Sweeps -> [step : {"idle", "try", "sent", "failed"}, todo : Seq(DueRow)]]
      /\ \A x \in Sweeps \ {s} : sweep'[x] = sweep[x]
      /\ sweep'[s].step \in {"idle", "try"}
      /\ sweep'[s].step # "idle" => sweep'[s].todo # <<>>
      /\ \A i \in 1..Len(sweep'[s].todo) :
            2..sweep'[s].todo[i].attempts \subseteq refused[sweep'[s].todo[i].letter]
  BY <1>1, NextRowElements
<1>3. TypeOK'
  BY <1>1, <1>2 DEF TypeOK
<1>4. CountsAreTries' /\ VerdictsAreTrue' /\ DueRowsWait'
  BY <1>1 DEF CountsAreTries, VerdictsAreTrue, DueRowsWait, Waiting
<1>5. ReadCountsAreTries' /\ OutcomesAreTrue'
  <2> SUFFICES ASSUME NEW x \in Sweeps
               PROVE  /\ \A i \in 1..Len(sweep'[x].todo) :
                             2..sweep'[x].todo[i].attempts \subseteq refused[sweep'[x].todo[i].letter]
                      /\ sweep'[x].step # "idle" => sweep'[x].todo # <<>>
                      /\ sweep'[x].step = "sent" => Head(sweep'[x].todo).letter \in arrived
                      /\ sweep'[x].step = "failed" =>
                            Head(sweep'[x].todo).attempts + 1 \in refused[Head(sweep'[x].todo).letter]
    BY <1>1 DEF ReadCountsAreTries, OutcomesAreTrue
  <2>1. CASE x = s
    BY <1>2, <2>1
  <2>2. CASE x # s
    BY <1>2, <2>2 DEF ReadCountsAreTries, OutcomesAreTrue
  <2> QED  BY <2>1, <2>2
<1> QED  BY <1>3, <1>4, <1>5

LEMMA RestartKeepsInvariant ==
    ASSUME IInv, Restart
    PROVE  IInv'
<1> USE ParametersAssumption DEF IInv
<1>1. /\ UNCHANGED <<row, dueQueue, arrived, refused>> /\ faults' \in 0..MaxFaults
      /\ env' \in Environments /\ sweep' = [s \in Sweeps |-> Idle]
      /\ call' \in [Letters -> {"new", "smtp", "park", "done", "skipped", "lost"}]
  BY DEF Restart, TypeOK, ParametersAssumption
<1>2. \A s \in Sweeps : sweep'[s].step = "idle" /\ sweep'[s].todo = <<>>
  BY <1>1 DEF Idle
<1>3. TypeOK'
  BY <1>1 DEF TypeOK, Idle
<1>4. CountsAreTries' /\ VerdictsAreTrue' /\ DueRowsWait'
  BY <1>1 DEF CountsAreTries, VerdictsAreTrue, DueRowsWait, Waiting
<1>5. ReadCountsAreTries' /\ OutcomesAreTrue'
  BY <1>2 DEF ReadCountsAreTries, OutcomesAreTrue
<1> QED  BY <1>3, <1>4, <1>5

LEMMA NextKeepsInvariant == IInv /\ [Next]_vars => IInv'
<1> SUFFICES ASSUME IInv, [Next]_vars PROVE IInv'
  OBVIOUS
<1>1. CASE UNCHANGED vars
  BY <1>1 DEF vars, IInv, TypeOK, CountsAreTries, ReadCountsAreTries, OutcomesAreTrue,
              DueRowsWait, VerdictsAreTrue, Waiting
<1>2. ASSUME NEW l \in Letters, SendStep(l) PROVE IInv'
  BY <1>2, SendKeepsInvariant
<1>3. ASSUME NEW l \in Letters, FallsDue(l) PROVE IInv'
  BY <1>3, FallsDueKeepsInvariant
<1>4. ASSUME NEW s \in Sweeps, SweepRead(s) PROVE IInv'
  BY <1>4, SweepReadKeepsInvariant
<1>5. ASSUME NEW s \in Sweeps, SweepTry(s) PROVE IInv'
  BY <1>5, SweepTryKeepsInvariant
<1>6. ASSUME NEW s \in Sweeps, SweepRecord(s) PROVE IInv'
  BY <1>6, SweepRecordKeepsInvariant
<1>7. ASSUME NEW s \in Sweeps, SweepRecordFails(s) PROVE IInv'
  BY <1>7, SweepRecordFailsKeepsInvariant
<1>8. CASE Restart
  BY <1>8, RestartKeepsInvariant
<1> QED
  BY <1>1, <1>2, <1>3, <1>4, <1>5, <1>6, <1>7, <1>8 DEF Next, SweepStep

-----------------------------------------------------------------------------

LEMMA InvariantHolds == Spec => []IInv
BY InitInvariant, NextKeepsInvariant, PTL DEF Spec

\* The variables keep their types: in particular a count of attempts never
\* passes MAX_ATTEMPTS, and no sweep starts a retry beyond it.
THEOREM MailTypeCorrect == Spec => []TypeOK
<1>1. IInv => TypeOK  BY DEF IInv
<1> QED  BY <1>1, InvariantHolds, PTL

\* A letter marked SENT has been delivered, and one marked FAILED has been
\* retried with every number up to MAX_ATTEMPTS, however many sweeps overlap,
\* whatever they have read, and wherever the process or the database fails.
THEOREM VerdictsTrue == Spec => []VerdictsAreTrue
<1>1. IInv => VerdictsAreTrue  BY DEF IInv
<1> QED  BY <1>1, InvariantHolds, PTL

-----------------------------------------------------------------------------
(* What send promises its caller.                                          *)

LEMMA NoMailDroppedStep == IInv /\ NoMailDropped /\ [Next]_vars => NoMailDropped'
<1> SUFFICES ASSUME IInv, NoMailDropped, [Next]_vars PROVE NoMailDropped'
  OBVIOUS
<1>1. TypeOK  BY DEF IInv
<1>2. SUFFICES ASSUME NEW l \in Letters
               PROVE  /\ call'[l] = "done" => l \in arrived' \/ row'[l] # NoRow
                      /\ call'[l] = "skipped" /\ faults' = 0 => ~HasTransport' /\ ~env'.production
  BY DEF NoMailDropped
<1>3. /\ call[l] = "done" => l \in arrived \/ row[l] # NoRow
      /\ call[l] = "skipped" /\ faults = 0 => ~HasTransport /\ ~env.production
  BY DEF NoMailDropped
<1>4. ASSUME NEW m \in Letters, SendStep(m) PROVE
        /\ call'[l] = "done" => l \in arrived' \/ row'[l] # NoRow
        /\ call'[l] = "skipped" /\ faults' = 0 => ~HasTransport' /\ ~env'.production
  <2>1. env' = env  BY <1>4 DEF SendStep, SendWithResend, SendWithoutResend, SendWithSmtp,
                               EnqueueDeadLetter, EnqueueFails
  <2>2. faults' = 0 => faults = 0
    BY <1>1, <1>4 DEF SendStep, SendWithResend, SendWithoutResend, SendWithSmtp,
                      EnqueueDeadLetter, EnqueueFails, TypeOK
  <2>3. CASE l # m
    <3>1. call'[l] = call[l] /\ row'[l] = row[l] /\ arrived \subseteq arrived'
      BY <1>1, <1>4, <2>3
      DEF SendStep, SendWithResend, SendWithoutResend, SendWithSmtp, EnqueueDeadLetter,
          EnqueueFails, Arrives, TypeOK
    <3> QED  BY <1>3, <2>1, <2>2, <3>1 DEF HasTransport
  <2>4. CASE l = m
    <3>1. CASE SendWithResend(m) \/ SendWithSmtp(m)
      BY <1>1, <2>4, <3>1
      DEF SendWithResend, SendWithSmtp, Arrives, AfterResend, TypeOK
    <3>2. CASE SendWithoutResend(m)
      BY <1>1, <2>1, <2>4, <3>2 DEF SendWithoutResend, TypeOK, HasTransport
    <3>3. CASE EnqueueDeadLetter(m)
      <4>1. call'[l] = "done" /\ row'[l].status = "PENDING"
        BY <1>1, <2>4, <3>3 DEF EnqueueDeadLetter, TypeOK
      <4> QED  BY <4>1 DEF NoRow
    <3>4. CASE EnqueueFails(m)
      BY <1>1, <2>4, <3>4 DEF EnqueueFails, TypeOK
    <3> QED  BY <1>4, <3>1, <3>2, <3>3, <3>4 DEF SendStep
  <2> QED  BY <2>3, <2>4
<1>5. ASSUME NEW s \in Sweeps, SweepRecord(s) PROVE row[l] # NoRow => row'[l] # NoRow
  <2> DEFINE next == Head(sweep[s].todo)
             r == AfterRetry(sweep[s].step, next.attempts + 1)
  <2>1. row' = [row EXCEPT ![next.letter] = r]  BY <1>5 DEF SweepRecord
  <2>2. r.status # "NONE"  BY DEF AfterRetry
  <2> HIDE DEF next, r
  <2>3. row'[l] = r \/ row'[l] = row[l]  BY <1>1, <2>1 DEF TypeOK
  <2> QED  BY <2>2, <2>3 DEF NoRow
<1>6. ASSUME UNCHANGED <<env, call, faults>>, arrived \subseteq arrived',
             row[l] # NoRow => row'[l] # NoRow
      PROVE
        /\ call'[l] = "done" => l \in arrived' \/ row'[l] # NoRow
        /\ call'[l] = "skipped" /\ faults' = 0 => ~HasTransport' /\ ~env'.production
  BY <1>3, <1>6 DEF HasTransport
<1>7. ASSUME NEW s \in Sweeps, SweepRead(s) \/ SweepTry(s) \/ SweepRecord(s)
      PROVE  UNCHANGED <<env, call, faults>> /\ arrived \subseteq arrived'
             /\ (row[l] # NoRow => row'[l] # NoRow)
  BY <1>5, <1>7 DEF SweepRead, SweepTry, SweepRecord, Arrives
<1>8. ASSUME NEW s \in Sweeps, SweepRecordFails(s)
      PROVE  UNCHANGED <<call, row, arrived>> /\ faults' # 0
  BY <1>1, <1>8 DEF SweepRecordFails, TypeOK
<1>9. ASSUME Restart
      PROVE  /\ UNCHANGED <<row, arrived>> /\ faults' # 0
             /\ call'[l] = "done" => call[l] = "done"
  BY <1>1, <1>9 DEF Restart, TypeOK
<1>10. ASSUME NEW m \in Letters, FallsDue(m) PROVE UNCHANGED <<env, call, row, arrived, faults>>
  BY <1>10 DEF FallsDue
<1>11. UNCHANGED vars => UNCHANGED <<env, call, row, arrived, faults>>
  BY DEF vars
<1> QED
  BY <1>3, <1>4, <1>6, <1>7, <1>8, <1>9, <1>10, <1>11 DEF Next, SweepStep

\* When send has returned, the mail has been delivered or is kept in the dead
\* letters, whatever its providers answered and whatever sweeps and restarts
\* came between; a mail is skipped only where nothing could have sent it.
THEOREM NoMailIsDropped == Spec => []NoMailDropped
<1>1. Init => NoMailDropped
  BY DEF Init, NoMailDropped
<1> QED  BY <1>1, InvariantHolds, NoMailDroppedStep, PTL DEF Spec

=============================================================================
