------------------------ MODULE WeeklyProgress_proofs ------------------------
(* Theorems about WeeklyProgress: types, that the backfill leaves no gap,   *)
(* that what a report counted is counted for good, and that its totals are  *)
(* what the executions of the week are worth.                               *)
EXTENDS WeeklyProgress, FiniteSetTheorems, WellFoundedInduction, TLAPS

-----------------------------------------------------------------------------
(* Numbers.                                                                 *)

LEMMA Least ==
  ASSUME NEW T \in SUBSET Nat, T # {}
  PROVE  \E t \in T : \A y \in T : t <= y
<1> DEFINE R == OpToRel(<, Nat)
<1>1. \A i, j \in Nat : i < j => <<i, j>> \in R
  BY DEF OpToRel
<1>2. PICK t \in T : \A y \in T : ~ (<<y, t>> \in R)
  <2>1. IsWellFoundedOn(R, Nat)
    BY NatLessThanWellFounded
  <2> HIDE DEF R
  <2> QED  BY <2>1, WFMin
<1> HIDE DEF R
<1>3. ASSUME NEW y \in T PROVE t <= y
  <2>1. y \in Nat /\ t \in Nat /\ ~(y < t)
    BY <1>1, <1>2
  <2> QED  BY <2>1
<1> QED  BY <1>3

LEMMA Greatest ==
  ASSUME NEW S \in SUBSET Nat, S # {}, NEW b \in Nat, \A x \in S : x <= b
  PROVE  Max(S) \in S /\ \A x \in S : x <= Max(S)
<1> DEFINE T == {b - x : x \in S}
<1>1. T \in SUBSET Nat /\ T # {}
  <2>1. \A x \in S : b - x \in Nat
    OBVIOUS
  <2> QED  BY <2>1
<1>2. PICK t \in T : \A y \in T : t <= y
  <2> HIDE DEF T
  <2> QED  BY <1>1, Least
<1>3. PICK m \in S : t = b - m
  OBVIOUS
<1>4. \A x \in S : m >= x
  BY <1>2, <1>3
<1> QED  BY <1>3, <1>4 DEF Max

LEMMA Small ==
  ASSUME NEW S \in SUBSET ScheduleIds
  PROVE  IsFiniteSet(S) /\ Cardinality(S) \in 0 .. MaxSchedules
<1>1. IsFiniteSet(1 .. MaxSchedules) /\ Cardinality(1 .. MaxSchedules) = MaxSchedules
  <2>1. MaxSchedules \in Nat
    BY ProgressBounds
  <2>2. 1 \in Int /\ MaxSchedules \in Int /\ MaxSchedules - 1 + 1 = MaxSchedules
    BY <2>1
  <2>3. /\ IsFiniteSet(1 .. MaxSchedules)
        /\ Cardinality(1 .. MaxSchedules) = IF 1 > MaxSchedules THEN 0 ELSE MaxSchedules - 1 + 1
    BY <2>2, FS_Interval
  <2> QED  BY <2>1, <2>3
<1>2. IsFiniteSet(S) /\ Cardinality(S) <= Cardinality(1 .. MaxSchedules)
  BY <1>1, FS_Subset DEF ScheduleIds
<1>3. Cardinality(S) \in Nat
  BY <1>2, FS_CardinalityType
<1> QED  BY <1>1, <1>2, <1>3, ProgressBounds

LEMMA CurrentWeek ==
  ASSUME NEW n \in Times
  PROVE  current_week(n) \in Weeks
BY ProgressBounds, WeekAssumption DEF current_week, Weeks, Times

-----------------------------------------------------------------------------
(* The inductive invariant.                                                 *)

\* What a row of an execution says of itself, its lock and its fact.
Consistent(s) ==
  /\ schedule[s].state = "none" => fact[s] = None
  /\ schedule[s].state = "open" => schedule[s].expected_end_at >= schedule[s].start
  /\ schedule[s].state = "completed" => schedule[s].completed_at # None
  /\ Locked(s) => schedule[s].state = "open" /\ schedule[s].start <= schedule[s].lock
  /\ Locked(s) => schedule[s].lock <= now
  /\ schedule[s].start <= now
  /\ schedule[s].completed_at # None => /\ schedule[s].start <= schedule[s].completed_at
                                        /\ schedule[s].completed_at <= now
  /\ fact[s] # None => fact[s].completed_at <= now

\* The backfill has left none behind it without a fact.
Filled ==
  /\ fill.last \in Nat /\ fill.upper \in 0 .. MaxSchedules /\ fill.running \in BOOLEAN
  /\ fill = [running |-> fill.running, last |-> fill.last, upper |-> fill.upper, runs |-> fill.runs]
  /\ \A s \in ScheduleIds :
       Eligible(s) /\ s <= (IF fill.running THEN fill.last ELSE fill.upper) => fact[s] # None

\* What a report will see of what earlier ones counted.
Until == IF report.step = "asked" THEN report.as_of ELSE now
Kept(w) == {<<s, [fact[s] EXCEPT !.enriched = TRUE]>> : s \in Counted(w, Until)}
Reports ==
  /\ report.as_of \in Times /\ report.as_of <= now /\ report.week \in Weeks
  /\ report = [step |-> report.step, week |-> report.week, as_of |-> report.as_of,
               achieved |-> report.achieved, counted |-> report.counted, pending |-> report.pending]
  /\ reported = [w \in Weeks |-> reported[w]]
  /\ \A w \in Weeks : reported[w] \subseteq Kept(w)

IInv ==
  /\ TypeOK /\ fact \in [ScheduleIds -> Facts \cup {None}]
  /\ \A s \in ScheduleIds : Consistent(s)
  /\ Filled /\ Reports

\* Facts stay, except for what an enrichment adds, and executions become
\* eligible with their fact.
FactsStay ==
  \A s \in ScheduleIds : fact[s] # None =>
    /\ fact'[s] # None
    /\ [fact'[s] EXCEPT !.enriched = TRUE] = [fact[s] EXCEPT !.enriched = TRUE]
    /\ fact'[s].completed_at = fact[s].completed_at

LEMMA FilledStays ==
  ASSUME IInv, FactsStay, UNCHANGED fill, \A s \in ScheduleIds : Eligible(s)' => Eligible(s) \/ fact'[s] # None
  PROVE  Filled'
BY DEF IInv, Filled, FactsStay

LEMMA ReportsStay ==
  ASSUME IInv, FactsStay, UNCHANGED <<report, reported>>, now' \in Times, now <= now'
  PROVE  Reports'
<1>1. now \in Nat /\ now' \in Nat /\ Reports /\ report.as_of \in Nat
  BY ProgressBounds DEF IInv, TypeOK, Times, Reports
<1>2. ASSUME NEW w \in Weeks  PROVE  Kept(w) \subseteq Kept(w)'
  <2> SUFFICES ASSUME NEW s \in Counted(w, Until)
               PROVE  /\ s \in Counted(w, Until)'
                      /\ [fact'[s] EXCEPT !.enriched = TRUE] = [fact[s] EXCEPT !.enriched = TRUE]
    BY DEF Kept
  <2>1. /\ s \in ScheduleIds /\ fact[s] # None /\ fact[s] \in Facts
        /\ current_week(fact[s].completed_at) = w /\ fact[s].completed_at <= Until
    BY DEF Counted, InWindow, IInv
  <2>2. /\ fact'[s] # None /\ fact'[s].completed_at = fact[s].completed_at
        /\ [fact'[s] EXCEPT !.enriched = TRUE] = [fact[s] EXCEPT !.enriched = TRUE]
    BY <2>1 DEF FactsStay
  <2>3. fact[s].completed_at \in Nat
    BY <2>1, ProgressBounds DEF Facts, Times
  <2>4. fact'[s].completed_at <= Until'
    BY <1>1, <2>1, <2>2, <2>3 DEF Until
  <2> QED  BY <2>1, <2>2, <2>4 DEF Counted, InWindow, current_week
<1>3. report'.as_of <= now'
  BY <1>1 DEF Reports
<1> QED  BY <1>1, <1>2, <1>3 DEF Reports

LEMMA NoFactMoves ==
  ASSUME IInv, UNCHANGED fact
  PROVE  FactsStay
BY DEF FactsStay

-----------------------------------------------------------------------------
(* The facts that are written.                                              *)

LEMMA ContextIsGroup ==
  ASSUME TypeOK, NEW s \in ScheduleIds
  PROVE  Context(s) \in Groups
BY NoneAssumption DEF TypeOK, ScheduleRows, Context, Native

LEMMA RecordedIsFact ==
  ASSUME TypeOK, NEW rows \in [ScheduleIds -> ScheduleRows], NEW s \in ScheduleIds,
         rows[s].completed_at # None, rows[s].start <= rows[s].completed_at
  PROVE  /\ Recorded(rows, s) \in Facts /\ Recorded(rows, s) # None
         /\ Recorded(rows, s).completed_at = rows[s].completed_at
<1>1. Context(s) \in Groups
  BY ContextIsGroup
<1>2. PICK e \in ScheduleRows : e = rows[s]
  OBVIOUS
<1>3. e.category \in Categories /\ e.completed_at \in Times /\ e.start \in Times
  BY <1>2 DEF ScheduleRows
<1>4. e.completed_at - e.start \in Nat
  BY <1>2, <1>3, ProgressBounds DEF Times
<1>5. Recorded(rows, s) \in Facts
  BY <1>1, <1>2, <1>3, <1>4 DEF Recorded, Facts
<1> QED  BY <1>5, NoneIsNoFact DEF Recorded

\* Facts that are there are left alone.
LEMMA RecordingKeeps ==
  ASSUME \A t \in ScheduleIds : fact[t] # None => fact'[t] = fact[t]
  PROVE  FactsStay
BY DEF FactsStay

-----------------------------------------------------------------------------
(* One lemma per action.                                                    *)

LEMMA Ticks ==
  ASSUME IInv, Tick
  PROVE  IInv'
<1> USE DEF Tick
<1>1. now \in Nat /\ now' \in Times /\ now <= now'
  BY ProgressBounds DEF IInv, TypeOK, Times
<1>2. FactsStay
  BY NoFactMoves
<1>3. TypeOK'
  BY <1>1 DEF IInv, TypeOK, ScheduleRows
<1>4. ASSUME NEW s \in ScheduleIds PROVE Consistent(s)'
  <2>1. schedule[s] \in ScheduleRows /\ (fact[s] # None => fact[s] \in Facts)
    BY DEF IInv, TypeOK
  <2>2. /\ schedule[s].start \in Nat
        /\ schedule[s].completed_at \in Nat \cup {None} /\ schedule[s].lock \in Nat \cup {None}
        /\ (fact[s] # None => fact[s].completed_at \in Nat)
    BY <2>1, ProgressBounds DEF ScheduleRows, Facts, Times
  <2>3. Consistent(s)
    BY DEF IInv
  <2> QED  BY <1>1, <2>2, <2>3 DEF Consistent, Locked
<1>5. Filled' /\ Reports'
  BY <1>1, <1>2, FilledStays, ReportsStay DEF Eligible
<1> QED  BY <1>3, <1>4, <1>5 DEF IInv

LEMMA Starts ==
  ASSUME IInv, NEW s \in ScheduleIds, NEW c \in Categories, NEW d \in Lengths,
         StartExecution(s, c, d)
  PROVE  IInv'
<1> USE DEF StartExecution
<1>1. now \in Nat /\ now' \in Times /\ now <= now' /\ now' = now /\ d \in Nat /\ None \notin Nat
  BY ProgressBounds, NoneAssumption DEF IInv, TypeOK, Times
<1>2. FactsStay
  BY NoFactMoves
<1> DEFINE e == [state |-> "open", category |-> c, snapshot |-> groupOf[c], start |-> now,
                 expected_end_at |-> now + d, completed_at |-> None, lock |-> None, valid |-> TRUE]
<1>3. e \in ScheduleRows
  BY <1>1 DEF IInv, TypeOK, ScheduleRows
<1>4. schedule' = [schedule EXCEPT ![s] = e] /\ schedule \in [ScheduleIds -> ScheduleRows]
  BY DEF IInv, TypeOK
<1>5. TypeOK'
  <2> HIDE DEF e
  <2> QED  BY <1>3, <1>4 DEF IInv, TypeOK
<1>6. ASSUME NEW t \in ScheduleIds PROVE Consistent(t)' /\ (Eligible(t)' => Eligible(t))
  <2>1. CASE t = s
    <3>1. schedule'[t] = e /\ fact'[t] = None
      BY <1>4, <2>1 DEF IInv, Consistent
    <3> QED  BY <3>1, <1>1 DEF Consistent, Locked, Eligible
  <2>2. CASE t # s
    <3>1. schedule'[t] = schedule[t] /\ fact'[t] = fact[t]
      BY <1>4, <2>2
    <3> QED  BY <3>1, <1>1 DEF IInv, Consistent, Locked, Eligible
  <2> QED  BY <2>1, <2>2
<1>7. Filled' /\ Reports'
  BY <1>1, <1>2, <1>6, FilledStays, ReportsStay
<1> QED  BY <1>5, <1>6, <1>7 DEF IInv

\* An open execution is locked, or the lock is given back.
LEMMA Locks ==
  ASSUME IInv, NEW s \in ScheduleIds, NEW l \in {now, None}, schedule[s].state = "open",
         schedule' = [schedule EXCEPT ![s].lock = l],
         UNCHANGED <<now, groupOf, fact, fill, report, reported>>
  PROVE  IInv'
<1>1. now \in Nat /\ now \in Times /\ None \notin Nat
  BY ProgressBounds, NoneAssumption DEF IInv, TypeOK, Times
<1>2. FactsStay
  BY NoFactMoves
<1> DEFINE e == [schedule[s] EXCEPT !.lock = l]
<1>3. schedule[s] \in ScheduleRows /\ e \in ScheduleRows
  BY <1>1 DEF IInv, TypeOK, ScheduleRows
<1>4. schedule' = [schedule EXCEPT ![s] = e] /\ schedule \in [ScheduleIds -> ScheduleRows]
  BY DEF IInv, TypeOK
<1>5. TypeOK'
  <2> HIDE DEF e
  <2> QED  BY <1>3, <1>4 DEF IInv, TypeOK
<1>6. ASSUME NEW t \in ScheduleIds PROVE Consistent(t)' /\ (Eligible(t)' => Eligible(t))
  <2>1. CASE t = s
    <3>1. /\ schedule'[t] = e /\ fact'[t] = fact[t]
          /\ e.state = schedule[t].state /\ e.start = schedule[t].start /\ e.lock = l
          /\ e.completed_at = schedule[t].completed_at /\ e.valid = schedule[t].valid
          /\ e.expected_end_at = schedule[t].expected_end_at
      BY <1>3, <1>4, <2>1 DEF ScheduleRows
    <3> HIDE DEF e
    <3>2. Consistent(t) /\ schedule[t].start \in Nat
      BY <1>3, <2>1, ProgressBounds DEF IInv, ScheduleRows, Times
    <3> QED  BY <2>1, <3>1, <3>2, <1>1 DEF Consistent, Locked, Eligible
  <2>2. CASE t # s
    <3>1. schedule'[t] = schedule[t] /\ fact'[t] = fact[t]
      BY <1>4, <2>2
    <3> QED  BY <3>1, <1>1 DEF IInv, Consistent, Locked, Eligible
  <2> QED  BY <2>1, <2>2
<1>7. Filled' /\ Reports'
  BY <1>1, <1>2, <1>6, FilledStays, ReportsStay
<1> QED  BY <1>5, <1>6, <1>7 DEF IInv

LEMMA Completes ==
  ASSUME IInv, NEW s \in ScheduleIds, complete_schedule(s)
  PROVE  IInv'
<1>1. now \in Nat /\ now \in Times /\ None \notin Nat /\ now' = now
  BY ProgressBounds, NoneAssumption DEF IInv, TypeOK, Times, complete_schedule
<1>2. /\ schedule[s] \in ScheduleRows /\ Consistent(s) /\ Locked(s)
      /\ schedule \in [ScheduleIds -> ScheduleRows]
  BY DEF IInv, TypeOK, complete_schedule
<1>3. /\ schedule[s].lock \in Nat /\ schedule[s].lock <= MaxTime
      /\ schedule[s].expected_end_at \in Nat /\ schedule[s].start \in Nat
  BY <1>2, ProgressBounds DEF ScheduleRows, Times, Locked
<1>4. PICK end \in Times : end = EndOf(s) /\ schedule[s].start <= end /\ end <= now
  BY <1>1, <1>2, <1>3, ProgressBounds DEF Consistent, EndOf, Times
<1> DEFINE e == [schedule[s] EXCEPT !.state = "completed", !.completed_at = end, !.lock = None]
           rows == [schedule EXCEPT ![s].state = "completed", ![s].completed_at = EndOf(s),
                                    ![s].lock = None]
<1>5. rows = [schedule EXCEPT ![s] = e]
  BY <1>2, <1>4
<1>6. /\ schedule' = rows /\ fact' = [fact EXCEPT ![s] = record_completion(rows, s)]
      /\ UNCHANGED <<now, groupOf, fill, report, reported>>
  BY DEF complete_schedule
<1>7. /\ e \in ScheduleRows /\ e.state = "completed" /\ e.start = schedule[s].start
      /\ e.completed_at = end /\ e.lock = None
  BY <1>2, <1>4 DEF ScheduleRows
<1> HIDE DEF e, rows
<1>8. rows \in [ScheduleIds -> ScheduleRows] /\ rows[s] = e
  BY <1>2, <1>5, <1>7
<1>9. end # None /\ end \in Nat /\ end <= now
  BY <1>1, <1>4, ProgressBounds DEF Times
<1>10. /\ Recorded(rows, s) \in Facts /\ Recorded(rows, s) # None
       /\ Recorded(rows, s).completed_at = end
  <2>1. TypeOK /\ rows[s].completed_at # None /\ rows[s].start <= rows[s].completed_at
    BY <1>4, <1>7, <1>8, <1>9 DEF IInv
  <2> QED  BY <1>7, <1>8, <2>1, RecordedIsFact
<1>11. PICK f \in Facts :
         /\ fact' = [fact EXCEPT ![s] = f] /\ f # None /\ (fact[s] # None => f = fact[s])
         /\ f.completed_at <= now
  <2>1. CASE fact[s] = None
    <3>1. record_completion(rows, s) = Recorded(rows, s)
      BY <2>1 DEF record_completion
    <3> QED  BY <1>6, <1>9, <1>10, <2>1, <3>1
  <2>2. CASE fact[s] # None
    <3>1. record_completion(rows, s) = fact[s]
      BY <2>2 DEF record_completion
    <3>2. fact[s] \in Facts /\ fact[s].completed_at <= now
      BY <1>2, <2>2 DEF IInv, TypeOK, Consistent
    <3> QED  BY <1>6, <2>2, <3>1, <3>2
  <2> QED  BY <2>1, <2>2
<1>12. fact \in [ScheduleIds -> Facts \cup {None}]
  BY DEF IInv
<1>13. FactsStay /\ fact' \in [ScheduleIds -> Facts \cup {None}]
  <2>1. \A t \in ScheduleIds : fact[t] # None => fact'[t] = fact[t]
    BY <1>11, <1>12
  <2> QED  BY <2>1, <1>11, <1>12, RecordingKeeps
<1>14. TypeOK'
  BY <1>6, <1>8, <1>13 DEF IInv, TypeOK
<1>15. ASSUME NEW t \in ScheduleIds
       PROVE  Consistent(t)' /\ (Eligible(t)' => Eligible(t) \/ fact'[t] # None)
  <2>1. CASE t = s
    <3>1. schedule'[t] = e /\ fact'[t] = f
      BY <1>6, <1>8, <1>11, <1>12, <2>1
    <3> QED  BY <1>1, <1>2, <1>3, <1>4, <1>7, <1>9, <1>11, <2>1, <3>1 DEF Consistent, Locked
  <2>2. CASE t # s
    <3>1. schedule'[t] = schedule[t] /\ fact'[t] = fact[t]
      BY <1>2, <1>5, <1>6, <1>11, <1>12, <2>2
    <3> QED  BY <3>1, <1>1 DEF IInv, Consistent, Locked, Eligible
  <2> QED  BY <2>1, <2>2
<1>16. Filled' /\ Reports'
  BY <1>1, <1>6, <1>13, <1>15, FilledStays, ReportsStay
<1> QED  BY <1>13, <1>14, <1>15, <1>16 DEF IInv


LEMMA Deletes ==
  ASSUME IInv, NEW s \in ScheduleIds, Delete(s)
  PROVE  IInv'
<1> USE DEF Delete
<1>1. now \in Nat /\ now \in Times
  BY ProgressBounds DEF IInv, TypeOK, Times
<1>2. FactsStay
  BY NoFactMoves
<1> DEFINE e == [schedule[s] EXCEPT !.state = "deleted"]
<1>3. schedule[s] \in ScheduleRows /\ e \in ScheduleRows
  BY DEF IInv, TypeOK, ScheduleRows
<1>4. schedule' = [schedule EXCEPT ![s] = e] /\ schedule \in [ScheduleIds -> ScheduleRows]
  BY DEF IInv, TypeOK
<1>5. TypeOK'
  <2> HIDE DEF e
  <2> QED  BY <1>3, <1>4 DEF IInv, TypeOK
<1>6. ASSUME NEW t \in ScheduleIds PROVE Consistent(t)' /\ (Eligible(t)' => Eligible(t))
  <2>1. CASE t = s
    <3>1. /\ schedule'[t] = e /\ fact'[t] = fact[t]
          /\ e.state = "deleted" /\ e.start = schedule[t].start /\ e.lock = schedule[t].lock
          /\ e.completed_at = schedule[t].completed_at
      BY <1>3, <1>4, <2>1 DEF ScheduleRows
    <3> HIDE DEF e
    <3>2. Consistent(t) /\ ~Locked(t)
      BY <2>1 DEF IInv
    <3> QED  BY <2>1, <3>1, <3>2 DEF Consistent, Locked, Eligible
  <2>2. CASE t # s
    <3>1. schedule'[t] = schedule[t] /\ fact'[t] = fact[t]
      BY <1>4, <2>2
    <3> QED  BY <3>1 DEF IInv, Consistent, Locked, Eligible
  <2> QED  BY <2>1, <2>2
<1>7. Filled' /\ Reports'
  BY <1>1, <1>2, <1>6, FilledStays, ReportsStay
<1> QED  BY <1>5, <1>6, <1>7 DEF IInv

LEMMA Moves ==
  ASSUME IInv, NEW c \in Categories, NEW g \in Groups, MoveCategory(c, g)
  PROVE  IInv'
<1> USE DEF MoveCategory
<1>1. now \in Nat /\ now \in Times
  BY ProgressBounds DEF IInv, TypeOK, Times
<1>2. FactsStay
  BY NoFactMoves
<1>3. TypeOK'
  BY DEF IInv, TypeOK
<1>4. \A s \in ScheduleIds : Consistent(s)'
  BY DEF IInv, Consistent, Locked
<1>5. Filled' /\ Reports'
  BY <1>1, <1>2, FilledStays, ReportsStay DEF Eligible
<1> QED  BY <1>3, <1>4, <1>5 DEF IInv

\* What writes facts only.
LEMMA WritesFacts ==
  ASSUME IInv, FactsStay, fact' \in [ScheduleIds -> Facts \cup {None}],
         \A s \in ScheduleIds : fact'[s] # None =>
           schedule[s].state # "none" /\ fact'[s].completed_at <= now,
         UNCHANGED <<now, groupOf, schedule, report, reported>>
  PROVE  TypeOK' /\ (\A s \in ScheduleIds : Consistent(s)') /\ Reports'
<1>1. now \in Nat /\ now \in Times
  BY ProgressBounds DEF IInv, TypeOK, Times
<1>2. TypeOK'
  BY DEF IInv, TypeOK
<1>3. \A s \in ScheduleIds : Consistent(s)'
  BY DEF IInv, Consistent, Locked
<1> QED  BY <1>1, <1>2, <1>3, ReportsStay

\* A completed execution has a fact once one is recorded.
LEMMA Records ==
  ASSUME IInv, NEW s \in ScheduleIds, Eligible(s)
  PROVE  /\ record_completion(schedule, s) \in Facts /\ record_completion(schedule, s) # None
         /\ (fact[s] # None => record_completion(schedule, s) = fact[s])
         /\ record_completion(schedule, s).completed_at <= now
<1>1. /\ TypeOK /\ Consistent(s) /\ schedule \in [ScheduleIds -> ScheduleRows]
      /\ (fact[s] # None => fact[s] \in Facts)
  BY DEF IInv, TypeOK
<1>2. /\ schedule[s].completed_at # None /\ schedule[s].start <= schedule[s].completed_at
      /\ schedule[s].completed_at <= now
  BY <1>1 DEF Consistent, Eligible
<1>3. CASE fact[s] # None
  BY <1>1, <1>3 DEF record_completion, Consistent
<1>4. CASE fact[s] = None
  <2>1. record_completion(schedule, s) = Recorded(schedule, s)
    BY <1>4 DEF record_completion
  <2> QED  BY <1>1, <1>2, <1>4, <2>1, RecordedIsFact
<1> QED  BY <1>3, <1>4

LEMMA CompletesAgain ==
  ASSUME IInv, NEW s \in ScheduleIds, CompleteAgain(s)
  PROVE  IInv'
<1> USE DEF CompleteAgain
<1>1. PICK f \in Facts :
        /\ fact' = [fact EXCEPT ![s] = f] /\ f # None /\ (fact[s] # None => f = fact[s])
        /\ f.completed_at <= now
  BY Records
<1>2. fact \in [ScheduleIds -> Facts \cup {None}] /\ schedule[s].state # "none"
  BY DEF IInv, Eligible
<1>3. fact' \in [ScheduleIds -> Facts \cup {None}]
  BY <1>1, <1>2
<1>4. \A t \in ScheduleIds : fact[t] # None => fact'[t] = fact[t]
  BY <1>1, <1>2
<1>5. FactsStay
  BY <1>4, RecordingKeeps
<1>6. \A t \in ScheduleIds : fact'[t] # None =>
        schedule[t].state # "none" /\ fact'[t].completed_at <= now
  BY <1>1, <1>2 DEF IInv, Consistent
<1>7. Filled'
  BY <1>5, FilledStays DEF Eligible
<1>8. TypeOK' /\ (\A t \in ScheduleIds : Consistent(t)') /\ Reports'
  BY <1>3, <1>5, <1>6, WritesFacts
<1> QED  BY <1>3, <1>7, <1>8 DEF IInv

LEMMA Enriches ==
  ASSUME IInv, Enrich
  PROVE  IInv'
<1> USE DEF Enrich
<1>1. ASSUME NEW s \in ScheduleIds
      PROVE  /\ fact'[s] \in Facts \cup {None} /\ (fact'[s] # None <=> fact[s] # None)
             /\ (fact[s] # None => /\ [fact'[s] EXCEPT !.enriched = TRUE] = [fact[s] EXCEPT !.enriched = TRUE]
                                   /\ fact'[s].completed_at = fact[s].completed_at)
  <2>1. fact[s] \in Facts \cup {None} /\ None \notin Facts
    BY NoneIsNoFact DEF IInv
  <2>2. CASE fact[s] # None /\ Row(s)
    <3>1. fact'[s] = Enriched(s)
      BY <2>2
    <3>2. PICK f \in Facts : f = fact[s]
      BY <2>1, <2>2
    <3> DEFINE g == [f EXCEPT !.enriched = TRUE]
    <3>3. /\ g \in Facts /\ g.completed_at = f.completed_at /\ [g EXCEPT !.enriched = TRUE] = g
      BY <3>2 DEF Facts
    <3>4. fact'[s] = g
      BY <3>1, <3>2 DEF Enriched
    <3> QED  BY <2>1, <2>2, <3>2, <3>3, <3>4
  <2>3. CASE ~(fact[s] # None /\ Row(s))
    <3>1. fact'[s] = fact[s]
      BY <2>3
    <3> QED  BY <2>1, <3>1
  <2> QED  BY <2>2, <2>3
<1>2. fact' \in [ScheduleIds -> Facts \cup {None}]
  BY <1>1
<1>3. FactsStay
  BY <1>1 DEF FactsStay
<1>4. \A s \in ScheduleIds : fact'[s] # None =>
        schedule[s].state # "none" /\ fact'[s].completed_at <= now
  BY <1>1 DEF IInv, Consistent
<1>5. Filled'
  BY <1>3, FilledStays DEF Eligible
<1>6. TypeOK' /\ (\A t \in ScheduleIds : Consistent(t)') /\ Reports'
  BY <1>2, <1>3, <1>4, WritesFacts
<1> QED  BY <1>2, <1>5, <1>6 DEF IInv


-----------------------------------------------------------------------------
(* The backfill.                                                            *)

LEMMA FillStarts ==
  ASSUME IInv, StartBackfill
  PROVE  IInv'
<1> USE DEF StartBackfill
<1>1. now \in Nat /\ now \in Times
  BY ProgressBounds DEF IInv, TypeOK, Times
<1>2. FactsStay
  BY NoFactMoves
<1>3. Existing \in SUBSET Nat /\ MaxSchedules \in Nat /\ \A s \in Existing : s <= MaxSchedules
  BY ProgressBounds DEF Existing, ScheduleIds
<1>4. Existing # {} => Max(Existing) \in 0 .. MaxSchedules
  <2> SUFFICES ASSUME Existing # {} PROVE Max(Existing) \in 0 .. MaxSchedules
    OBVIOUS
  <2>1. PICK m \in Existing : m = Max(Existing)
    BY <1>3, Greatest
  <2> QED  BY <1>3, <2>1
<1>5. /\ fill'.running = TRUE /\ fill'.last = 0 /\ fill'.upper \in 0 .. MaxSchedules
      /\ fill' = [running |-> fill'.running, last |-> fill'.last, upper |-> fill'.upper, runs |-> fill'.runs]
  BY <1>3, <1>4
<1>6. \A s \in ScheduleIds : ~(s <= 0)
  BY DEF ScheduleIds
<1>7. Filled'
  BY <1>5, <1>6 DEF Filled
<1>8. TypeOK' /\ \A s \in ScheduleIds : Consistent(s)'
  BY DEF IInv, TypeOK, Consistent, Locked
<1>9. Reports'
  BY <1>1, <1>2, ReportsStay
<1> QED  BY <1>7, <1>8, <1>9 DEF IInv

\* A row that lies between the last of the backfill and one of the batch is of
\* the batch too.
LEMMA BatchIsDense ==
  ASSUME IInv, NEW m \in Batch, NEW s \in Existing, fill.last < s, s <= m
  PROVE  s \in Batch
<1> DEFINE Upto(x) == {t \in Existing : t > fill.last /\ t <= x}
<1>1. s \in Nat /\ m \in Nat /\ m <= fill.upper /\ fill.upper \in Nat /\ fill.last \in Nat
  BY ProgressBounds DEF Batch, Existing, ScheduleIds, IInv, Filled
<1>2. Upto(s) \subseteq Upto(m) /\ Upto(m) \in SUBSET ScheduleIds
  BY <1>1 DEF Existing, ScheduleIds
<1>3. Cardinality(Upto(m)) <= BatchSize /\ m \in Existing
  BY DEF Batch
<1>4. Cardinality(Upto(s)) <= BatchSize
  <2> HIDE DEF Upto
  <2>1. IsFiniteSet(Upto(m))
    BY <1>2, Small
  <2>2. Cardinality(Upto(s)) <= Cardinality(Upto(m)) /\ IsFiniteSet(Upto(s))
    BY <1>2, <2>1, FS_Subset
  <2>3. Cardinality(Upto(m)) \in Nat /\ Cardinality(Upto(s)) \in Nat
    BY <2>1, <2>2, FS_CardinalityType
  <2> QED  BY <1>3, <2>2, <2>3, BatchAssumption
<1> QED  BY <1>1, <1>4 DEF Batch

LEMMA Fills ==
  ASSUME IInv, BackfillBatch
  PROVE  IInv'
<1> USE DEF BackfillBatch
<1>1. now \in Nat /\ now \in Times
  BY ProgressBounds DEF IInv, TypeOK, Times
<1>2. Batch \in SUBSET Nat /\ \A s \in Batch : s <= MaxSchedules /\ s \in ScheduleIds
  BY ProgressBounds DEF Batch, Existing, ScheduleIds
<1>3. PICK m \in Batch : m = Max(Batch) /\ \A s \in Batch : s <= m
  BY <1>2, Greatest, ProgressBounds
<1>4. m \in Nat /\ fill.last \in Nat /\ fill.upper \in 0 .. MaxSchedules /\ fill.running = TRUE /\ fill.running \in BOOLEAN
  BY <1>2 DEF IInv, Filled
<1>5. fill' = [fill EXCEPT !.last = m]
  BY <1>3
<1>6. ASSUME NEW s \in ScheduleIds
      PROVE  /\ fact'[s] \in Facts \cup {None}
             /\ (fact[s] # None => fact'[s] = fact[s])
             /\ (s \in Batch /\ Eligible(s) => fact'[s] # None)
             /\ (fact'[s] # None => schedule[s].state # "none" /\ fact'[s].completed_at <= now)
  <2>1. CASE s \in Batch /\ Eligible(s)
    <3>1. fact'[s] = record_completion(schedule, s)
      BY <2>1
    <3> QED  BY <2>1, <3>1, Records DEF Eligible
  <2>2. CASE ~(s \in Batch /\ Eligible(s))
    <3>1. fact'[s] = fact[s]
      BY <2>2
    <3> QED  BY <2>2, <3>1 DEF IInv, Consistent
  <2> QED  BY <2>1, <2>2
<1>7. fact' \in [ScheduleIds -> Facts \cup {None}]
  BY <1>6
<1>8. FactsStay
  BY <1>6, RecordingKeeps
<1>9. \A s \in ScheduleIds : Eligible(s)' /\ s <= m => fact'[s] # None
  <2> SUFFICES ASSUME NEW s \in ScheduleIds, Eligible(s), s <= m  PROVE  fact'[s] # None
    BY DEF Eligible
  <2>1. CASE s <= fill.last
    <3>1. fact[s] # None
      BY <2>1, <1>4 DEF IInv, Filled
    <3> QED  BY <3>1, <1>6 DEF FactsStay
  <2>2. CASE fill.last < s
    <3>1. s \in Existing
      BY DEF Existing, Row, Eligible
    <3>2. s \in Batch
      BY <2>2, <3>1, BatchIsDense
    <3> QED  BY <3>2, <1>6
  <2> QED  BY <2>1, <2>2, <1>4 DEF ScheduleIds
<1>10. fill' = [running |-> fill.running, last |-> m, upper |-> fill.upper, runs |-> fill.runs]
  BY <1>5 DEF IInv, Filled
<1>11. /\ fill' = [running |-> fill'.running, last |-> fill'.last, upper |-> fill'.upper, runs |-> fill'.runs]
       /\ fill'.running = fill.running /\ fill'.upper = fill.upper /\ fill'.last = m
  <2> HIDE DEF BackfillBatch
  <2> QED  BY <1>10
<1>12. Filled'
  BY <1>4, <1>9, <1>11, ProgressBounds DEF Filled
<1>13. TypeOK' /\ (\A s \in ScheduleIds : Consistent(s)') /\ Reports'
  BY <1>6, <1>7, <1>8, WritesFacts
<1> QED  BY <1>7, <1>12, <1>13 DEF IInv

LEMMA FillEnds ==
  ASSUME IInv, EndBackfill
  PROVE  IInv'
<1> USE DEF EndBackfill
<1>1. now \in Nat /\ now \in Times
  BY ProgressBounds DEF IInv, TypeOK, Times
<1>2. FactsStay
  BY NoFactMoves
<1>3. fill.last \in Nat /\ fill.upper \in Nat /\ fill.upper \in 0 .. MaxSchedules
  BY ProgressBounds DEF IInv, Filled
<1> DEFINE T == {s \in Existing : s > fill.last /\ s <= fill.upper}
<1>4. T = {}
  <2> SUFFICES ASSUME T # {}  PROVE  FALSE
    OBVIOUS
  <2>1. T \in SUBSET Nat
    BY DEF Existing, ScheduleIds
  <2>2. PICK t \in T : \A s \in T : t <= s
    <3> HIDE DEF T
    <3> QED  BY <2>1, Least
  <2>3. t \in Existing /\ t \in Nat /\ t > fill.last /\ t <= fill.upper
    BY <2>1, <2>2
  <2>4. {s \in Existing : s > fill.last /\ s <= t} = {t}
    <3>1. ASSUME NEW s \in Existing, s > fill.last, s <= t  PROVE  s = t
      <4>1. s \in Nat
        BY DEF Existing, ScheduleIds
      <4>2. s \in T
        BY <1>3, <2>3, <3>1, <4>1
      <4> QED  BY <2>2, <2>3, <3>1, <4>1, <4>2
    <3> QED  BY <2>3, <3>1
  <2>5. Cardinality({t}) = 1
    BY FS_Singleton
  <2>6. t \in Batch
    BY <2>3, <2>4, <2>5, BatchAssumption DEF Batch
  <2> QED  BY <2>6
<1>5. ASSUME NEW s \in ScheduleIds, Eligible(s), s <= fill.upper  PROVE  fact[s] # None
  <2>1. s \in Existing /\ s \in Nat
    BY <1>5 DEF Existing, Row, Eligible, ScheduleIds
  <2>2. s <= fill.last
    BY <1>3, <1>4, <1>5, <2>1
  <2> QED  BY <1>5, <2>2 DEF IInv, Filled
<1>6. \A s \in ScheduleIds : Eligible(s)' <=> Eligible(s)
  BY DEF Eligible
<1>7. fill' = [running |-> FALSE, last |-> fill.last, upper |-> fill.upper, runs |-> fill.runs]
  BY DEF IInv, Filled
<1>8. /\ fill' = [running |-> fill'.running, last |-> fill'.last, upper |-> fill'.upper, runs |-> fill'.runs]
      /\ fill'.running = FALSE /\ fill'.last = fill.last /\ fill'.upper = fill.upper
  BY <1>7
<1>9. Filled'
  BY <1>3, <1>5, <1>6, <1>8 DEF Filled
<1>10. TypeOK' /\ \A s \in ScheduleIds : Consistent(s)'
  BY DEF IInv, TypeOK, Consistent, Locked
<1>11. Reports'
  BY <1>1, <1>2, ReportsStay
<1> QED  BY <1>9, <1>10, <1>11 DEF IInv


-----------------------------------------------------------------------------
(* The report.                                                              *)

LEMMA KeptGrows ==
  ASSUME IInv, NEW w \in Weeks, UNCHANGED fact, Until <= Until', Until \in Nat, Until' \in Nat
  PROVE  Kept(w) \subseteq Kept(w)'
<1> SUFFICES ASSUME NEW s \in Counted(w, Until)  PROVE s \in Counted(w, Until)'
  BY DEF Kept
<1>1. s \in ScheduleIds /\ fact[s] # None /\ fact[s] \in Facts
  BY DEF Counted, IInv
<1>2. fact[s].completed_at \in Nat
  BY <1>1, ProgressBounds DEF Facts, Times
<1> QED  BY <1>1, <1>2 DEF Counted, InWindow, current_week

\* What the steps of a report leave alone.
LEMMA ReportsOnly ==
  ASSUME IInv, UNCHANGED <<now, groupOf, schedule, fact, fill>>,
         report'.counted \subseteq ScheduleIds, report'.pending \in 0 .. MaxSchedules
  PROVE  TypeOK' /\ (\A s \in ScheduleIds : Consistent(s)') /\ Filled'
<1>1. TypeOK'
  BY DEF IInv, TypeOK
<1>2. \A s \in ScheduleIds : Consistent(s)'
  BY DEF IInv, Consistent, Locked
<1>3. FactsStay
  BY NoFactMoves
<1>4. Filled'
  BY <1>3, FilledStays DEF Eligible
<1> QED  BY <1>1, <1>2, <1>4

LEMMA Asks ==
  ASSUME IInv, NEW week \in Weeks, Ask(week)
  PROVE  IInv'
<1> USE DEF Ask
<1>1. now \in Nat /\ now \in Times /\ MaxSchedules \in Nat
  BY ProgressBounds DEF IInv, TypeOK, Times
<1>2. report' = [step |-> "asked", week |-> week, as_of |-> now, achieved |-> <<>>,
                 counted |-> {}, pending |-> 0]
  BY DEF NoReport
<1>3. /\ report'.step = "asked" /\ report'.week = week /\ report'.as_of = now
      /\ report'.counted = {} /\ report'.pending = 0
      /\ report' = [step |-> report'.step, week |-> report'.week, as_of |-> report'.as_of,
                    achieved |-> report'.achieved, counted |-> report'.counted,
                    pending |-> report'.pending]
  <2> HIDE DEF Ask
  <2> QED  BY <1>2
<1>4. Until = now /\ Until' = now
  BY <1>3 DEF Until
<1>5. \A w \in Weeks : Kept(w) \subseteq Kept(w)'
  BY <1>1, <1>4, KeptGrows
<1>6. Reports'
  <2>1. reported' = reported /\ now' = now /\ Reports
    BY DEF IInv
  <2> HIDE DEF Ask
  <2> QED  BY <1>1, <1>3, <1>5, <2>1 DEF Reports
<1>7. TypeOK' /\ (\A s \in ScheduleIds : Consistent(s)') /\ Filled'
  BY <1>1, <1>3, ReportsOnly
<1> QED  BY <1>6, <1>7 DEF IInv

LEMMA RowsAreRead ==
  ASSUME IInv, progress_rows
  PROVE  IInv' /\ \A w \in Weeks : reported[w] \subseteq reported'[w]
<1> USE DEF progress_rows
<1>1. /\ now \in Nat /\ now \in Times /\ report.as_of \in Nat /\ report.as_of <= now
      /\ report.week \in Weeks /\ report.as_of \in Times
      /\ report.pending \in 0 .. MaxSchedules /\ now' = now
  BY ProgressBounds DEF IInv, TypeOK, Times, Reports
<1> DEFINE counted == Counted(report.week, report.as_of)
           achieved == [goal \in Goals |-> Achieved(goal, completion_totals(report.week, report.as_of))]
<1>2. report' = [step |-> "rows", week |-> report.week, as_of |-> report.as_of,
                 achieved |-> achieved, counted |-> counted, pending |-> report.pending]
  BY DEF IInv, Reports
<1> HIDE DEF achieved
<1>3. /\ report'.step = "rows" /\ report'.week = report.week /\ report'.as_of = report.as_of
      /\ report'.counted = counted /\ report'.pending = report.pending
      /\ report' = [step |-> report'.step, week |-> report'.week, as_of |-> report'.as_of,
                    achieved |-> report'.achieved, counted |-> report'.counted,
                    pending |-> report'.pending]
  <2> HIDE DEF progress_rows, counted
  <2> QED  BY <1>2
<1>4. Until = report.as_of /\ Until' = now
  BY <1>1, <1>3 DEF Until
<1>5. \A w \in Weeks : Kept(w) \subseteq Kept(w)'
  BY <1>1, <1>4, KeptGrows
<1>6. /\ reported' = [reported EXCEPT ![report.week] = Kept(report.week)]
      /\ reported = [w \in Weeks |-> reported[w]]
      /\ \A w \in Weeks : reported[w] \subseteq Kept(w)
  BY <1>4 DEF Kept, IInv, Reports
<1>7. /\ reported' = [w \in Weeks |-> reported'[w]]
      /\ \A w \in Weeks : reported[w] \subseteq reported'[w] /\ reported'[w] \subseteq Kept(w)
  <2> HIDE DEF progress_rows
  <2>1. \A w \in Weeks : reported'[w] = IF w = report.week THEN Kept(report.week) ELSE reported[w]
    BY <1>1, <1>6
  <2> QED  BY <1>1, <1>6, <2>1
<1>8. Reports'
  <2> HIDE DEF progress_rows
  <2> QED  BY <1>1, <1>3, <1>5, <1>7 DEF Reports
<1>9. TypeOK' /\ (\A s \in ScheduleIds : Consistent(s)') /\ Filled'
  BY <1>1, <1>3, ReportsOnly DEF Counted
<1> QED  BY <1>7, <1>8, <1>9 DEF IInv

LEMMA PendingIsRead ==
  ASSUME IInv, pending_reconciliations
  PROVE  IInv'
<1> USE DEF pending_reconciliations
<1>1. now \in Nat /\ now \in Times /\ MaxSchedules \in Nat /\ 0 \in Times /\ 0 <= now /\ now' = now
  BY ProgressBounds DEF IInv, TypeOK, Times
<1> DEFINE pending == Pending(report.week, report.as_of)
<1>2. Cardinality(pending) \in 0 .. MaxSchedules
  <2>1. pending \in SUBSET ScheduleIds
    BY DEF Pending
  <2> HIDE DEF pending
  <2> QED  BY <2>1, Small
<1>3. report' = [step |-> "none", week |-> 0, as_of |-> 0, achieved |-> <<>>,
                 counted |-> {}, pending |-> Cardinality(pending)]
  BY DEF NoReport
<1>4. PICK n \in 0 .. MaxSchedules : n = Cardinality(pending)
  BY <1>2
<1>5. /\ report'.step = "none" /\ report'.week = 0 /\ report'.as_of = 0
      /\ report'.counted = {} /\ report'.pending = n
      /\ report' = [step |-> report'.step, week |-> report'.week, as_of |-> report'.as_of,
                    achieved |-> report'.achieved, counted |-> report'.counted,
                    pending |-> report'.pending]
  <2> HIDE DEF pending_reconciliations, pending
  <2> QED  BY <1>3, <1>4
<1>6. Until = now /\ Until' = now
  BY <1>1, <1>5 DEF Until
<1>7. \A w \in Weeks : Kept(w) \subseteq Kept(w)'
  BY <1>1, <1>6, KeptGrows
<1>8. Reports'
  <2>1. reported' = reported /\ Reports
    BY DEF IInv
  <2> HIDE DEF pending_reconciliations, pending
  <2> QED  BY <1>1, <1>5, <1>7, <2>1 DEF Reports, Weeks
<1>9. TypeOK' /\ (\A s \in ScheduleIds : Consistent(s)') /\ Filled'
  BY <1>1, <1>5, ReportsOnly
<1> QED  BY <1>8, <1>9 DEF IInv


-----------------------------------------------------------------------------
(* The theorems.                                                            *)

LEMMA Initially ==
  ASSUME Init
  PROVE  IInv
<1>1. /\ now = 0 /\ 0 \in Times /\ 0 \in Nat /\ MaxSchedules \in Nat /\ None \notin Nat
      /\ None \notin Groups
  BY ProgressBounds, NoneAssumption DEF Init, Times
<1>2. groupOf \in [Categories -> Groups]
  BY DEF Init
<1>3. PICK c \in Categories, valid \in BOOLEAN :
        /\ schedule \in {[s \in ScheduleIds |-> Absent(c)],
                         [s \in ScheduleIds |-> IF s = 1 THEN Legacy(c, valid) ELSE Absent(c)]}
        /\ fact \in {[s \in ScheduleIds |-> None],
                     [s \in ScheduleIds |->
                        IF schedule[s].state = "completed" /\ valid THEN OldFact(c) ELSE None]}
  BY DEF Init
<1>4. Absent(c) \in ScheduleRows /\ Legacy(c, valid) \in ScheduleRows
  BY <1>1 DEF Absent, Legacy, ScheduleRows
<1>5. schedule \in [ScheduleIds -> ScheduleRows]
  <2> DEFINE a == Absent(c)
             l == Legacy(c, valid)
  <2>1. \/ schedule = [s \in ScheduleIds |-> a]
        \/ schedule = [s \in ScheduleIds |-> IF s = 1 THEN l ELSE a]
    BY <1>3
  <2> HIDE DEF a, l
  <2>2. a \in ScheduleRows /\ l \in ScheduleRows
    BY <1>4 DEF a, l
  <2> QED  BY <2>1, <2>2
<1>6. OldFact(c) \in Facts /\ OldFact(c).completed_at = 0
  BY <1>1, <1>2 DEF OldFact, Facts
<1>7. ASSUME NEW s \in ScheduleIds
      PROVE  /\ schedule[s] \in {Absent(c), Legacy(c, valid)}
             /\ fact[s] \in {None, OldFact(c)}
             /\ (fact[s] # None => schedule[s].state = "completed")
  BY <1>3
<1>8. fact \in [ScheduleIds -> Facts \cup {None}]
  <2> DEFINE f == OldFact(c)
  <2>1. f \in Facts
    BY <1>6
  <2> HIDE DEF f
  <2>2. \/ fact = [s \in ScheduleIds |-> None]
        \/ fact = [s \in ScheduleIds |-> IF schedule[s].state = "completed" /\ valid THEN f ELSE None]
    BY <1>3 DEF f
  <2> QED  BY <2>1, <2>2
<1>9. /\ report = [step |-> "none", week |-> 0, as_of |-> 0, achieved |-> <<>>, counted |-> {}, pending |-> 0]
      /\ fill = [running |-> FALSE, last |-> 0, upper |-> 0, runs |-> 0]
      /\ reported = [w \in Weeks |-> {}]
  BY DEF Init, NoReport
<1>10. TypeOK
  BY <1>1, <1>2, <1>5, <1>8, <1>9 DEF TypeOK
<1>11. ASSUME NEW s \in ScheduleIds  PROVE  Consistent(s)
  <2>1. /\ schedule[s].lock = None /\ schedule[s].start = 0
        /\ schedule[s].completed_at \in {0, None} /\ schedule[s].state \in {"none", "completed"}
        /\ (schedule[s].state = "completed" => schedule[s].completed_at = 0)
    <3> DEFINE a == Absent(c)
               l == Legacy(c, valid)
    <3>1. /\ a.lock = None /\ a.start = 0 /\ a.completed_at = None /\ a.state = "none"
          /\ l.lock = None /\ l.start = 0 /\ l.completed_at = 0 /\ l.state = "completed"
      BY DEF Absent, Legacy
    <3>2. schedule[s] = a \/ schedule[s] = l
      BY <1>7
    <3> HIDE DEF a, l
    <3> QED  BY <3>1, <3>2
  <2> QED  BY <1>1, <1>6, <1>7, <2>1 DEF Consistent, Locked
<1>12. Filled
  <2>1. \A s \in ScheduleIds : ~(s <= 0)
    BY DEF ScheduleIds
  <2> QED  BY <1>1, <1>9, <2>1 DEF Filled
<1>13. Reports
  BY <1>1, <1>9 DEF Reports, Weeks
<1> QED  BY <1>8, <1>10, <1>11, <1>12, <1>13 DEF IInv

LEMMA Steps ==
  ASSUME IInv, [Next]_vars
  PROVE  IInv' /\ \A w \in Weeks : reported[w] \subseteq reported'[w]
<1>1. CASE \E s \in ScheduleIds, c \in Categories, d \in Lengths : StartExecution(s, c, d)
  BY <1>1, Starts DEF StartExecution
<1>2. CASE \E s \in ScheduleIds : LockToComplete(s)
  <2>1. PICK s \in ScheduleIds : LockToComplete(s)
    BY <1>2
  <2> QED  BY <2>1, Locks DEF LockToComplete
<1>3. CASE \E s \in ScheduleIds : Rollback(s)
  <2>1. PICK s \in ScheduleIds : Rollback(s)
    BY <1>3
  <2>2. schedule[s].state = "open"
    BY <2>1 DEF Rollback, IInv, Consistent
  <2> QED  BY <2>1, <2>2, Locks DEF Rollback
<1>4. CASE \E s \in ScheduleIds : complete_schedule(s)
  BY <1>4, Completes DEF complete_schedule
<1>5. CASE \E s \in ScheduleIds : CompleteAgain(s) \/ Delete(s)
  BY <1>5, CompletesAgain, Deletes DEF CompleteAgain, Delete
<1>6. CASE \E c \in Categories, g \in Groups : MoveCategory(c, g)
  BY <1>6, Moves DEF MoveCategory
<1>7. CASE Tick
  BY <1>7, Ticks DEF Tick
<1>8. CASE Enrich
  BY <1>8, Enriches DEF Enrich
<1>9. CASE StartBackfill
  BY <1>9, FillStarts DEF StartBackfill
<1>10. CASE BackfillBatch
  BY <1>10, Fills DEF BackfillBatch
<1>11. CASE EndBackfill
  BY <1>11, FillEnds DEF EndBackfill
<1>12. CASE \E w \in Weeks : Ask(w)
  BY <1>12, Asks DEF Ask
<1>13. CASE progress_rows
  BY <1>13, RowsAreRead
<1>14. CASE pending_reconciliations
  BY <1>14, PendingIsRead DEF pending_reconciliations
<1>15. CASE UNCHANGED vars
  <2>1. FactsStay
    BY <1>15, NoFactMoves DEF vars
  <2>2. now' \in Times /\ now <= now'
    BY <1>15, ProgressBounds DEF vars, IInv, TypeOK, Times
  <2>3. Filled' /\ Reports'
    BY <1>15, <2>1, <2>2, FilledStays, ReportsStay DEF vars, Eligible
  <2>4. TypeOK' /\ \A s \in ScheduleIds : Consistent(s)'
    BY <1>15 DEF vars, IInv, TypeOK, Consistent, Locked
  <2> QED  BY <1>15, <2>3, <2>4 DEF vars, IInv
<1> QED
  BY <1>1, <1>2, <1>3, <1>4, <1>5, <1>6, <1>7, <1>8, <1>9, <1>10, <1>11, <1>12, <1>13, <1>14,
     <1>15 DEF Next

(* The inductive invariant holds in every reachable state.                  *)
THEOREM Invariance == Spec => []IInv
<1>1. Init => IInv
  BY Initially
<1>2. IInv /\ [Next]_vars => IInv'
  BY Steps
<1> QED  BY <1>1, <1>2, PTL DEF Spec

(* The rows, the facts and what a report holds are well-formed: above all,  *)
(* what is recorded of an execution, in whatever context it started, is a   *)
(* fact of a group with a duration that is not negative                     *)
(* (goal_completions.py:12-51).                                             *)
THEOREM ProgressTypes == Spec => []TypeOK
<1>1. IInv => TypeOK
  BY DEF IInv
<1> QED  BY <1>1, Invariance, PTL

(* However many executions, whatever the size of a batch and whatever is    *)
(* started, completed, deleted or moved between two batches, a backfill     *)
(* that ended has left no gap up to the last row it saw                     *)
(* (backfill_goal_completions.py:22-48).                                    *)
THEOREM NoGapIsLeft == Spec => []BackfillLeavesNoGap
<1>1. IInv => BackfillLeavesNoGap
  <2> SUFFICES ASSUME IInv, ~fill.running, NEW s \in 1 .. fill.upper, Eligible(s)
               PROVE  fact[s] # None
    BY DEF BackfillLeavesNoGap
  <2>1. s \in ScheduleIds /\ s <= fill.upper
    BY ProgressBounds DEF IInv, Filled, ScheduleIds
  <2> QED  BY <2>1 DEF IInv, Filled
<1> QED  BY <1>1, Invariance, PTL

(* A later report of the same week counts what an earlier one counted, with *)
(* the same category, group and minutes (goal_completions.py:42-51,         *)
(* weekly_goals.py:131-167).                                                *)
THEOREM WhatIsCountedStays == Spec => ProgressOnlyGrows
<1>1. IInv /\ [Next]_vars => [\A w \in Weeks : reported[w] \subseteq reported'[w]]_vars
  BY Steps
<1> QED  BY <1>1, Invariance, PTL DEF Spec, ProgressOnlyGrows

-----------------------------------------------------------------------------
(* Sums.  MapThenSumSet takes the elements one by one; it[s] is the sum of  *)
(* f over the subset s of S, and does not depend on the order.              *)

First(s) == CHOOSE y \in s : TRUE
IsSum(it, f, S) ==
  it = [s \in SUBSET S |-> IF s = {} THEN 0 ELSE f[First(s)] + it[s \ {First(s)}]]

LEMMA FirstIsIn ==
  ASSUME NEW s, s # {}
  PROVE  First(s) \in s
BY DEF First

\* A set of the finite S without an element has one element less.
LEMMA OneLess ==
  ASSUME NEW S, IsFiniteSet(S), NEW s \in SUBSET S, NEW x \in s
  PROVE  /\ Cardinality(s) \in Nat /\ Cardinality(s \ {x}) \in Nat
         /\ Cardinality(s \ {x}) < Cardinality(s)
         /\ Cardinality(s) = Cardinality(s \ {x}) + 1
<1>1. IsFiniteSet(s)
  BY FS_Subset
<1>2. IsFiniteSet(s \ {x}) /\ Cardinality(s \ {x}) = Cardinality(s) - 1
  BY <1>1, FS_RemoveElement
<1> QED  BY <1>1, <1>2, FS_CardinalityType

\* A set of subsets of S that is not empty has a smallest member.
LEMMA Smallest ==
  ASSUME NEW S, IsFiniteSet(S), NEW B \in SUBSET (SUBSET S), B # {}
  PROVE  \E s \in B : \A t \in SUBSET S : Cardinality(t) < Cardinality(s) => t \notin B
<1> DEFINE T == {Cardinality(s) : s \in B}
<1>1. \A s \in SUBSET S : Cardinality(s) \in Nat
  BY FS_Subset, FS_CardinalityType
<1>2. T \in SUBSET Nat /\ T # {}
  BY <1>1
<1>3. PICK n \in T : \A m \in T : n <= m
  <2> HIDE DEF T
  <2> QED  BY <1>2, Least
<1>4. PICK s \in B : n = Cardinality(s)
  OBVIOUS
<1>5. \A t \in B : Cardinality(s) <= Cardinality(t) /\ Cardinality(t) \in Nat
  BY <1>1, <1>3, <1>4
<1> QED  BY <1>1, <1>5

LEMMA SumExists ==
  ASSUME NEW S, IsFiniteSet(S), NEW f
  PROVE  \E it : IsSum(it, f, S)
<1> DEFINE Up(n) == {s \in SUBSET S : Cardinality(s) <= n}
           Step(it, s) == IF s = {} THEN 0 ELSE f[First(s)] + it[s \ {First(s)}]
           Good(n) == \E it : it = [s \in Up(n) |-> Step(it, s)]
           Bad == {n \in Nat : ~Good(n)}
<1>1. Cardinality(S) \in Nat
  BY FS_CardinalityType
<1>2. ASSUME NEW n \in Bad, \A m \in Bad : n <= m  PROVE FALSE
  <2>1. CASE n = 0
    <3> DEFINE it == [s \in Up(0) |-> 0]
    <3>1. ASSUME NEW s \in Up(0)  PROVE s = {}
      <4>1. IsFiniteSet(s) /\ Cardinality(s) \in Nat
        BY FS_Subset, FS_CardinalityType
      <4> QED  BY <4>1, FS_EmptySet
    <3>2. it = [s \in Up(0) |-> Step(it, s)]
      BY <3>1
    <3>3. Good(0)
      <4> HIDE DEF it
      <4> QED  BY <3>2
    <3>4. ~Good(n)
      OBVIOUS
    <3> HIDE DEF Good
    <3> QED  BY <2>1, <3>3, <3>4
  <2>2. CASE n # 0
    <3>1. n - 1 \in Nat /\ Good(n - 1)
      <4>1. n \in Nat
        OBVIOUS
      <4>2. n - 1 \in Nat /\ n - 1 \notin Bad
        <5> HIDE DEF Bad
        <5> QED  BY <1>2, <2>2, <4>1
      <4> HIDE DEF Good
      <4> QED  BY <4>2
    <3>2. PICK it : it = [s \in Up(n - 1) |-> Step(it, s)]
      BY <3>1
    <3> DEFINE jt == [s \in Up(n) |-> Step(it, s)]
    <3>3. ASSUME NEW s \in Up(n)  PROVE jt[s] = Step(jt, s)
      <4>1. CASE s = {}
        BY <4>1
      <4>2. CASE s # {}
        <5> DEFINE r == s \ {First(s)}
        <5>1. First(s) \in s
          BY <4>2, FirstIsIn
        <5>2. r \in Up(n - 1) /\ r \in Up(n)
          BY <5>1, OneLess
        <5>3. it[r] = Step(it, r) /\ jt[r] = Step(it, r)
          BY <3>2, <5>2
        <5> QED  BY <4>2, <5>3
      <4> QED  BY <4>1, <4>2
    <3>4. jt = [s \in Up(n) |-> Step(jt, s)]
      BY <3>3
    <3> QED  BY <3>4
  <2> QED  BY <2>1, <2>2
<1>3. Bad = {}
  <2>1. Bad \in SUBSET Nat
    OBVIOUS
  <2> HIDE DEF Bad
  <2> QED  BY <1>2, <2>1, Least
<1>4. Good(Cardinality(S))
  BY <1>1, <1>3
<1>5. Up(Cardinality(S)) = SUBSET S
  BY <1>1, FS_Subset
<1> QED  BY <1>4, <1>5 DEF IsSum

\* Sums of the same values are the same.
LEMMA SumsAgree ==
  ASSUME NEW S, IsFiniteSet(S), NEW R, NEW f, NEW g, NEW it, NEW jt, NEW D \in SUBSET S, D \subseteq R,
         IsSum(it, f, S), IsSum(jt, g, R), \A x \in D : f[x] = g[x]
  PROVE  it[D] = jt[D]
<1> DEFINE B == {s \in SUBSET D : it[s] # jt[s]}
<1>1. ASSUME NEW s \in B, \A t \in SUBSET D : Cardinality(t) < Cardinality(s) => t \notin B
      PROVE  FALSE
  <2>1. /\ it[s] = IF s = {} THEN 0 ELSE f[First(s)] + it[s \ {First(s)}]
        /\ jt[s] = IF s = {} THEN 0 ELSE g[First(s)] + jt[s \ {First(s)}]
    BY DEF IsSum
  <2>2. s # {}
    BY <2>1
  <2>3. First(s) \in s
    BY <2>2, FirstIsIn
  <2>4. s \ {First(s)} \notin B
    BY <1>1, <2>3, OneLess
  <2> QED  BY <2>1, <2>2, <2>3, <2>4
<1>2. IsFiniteSet(D)
  BY FS_Subset
<1>3. B = {}
  <2>1. B \in SUBSET (SUBSET D)
    OBVIOUS
  <2> HIDE DEF B
  <2> QED  BY <1>1, <1>2, <2>1, Smallest
<1> QED  BY <1>3

LEMMA SumIsInt ==
  ASSUME NEW S, IsFiniteSet(S), NEW f, \A x \in S : f[x] \in Int, NEW it, IsSum(it, f, S)
  PROVE  /\ it[{}] = 0
         /\ \A s \in SUBSET S : it[s] \in Int
<1> DEFINE B == {s \in SUBSET S : it[s] \notin Int}
<1>1. ASSUME NEW s \in B, \A t \in SUBSET S : Cardinality(t) < Cardinality(s) => t \notin B
      PROVE  FALSE
  <2>1. it[s] = IF s = {} THEN 0 ELSE f[First(s)] + it[s \ {First(s)}]
    BY DEF IsSum
  <2>2. s # {}
    BY <2>1
  <2>3. First(s) \in s
    BY <2>2, FirstIsIn
  <2>4. s \ {First(s)} \notin B
    BY <1>1, <2>3, OneLess
  <2> QED  BY <2>1, <2>2, <2>3, <2>4
<1>2. B = {}
  <2>1. B \in SUBSET (SUBSET S)
    OBVIOUS
  <2> HIDE DEF B
  <2> QED  BY <1>1, <2>1, Smallest
<1>3. it[{}] = 0
  BY DEF IsSum
<1> QED  BY <1>2, <1>3

\* The order in which elements are taken does not matter.
LEMMA SumWithOneMore ==
  ASSUME NEW S, IsFiniteSet(S), NEW f, \A x \in S : f[x] \in Int, NEW it, IsSum(it, f, S),
         NEW s \in SUBSET S, NEW x \in s
  PROVE  it[s] = f[x] + it[s \ {x}]
<1> DEFINE B == {t \in SUBSET S : \E y \in t : it[t] # f[y] + it[t \ {y}]}
<1>1. ASSUME NEW t \in B, \A u \in SUBSET S : Cardinality(u) < Cardinality(t) => u \notin B
      PROVE  FALSE
  <2>1. PICK y \in t : it[t] # f[y] + it[t \ {y}]
    OBVIOUS
  <2> DEFINE c == First(t)
  <2>2. it[t] = f[c] + it[t \ {c}] /\ c \in t
    <3>1. t # {}
      BY <2>1
    <3> QED  BY <3>1, FirstIsIn DEF IsSum
  <2>3. c # y
    BY <2>1, <2>2
  <2>4. t \ {c} \notin B /\ t \ {y} \notin B
    BY <1>1, <2>1, <2>2, OneLess
  <2> HIDE DEF c
  <2>5. /\ it[t \ {c}] = f[y] + it[(t \ {c}) \ {y}]
        /\ it[t \ {y}] = f[c] + it[(t \ {y}) \ {c}]
    BY <2>1, <2>2, <2>3, <2>4
  <2> DEFINE r == (t \ {c}) \ {y}
  <2>6. r = (t \ {y}) \ {c} /\ r \in SUBSET S /\ c \in S /\ y \in S
    BY <2>2
  <2>7. it[r] \in Int /\ f[c] \in Int /\ f[y] \in Int
    <3> HIDE DEF r
    <3> QED  BY <2>6, SumIsInt
  <2>8. it[t \ {c}] = f[y] + it[r] /\ it[t \ {y}] = f[c] + it[r]
    BY <2>5, <2>6
  <2> HIDE DEF r
  <2> QED  BY <2>1, <2>2, <2>7, <2>8
<1>2. B = {}
  <2>1. B \in SUBSET (SUBSET S)
    OBVIOUS
  <2> HIDE DEF B
  <2> QED  BY <1>1, <2>1, Smallest
<1> QED  BY <1>2

\* Two sets that have nothing in common are summed apart.
LEMMA SumOfUnion ==
  ASSUME NEW S, IsFiniteSet(S), NEW f, \A x \in S : f[x] \in Int, NEW it, IsSum(it, f, S),
         NEW a \in SUBSET S, NEW b \in SUBSET S, a \cap b = {}
  PROVE  it[a \cup b] = it[a] + it[b]
<1> DEFINE B == {t \in SUBSET S : t \cap a = {} /\ it[a \cup t] # it[a] + it[t]}
<1>1. ASSUME NEW t \in B, \A u \in SUBSET S : Cardinality(u) < Cardinality(t) => u \notin B
      PROVE  FALSE
  <2>1. CASE t = {}
    <3>1. a \cup t = a /\ it[t] = 0 /\ it[a] \in Int
      BY <2>1, SumIsInt
    <3>2. it[a \cup t] # it[a] + it[t]
      OBVIOUS
    <3>3. it[a \cup t] = it[a]
      BY <3>1
    <3> QED  BY <3>1, <3>2, <3>3
  <2>2. ASSUME NEW y \in t  PROVE FALSE
    <3>1. t \ {y} \notin B
      BY <1>1, OneLess
    <3>2. it[a \cup (t \ {y})] = it[a] + it[t \ {y}]
      BY <3>1
    <3>3. (a \cup t) \ {y} = a \cup (t \ {y}) /\ y \in a \cup t
      OBVIOUS
    <3>4. it[a \cup t] = f[y] + it[a \cup (t \ {y})]
      <4>1. it[a \cup t] = f[y] + it[(a \cup t) \ {y}]
        <5>1. a \cup t \in SUBSET S
          OBVIOUS
        <5> QED  BY <3>3, <5>1, SumWithOneMore
      <4> QED  BY <3>3, <4>1
    <3>5. it[t] = f[y] + it[t \ {y}]
      <4>1. t \in SUBSET S
        OBVIOUS
      <4> HIDE DEF B
      <4> QED  BY <4>1, SumWithOneMore
    <3>6. it[a] \in Int /\ it[t \ {y}] \in Int /\ f[y] \in Int
      BY SumIsInt
    <3>7. it[a \cup t] # it[a] + it[t]
      OBVIOUS
    <3> QED  BY <3>2, <3>4, <3>5, <3>6, <3>7
  <2> QED  BY <2>1, <2>2
<1>2. B = {}
  <2>1. B \in SUBSET (SUBSET S)
    OBVIOUS
  <2> HIDE DEF B
  <2> QED  BY <1>1, <2>1, Smallest
<1> QED  BY <1>2

\* A sum of ones counts.
LEMMA SumOfOnes ==
  ASSUME NEW S, IsFiniteSet(S), NEW f, \A x \in S : f[x] = 1, NEW it, IsSum(it, f, S),
         NEW s \in SUBSET S
  PROVE  it[s] = Cardinality(s)
<1> DEFINE B == {t \in SUBSET S : it[t] # Cardinality(t)}
<1>1. ASSUME NEW t \in B, \A u \in SUBSET S : Cardinality(u) < Cardinality(t) => u \notin B
      PROVE  FALSE
  <2>1. CASE t = {}
    BY <2>1, FS_EmptySet DEF IsSum
  <2>2. ASSUME NEW y \in t  PROVE FALSE
    <3>1. t \ {y} \notin B
      BY <1>1, OneLess
    <3>2. it[t] = f[y] + it[t \ {y}]
      BY SumWithOneMore
    <3> QED  BY <3>1, <3>2, OneLess
  <2> QED  BY <2>1, <2>2
<1>2. B = {}
  <2>1. B \in SUBSET (SUBSET S)
    OBVIOUS
  <2> HIDE DEF B
  <2> QED  BY <1>1, <2>1, Smallest
<1> QED  BY <1>2

\* Sums of the sums of disjoint groups are the sum of all of them.
LEMMA SumOfGroups ==
  ASSUME NEW S, IsFiniteSet(S), NEW f, \A x \in S : f[x] \in Int, NEW it, IsSum(it, f, S),
         NEW R, IsFiniteSet(R), NEW G \in [R -> SUBSET S],
         \A p, q \in R : p # q => G[p] \cap G[q] = {},
         NEW h, \A r \in R : h[r] = it[G[r]], NEW jt, IsSum(jt, h, R)
  PROVE  jt[R] = it[UNION {G[r] : r \in R}]
<1> DEFINE All(T) == UNION {G[r] : r \in T}
           B == {T \in SUBSET R : jt[T] # it[All(T)]}
<1>1. \A r \in R : h[r] \in Int
  BY SumIsInt
<1>2. ASSUME NEW t \in B, \A u \in SUBSET R : Cardinality(u) < Cardinality(t) => u \notin B
      PROVE  FALSE
  <2>1. CASE t = {}
    <3>1. All(t) = {}
      BY <2>1
    <3>2. jt[{}] = 0 /\ it[{}] = 0
      BY <1>1, SumIsInt
    <3> QED  BY <2>1, <3>1, <3>2
  <2>2. ASSUME NEW y \in t  PROVE FALSE
    <3> DEFINE u == t \ {y}
    <3>1. jt[u] = it[All(u)]
      <4>1. u \notin B
        BY <1>2, OneLess
      <4> QED  BY <4>1
    <3>2. jt[t] = h[y] + jt[u]
      BY <1>1, SumWithOneMore
    <3>3. /\ All(u) \in SUBSET S /\ G[y] \in SUBSET S
          /\ G[y] \cap All(u) = {}
          /\ All(t) = G[y] \cup All(u)
      OBVIOUS
    <3>4. it[All(t)] = it[G[y]] + it[All(u)]
      <4> DEFINE a == G[y]
                 b == All(u)
      <4>1. a \in SUBSET S /\ b \in SUBSET S /\ a \cap b = {}
        BY <3>3
      <4> HIDE DEF a, b
      <4>2. it[a \cup b] = it[a] + it[b]
        BY <4>1, SumOfUnion
      <4> QED  BY <3>3, <4>2 DEF a, b
    <3>5. h[y] = it[G[y]] /\ jt[t] # it[All(t)]
      OBVIOUS
    <3> QED  BY <3>1, <3>2, <3>4, <3>5
  <2> QED  BY <2>1, <2>2
<1>3. B = {}
  <2>1. B \in SUBSET (SUBSET R)
    OBVIOUS
  <2> HIDE DEF B
  <2> QED  BY <1>2, <2>1, Smallest
<1> QED  BY <1>3

-----------------------------------------------------------------------------
(* The sums of a report: minutes of facts, rows of a goal, worth of         *)
(* executions.  Each is the sum of IsSum, whatever function has its values. *)

SumOfMinutes(T) == MapThenSumSet(LAMBDA s : fact[s].duration_minutes, T)
SumOfRows(goal, R) ==
  MapThenSumSet(LAMBDA row : IF goal.metric = "minutes" THEN row.minutes ELSE row.sessions, R)
SumOfWorth(goal, T) == MapThenSumSet(LAMBDA s : Worth(goal, s), T)

LEMMA MinutesAreSummed ==
  ASSUME NEW S, NEW T \in SUBSET S, IsFiniteSet(S), NEW f, NEW it, IsSum(it, f, S),
         \A s \in T : f[s] = fact[s].duration_minutes
  PROVE  SumOfMinutes(T) = it[T]
<1> DEFINE Body(k) == k = [t \in SUBSET T |-> IF t = {} THEN 0
                             ELSE fact[CHOOSE y \in t : TRUE].duration_minutes
                                    + k[t \ {CHOOSE y \in t : TRUE}]]
           k == CHOOSE k : Body(k)
           g == [s \in T |-> fact[s].duration_minutes]
<1>1. SumOfMinutes(T) = k[T]
  BY Zenon DEF SumOfMinutes, MapThenSumSet, MapThenFoldSet
<1>2. IsFiniteSet(T)
  BY FS_Subset
<1>3. ASSUME NEW j  PROVE IsSum(j, g, T) <=> Body(j)
  <2>1. \A t \in SUBSET T : t # {} => g[First(t)] = fact[CHOOSE y \in t : TRUE].duration_minutes
    BY FirstIsIn DEF First
  <2> QED  BY <2>1 DEF IsSum, First
<1>4. IsSum(k, g, T)
  <2>1. \E j : Body(j)
    BY <1>2, <1>3, SumExists
  <2> HIDE DEF Body
  <2> QED  BY <1>3, <2>1
<1>5. it[T] = k[T]
  <2>1. \A s \in T : f[s] = g[s]
    OBVIOUS
  <2>2. \A s \in T : f[s] = g[s] /\ T \in SUBSET S /\ T \subseteq T
    BY <2>1
  <2> HIDE DEF k, g, Body
  <2> QED  BY <1>4, <2>1, <2>2, SumsAgree
<1> QED  BY <1>1, <1>5

LEMMA RowsAreSummed ==
  ASSUME NEW goal, NEW R, IsFiniteSet(R)
  PROVE  \E jt : /\ IsSum(jt, [row \in R |-> IF goal.metric = "minutes" THEN row.minutes
                                             ELSE row.sessions], R)
                 /\ SumOfRows(goal, R) = jt[R]
<1> DEFINE V(row) == IF goal.metric = "minutes" THEN row.minutes ELSE row.sessions
           Body(k) == k = [t \in SUBSET R |-> IF t = {} THEN 0
                             ELSE V(CHOOSE y \in t : TRUE) + k[t \ {CHOOSE y \in t : TRUE}]]
           k == CHOOSE k : Body(k)
           g == [row \in R |-> V(row)]
<1>1. SumOfRows(goal, R) = k[R]
  BY Zenon DEF SumOfRows, MapThenSumSet, MapThenFoldSet
<1>2. ASSUME NEW j  PROVE IsSum(j, g, R) <=> Body(j)
  <2>1. \A t \in SUBSET R : t # {} => g[First(t)] = V(CHOOSE y \in t : TRUE)
    BY FirstIsIn DEF First
  <2> HIDE DEF V, g
  <2> QED  BY <2>1 DEF IsSum, First
<1>3. IsSum(k, g, R)
  <2>1. \E j : Body(j)
    <3> HIDE DEF Body, g
    <3> QED  BY <1>2, SumExists
  <2> HIDE DEF Body
  <2> QED  BY <1>2, <2>1
<1> HIDE DEF k
<1> QED  BY <1>1, <1>3

LEMMA WorthIsSummed ==
  ASSUME NEW goal, NEW S, NEW T \in SUBSET S, IsFiniteSet(S), NEW f, NEW it, IsSum(it, f, S),
         \A s \in T : f[s] = Worth(goal, s)
  PROVE  SumOfWorth(goal, T) = it[T]
<1> DEFINE V(s) == Worth(goal, s)
           Body(k) == k = [t \in SUBSET T |-> IF t = {} THEN 0
                             ELSE V(CHOOSE y \in t : TRUE)
                                    + k[t \ {CHOOSE y \in t : TRUE}]]
           k == CHOOSE k : Body(k)
           g == [s \in T |-> V(s)]
<1>1. SumOfWorth(goal, T) = k[T]
  BY Zenon DEF SumOfWorth, MapThenSumSet, MapThenFoldSet
<1>2. IsFiniteSet(T)
  BY FS_Subset
<1>3. ASSUME NEW j  PROVE IsSum(j, g, T) <=> Body(j)
  <2>1. \A t \in SUBSET T : t # {} => g[First(t)] = V(CHOOSE y \in t : TRUE)
    BY FirstIsIn DEF First
  <2> DEFINE P(t) == IF t = {} THEN 0 ELSE g[First(t)] + j[t \ {First(t)}]
             Q(t) == IF t = {} THEN 0
                     ELSE V(CHOOSE y \in t : TRUE) + j[t \ {CHOOSE y \in t : TRUE}]
  <2> HIDE DEF g, V
  <2>2. \A t \in SUBSET T : P(t) = Q(t)
    BY <2>1 DEF First
  <2> HIDE DEF P, Q
  <2>3. [t \in SUBSET T |-> P(t)] = [t \in SUBSET T |-> Q(t)]
    BY <2>2
  <2> QED  BY <2>3 DEF IsSum, P, Q
<1>4. IsSum(k, g, T)
  <2>1. \E j : Body(j)
    BY <1>2, <1>3, SumExists
  <2> HIDE DEF Body
  <2> QED  BY <1>3, <2>1
<1>5. it[T] = k[T]
  <2>1. \A s \in T : f[s] = g[s]
    OBVIOUS
  <2>2. \A s \in T : f[s] = g[s] /\ T \in SUBSET S /\ T \subseteq T
    BY <2>1
  <2> HIDE DEF k, g, Body
  <2> QED  BY <1>4, <2>1, <2>2, SumsAgree
<1> QED  BY <1>1, <1>5

-----------------------------------------------------------------------------
(* What the facts say of the executions.                                    *)

\* A completed execution of now has its fact, which says what its row says.
Worthy(s) ==
  /\ schedule[s].state \in {"none", "open"} => schedule[s].completed_at = None
  /\ schedule[s].state = "open" => Native(s)
  /\ Native(s) /\ schedule[s].completed_at # None =>
       /\ fact[s] # None /\ fact[s].group = schedule[s].snapshot
       /\ schedule[s].completed_at <= schedule[s].expected_end_at
  /\ fact[s] # None =>
       /\ schedule[s].completed_at # None
       /\ fact[s].category = schedule[s].category
       /\ fact[s].completed_at = schedule[s].completed_at
       /\ fact[s].duration_minutes = schedule[s].completed_at - schedule[s].start
Matched == \A s \in ScheduleIds : Worthy(s)

LEMMA WorthyStays ==
  ASSUME NEW s \in ScheduleIds, Worthy(s), schedule'[s] = schedule[s], fact'[s] = fact[s]
  PROVE  Worthy(s)'
BY DEF Worthy, Native

\* Recording the fact of a completed execution, again or for the first time.
LEMMA RecordingMatches ==
  ASSUME IInv, NEW s \in ScheduleIds, Worthy(s), Eligible(s), UNCHANGED schedule,
         fact'[s] = record_completion(schedule, s)
  PROVE  Worthy(s)'
<1>1. CASE fact[s] # None
  BY <1>1, WorthyStays DEF record_completion
<1>2. CASE fact[s] = None
  <2>1. fact'[s] = Recorded(schedule, s)
    BY <1>2 DEF record_completion
  <2>2. schedule[s].state = "completed" /\ schedule[s].completed_at # None /\ ~Native(s)
    BY <1>2 DEF Eligible, IInv, Consistent, Worthy
  <2> QED  BY <2>1, <2>2 DEF Worthy, Native, Recorded
<1> QED  BY <1>1, <1>2

LEMMA StartMatches ==
  ASSUME IInv, NEW s \in ScheduleIds, NEW c \in Categories, NEW d \in Lengths,
         StartExecution(s, c, d), Matched
  PROVE  Matched'
<1> SUFFICES ASSUME NEW t \in ScheduleIds  PROVE Worthy(t)'
  BY DEF Matched
<1>1. fact' = fact /\ schedule \in [ScheduleIds -> ScheduleRows] /\ fact[s] = None
  BY DEF StartExecution, IInv, TypeOK, Consistent
<1>2. CASE t = s
  <2>1. groupOf[c] # None
    BY NoneAssumption DEF IInv, TypeOK
  <2>2. /\ schedule'[t].state = "open" /\ schedule'[t].completed_at = None
        /\ schedule'[t].snapshot = groupOf[c]
    BY <1>1, <1>2 DEF StartExecution
  <2> QED  BY <1>1, <1>2, <2>1, <2>2 DEF Worthy, Native
<1>3. CASE t # s
  BY <1>1, <1>3, WorthyStays DEF StartExecution, Matched
<1> QED  BY <1>2, <1>3

\* A change of the lock, or of the state when the row is deleted.
LEMMA RowMatches ==
  ASSUME IInv, NEW s \in ScheduleIds, NEW e \in ScheduleRows, Matched, UNCHANGED fact,
         schedule' = [schedule EXCEPT ![s] = e],
         \A f \in {"category", "snapshot", "start", "expected_end_at", "completed_at"} :
           e[f] = schedule[s][f],
         e.state \in {schedule[s].state, "deleted"}
  PROVE  Matched'
<1> SUFFICES ASSUME NEW t \in ScheduleIds  PROVE Worthy(t)'
  BY DEF Matched
<1>1. schedule \in [ScheduleIds -> ScheduleRows]
  BY DEF IInv, TypeOK
<1>2. CASE t = s
  <2>1. /\ e.category = schedule[s].category /\ e.snapshot = schedule[s].snapshot
        /\ e.start = schedule[s].start /\ e.completed_at = schedule[s].completed_at
        /\ e.expected_end_at = schedule[s].expected_end_at
    BY <1>1 DEF ScheduleRows
  <2>2. Worthy(s) /\ schedule'[s] = e
    BY <1>1 DEF Matched
  <2> QED  BY <1>2, <2>1, <2>2 DEF Worthy, Native
<1>3. CASE t # s
  BY <1>1, <1>3, WorthyStays DEF Matched
<1> QED  BY <1>2, <1>3

LEMMA CompletionMatches ==
  ASSUME IInv, NEW s \in ScheduleIds, complete_schedule(s), Matched
  PROVE  Matched'
<1> SUFFICES ASSUME NEW t \in ScheduleIds  PROVE Worthy(t)'
  BY DEF Matched
<1>1. /\ schedule[s] \in ScheduleRows /\ schedule \in [ScheduleIds -> ScheduleRows]
      /\ fact \in [ScheduleIds -> Facts \cup {None}] /\ Worthy(s) /\ Consistent(s) /\ Locked(s)
  BY DEF IInv, TypeOK, complete_schedule, Matched
<1> DEFINE rows == [schedule EXCEPT ![s].state = "completed", ![s].completed_at = EndOf(s),
                                    ![s].lock = None]
<1>2. schedule' = rows /\ fact' = [fact EXCEPT ![s] = record_completion(rows, s)]
  BY DEF complete_schedule
<1>3. CASE t = s
  <2>1. schedule[s].state = "open" /\ Native(s) /\ fact[s] = None
    BY <1>1 DEF Consistent, Worthy
  <2>2. /\ rows[s].state = "completed" /\ rows[s].completed_at = EndOf(s)
        /\ rows[s].snapshot = schedule[s].snapshot /\ rows[s].category = schedule[s].category
        /\ rows[s].start = schedule[s].start
        /\ rows[s].expected_end_at = schedule[s].expected_end_at
    BY <1>1 DEF ScheduleRows
  <2>3. /\ schedule[s].lock \in Times /\ schedule[s].expected_end_at \in Nat
        /\ schedule[s].start \in Nat
        /\ schedule[s].start <= schedule[s].lock
        /\ schedule[s].start <= schedule[s].expected_end_at
    BY <1>1, <2>1, ProgressBounds DEF ScheduleRows, Times, Locked, Consistent
  <2>4. /\ EndOf(s) \in Times /\ EndOf(s) # None
        /\ EndOf(s) <= schedule[s].expected_end_at /\ schedule[s].start <= EndOf(s)
    BY <2>3, NoneAssumption, ProgressBounds DEF EndOf, Times
  <2> HIDE DEF rows
  <2>5. fact'[s] = Recorded(rows, s) /\ schedule'[s] = rows[s]
    BY <1>1, <1>2, <2>1 DEF record_completion
  <2>6. Context(s) = schedule[s].snapshot
    BY <2>1 DEF Context
  <2>7. rows \in [ScheduleIds -> ScheduleRows]
    <3> DEFINE e == [schedule[s] EXCEPT !.state = "completed", !.completed_at = EndOf(s),
                                        !.lock = None]
    <3>1. rows = [schedule EXCEPT ![s] = e] /\ e \in ScheduleRows
      BY <1>1, <2>4 DEF rows, ScheduleRows
    <3> HIDE DEF e
    <3> QED  BY <1>1, <3>1
  <2>8. Recorded(rows, s) # None
    BY <2>2, <2>4, <2>7, RecordedIsFact DEF IInv
  <2> QED  BY <1>3, <2>1, <2>2, <2>4, <2>5, <2>6, <2>8 DEF Worthy, Native, Recorded
<1>4. CASE t # s
  <2>1. rows[t] = schedule[t] /\ fact'[t] = fact[t]
    BY <1>1, <1>2, <1>4
  <2> HIDE DEF rows
  <2> QED  BY <1>2, <2>1, WorthyStays DEF Matched
<1> QED  BY <1>3, <1>4

LEMMA FactsMatch ==
  ASSUME IInv, Matched, \/ \E s \in ScheduleIds : CompleteAgain(s)
                        \/ BackfillBatch \/ Enrich
  PROVE  Matched'
<1> SUFFICES ASSUME NEW t \in ScheduleIds  PROVE Worthy(t)'
  BY DEF Matched
<1>1. /\ UNCHANGED schedule /\ Worthy(t) /\ fact \in [ScheduleIds -> Facts \cup {None}]
  BY DEF CompleteAgain, BackfillBatch, Enrich, Matched, IInv
<1>2. CASE \E s \in ScheduleIds : CompleteAgain(s)
  <2>1. PICK s \in ScheduleIds : CompleteAgain(s)
    BY <1>2
  <2>2. CASE t = s
    BY <1>1, <2>1, <2>2, RecordingMatches DEF CompleteAgain
  <2>3. CASE t # s
    BY <1>1, <2>1, <2>3, WorthyStays DEF CompleteAgain
  <2> QED  BY <2>2, <2>3
<1>3. CASE BackfillBatch
  <2>1. \/ Eligible(t) /\ fact'[t] = record_completion(schedule, t)
        \/ fact'[t] = fact[t]
    BY <1>3 DEF BackfillBatch
  <2> QED  BY <1>1, <2>1, RecordingMatches, WorthyStays
<1>4. CASE Enrich
  <2>1. fact'[t] = fact[t] \/ (fact[t] # None /\ fact'[t] = [fact[t] EXCEPT !.enriched = TRUE])
    BY <1>4 DEF Enrich, Enriched
  <2>2. CASE fact'[t] = fact[t]
    BY <1>1, <2>2, WorthyStays
  <2>3. CASE fact[t] # None /\ fact'[t] = [fact[t] EXCEPT !.enriched = TRUE]
    <3>1. fact[t] \in Facts
      BY <1>1, <2>3
    <3>2. PICK f \in Facts : f = fact[t]
      BY <3>1
    <3>3. [f EXCEPT !.enriched = TRUE] \in Facts
      BY DEF Facts
    <3>4. /\ fact'[t] # None /\ fact'[t].category = f.category /\ fact'[t].group = f.group
          /\ fact'[t].completed_at = f.completed_at
          /\ fact'[t].duration_minutes = f.duration_minutes
      BY <2>3, <3>2, <3>3, NoneIsNoFact DEF Facts
    <3> QED  BY <1>1, <2>3, <3>2, <3>4 DEF Worthy, Native
  <2> QED  BY <2>1, <2>2, <2>3
<1> QED  BY <1>2, <1>3, <1>4

LEMMA Matches0 ==
  ASSUME Init
  PROVE  Matched
<1> SUFFICES ASSUME NEW s \in ScheduleIds  PROVE Worthy(s)
  BY DEF Matched
<1>1. PICK c \in Categories, valid \in BOOLEAN :
        /\ schedule \in {[t \in ScheduleIds |-> Absent(c)],
                         [t \in ScheduleIds |-> IF t = 1 THEN Legacy(c, valid) ELSE Absent(c)]}
        /\ fact \in {[t \in ScheduleIds |-> None],
                     [t \in ScheduleIds |->
                        IF schedule[t].state = "completed" /\ valid THEN OldFact(c) ELSE None]}
  BY DEF Init
<1>2. 0 # None
  BY NoneAssumption
<1> DEFINE a == Absent(c)
           l == Legacy(c, valid)
           f == OldFact(c)
<1>3. /\ a.state = "none" /\ a.completed_at = None /\ a.snapshot = None
      /\ l.state = "completed" /\ l.completed_at = 0 /\ l.snapshot = None
      /\ l.start = 0 /\ l.category = c
      /\ f.category = c /\ f.completed_at = 0 /\ f.duration_minutes = 0
  BY DEF Absent, Legacy, OldFact
<1>4. schedule[s] \in {a, l} /\ (fact[s] = None \/ (fact[s] = f /\ schedule[s].state = "completed"))
  BY <1>1
<1> HIDE DEF a, l, f
<1> QED  BY <1>2, <1>3, <1>4 DEF Worthy, Native

LEMMA MatchedHolds == Spec => [](IInv /\ Matched)
<1>1. ASSUME IInv, Matched, [Next]_vars  PROVE Matched'
  <2>1. CASE \E s \in ScheduleIds, c \in Categories, d \in Lengths : StartExecution(s, c, d)
    BY <1>1, <2>1, StartMatches
  <2>2. CASE \E s \in ScheduleIds : LockToComplete(s) \/ Rollback(s) \/ Delete(s)
    <3>1. PICK s \in ScheduleIds : LockToComplete(s) \/ Rollback(s) \/ Delete(s)
      BY <2>2
    <3>2. schedule[s] \in ScheduleRows /\ now \in Times /\ UNCHANGED fact
      BY <1>1, <3>1 DEF IInv, TypeOK, LockToComplete, Rollback, Delete
    <3>3. \E e \in {[schedule[s] EXCEPT !.lock = now], [schedule[s] EXCEPT !.lock = None],
                    [schedule[s] EXCEPT !.state = "deleted"]} :
            schedule' = [schedule EXCEPT ![s] = e]
      BY <1>1, <3>1 DEF LockToComplete, Rollback, Delete, IInv, TypeOK
    <3>4. PICK e : /\ schedule' = [schedule EXCEPT ![s] = e]
                   /\ e \in {[schedule[s] EXCEPT !.lock = now], [schedule[s] EXCEPT !.lock = None],
                             [schedule[s] EXCEPT !.state = "deleted"]}
      BY <3>3
    <3>5. /\ e \in ScheduleRows /\ e.state \in {schedule[s].state, "deleted"}
          /\ e.category = schedule[s].category /\ e.snapshot = schedule[s].snapshot
          /\ e.start = schedule[s].start /\ e.expected_end_at = schedule[s].expected_end_at
          /\ e.completed_at = schedule[s].completed_at
      BY <3>2, <3>4 DEF ScheduleRows
    <3> QED  BY <1>1, <3>2, <3>4, <3>5, RowMatches
  <2>3. CASE \E s \in ScheduleIds : complete_schedule(s)
    BY <1>1, <2>3, CompletionMatches
  <2>4. CASE (\E s \in ScheduleIds : CompleteAgain(s)) \/ BackfillBatch \/ Enrich
    BY <1>1, <2>4, FactsMatch
  <2>5. CASE UNCHANGED <<schedule, fact>>
    BY <1>1, <2>5, WorthyStays DEF Matched
  <2>6. \/ Tick \/ (\E c \in Categories, g \in Groups : MoveCategory(c, g)) \/ StartBackfill
        \/ EndBackfill \/ (\E w \in Weeks : Ask(w)) \/ progress_rows \/ pending_reconciliations
        \/ UNCHANGED vars
        => UNCHANGED <<schedule, fact>>
    BY DEF Tick, MoveCategory, StartBackfill, EndBackfill, Ask, progress_rows,
           pending_reconciliations, vars
  <2> QED  BY <1>1, <2>1, <2>2, <2>3, <2>4, <2>5, <2>6 DEF Next
<1> QED  BY <1>1, Matches0, Invariance, PTL DEF Spec

-----------------------------------------------------------------------------
(* The report adds up groups of facts, the executions one by one.           *)

\* What a fact is worth for a goal.
Weight(goal, s) == IF goal.metric = "minutes" THEN fact[s].duration_minutes ELSE 1
\* The facts of a row of completion_totals.
OfRow(row, counted) ==
  {s \in counted : fact[s].category = row.category /\ fact[s].group = row.group}
ForGoal(goal, s) == goal.is_all_groups \/ goal.destination \in {fact[s].group, fact[s].category}

LEMMA TotalsAreRows ==
  ASSUME IInv, NEW week, NEW asOf, NEW row \in completion_totals(week, asOf)
  PROVE  /\ row.minutes = SumOfMinutes(OfRow(row, Counted(week, asOf)))
         /\ row.sessions = Cardinality(OfRow(row, Counted(week, asOf)))
         /\ row = [category |-> row.category, group |-> row.group,
                   minutes |-> row.minutes, sessions |-> row.sessions]
         /\ \E s \in Counted(week, asOf) : s \in OfRow(row, Counted(week, asOf))
<1> DEFINE counted == Counted(week, asOf)
           Of(pair) == {s \in counted : <<fact[s].category, fact[s].group>> = pair}
<1>1. PICK s \in counted :
        row = [category |-> fact[s].category, group |-> fact[s].group,
               minutes |-> SumOfMinutes(Of(<<fact[s].category, fact[s].group>>)),
               sessions |-> Cardinality(Of(<<fact[s].category, fact[s].group>>))]
  <2>1. PICK pair \in {<<fact[s].category, fact[s].group>> : s \in counted} :
          row = [category |-> pair[1], group |-> pair[2],
                 minutes |-> SumOfMinutes(Of(pair)), sessions |-> Cardinality(Of(pair))]
    BY Zenon DEF completion_totals, SumOfMinutes
  <2>2. PICK s \in counted : pair = <<fact[s].category, fact[s].group>>
    BY <2>1
  <2>3. pair[1] = fact[s].category /\ pair[2] = fact[s].group
    BY <2>2
  <2> HIDE DEF Of, counted
  <2> QED  BY <2>1, <2>2, <2>3
<1>2. Of(<<fact[s].category, fact[s].group>>)
        = {t \in counted : fact[t].category = fact[s].category /\ fact[t].group = fact[s].group}
  OBVIOUS
<1>3. row.category = fact[s].category /\ row.group = fact[s].group
  <2> HIDE DEF Of
  <2> QED  BY <1>1
<1>4. OfRow(row, counted) = Of(<<fact[s].category, fact[s].group>>)
  BY <1>2, <1>3 DEF OfRow
<1>5. s \in OfRow(row, counted)
  BY <1>3 DEF OfRow
<1>6. row.minutes = SumOfMinutes(OfRow(row, counted)) /\ row.sessions = Cardinality(OfRow(row, counted))
  <2> HIDE DEF Of, counted
  <2> QED  BY <1>1, <1>4
<1>7. row = [category |-> row.category, group |-> row.group,
             minutes |-> row.minutes, sessions |-> row.sessions]
  <2> HIDE DEF Of, counted
  <2> QED  BY <1>1
<1> QED  BY <1>5, <1>6, <1>7

LEMMA FactsHaveRows ==
  ASSUME NEW week, NEW asOf, NEW s \in Counted(week, asOf)
  PROVE  \E row \in completion_totals(week, asOf) :
           row.category = fact[s].category /\ row.group = fact[s].group
<1> DEFINE counted == Counted(week, asOf)
           Of(pair) == {t \in counted : <<fact[t].category, fact[t].group>> = pair}
           RowFor(pair) == [category |-> pair[1], group |-> pair[2],
                            minutes |-> SumOfMinutes(Of(pair)), sessions |-> Cardinality(Of(pair))]
<1>1. RowFor(<<fact[s].category, fact[s].group>>) \in completion_totals(week, asOf)
  BY Zenon DEF completion_totals, SumOfMinutes
<1>2. /\ RowFor(<<fact[s].category, fact[s].group>>).category = fact[s].category
      /\ RowFor(<<fact[s].category, fact[s].group>>).group = fact[s].group
  <2> HIDE DEF Of
  <2> QED  OBVIOUS
<1> HIDE DEF RowFor
<1> QED  BY <1>1, <1>2

LEMMA GoalsAddUp ==
  ASSUME IInv, NEW goal \in Goals, NEW week, NEW asOf
  PROVE  \E it : /\ IsSum(it, [s \in Counted(week, asOf) |-> Weight(goal, s)], Counted(week, asOf))
                 /\ Achieved(goal, completion_totals(week, asOf))
                      = it[{s \in Counted(week, asOf) : ForGoal(goal, s)}]
<1> DEFINE counted == Counted(week, asOf)
           rows == completion_totals(week, asOf)
           R == {row \in rows : Matches(goal, row)}
           f == [s \in counted |-> Weight(goal, s)]
           G == [row \in R |-> OfRow(row, counted)]
           h == [row \in R |-> IF goal.metric = "minutes" THEN row.minutes ELSE row.sessions]
<1>1. counted \in SUBSET ScheduleIds /\ IsFiniteSet(counted)
  <2>1. counted \in SUBSET ScheduleIds
    BY DEF Counted
  <2> HIDE DEF counted
  <2> QED  BY <2>1, Small
<1>2. \A s \in counted : f[s] \in Int
  <2>1. \A s \in counted : fact[s] \in Facts
    BY DEF Counted, IInv
  <2>2. \A s \in counted : fact[s].duration_minutes \in Nat
    BY <2>1 DEF Facts
  <2> HIDE DEF counted
  <2> QED  BY <2>2 DEF Weight
<1>3. PICK it : IsSum(it, f, counted)
  <2> HIDE DEF f, counted
  <2> QED  BY <1>1, SumExists
<1>4. ASSUME NEW row \in R
      PROVE  /\ OfRow(row, counted) \in SUBSET counted
             /\ h[row] = it[OfRow(row, counted)]
  <2> DEFINE T == OfRow(row, counted)
  <2>1. T \in SUBSET counted /\ row \in rows
    BY DEF OfRow
  <2>2. /\ row.minutes = SumOfMinutes(T)
        /\ row.sessions = Cardinality(T)
    BY <2>1, TotalsAreRows
  <2>3. CASE goal.metric = "minutes"
    <3>1. \A s \in T : f[s] = fact[s].duration_minutes
      BY <2>1, <2>3 DEF Weight
    <3> HIDE DEF T, f, counted
    <3>2. SumOfMinutes(T) = it[T]
      BY <1>1, <1>3, <2>1, <3>1, MinutesAreSummed
    <3> QED  BY <2>1, <2>2, <2>3, <3>2 DEF T
  <2>4. CASE goal.metric # "minutes"
    <3>1. \A s \in counted : f[s] = 1
      BY <2>4 DEF Weight
    <3> HIDE DEF T, f, counted
    <3>2. it[T] = Cardinality(T)
      BY <1>1, <1>3, <2>1, <3>1, SumOfOnes
    <3> QED  BY <2>1, <2>2, <2>4, <3>2 DEF T
  <2> QED  BY <2>3, <2>4
<1>5. ASSUME NEW p \in R, NEW q \in R, NEW s \in OfRow(p, counted), s \in OfRow(q, counted)
      PROVE  p = q
  <2>1. p.category = q.category /\ p.group = q.group
    BY <1>5 DEF OfRow
  <2>2. OfRow(p, counted) = OfRow(q, counted)
    BY <2>1 DEF OfRow
  <2>3. p.minutes = q.minutes /\ p.sessions = q.sessions
    BY <2>2, TotalsAreRows
  <2>4. /\ p = [category |-> p.category, group |-> p.group,
                minutes |-> p.minutes, sessions |-> p.sessions]
        /\ q = [category |-> q.category, group |-> q.group,
                minutes |-> q.minutes, sessions |-> q.sessions]
    BY TotalsAreRows
  <2> QED  BY <2>1, <2>3, <2>4
<1>6. IsFiniteSet(R)
  <2>1. \A row \in R : \E s \in counted : s \in OfRow(row, counted)
    BY TotalsAreRows
  <2> DEFINE first == [row \in R |-> CHOOSE s \in counted : s \in OfRow(row, counted)]
  <2>2. \A row \in R : first[row] \in counted /\ first[row] \in OfRow(row, counted)
    BY <2>1
  <2>3. first \in Injection(R, counted)
    <3>1. first \in [R -> counted]
      BY <2>2
    <3>2. \A p, q \in R : first[p] = first[q] => p = q
      BY <1>5, <2>2
    <3> HIDE DEF first, R, counted
    <3> QED  BY <3>1, <3>2 DEF Injection, IsInjective
  <2> HIDE DEF first, R, counted
  <2> QED  BY <1>1, <2>3, FS_Injection
<1>7. PICK jt : /\ IsSum(jt, h, R)
                /\ SumOfRows(goal, R) = jt[R]
  BY <1>6, RowsAreSummed
<1>8. jt[R] = it[UNION {G[row] : row \in R}]
  <2>1. G \in [R -> SUBSET counted]
    BY <1>4
  <2>2. \A p, q \in R : p # q => G[p] \cap G[q] = {}
    BY <1>5
  <2>3. \A row \in R : h[row] = it[G[row]]
    BY <1>4
  <2> HIDE DEF G, R, h, f, counted
  <2> QED  BY <1>1, <1>2, <1>3, <1>6, <1>7, <2>1, <2>2, <2>3, SumOfGroups
<1>9. UNION {G[row] : row \in R} = {s \in counted : ForGoal(goal, s)}
  <2>1. ASSUME NEW row \in R, NEW s \in OfRow(row, counted)
        PROVE  s \in counted /\ ForGoal(goal, s)
    BY DEF OfRow, ForGoal, Matches
  <2>2. ASSUME NEW s \in counted, ForGoal(goal, s)
        PROVE  \E row \in R : s \in OfRow(row, counted)
    <3>1. PICK row \in rows : row.category = fact[s].category /\ row.group = fact[s].group
      BY FactsHaveRows
    <3>2. row \in R /\ s \in OfRow(row, counted)
      BY <2>2, <3>1 DEF Matches, ForGoal, OfRow
    <3> QED  BY <3>2
  <2> HIDE DEF R, counted
  <2> QED  BY <2>1, <2>2
<1>10. Achieved(goal, rows) = jt[R]
  BY <1>7, Zenon DEF Achieved, SumOfRows
<1> QED  BY <1>3, <1>8, <1>9, <1>10

\* The executions a report of the week is to add up, as the property says.
Deserving(goal, week, asOf) ==
  {s \in ScheduleIds :
     /\ schedule[s].completed_at # None /\ (Native(s) \/ fact[s] # None)
     /\ InWindow(EndedAt(s), week, asOf)
     /\ \/ goal.is_all_groups
        \/ goal.destination \in {StartedIn(s), schedule[s].category}}

LEMMA FactsTellExecutions ==
  ASSUME IInv, Matched, NEW s \in ScheduleIds, fact[s] # None
  PROVE  /\ schedule[s].completed_at # None
         /\ EndedAt(s) = fact[s].completed_at
         /\ StartedIn(s) = fact[s].group /\ schedule[s].category = fact[s].category
         /\ fact[s].duration_minutes = EndedAt(s) - schedule[s].start
<1>1. /\ schedule[s] \in ScheduleRows /\ Worthy(s)
  BY DEF IInv, TypeOK, Matched
<1>2. /\ schedule[s].completed_at # None /\ schedule[s].completed_at \in Nat
      /\ schedule[s].expected_end_at \in Nat
  BY <1>1, ProgressBounds DEF Worthy, ScheduleRows, Times
<1>3. ASSUME Native(s)
      PROVE  Min({schedule[s].completed_at, schedule[s].expected_end_at}) = schedule[s].completed_at
  <2>1. schedule[s].completed_at <= schedule[s].expected_end_at
    BY <1>1, <1>2, <1>3 DEF Worthy
  <2> DEFINE a == schedule[s].completed_at
             b == schedule[s].expected_end_at
  <2> HIDE DEF a, b
  <2>2. a \in Nat /\ b \in Nat /\ a <= b
    BY <1>2, <2>1 DEF a, b
  <2>3. Min({a, b}) = a
    BY <2>2 DEF Min
  <2> QED  BY <2>3 DEF a, b
<1> QED  BY <1>1, <1>2, <1>3 DEF Worthy, EndedAt, StartedIn

LEMMA CountedAreDeserving ==
  ASSUME IInv, Matched, NEW goal \in Goals, NEW week, NEW asOf
  PROVE  {s \in Counted(week, asOf) : ForGoal(goal, s)} = Deserving(goal, week, asOf)
<1>1. ASSUME NEW s \in ScheduleIds
      PROVE  s \in Counted(week, asOf) /\ ForGoal(goal, s) <=> s \in Deserving(goal, week, asOf)
  <2>1. CASE fact[s] = None
    <3>1. Worthy(s)
      BY DEF Matched
    <3> QED  BY <2>1, <3>1 DEF Counted, Deserving, Worthy
  <2>2. CASE fact[s] # None
    BY <2>2, FactsTellExecutions DEF Counted, Deserving, ForGoal
  <2> QED  BY <2>1, <2>2
<1> QED  BY <1>1 DEF Counted, Deserving

LEMMA GoalsGetTheirWorth ==
  ASSUME IInv, Matched, NEW goal \in Goals, NEW week, NEW asOf
  PROVE  Achieved(goal, completion_totals(week, asOf)) = SumOfWorth(goal, Deserving(goal, week, asOf))
<1> DEFINE counted == Counted(week, asOf)
           f == [s \in counted |-> Weight(goal, s)]
           T == Deserving(goal, week, asOf)
<1>1. PICK it : /\ IsSum(it, f, counted)
                /\ Achieved(goal, completion_totals(week, asOf)) = it[T]
  BY GoalsAddUp, CountedAreDeserving
<1>2. T \in SUBSET counted /\ IsFiniteSet(counted)
  <2>1. T \in SUBSET counted
    BY CountedAreDeserving
  <2>2. counted \in SUBSET ScheduleIds
    BY DEF Counted
  <2> HIDE DEF counted, T
  <2> QED  BY <2>1, <2>2, Small
<1>3. ASSUME NEW s \in T  PROVE f[s] = Worth(goal, s)
  <2>1. s \in counted /\ s \in ScheduleIds /\ fact[s] # None
    BY <1>2 DEF Counted
  <2>2. goal.metric \in {"minutes", "sessions"}
    BY GoalsAssumption
  <2> QED  BY <2>1, <2>2, FactsTellExecutions DEF Weight, Worth
<1> HIDE DEF counted, f, T
<1>4. SumOfWorth(goal, T) = it[T]
  BY <1>1, <1>2, <1>3, WorthIsSummed
<1> QED  BY <1>1, <1>4 DEF T

(* A report gives every goal what the executions of its week are worth,     *)
(* each once, in the category and group it started in, for any executions,  *)
(* moves, deletions and backfills (weekly_goals.py:131-167).                *)
THEOREM ReportsAddUpExecutions == Spec => TotalsMatchExecutions
<1>1. ASSUME IInv, Matched, [Next]_vars, report.step = "asked", report'.step = "rows",
             NEW goal \in Goals
      PROVE  report'.achieved[goal] = SumOfWorth(goal, Deserving(goal, report.week, report.as_of))
  <2>1. progress_rows
    <3>1. report' # report
      BY <1>1
    <3> QED  BY <1>1, <3>1 DEF Next, vars, Tick, StartExecution, LockToComplete, complete_schedule,
               Rollback, CompleteAgain, Delete, MoveCategory, StartBackfill, BackfillBatch,
               EndBackfill, Enrich, Ask, pending_reconciliations, NoReport
  <2> DEFINE achieved == [g \in Goals |-> Achieved(g, completion_totals(report.week, report.as_of))]
             counted == Counted(report.week, report.as_of)
  <2>2. /\ report' = [report EXCEPT !.step = "rows", !.counted = counted, !.achieved = achieved]
        /\ report = [step |-> report.step, week |-> report.week, as_of |-> report.as_of,
                     achieved |-> report.achieved, counted |-> report.counted,
                     pending |-> report.pending]
    BY <1>1, <2>1 DEF progress_rows, IInv, Reports
  <2>3. report'.achieved = achieved
    <3> HIDE DEF achieved, counted
    <3> QED  BY <2>2
  <2>4. achieved[goal] = Achieved(goal, completion_totals(report.week, report.as_of))
    OBVIOUS
  <2> HIDE DEF achieved
  <2> QED  BY <1>1, <2>3, <2>4, GoalsGetTheirWorth
<1>2. IInv /\ Matched /\ [Next]_vars =>
        [report.step = "asked" /\ report'.step = "rows" =>
           \A goal \in Goals :
             report'.achieved[goal] = MapThenSumSet(LAMBDA s : Worth(goal, s),
               {s \in ScheduleIds :
                  /\ schedule[s].completed_at # None /\ (Native(s) \/ fact[s] # None)
                  /\ InWindow(EndedAt(s), report.week, report.as_of)
                  /\ \/ goal.is_all_groups
                     \/ goal.destination \in {StartedIn(s), schedule[s].category}})]_vars
  BY <1>1, Zenon DEF SumOfWorth, Deserving
<1> QED  BY <1>2, MatchedHolds, PTL DEF Spec, TotalsMatchExecutions

=============================================================================
