--------------------------- MODULE WeeklyProgress ---------------------------
(***************************************************************************)
(* The progress of the weekly goals: the immutable facts of completed      *)
(* executions, the backfill and the enrichment of the older ones, and the  *)
(* report of a week.                                                       *)
(*                                                                         *)
(* complete_schedule reads the clock while it holds the row of the         *)
(* execution and commits later; the report makes its queries one after the *)
(* other, outside any transaction, each on what is committed by then.      *)
(*                                                                         *)
(* Abstracted: activities (an execution is of a category), queues (their   *)
(* side of a completion is in ActivityQueues), the signals of skips and    *)
(* the reasons for which a legacy row is left out.                         *)
(***************************************************************************)
EXTENDS Integers, FiniteSets, FiniteSetsExt

CONSTANTS
  Groups, Categories,
  Goals,          \* the goals of a report: [metric, destination, is_all_groups]
  WeekLength,
  MaxTime,        \* bound of the instance
  None,           \* no row, no value
  MaxSchedules,   \* executions, in the order of their primary keys
  Lengths,        \* planned minutes of an execution
  BatchSize,      \* --batch-size
  MaxRuns         \* runs of the backfill

ASSUME ProgressBounds ==
  MaxTime \in Nat /\ MaxSchedules \in Nat /\ Lengths \subseteq Nat /\ MaxRuns \in Nat
ASSUME WeekAssumption == WeekLength \in Nat \ {0}
ASSUME BatchAssumption == BatchSize \in Nat \ {0}
ASSUME GoalsAssumption == \A goal \in Goals : goal.metric \in {"minutes", "sessions"}
ASSUME NoneAssumption == None \notin Groups /\ None \notin Nat

VARIABLES
  now,
  groupOf,     \* the group each category is in now
  schedule,    \* Schedule rows with their History
  fact,        \* GoalCompletion rows
  fill,        \* the run of backfill_goal_completions
  report,      \* a request of the progress of a week
  reported     \* history: the facts the last report of each week counted

vars == <<now, groupOf, schedule, fact, fill, report, reported>>

-----------------------------------------------------------------------------
ScheduleIds == 1 .. MaxSchedules
Times == 0 .. MaxTime
Weeks == Times

current_week(time) == time \div WeekLength

ScheduleRows ==
  [state : {"none", "open", "completed", "deleted"}, category : Categories,
   snapshot : Groups \cup {None}, start : Times, expected_end_at : Nat,
   completed_at : Times \cup {None}, lock : Times \cup {None}, valid : BOOLEAN]

Facts ==
  [category : Categories, group : Groups, completed_at : Times,
   duration_minutes : Nat, enriched : BOOLEAN]

ASSUME NoneIsNoFact == None \notin Facts

Locked(s)  == schedule[s].lock # None
Row(s)     == schedule[s].state \in {"open", "completed"}
Native(s)  == schedule[s].snapshot # None

(* completion_values: an execution that is completed and consistent, in the *)
(* context of its start or, for a legacy one, in the present one.           *)
Eligible(s) == schedule[s].state = "completed" /\ schedule[s].valid

\* Variant for a mutant: the present group is used for every execution.
ContextNow(s) == groupOf[schedule[s].category]
Context(s) == IF Native(s) THEN schedule[s].snapshot ELSE groupOf[schedule[s].category]

Recorded(rows, s) ==
  [category |-> rows[s].category, group |-> Context(s),
   completed_at |-> rows[s].completed_at,
   duration_minutes |-> rows[s].completed_at - rows[s].start, enriched |-> TRUE]

\* Variant for a mutant: a fact that is there is written again.
record_completionAgain(rows, s) == Recorded(rows, s)
record_completion(rows, s) ==
  IF fact[s] # None THEN fact[s] ELSE Recorded(rows, s)

-----------------------------------------------------------------------------
(* Executions.                                                              *)

Tick ==
  /\ now < MaxTime
  /\ now' = now + 1
  /\ UNCHANGED <<groupOf, schedule, fact, fill, report, reported>>

StartExecution(s, c, d) ==
  /\ schedule[s].state = "none"
  /\ s > 1 => schedule[s - 1].state # "none"
  /\ schedule' = [schedule EXCEPT ![s] =
       [state |-> "open", category |-> c, snapshot |-> groupOf[c], start |-> now,
        expected_end_at |-> now + d, completed_at |-> None, lock |-> None, valid |-> TRUE]]
  /\ UNCHANGED <<now, groupOf, fact, fill, report, reported>>

(* complete_schedule has the row and reads the clock.                       *)
LockToComplete(s) ==
  /\ schedule[s].state = "open"
  /\ ~Locked(s)
  /\ schedule' = [schedule EXCEPT ![s].lock = now]
  /\ UNCHANGED <<now, groupOf, fact, fill, report, reported>>

\* Variant for a mutant: the planned end is taken, however early the call is.
EndOfPlan(s) == schedule[s].expected_end_at
EndOf(s) ==
  IF schedule[s].lock <= schedule[s].expected_end_at
    THEN schedule[s].lock ELSE schedule[s].expected_end_at

complete_schedule(s) ==
  LET rows == [schedule EXCEPT ![s].state = "completed",
                               ![s].completed_at = EndOf(s),
                               ![s].lock = None]
  IN /\ Locked(s)
     /\ schedule' = rows
     /\ fact' = [fact EXCEPT ![s] = record_completion(rows, s)]
     /\ UNCHANGED <<now, groupOf, fill, report, reported>>

(* The transaction is rolled back: an error, or the process dies.           *)
Rollback(s) ==
  /\ Locked(s)
  /\ schedule' = [schedule EXCEPT ![s].lock = None]
  /\ UNCHANGED <<now, groupOf, fact, fill, report, reported>>

(* A call for a completed execution records the fact that is missing.       *)
CompleteAgain(s) ==
  /\ Eligible(s)
  /\ fact' = [fact EXCEPT ![s] = record_completion(schedule, s)]
  /\ UNCHANGED <<now, groupOf, schedule, fill, report, reported>>

(* A deleted activity takes its executions along, and not their facts.      *)
Delete(s) ==
  /\ Row(s)
  /\ ~Locked(s)
  /\ schedule' = [schedule EXCEPT ![s].state = "deleted"]
  /\ UNCHANGED <<now, groupOf, fact, fill, report, reported>>

MoveCategory(c, g) ==
  /\ groupOf[c] # g
  /\ groupOf' = [groupOf EXCEPT ![c] = g]
  /\ UNCHANGED <<now, schedule, fact, fill, report, reported>>

-----------------------------------------------------------------------------
(* The commands.  A --dry-run changes nothing.                              *)

Existing == {s \in ScheduleIds : Row(s)}

StartBackfill ==
  /\ ~fill.running
  /\ fill.runs < MaxRuns
  /\ fill' = [running |-> TRUE, last |-> 0, runs |-> fill.runs + 1,
              upper |-> IF Existing = {} THEN 0 ELSE Max(Existing)]
  /\ UNCHANGED <<now, groupOf, schedule, fact, report, reported>>

\* Variant for a mutant: the rows are looked for by position.
BatchSkipping ==
  {s \in Existing : s > fill.last + 1 /\ s <= fill.upper
     /\ Cardinality({t \in Existing : t > fill.last /\ t <= s}) <= BatchSize}
Batch ==
  {s \in Existing : s > fill.last /\ s <= fill.upper
     /\ Cardinality({t \in Existing : t > fill.last /\ t <= s}) <= BatchSize}

(* One transaction, with the rows of the batch locked.                      *)
BackfillBatch ==
  /\ fill.running
  /\ Batch # {}
  /\ \A s \in Batch : ~Locked(s)
  /\ fact' = [s \in ScheduleIds |->
       IF s \in Batch /\ Eligible(s) THEN record_completion(schedule, s) ELSE fact[s]]
  /\ fill' = [fill EXCEPT !.last = Max(Batch)]
  /\ UNCHANGED <<now, groupOf, schedule, report, reported>>

EndBackfill ==
  /\ fill.running
  /\ Batch = {}
  /\ fill' = [fill EXCEPT !.running = FALSE]
  /\ UNCHANGED <<now, groupOf, schedule, fact, report, reported>>

(* enrich_goal_completion_facts, for the executions that are still there.   *)
Enriched(s) == [fact[s] EXCEPT !.enriched = TRUE]

Enrich ==
  /\ fact' = [s \in ScheduleIds |->
       IF fact[s] # None /\ Row(s) THEN Enriched(s) ELSE fact[s]]
  /\ UNCHANGED <<now, groupOf, schedule, fill, report, reported>>

-----------------------------------------------------------------------------
(* The report of a week.                                                    *)

InWindow(time, week, asOf) == current_week(time) = week /\ time <= asOf

Counted(week, asOf) ==
  {s \in ScheduleIds : fact[s] # None /\ InWindow(fact[s].completed_at, week, asOf)}

(* One grouped query: a row per category and group of the facts.            *)
completion_totals(week, asOf) ==
  LET counted == Counted(week, asOf)
      Of(pair) == {s \in counted : <<fact[s].category, fact[s].group>> = pair}
  IN {[category |-> pair[1], group |-> pair[2],
       minutes |-> MapThenSumSet(LAMBDA s : fact[s].duration_minutes, Of(pair)),
       sessions |-> Cardinality(Of(pair))] :
        pair \in {<<fact[s].category, fact[s].group>> : s \in counted}}

(* The rows a goal adds up: all of them, those of its group or of its       *)
(* category.                                                                *)
Matches(goal, row) == goal.is_all_groups \/ goal.destination \in {row.group, row.category}

Achieved(goal, rows) ==
  MapThenSumSet(LAMBDA row : IF goal.metric = "minutes" THEN row.minutes ELSE row.sessions,
                {row \in rows : Matches(goal, row)})

NoReport == [step |-> "none", week |-> 0, as_of |-> 0, achieved |-> <<>>,
             counted |-> {}, pending |-> 0]

Ask(week) ==
  /\ report.step = "none"
  /\ week <= current_week(now)
  /\ report' = [NoReport EXCEPT !.step = "asked", !.week = week, !.as_of = now]
  /\ UNCHANGED <<now, groupOf, schedule, fact, fill, reported>>

progress_rows ==
  LET rows == completion_totals(report.week, report.as_of)
      counted == Counted(report.week, report.as_of)
  IN /\ report.step = "asked"
     /\ report' = [report EXCEPT !.step = "rows", !.counted = counted,
                     !.achieved = [goal \in Goals |-> Achieved(goal, rows)]]
     /\ reported' = [reported EXCEPT ![report.week] =
          {<<s, [fact[s] EXCEPT !.enriched = TRUE]>> : s \in counted}]
     /\ UNCHANGED <<now, groupOf, schedule, fact, fill>>

Pending(week, asOf) ==
  {s \in ScheduleIds : /\ schedule[s].state = "open"
                       /\ InWindow(schedule[s].expected_end_at, week, asOf)}

(* The last query, and the answer.                                          *)
pending_reconciliations ==
  /\ report.step = "rows"
  /\ report' = [NoReport EXCEPT !.pending = Cardinality(Pending(report.week, report.as_of))]
  /\ UNCHANGED <<now, groupOf, schedule, fact, fill, reported>>

-----------------------------------------------------------------------------
(* Legacy executions come first; they have no snapshot of their context,    *)
(* and some have a fact of an older version.                                *)
Absent(c) ==
  [state |-> "none", category |-> c, snapshot |-> None, start |-> 0,
   expected_end_at |-> 0, completed_at |-> None, lock |-> None, valid |-> TRUE]
Legacy(c, valid) ==
  [Absent(c) EXCEPT !.state = "completed", !.completed_at = 0, !.valid = valid]
OldFact(c) ==
  [category |-> c, group |-> groupOf[c], completed_at |-> 0,
   duration_minutes |-> 0, enriched |-> FALSE]

Init ==
  /\ now = 0
  /\ groupOf \in [Categories -> Groups]
  /\ \E c \in Categories, valid \in BOOLEAN :
       /\ schedule \in {[s \in ScheduleIds |-> Absent(c)],
                        [s \in ScheduleIds |-> IF s = 1 THEN Legacy(c, valid) ELSE Absent(c)]}
       /\ fact \in {[s \in ScheduleIds |-> None],
                    [s \in ScheduleIds |->
                       IF schedule[s].state = "completed" /\ valid THEN OldFact(c) ELSE None]}
  /\ fill = [running |-> FALSE, last |-> 0, upper |-> 0, runs |-> 0]
  /\ report = NoReport
  /\ reported = [w \in Weeks |-> {}]

Next ==
  \/ Tick
  \/ \E s \in ScheduleIds, c \in Categories, d \in Lengths : StartExecution(s, c, d)
  \/ \E s \in ScheduleIds :
       \/ LockToComplete(s)
       \/ complete_schedule(s)
       \/ Rollback(s)
       \/ CompleteAgain(s)
       \/ Delete(s)
  \/ \E c \in Categories, g \in Groups : MoveCategory(c, g)
  \/ StartBackfill
  \/ BackfillBatch
  \/ EndBackfill
  \/ Enrich
  \/ \E w \in Weeks : Ask(w)
  \/ progress_rows
  \/ pending_reconciliations

Spec == Init /\ [][Next]_vars

-----------------------------------------------------------------------------
(* Properties.                                                              *)

TypeOK ==
  /\ now \in Times
  /\ groupOf \in [Categories -> Groups]
  /\ schedule \in [ScheduleIds -> ScheduleRows]
  /\ \A s \in ScheduleIds : fact[s] # None => fact[s] \in Facts
  /\ report.counted \subseteq ScheduleIds /\ report.pending \in 0 .. MaxSchedules

(* A goal has what the executions of the week are worth: each one that was  *)
(* completed counts once, when it ended or, reconciled late, when it was    *)
(* due, in the category and the group it started in, whatever was moved,    *)
(* deleted or repeated since; a goal for all groups counts them all         *)
(* (weekly_goals.py:131-167, activity_execution.py:355-356).                *)
EndedAt(s) ==
  IF Native(s) THEN Min({schedule[s].completed_at, schedule[s].expected_end_at})
               ELSE schedule[s].completed_at
StartedIn(s) == IF Native(s) THEN schedule[s].snapshot ELSE fact[s].group
Worth(goal, s) == IF goal.metric = "sessions" THEN 1 ELSE EndedAt(s) - schedule[s].start

TotalsMatchExecutions ==
  [][report.step = "asked" /\ report'.step = "rows" =>
      \A goal \in Goals :
        report'.achieved[goal] = MapThenSumSet(LAMBDA s : Worth(goal, s),
          {s \in ScheduleIds :
             /\ schedule[s].completed_at # None /\ (Native(s) \/ fact[s] # None)
             /\ InWindow(EndedAt(s), report.week, report.as_of)
             /\ \/ goal.is_all_groups
                \/ goal.destination \in {StartedIn(s), schedule[s].category}})]_vars

(* The report of a week never takes back what an earlier one counted, nor   *)
(* counts it elsewhere or for other minutes (goal_completions.py:42-51).    *)
ProgressOnlyGrows ==
  [][\A w \in Weeks : reported[w] \subseteq reported'[w]]_vars

(* After a run of the backfill every consistent completed execution it was  *)
(* to look at has its fact (backfill_goal_completions.py:22-48).            *)
BackfillLeavesNoGap ==
  ~fill.running =>
    \A s \in 1 .. fill.upper : Eligible(s) => fact[s] # None

=============================================================================
