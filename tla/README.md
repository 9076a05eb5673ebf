# Verification of the pomodoro backend

TLA+ models of the Django backend in `src/`, model-checked with TLC on small
instances, and theorems about them checked by TLAPS. Paths below are relative
to `src/` (`services/x.py` stands for `src/apps/pomodoro/services/x.py`).

The backend serves several clients at once: gunicorn runs two worker processes
of two threads each, a separate container processes movie imports, and
PostgreSQL runs every transaction under READ COMMITTED. What is hard about it
is not the arithmetic of one request but what several requests, an edit in the
admin, a retry or a stopped worker do to each other. The models are about that.

## 1. The system

| Component | State | Operations | Hard behaviour | What makes it correct |
|---|---|---|---|---|
| Activity queues (`services/activity_queue.py`, `activity_queue_reconciliation.py`) | `ActivityQueue`, `ActivityQueueItem` | next, skip, recreate, start, the premium job, reconciliation after an edit | many writers of item states and counters, review queues, edits below an active queue | one active queue per scope and group; items agree with executions; a review repeats exactly what was skipped; counters agree with items; edits and reads clear foreign items |
| Executions (`services/activity_execution.py`, `views.py`) | `Schedule` | start from a queue, complete, complete by a reader when overdue | the row of the activity is read before the transaction; any read completes an overdue execution | one open execution per scope; completed executions are final; overdue ones end |
| Direct executions (`premium_execution.py`, `retro_execution.py`, `direct_execution.py`) | `Schedule`, `ExecutionIdempotency` | start or continue a premium period or a retro game | retries with the same key, several locks, unique indexes, deadlocks | it is the service of `ExecutionService`: one execution at a time, one answer per key, nothing starts in an ended period |
| Weekly goals (`weekly_goals.py`, `repositories/weekly_goals.py`, `weekly_goal_views.py`) | `WeeklyGoal`, `WeeklyGoalRevision` | create, edit, report of a week | the week of an edit is captured before the transaction that waits for the goal; a report is several statements | in every week a goal is what the edits up to that week say; a report is worth what the executions are worth |
| Facts of the weekly goals (`goal_completions.py`, `goal_activity_skips.py`, two commands) | `GoalCompletion`, skip facts | recorded inside complete and skip, backfilled in batches, enriched | recorded by several paths, of executions that are deleted and categories that move | one fact per completed execution, never rewritten; a backfill leaves no gap |
| Movie draws and tiers (`movie_draw.py`, `movie_tiers.py`, `movie_catalog.py`, `movie_progress.py`) | draws, collection states, progress, tier ratings, command ledger | draw, dismiss, accept, set progress, rebalance tiers | delayed, repeated and colliding commands with optimistic versions, edits of the catalogue below them | one reservation per collection; a reserved movie is unwatched; no lost update; tier capacities |
| Movie import jobs (`movie_import_jobs.py`, `jobs/movie_import.py`, `process_movie_imports.py`) | `MovieImportJob`, files, the catalogue | upload, confirm, preview, apply, recover | workers that stop anywhere, commit answers that are lost, permissions that are revoked | a file is saved exactly when its job is done; a job has one worker; queued jobs are processed |
| Routine plan (`routines.py`, `repositories/routines.py`) | `RoutinePlan`, revisions, exceptions, suspensions | save a revision, apply the template, cancel, move, shorten, replace, suspend, resume | revisions, exceptions and suspensions that were each valid alone meet on a day | the agenda stays readable; no edit of the plan changes what it said of occurrences that are past |
| Retro games progress (`retro_progress.py`, `retro_catalog.py`) | `RetroGameProgress`, one versioned row per game | set progress, ensure started, lists by status | there is no row to lock before the first change, which two paths make | a status is replaced only by who had read it; each game is in one list |
| Retro catalogue import (`retrogames_catalog_import.py` and its command) | group, categories, platforms, activities with their games | import, dry run, edits of admins in between | two functions, a walk that writes and a plan that reads all first, must agree; unique names refuse some orders | a repeated import leaves every row as it was; its dry run tells what it does |
| Routine starts and sessions (`routine_selection.py`, `routine_sessions.py`) | previews, selections, sessions | preview, start from a preview, associate | a preview that is stale when used | not modelled yet |
| Premium periods (`premium_periods.py`) | periods of an activity | create, edit, end | an end without the lock a start holds | not modelled alone; a set of days in the queues, a context that closes in the direct executions |
| Steam import, rows of a movie file (`steam_import.py`, `movie_import.py`, `movie_resources.py`) | catalogue rows | sequential upserts of a file | formats | not modelled: one process, no interleaving; a file's rows are one outcome in the import jobs |
| Transport, serializers, admin, settings | none | parsing, presentation | none | not modelled; a view that reads a row before it calls a service, and the rows an admin edits, are modelled with the service they concern |

How they interact: executions, queues and facts share transactions (a
completion updates the item, the counters, may close the queue and open its
review, and records the fact that a report of the week counts later). Premium
starts and queue starts meet in the one open execution a scope may have. A
routine plan's row is the first lock of a direct start
(`routine_sessions.py:18`), and a direct start of a retro game creates its
progress. Premium periods and edits of an activity reach the active queues
through the reconciliation; an edit of a category's group decides what a fact
of an old execution says. Movies and their imports are separate from the
queues; an import meets the draws, and the import of retro games its progress,
only as edits of the catalogue.

The hazards, each at its line, are in `PROJECT.json`.

## 2. Modules

| Module | Models | Checked by | Proofs |
|---|---|---|---|
| `ActivityQueues` | queues, executions and facts | `MCActivityQueues` | `ActivityQueues_proofs` |
| `ExecutionService` | what direct executions promise, abstractly | `MCDirectExecutions` (as a property) | `DirectExecutions_proofs` |
| `DirectExecutions` | direct starts, statement by statement | `MCDirectExecutions` | `DirectExecutions_proofs` |
| `WeeklyGoals` | the goals of a scope and their edits | `MCWeeklyGoals` | `WeeklyGoals_proofs` |
| `WeeklyProgress` | facts, backfill, enrichment and reports | `MCWeeklyProgress` | `WeeklyProgress_proofs` |
| `MovieDraws` | draws, progress and tiers of one scope | `MCMovieDraws` | `MovieDraws_proofs` |
| `MovieImportJobs` | the queue of imports and its workers | itself | `MovieImportJobs_proofs` |
| `RoutinePlan` | the edits of one scope's plan | `MCRoutinePlan` | `RoutinePlan_proofs` |
| `RetroCatalogue` | the import of retro games and their progress | `MCRetroCatalogue` | `RetroCatalogue_proofs` |

### ActivityQueues

`db` is the committed database: a record of tables indexed by row id. Each
service is an operator from a database to a database, so services compose as
the code's calls do. How much of a transaction is one action depends on what it
locks:

- A transaction that locks the row it decides on before it decides is one
  action, its commit: `PresentNext` (a read that finds an active queue,
  `activity_queue.py:651`), `Recreate`, `Skip`, `Complete`, `Poll` (a read of the
  active execution that completes an overdue one), `ReconcileJob`,
  `EditActivity`. Where two of them take locks in different orders the database
  ends one, which changes nothing here (point 2 of the plan).
- A read of `next` that finds no active queue has locked nothing. It is
  `LookUp`, `ReadCandidates` (what may go into the queue, line 382) and
  `CreateQueue`, and only `unique_active_queue_per_scope_group` (`models.py:361`,
  `IndexAllowsQueue`) decides between two of them. The loser is `CreationFails`:
  the query of the handler (line 398) runs in the transaction the
  `IntegrityError` has aborted, so that request answers an error. `LookUp` also
  covers a read that waited for a queue that was closed meanwhile.
- A queue start is `RequestStart` (the view reads the activity outside of any
  transaction, `views.py:259`), `FindOpen` (the minutes of the group and the open
  execution of the scope, `activity_execution.py:237-256`) and `StartCommits`
  (line 296, with the checks that the locks of the item, the queue and the
  category keep) or `StartConflicts`. A premium start is `PremiumFindsOpen` and
  `PremiumCommits`. Starts of different groups and premium starts share no lock
  between the read and the insert: `unique_open_schedule_per_scope`
  (`models.py:292`, `IndexAllowsExecution`) decides. An execution found overdue
  is locked, so its completion and the insert are one commit.

A request under way is a record in `request`, one per worker. The group of a
category is a variable: `MoveCategory` is the admin that saves it
(`admin.py:74`), which reconciles no queue.

Abstracted: positions inside a queue and preference events (a pending item is
presented in any order), clock times (a day, and the day an execution falls
due), the premium projection (`PremiumOn`, the activities a period covers on a
day), and the lock of a routine plan, which would order the starts of a scope
that has one. A transaction reads the clock once here; a start reads it twice
(`activity_execution.py:130`, and `activity_queue.py:173` for the limit it counts
at line 224), so one that crosses midnight is counted on one day. Movies never enter the queues. A limit of minutes of a group may be
exceeded by way of the default group, as SPEC-BACK-010:343 says, so there is no
property against it.

### DirectExecutions

One scope; every request is the sequence of statements of its transaction: lock
the plan if there is one, look the key up, lock the context (the period or game
with the rows `select_related` joins), lock and check the predecessor, look for
an open execution and complete it when overdue, insert, record. A statement sees what is
committed, a lock or an undecided unique index makes it wait, a rollback
changes nothing. The `version` of an execution is 1 while it runs and 2 when it
has ended. Two transactions that wait for each other are resolved by the
database (`DeadlockVictim`). The handler that should answer an
`IntegrityError` of the record (`premium_execution.py:86-90`) cannot: the
transaction is broken and its query raises, so the request ends with an error.
Left out here: the progress row of a first retro start (it is in
`RetroCatalogue`), the routine association, and a period that ends by its date
(`CloseContext` is an end under the lock of the row).

### ExecutionService

What a client may rely on, without locks, transactions or lookups: `Start` ends
what is due, appends an execution in an open context and notes the answer of
its key; `Repeat` answers what a key stands for; `Adopt` answers a continuation
another key asked for; `Complete`, `FallDue`, `Close` and `Delete` are the world
around. `DirectExecutions` instantiates it (`Service`) with the committed rows
as executions, the idempotency records as answers, the successful replies of
the requests and the overdue executions; a transaction that is under way, and a
refusal, are not visible. `ImplementsService` is `Service!Spec`.

### WeeklyGoals

Time is counted in ticks, and a week is `WeekLength` of them. `goal[k]` is a
goal row with its revisions by week. `AskCreate` and `AskUpdate` are the views:
they capture the week (`weekly_goal_views.py:72`) and, for an edit, send the
version the client has read (`Retrieve`); `create_goal` and `update_goal` are
the transactions, at any later time, so in a later week too and after requests
that began later. `edits` is history: what each change asked for.

### WeeklyProgress

`schedule[s]` is an execution with its snapshot of the context, `fact[s]` its
fact, identified by the primary key of the execution. `LockToComplete` and
`complete_schedule` are the two ends of a completion (the clock is read with
the row locked, the commit comes later, `Rollback` when it does not). The
backfill is `StartBackfill`, `BackfillBatch`, `EndBackfill`: the upper bound is
read once, each batch is a transaction that pages by primary key. A report is
`Ask`, `progress_rows`, `pending_reconciliations`: separate statements, each on
what is committed by then. Legacy executions have no snapshot, and their fact
takes the group their category is in when it is recorded. Left out: skips,
percentages and pages.

### RetroCatalogue

`_apply` is the import as it is written, a walk over the catalogue that writes
group, generation, platform and games and stops when the database refuses a
row; `_plan` is the dry run, another function, which reads everything first.
Both are operators from rows to rows and report, so properties compare them in
every reachable database, also after admins moved an activity or created a
category. `import_catalog` is the transaction: all of `_apply` or nothing.
The generations of a catalogue are told apart by their order, as by their key,
their rows by the name alone, as `_apply` finds them
(`retrogames_catalog_import.py:421`); `Valid` is what the validator asks, which
does not look at names. `OrderCategory` is an admin that edits the order.
Progress is optimistic: `AskProgress` sends the version a client has read,
`ChangeProgress` locks the row when there is one, and when there is none
`FindNoProgress` and `InsertProgress` are apart, for nothing is locked in
between. `StartRetro` is a direct start as far as progress goes;
`StartFromQueue` is the same activity run from a queue, which does not touch
progress. The lists are those of the active part of the catalogue before the
other filters.

### MovieDraws

One scope, whose lock row makes its commands follow one another. A client reads
a version, sends a command (`Send…`) and the command is handled at any later
time, any number of times, until the client forgets it (`Forget`): delays,
duplicates and commands with a reused request id are all there. The editor's
changes of collections, entries and movies happen in between. A draw validates
its candidate again under its locks, so its reads count as made at that moment.

### MovieImportJobs

The job row, the catalogue (`applied`, how often a file was saved), the workers
and what each still holds. A worker may stop at any point and may lose the
answer of a commit that did happen; it then holds an update that would mark the
job failed. Recovery is modelled as it is documented: only "com TODOS os workers parados"
(`docs/specs/IMPORTACAO_FILMES_OSCAR_ADMIN.md:31`). The rows of a file are one
outcome, clean or with errors.

### RoutinePlan

Time is counted in slots. An edit locks the plan's row and compares its
version (`locked_plan`), so edits follow one another; a request with another
version changes nothing and has no action. `Readable` is `expand` followed by
`validate_overlaps` on a window, with the windows the code uses for each edit.
Left out: kinds, profiles and expectations of blocks, selections of a source
for an occurrence, the context of the moment.

## 3. Runs

Bounds are named in each module and set in the `.cfg`; times are those of two
workers on a small machine.

| Run | Instance | What it shows |
|---|---|---|
| `Queues` | 1 client with 1 request thread, 2 groups, 2 activities (a premium one each day), a limit of minutes for Todos, 2 days, 3 queues, 1 execution, 1 edit, 1 category that may move; 530 thousand states, 120 s | types, drained inactive queues, reviews repeat skips, counters, edits and reads clear foreign items, final history; overdue executions end |
| `TwoScopes` | an identified and an anonymous client, 2 request threads, one activity with a daily limit and a premium; 363 thousand states, 30 s | one execution per scope and one active queue per group among racing requests, the daily limit over both, facts of the identified one only, items agree with executions |
| `StaleStart` (violation) | an edit between the read and the transaction of a start | the start writes the old row back, and an item that was at home in its queue is foreign again |
| `DirectStarts` | 3 requests, 3 keys, 2 contexts, 2 durations; 1.3 million states, 150 s | types, every step is a step of the service or none, a retry in a scope with a plan finds its execution |
| `ConcurrentRetry` (violation) | 2 requests, 2 keys | without a plan a concurrent retry is refused instead of answered |
| `Movies` | 2 collections sharing a movie, a tier with one place, 2 request ids, 2 clients, 1 edit, all new or all seen at first; 620 thousand states, 40 s | types, reservations, rated and reserved movies, tier capacities, no lost update, final ledger |
| `TierReentry` (violation) | an entry removed and added again | the old tier returns into a full tier |
| `ImportJobs` | 2 jobs, 2 workers, 2 users, 2 stops, 1 change of permission | types, saved exactly when done, one worker, queued jobs are processed |
| `RoutineAgenda` | 2 blocks, weeks of 2 days of 2 slots, today up to 3, 4 edits | types, the agenda stays readable, no edit changes what was said of days before yesterday nor, on past days, of the occurrences of past days |
| `WeeklyEdits` | 1 goal, 2 clients, 3 weeks, 3 versions, 2 targets | in every week a goal is what the edits up to it say |
| `WeeklyReports` | 2 groups, 1 category, 2 executions, 2 weeks of 2 ticks, one run of the backfill in batches of one; 2.7 million states, 60 s | types, no gap after a backfill, totals are what executions are worth, progress only grows |
| `RetroGames` | 8 editions of a catalogue of 2 platforms and 2 games, one with two generations of one name, one game played, 2 clients, 1 edit of an admin; 137 thousand states, 90 s | types, repeated imports write nothing but what two generations of one name share, dry runs tell them, lists partition the games, a status is replaced only by who had read it |

Why the bounds are enough to be interesting:

- Queues. A queue, its review and the next one are three ids. Two activities
  are the least with a skip and a completion in the same queue. Two days let an
  execution and a queue outlive their day; `EditedTo` moves one activity to
  another category or switches the other off, and `MoveCategory` moves a category
  once. One thread is enough there, because what completes, skips, edits and
  polls needs none; the races between requests are those of `TwoScopes`, whose
  two threads are interchangeable. `HasRoom` disables the actions when the
  queue ids are used up, so the instance does stop growing, never the
  interleaving before it. `CategoryLimit` has the hypothesis `edits = 0`: an
  edit moves executions to another category's count; `TwoScopes` has no edits.
- Direct executions. Three requests are the least for an execution, a retry and
  a rival. `MaxRows` is 4, more than three keys and an earlier execution can
  make, so it never binds. The instance starts with or without an earlier
  completed execution, so continuations happen at once, and with or without a
  plan. Requests, keys, contexts and durations are interchangeable, hence the
  symmetry; the refinement and the action property relate single steps and do
  not tell them apart.
- Movies. Two movies and a tier with one place already overflow; two request
  ids allow a retry and a collision, and `TierReentry` has the third. The
  request ids and the clients are interchangeable.
- Imports. Two workers compete for one job and leave the other; two stops hit
  both.
- Routines. An occurrence spans less than two days and is moved by one day at
  most, so it meets its neighbours inside a week of two days of two slots: a
  night that reaches into the next morning, a block moved to the day before or
  after, a week that overlaps with itself.
- Weekly goals. Three weeks give a revision before, in and after the week of a
  request that waits; two clients give the edit that came between. Three
  versions are a creation and two edits.
- Weekly progress. Batches of one row are the ones between which something
  happens; two executions give one behind and one ahead of the backfill. Two
  weeks let a completion commit in the week after the one it ended in.
- Retro games. The editions move, rename, drop and exchange platforms and
  games; one has two generations of one name, and two are invalid. The clients
  are interchangeable.

`CHECK_DEADLOCK FALSE` is set where an instance really stops: when all request
ids of the movie instances are used, when all jobs have ended, and when the
edits and the days of the routine are spent. The other instances are checked
for deadlock, `DirectStarts` in particular: the only end is that every request
was answered.

### Fairness

- `ActivityQueues` (`FairSpec`): clients poll the active execution again and
  again (a client polls every five minutes,
  `docs/specs/ATIVIDADE_ATIVA_PERSISTENTE_MULTIPLATAFORMA.md:75`): a poll that
  would complete something is made sometime (weak fairness of `Poll(sc)`).
  Nothing obliges a client to start, skip or complete, and no scheduler completes
  an execution while nobody reads.
- `MovieImportJobs`: weak fairness of `ProcessNext(w)`, the loop of
  `process_movie_imports`, and of `Restart(w)`, since `compose.yml` says
  `restart: unless-stopped` (line 16, which the worker takes over by the merge in
  line 51). Stops are finite in the instance.
  Nobody has to upload, confirm or recover.

The other specifications state no fairness: what they promise is safety, and a
client, an admin or a command may always stay away.

### What the violations say

Each is quoted with its line in `PROJECT.json`.

1. `StaleStart`: `views.py:259` reads the activity before the transaction and
   `models.py:500` writes the copy back, which undoes a concurrent edit after
   that edit reconciled the queues (`ItemsStayAtHome`).
2. `TierReentry`: `movie_tiers.py:46` counts only the entries of now, and the
   rating of a removed entry stays.
3. `ConcurrentRetry`: `premium_execution.py:21` looks the key up before it
   waits and not again before it refuses.

More were met and have no run:

- An occurrence moved from day d to d-1 can be cancelled or moved again on day
  d (`routines.py:235` asks only for the origin's date), which changes
  yesterday's agenda, although SPEC-017 (lines 202-203) keeps past reports on
  the plan of their time; `PastIsKept` states what does hold and says so.
- A recreation may list a skipped activity under `skipped_not_requeued` that
  the new queue does hold: the reasons (`activity_queue.py:419`) count every
  execution of the day, the eligibility (line 217) only those from queues, so a
  skipped premium completed directly is reported absent (SPEC-BACK-011, lines
  159-160).
- The totals (`weekly_goal_views.py:92`) and the pending executions (line 100)
  of a report are two statements: an execution reconciled in between is neither
  counted nor pending in that answer, while SPEC-BACK-012 (lines 141-145 and
  282) has it in one of them. The next report counts it, which is what
  `TotalsMatchExecutions` says of each.
- Importing an earlier edition of the retro catalogue again may be refused,
  when two platforms have exchanged their names within a generation: the rows
  are written one by one under a unique name, although SPEC-BACK-016 (lines
  110-112) returns to an edition by importing it.
- Two generations of one name pass the validator
  (`retrogames_catalog_import.py:144-154`), and are one row to the import
  (line 421), which writes it once for each, every time: a second import reports
  updates and saves, although SPEC-BACK-016 (lines 63-64) has it report all as
  unchanged, and the dry run reports the generations as the planner found them.
  `ReimportRewritesSharedNames` and `PlanTellsTheImport` say exactly when.
- A category that an admin moves to another group leaves its items in the queues
  they are in (`admin.py:74-78`), although SPEC-BACK-007 (lines 553-557) expires
  them; so does a queue created from activities read before an edit
  (`activity_queue.py:380`, SPEC-BACK-010:246). The next read of the queue and
  the next edit clear them, which is what `NextRepairsQueue` and
  `EditsLeaveNoForeignItem` state.
- Of two first reads of `next` one answers an error instead of the queue of the
  other (`activity_queue.py:397-402`).
- A generation that is renamed while one of its games is dropped leaves that
  game with an activity in the old category and a platform in the new one,
  which `RetroGame.clean` (`models.py:687-692`) forbids.
- A dry run reports neither a refusal of the database nor the adoption of a
  group that is not flagged yet; hence the hypotheses of `PlanTellsTheImport`.

## 4. Theorems

Every theorem is for all values of the constants that satisfy the named
assumptions of the component's module: bounds are natural numbers, a week has
a length, the value that stands for "none" is no other value, a goal counts
minutes or sessions, the catalogues of activities and of movies are finite and
well-typed. Of the behaviour two theorems assume something, and both say what section 3
says from the other side, what the only ways to go wrong are:
`ForeignItemsHaveThreeOrigins` assumes `LeavesItemsAtHome` (no start writes back
a copy of an activity that is no longer its row, no queue is created from
candidates that no longer belong to it, no category moves; see `StaleStart`),
`TiersStayWithinLimits` assumes `AddsUnrated` (a movie that enters a collection
has no tier left there; see `TierReentry`). Instances satisfy both as long as
nothing is edited in between.

| Module | Theorem | Property |
|---|---|---|
| `ActivityQueues_proofs` | `TypeCorrect`, `OneOpenExecutionPerScope`, `OneActiveQueuePerGroup`, `ItemsFollowExecutions`, `InactiveQueuesAreDrained`, `ReviewsRepeatSkips`, `FactsAreExact`, `PositionsMatch`, `HistoryStaysFinal`, `EditsSanitiseQueues`, `CategoryLimitHolds`, `ForeignItemsHaveThreeOrigins` | `TypeOK`, `OneOpenExecution`, `OneActiveQueue`, `ItemsMatchExecutions`, `InactiveQueuesDrained`, `ReviewRepeatsSkips`, `FactsMatch`, `PositionMatches`, `HistoryIsFinal`, `EditsLeaveNoForeignItem`, `CategoryLimit` and, under its assumption, `NoForeignItemIn(db)` |
| `DirectExecutions_proofs` | `DirectTypes`, `OneOpenAtATime`, `AKeyStartsOnce`, `AnswersAreRecorded`, `AnswersAreWhatWasAsked`, `NothingStartsAfterTheEnd`, `PlannedRetriesFindTheirs`, `ServiceIsImplemented` | `TypeOK`, `OneOpenExecution`, `KeyStartsOnce`, `RepliesAreRecorded`, `ReplyIsWhatWasAsked`, `NoStartAfterEnd`, `PlannedRetryFindsItsExecution`, `ImplementsService` (the refinement of `ExecutionService`) |
| `WeeklyGoals_proofs` | `GoalTypes`, `GoalsAreWhatWasEdited` | `TypeOK`, `EditsSayWhatHolds` |
| `WeeklyProgress_proofs` | `ProgressTypes`, `NoGapIsLeft`, `WhatIsCountedStays`, `ReportsAddUpExecutions` | `TypeOK`, `BackfillLeavesNoGap`, `ProgressOnlyGrows`, `TotalsMatchExecutions` |
| `MovieDraws_proofs` | `MovieTypes`, `OneReservation`, `NoReservationOutlivesProgress`, `NoTierOutlivesProgress`, `NoUpdateIsLost`, `MovieHistoryIsFinal`, `TiersStayWithinLimits` | `TypeOK`, `ReservationsMatch`, `ReservedIsUnwatched`, `RatedIsWatched`, `NoLostUpdate`, `LedgerIsFinal`, `TierLimits` |
| `MovieImportJobs_proofs` | `ImportTypes`, `SavedOnceWhenDone`, `OneWorkerPerJob`, `JobsFollowThePath` | `TypeOK`, `AppliedOnceDone`, `ClaimedOnce`, `DocumentedPath` |
| `RoutinePlan_proofs` | `PlanTypes`, `PastIsKeptAlways`, `AgendaStaysReadable`, `EveryWindowIsReadable` | `TypeOK`, `PastIsKept`, `AgendaReadable` and, of every window, `Readable` |
| `RetroCatalogue_proofs` | `TypeCorrect`, `ReimportOfAnyCatalogue`, `PlanIsTheImport`, `ListsAreAPartition`, `ReplacementsWereRead` | `TypeOK`, `ReimportRewritesSharedNames`, `PlanTellsTheImport`, `ListsPartition`, `ReplacedWasRead` |

The properties of the direct executions between the first and the last are not
run one by one, being proved, and `DirectStarts` checks the service instead.
`DocumentedPath` and the types of the goals are proved and not run either.

The arguments:

- Queues: `IInv` is `TypeOK` and `Good(db)`, the conjunction of the four safety
  invariants as operators on a database. None is inductive alone: that a
  completion closes a queue safely needs the item to match its execution, and
  that needs one open execution. Because services are operators, there is a
  lemma for each ("if `d` is good, so is the service of `d`") and an action
  composes them as the code composes calls. Two steps rest on a unique index,
  `CreateQueue` and the commits of starts; every other service that opens a queue
  or ends an execution holds the one it replaces and needs none.
- Queues, second layer: `SecondInv` adds `Sound(db)` and `AllCounted(db)`.
  `Sound` is what reviews and facts need: a queue that was never opened is
  blank, at most one item is presented, facts match, reviews repeat skips. For
  each service `Kept(d, e)` says that it leaves a sound database sound, that
  history stays final (`Follows`), that it starts nothing and leaves no foreign
  item where there was none; `Kept` is transitive, so an action that calls
  several services keeps what each keeps. Counters are not always exact: between
  writing items and refreshing counters a queue is behind, which
  `OthersCounted(d, q)` allows to `q` alone, and each service ends with the
  refresh of the queue it wrote.
- Queues, daily limits: a step opens at most one execution (`Stepped`,
  `StepStarts`), a start is accepted only below the limit of its category, and
  while nothing is edited (`LimitInv`) the category an execution counts under is
  the one its activity is in. The rest is counting sets with one more element.
- Direct executions: the argument is one of rely and guarantee. `Request(r)` is
  what a request has at its step: its payload, and what each lock it holds
  keeps (the plan: its key is still unrecorded; the context: it is not closed;
  the predecessor: nothing continues it; the execution it completed: nobody
  else completes it; its undecided insert: nothing else is open). `Frame(q)` is
  what a step of another request leaves to `q`, and `FrameKeepsRequest` that
  this is enough. A step that leaves the tables alone then only has to be shown
  for its own request. `Tables` relates rows and records. The insert waits for
  undecided ones (`OneInserts`), so a commit finds what its insert saw. The same
  invariant shows that the last branch of the fallback, an answer that is not
  recorded under its key, is never taken.
- The service: the mapping reads committed rows, records, replies and overdue
  executions, so every statement before a commit is a stutter. A commit has to
  know what its request saw long before: `SInv` adds `Knows` to the invariant,
  that what a start is about to end, or has ended, is overdue (`EndsOverdue`;
  executions never stop being overdue) and that what it continues is completed
  (`FollowsCompleted`; kept by the lock on its row). `Leaves` is what the steps
  of others leave of this. Then a commit of a start is `Start`, an answer from a
  record `Repeat`, an answer from a continuation `Adopt`, a commit of a
  completion `Complete`, and each change of the world its namesake.
- Weekly goals: what holds is computed from the revisions, what was said from
  the history, and they agree because an edit that is not stale has a week at or
  after that of every edit before it (`Asked`): its version was read after the
  last of them was made, and clients capture the week later still. `History`
  adds that a goal has a revision exactly for the weeks of its edits and that
  the creation sets both fields. An edit then copies the revision in force and
  changes what it names, in the last week that has one.
- Weekly progress: `Consistent(s)` orders the times of an execution, its lock
  and its fact, so what is recorded is a fact with minutes that are not negative
  and never lies in the future. `Filled` says that the backfill has left nothing
  without a fact behind `last`, and after its end up to `upper`. A batch is
  dense (`BatchIsDense`: what lies between `last` and a row of the batch is of
  the batch, since counting fewer rows gives no more), an execution becomes
  eligible only together with its fact, and an empty batch means that nothing
  is left, since the least row that is would be a batch of its own. `Reports`
  says that what was counted of a week would be counted again by what a report
  that is under way, or one made now, may see (`Kept`); facts only change by
  enrichment (`FactsStay`), and the time a report looks back from only moves on.
- Weekly totals: `Matched` is a second invariant: a completed execution of now
  has its fact, and a fact says what the row of its execution says, in the
  context of its start. The rest is arithmetic on sums, for a report adds up
  groups of facts and the property executions one by one. The library's sum
  takes the elements of a set one by one in an order of its own, so the lemmas
  show that such a function exists (`SumExists`), that any two agree, that every
  element could have come first (`SumWithOneMore`), that disjoint sets are
  summed apart and groups of groups together (`SumOfGroups`). Each is shown on a
  smallest counterexample (`Smallest`).
- Movies: `IInv` is `TypeOK` and `Tables`, where the reservations agree with
  the draws, reserved movies are unwatched and rated ones watched.
  `NoLostUpdate` needs `Seen` besides: no client has read a version ahead of its
  row, and a client whose version is still the row's has read the row as it is.
  Tier capacities: a step other than a tier command only takes ratings away
  (`OnlyRebalanceRates`), and a tier command counts the whole board it proposes.
- Imports: `IInv` adds `Claims` to `AppliedOnceDone`: a busy worker has a job,
  a claimed job shows it, a job has one holder, and a job in progress has not
  been saved before. It is needed because a worker that lost a commit's answer
  still holds an update that fails the job.
- Routine: `TypeOK` includes the order of the revisions, which is what makes
  the revision in force unique. Every step is the next day or one of three
  kinds of edit (a revision, an exception, a suspension), all of an editable
  date, and each kind leaves the rows of past dates alone.
- Routine, agenda: `AgendaReadable` speaks of the window the property looks at,
  the code validates others, so the invariant is stronger: `NoClash`, no two
  occurrences share a slot on any day. An occurrence reaches less than two days
  beyond its own and is moved by one at most, so a window of two days around it
  holds whatever it can meet (`WindowIsClear`); a template repeats, so three
  weeks that are readable make any pair of days readable (`WeekIsClear`). There
  is a lemma per edit, with the window that edit validates.
- Retro catalogue: `IInv` is `TypeOK`, `Rooted` (the platform and the
  generation of a game are there, and the category of a generation in use is of
  the retro group) and `RoomToChange` (the version a client sends leaves room
  for the next). The import is a recursive function over the entries; that it exists
  and what it has written after i entries is shown by counting up to i with the
  pigeonhole principle (`UpTo`: if n were missing from a set closed under
  successor, adding one would put a finite set into itself with an element to
  spare). `WalkOutcome` gives the rows and the report after i entries in closed
  form, each platform and game depending on its own entry only because their
  identities are unique in a valid edition, and the order of a generation being
  the one of the last entry of its name. A second walk finds every other row in
  place (`WalkInPlace`), and the planner computes the same closed form but for
  the generations with the name of an earlier one (`Planned`, `SameMissing`, `Foretold`).

Only model-checked: liveness (`OverdueIsCompleted`, `QueuedIsProcessed`), which
is out of the prover's reach like `ENABLED`, and `NextRepairsQueue`. Every other
property of a passing run has its theorem. Induction is not by the
theorems of the library, whose parameter is an operator and which no backend
here can instantiate: where it is needed, a set of numbers is counted through
(`UpTo`) or a least counterexample is taken (`Least`, `Smallest`).

## 5. Not modelled, and the plan

Not modelled because nothing there depends on an order of steps: parsing,
serializers, presentation and settings; the Steam import and the rows of a
movie file, which one process upserts; the inventory report of the retro
catalogue, which matches texts and writes nothing; positions and the random
order inside a queue, preference events, pages and percentages.

Not modelled yet, in the order in which it would be:

1. Routine starts: previews, their expiry, selections and the association of a
   session with an occurrence, composed with `DirectExecutions`; with them the
   agenda that is read by three queries (`routines.py:177`).
2. Locks of the queues statement by statement (`QueueLocks`): completion and
   next take the queue and the execution in different orders (SPEC-BACK-009:418,
   SPEC-BACK-010:232-236); the answer of a start after an `IntegrityError`
   (SPEC-BACK-007:815-818).
3. Premium periods: an end without the lock of a start (`views.py:689`),
   edits of a period below an active queue.
4. An abstract specification of the slot of a collection that `MovieDraws`
   implements.
5. Proofs: what the abstract specification of point 4 needs, and the theorems
   of the modules to come.
6. A run for the past that an occurrence moved to yesterday rewrites.
