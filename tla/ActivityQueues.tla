---------------------------- MODULE ActivityQueues ----------------------------
(***************************************************************************)
(* The activity queues of the pomodoro backend, the executions started     *)
(* from them, and the facts those executions leave for the weekly goals.   *)
(*                                                                         *)
(* Every service of apps/pomodoro/services runs in one database            *)
(* transaction, under READ COMMITTED.  The database is the record db and a *)
(* service is an operator from a database to a database (so that a service *)
(* that calls another is a composition, as in the code).  A transaction    *)
(* that locks the rows it reads before it writes them is one action, its   *)
(* commit.  Three others read what nothing locks and rely on it later;     *)
(* each is a request of a worker that goes through several actions:        *)
(*   - a start: the view reads the Activity row (RequestStart), the        *)
(*     transaction reads the open execution of the scope (FindOpen) and    *)
(*     inserts one (StartCommits);                                         *)
(*   - the start of a premium, which has no item: PremiumFindsOpen and     *)
(*     PremiumCommits;                                                     *)
(*   - a read of next that finds no active queue to lock: LookUp,          *)
(*     ReadCandidates and CreateQueue.                                     *)
(* What such a transaction checks under a lock is checked in the action    *)
(* that commits it, because nothing can change it in between; that others  *)
(* may act between its unlocked reads and its commit, even when they would *)
(* wait for one of its locks, only adds behaviours.  The lock of a routine *)
(* plan, where a scope has one, would order its starts and is left out.    *)
(*                                                                         *)
(* Abstracted: positions inside a queue (a pending item is presented in    *)
(* any order), preference events (they only weigh the random order), and   *)
(* clock times (a day, plus the day an execution fell due; a transaction   *)
(* reads the clock once).                                                  *)
(***************************************************************************)
EXTENDS Integers, FiniteSets, FiniteSetsExt

CONSTANTS
  Scopes,              \* scope_key values: one per API key
  Anonymous,           \* the scope_key of a request without a key
  Groups, DefaultGroup,      \* DefaultGroup is the row with is_default
  Categories, Activities,
  Workers,             \* request threads that may be inside a transaction
  InitialGroup,        \* Category.group as first saved
  Moved,               \* the categories an admin moves to other groups
  EditedTo,            \* the rows a PATCH may give an activity
  MaxDailyExecutions,  \* Category.max_daily_executions
  MaxDailyMinutes,     \* Group.max_daily_minutes, 0 for no limit
  Duration,            \* Activity.duration
  InitialCategory,     \* the category an activity is created with
  PremiumOn,           \* the activities whose premium period covers a day
  MaxQueues, MaxSchedules, MaxDay, MaxEdits   \* bounds of the instance

QueueIds    == 1 .. MaxQueues
ScheduleIds == 1 .. MaxSchedules
Days        == 1 .. MaxDay

ASSUME BoundsAssumption ==
  /\ MaxQueues \in Nat /\ MaxSchedules \in Nat
  /\ MaxDay \in Nat \ {0} /\ MaxEdits \in Nat
ASSUME CatalogAssumption ==
  /\ Scopes # {} /\ Categories # {} /\ Activities # {}
  /\ DefaultGroup \in Groups
  /\ InitialGroup \in [Categories -> Groups]
  /\ Moved \subseteq Categories
  /\ MaxDailyExecutions \in [Categories -> Nat]
  /\ MaxDailyMinutes \in [Groups -> Nat]
  /\ Duration \in [Activities -> Nat \ {0}]
  /\ InitialCategory \in [Activities -> Categories]
  /\ PremiumOn \in [Days -> SUBSET Activities]
  /\ EditedTo \in [Activities -> SUBSET [active : BOOLEAN, category : Categories]]
ASSUME FinitenessAssumption == IsFiniteSet(Activities)

VARIABLES
  db,        \* the committed database
  categoryGroup,   \* Category.group, committed as well
  day,       \* timezone.localdate()
  request,   \* per worker, the request it is serving, or NoRequest
  edits      \* edits of activities so far (bounded by MaxEdits)

vars == <<db, categoryGroup, day, request, edits>>

-----------------------------------------------------------------------------
(* The rows.  An id not allocated yet holds a row in state "none".          *)

None == 0     \* a null foreign key

QueueStates == {"none", "active", "closed", "cancelled"}
QueueModes  == {"normal", "skipped_review"}
ItemStates  == {"absent", "pending", "presented", "started",
                "completed", "skipped", "expired"}
ActivityRows == [active : BOOLEAN, category : Categories]

QueueRows ==
  [state : QueueStates, scope : Scopes, group : Groups, mode : QueueModes,
   source : QueueIds \cup {None}, consumed : Nat, size : Nat]

ScheduleRows ==
  [state : {"none", "open", "completed"}, scope : Scopes,
   queue : QueueIds \cup {None}, activity : Activities,
   category : Categories, start : Days,
   due : Days \cup {None}, end : Days \cup {None}]

Databases ==
  [queue : [QueueIds -> QueueRows],
   item : [QueueIds -> [Activities -> ItemStates]],
   schedule : [ScheduleIds -> ScheduleRows],
   completion : [ScheduleIds -> Categories \cup {None}],
   skips : SUBSET (QueueIds \X Activities),
   activity : [Activities -> ActivityRows]]

(* The requests, by what they have read so far.  A start carries the copy  *)
(* of the activity, and of the group of its category, that the view read.  *)
NoRequest == [kind |-> "none"]
StartRequests ==
  [kind : {"start"}, scope : Scopes, queue : QueueIds, activity : Activities,
   row : ActivityRows, group : Groups]
CheckedStarts ==
  [kind : {"insert"}, scope : Scopes, queue : QueueIds, activity : Activities,
   row : ActivityRows, group : Groups, found : SUBSET ScheduleIds]
PremiumStarts ==
  [kind : {"premium"}, scope : Scopes, activity : Activities,
   found : SUBSET ScheduleIds]
LookUps == [kind : {"lookup"}, scope : Scopes, group : Groups]
Creations ==
  [kind : {"create"}, scope : Scopes, group : Groups,
   candidates : SUBSET Activities]
Requests ==
  StartRequests \cup CheckedStarts \cup PremiumStarts \cup LookUps
    \cup Creations \cup {NoRequest}

BlankQueue ==
  [state |-> "none", scope |-> CHOOSE s \in Scopes : TRUE,
   group |-> DefaultGroup, mode |-> "normal", source |-> None,
   consumed |-> 0, size |-> 0]

BlankSchedule ==
  [state |-> "none", scope |-> CHOOSE s \in Scopes : TRUE, queue |-> None,
   activity |-> CHOOSE a \in Activities : TRUE,
   category |-> CHOOSE c \in Categories : TRUE,
   start |-> 1, due |-> None, end |-> None]

-----------------------------------------------------------------------------
(* Reading the database.                                                    *)

AvailableStates == {"pending", "presented", "started"}
ConsumedStates  == {"completed", "skipped"}

IsOpen(d, s) == d.schedule[s].state = "open"
OpenIn(d, sc) == {s \in ScheduleIds : IsOpen(d, s) /\ d.schedule[s].scope = sc}

ItemSchedules(d, q, a) ==
  {s \in ScheduleIds : /\ d.schedule[s].state # "none"
                       /\ d.schedule[s].queue = q
                       /\ d.schedule[s].activity = a}
HasOpenSession(d, q, a) == \E s \in ItemSchedules(d, q, a) : IsOpen(d, s)

Available(d, q) == {a \in Activities : d.item[q][a] \in AvailableStates}
Consumed(d, q)  == {a \in Activities : d.item[q][a] \in ConsumedStates}
Members(d, q)   == {a \in Activities : d.item[q][a] # "absent"}

ActiveQueues(d, sc, g) ==
  {q \in QueueIds : /\ d.queue[q].state = "active"
                    /\ d.queue[q].scope = sc
                    /\ d.queue[q].group = g}

(* An id of a set: of the fresh ones any will do, and of the others there   *)
(* is at most one (see OneActiveQueue and OneOpenExecution).                *)
Some(S) == CHOOSE x \in S : TRUE

FreshQueues(d)    == {q \in QueueIds : d.queue[q].state = "none"}
FreshSchedules(d) == {s \in ScheduleIds : d.schedule[s].state = "none"}

(* History rows of today that count against the daily limits: one is made   *)
(* by each start, and those of direct executions are left out.              *)
FromQueue(d, s) == d.schedule[s].state # "none" /\ d.schedule[s].queue # None
StartedToday(d) ==
  {s \in ScheduleIds : FromQueue(d, s) /\ d.schedule[s].start = day}
CurrentCategory(d, s) == d.activity[d.schedule[s].activity].category

CategoryStartedCount(d, c) ==
  Cardinality({s \in StartedToday(d) : CurrentCategory(d, s) = c})

GroupReservedMinutes(d, g) ==
  MapThenSumSet(LAMBDA s : Duration[d.schedule[s].activity],
    {s \in StartedToday(d) :
       g = DefaultGroup \/ categoryGroup[CurrentCategory(d, s)] = g})

FitsRemainingMinutes(d, a, g) ==
  \/ MaxDailyMinutes[g] = 0
  \/ GroupReservedMinutes(d, g) + Duration[a] <= MaxDailyMinutes[g]

BelongsToGroup(own, g) == g = DefaultGroup \/ own = g
BelongsToQueue(row, g) == BelongsToGroup(categoryGroup[row.category], g)

\* Variant for a mutant: the limit may be reached once more.
CategoryOverrun(d, c) == CategoryStartedCount(d, c) > MaxDailyExecutions[c]
CategoryExhausted(d, c) == CategoryStartedCount(d, c) >= MaxDailyExecutions[c]

EndedToday(d, a) ==
  {s \in ScheduleIds : /\ d.schedule[s].state = "completed"
                       /\ d.schedule[s].activity = a
                       /\ d.schedule[s].end = day}

IsPremiumActive(a) == a \in PremiumOn[day]
HasOpenExecution(d, a) ==
  \E s \in ScheduleIds : IsOpen(d, s) /\ d.schedule[s].activity = a

(* What every eligibility rule of the queues asks.                          *)
FitsQueue(d, a, g) ==
  /\ d.activity[a].active
  /\ BelongsToQueue(d.activity[a], g)
  /\ ~CategoryExhausted(d, d.activity[a].category)
  /\ FitsRemainingMinutes(d, a, g)

ActivityIsEligible(d, a, g, includeDoneToday) ==
  /\ FitsQueue(d, a, g)
  /\ includeDoneToday \/ ~\E s \in EndedToday(d, a) : FromQueue(d, s)
  /\ ~(IsPremiumActive(a) /\ HasOpenExecution(d, a))

EligibleActivities(d, g) ==
  {a \in Activities : ActivityIsEligible(d, a, g, FALSE)}

(* _ineligibility_reason is None: unlike the rule above, an end today of a  *)
(* direct execution counts too.                                             *)
NoIneligibilityReason(d, a, g) ==
  /\ FitsQueue(d, a, g)
  /\ EndedToday(d, a) = {}
  /\ ~(IsPremiumActive(a) /\ HasOpenExecution(d, a))

PremiumIsOperationallyEligible(d, a, g) ==
  /\ IsPremiumActive(a)
  /\ FitsQueue(d, a, g)
  /\ EndedToday(d, a) = {}
  /\ ~HasOpenExecution(d, a)

-----------------------------------------------------------------------------
(* Closing a queue and creating the one that follows it.                    *)

RefreshQueueCounters(d, q) ==
  [d EXCEPT !.queue[q].consumed = Cardinality(Consumed(d, q)),
            !.queue[q].size = Cardinality(Members(d, q))]

CloseQueue(d, q) ==
  RefreshQueueCounters(
    IF d.queue[q].state = "active" THEN [d EXCEPT !.queue[q].state = "closed"]
    ELSE d, q)

InsertQueue(d, sc, g, mode, source, S) ==
  LET n == Some(FreshQueues(d))
  IN [d EXCEPT
        !.queue[n] = [state |-> "active", scope |-> sc, group |-> g,
                      mode |-> mode, source |-> source,
                      consumed |-> 0, size |-> Cardinality(S)],
        !.item[n] = [a \in Activities |->
                       IF a \in S THEN "pending" ELSE "absent"]]

ReviewCandidates(d, q) ==
  {a \in Activities : /\ d.item[q][a] = "skipped"
                      /\ ActivityIsEligible(d, a, d.queue[q].group, TRUE)}

CreateReview(d, q) ==
  IF \/ d.queue[q].mode # "normal"
     \/ \E r \in QueueIds : d.queue[r].state # "none" /\ d.queue[r].source = q
     \/ ReviewCandidates(d, q) = {}
  THEN d
  ELSE InsertQueue(d, d.queue[q].scope, d.queue[q].group, "skipped_review", q,
                   ReviewCandidates(d, q))

FinalizeQueueIfFinished(d, q) ==
  IF Available(d, q) # {} THEN RefreshQueueCounters(d, q)
  ELSE CreateReview(CloseQueue(d, q), q)

CreateNormalQueue(d, sc, g) ==
  IF EligibleActivities(d, g) = {} THEN d
  ELSE InsertQueue(d, sc, g, "normal", None, EligibleActivities(d, g))

-----------------------------------------------------------------------------
(* Reconciling a queue with its executions, its limits and the premiums.    *)

OpenToExpiry == {"pending", "presented"}

(* First pass of _expire_invalid_items: an item follows its execution.      *)
SyncWithSchedules(d, q) ==
  [d EXCEPT !.item[q] =
    [a \in Activities |->
      IF d.item[q][a] \notin AvailableStates \/ ItemSchedules(d, q, a) = {}
      THEN d.item[q][a]
      ELSE IF HasOpenSession(d, q, a) THEN "started" ELSE "completed"]]

(* Second pass: what is no longer eligible expires.                         *)
ExpireIneligible(d, q) ==
  [d EXCEPT !.item[q] =
    [a \in Activities |->
      IF /\ d.item[q][a] \in OpenToExpiry
         /\ ~HasOpenSession(d, q, a)
         /\ ~ActivityIsEligible(d, a, d.queue[q].group,
                                d.queue[q].mode = "skipped_review")
      THEN "expired" ELSE d.item[q][a]]]

ExpireInvalidItems(d, q) ==
  RefreshQueueCounters(ExpireIneligible(SyncWithSchedules(d, q), q), q)

(* The rows of a queue after reconcile_premium_queue.                       *)
ForeignExpired(d, q, row) ==
  [a \in Activities |->
    IF /\ row[a] \in OpenToExpiry
       /\ ~HasOpenSession(d, q, a)
       /\ ~BelongsToQueue(d.activity[a], d.queue[q].group)
    THEN "expired" ELSE row[a]]

MissingPremiums(d, q, row) ==
  {a \in Activities : /\ d.queue[q].mode = "normal"
                      /\ \E b \in Activities : row[b] = "pending"
                      /\ row[a] = "absent"
                      /\ PremiumIsOperationallyEligible(d, a, d.queue[q].group)}

WithMissingPremiums(d, q, row) ==
  LET missing == MissingPremiums(d, q, row)
  IN [a \in Activities |-> IF a \in missing THEN "pending" ELSE row[a]]

PremiumReconciled(d, q, row) ==
  WithMissingPremiums(d, q, ForeignExpired(d, q, row))

(* The rows of a queue after reconcile_activity has treated activity a,     *)
(* before the premiums are looked at.                                       *)
EligibleHere(d, q, a) == ActivityIsEligible(d, a, d.queue[q].group, FALSE)
IsMissing(d, q, a) ==
  d.item[q][a] = "absent" /\ EligibleHere(d, q, a) /\ ~IsPremiumActive(a)
IsInserted(d, q, a) == d.queue[q].mode = "normal" /\ IsMissing(d, q, a)
IsExpired(d, q, a) ==
  /\ d.item[q][a] \in OpenToExpiry
  /\ ~EligibleHere(d, q, a) /\ ~HasOpenSession(d, q, a)

ActivityReconciled(d, q, a) ==
  [d.item[q] EXCEPT ![a] =
    IF IsExpired(d, q, a) THEN "expired"
    ELSE IF IsInserted(d, q, a) THEN "pending" ELSE @]

(* Writing such rows: pool_size is recounted only when an item is added.    *)
Inserted(d, q, row) == {a \in Activities : d.item[q][a] = "absent" /\ row[a] # "absent"}
PoolSizeAfter(d, q, row) ==
  IF Inserted(d, q, row) = {} THEN d.queue[q].size
  ELSE Cardinality({a \in Activities : row[a] # "absent"})

WriteRows(d, rows) ==
  [d EXCEPT
    !.item = rows,
    !.queue = [q \in QueueIds |->
                 [d.queue[q] EXCEPT !.size = PoolSizeAfter(d, q, rows[q])]]]

ReconcilePremiumQueue(d, q) ==
  IF d.queue[q].state # "active" THEN d
  ELSE WriteRows(d, [d.item EXCEPT ![q] = PremiumReconciled(d, q, @)])

(* All active queues are locked, so each is reconciled against the same     *)
(* schedules and activities.                                                *)
ReconcileQueues(d, a, Q) ==
  WriteRows(d, [q \in QueueIds |->
    IF q \in Q THEN PremiumReconciled(d, q, ActivityReconciled(d, q, a))
    ELSE d.item[q]])

\* Variant for a mutant: the queues of the former group are forgotten.
ReconcileQueuesOfItsGroup(d, a) ==
  ReconcileQueues(d, a,
    {q \in QueueIds : /\ d.queue[q].state = "active"
                      /\ BelongsToQueue(d.activity[a], d.queue[q].group)})
ReconcileActivity(d, a) ==
  ReconcileQueues(d, a, {q \in QueueIds : d.queue[q].state = "active"})

(* An active queue is found and locked.  When it is drained and has no      *)
(* review, the queue that follows it is created under the same lock.        *)
RefreshActiveQueue(d, sc, g) ==
  LET q == Some(ActiveQueues(d, sc, g))
      e == ExpireInvalidItems(d, q)
      after == FinalizeQueueIfFinished(
        IF d.queue[q].mode = "normal" THEN ReconcilePremiumQueue(e, q) ELSE e, q)
  IN IF ActiveQueues(after, sc, g) # {} THEN after
     ELSE CreateNormalQueue(after, sc, g)

-----------------------------------------------------------------------------
(* Executions.                                                              *)

IsDue(d, s) == d.schedule[s].due # None

(* Facts are immutable and an anonymous scope has none.                     *)
HasNoNewFact(d, s) == d.completion[s] # None \/ d.schedule[s].scope = Anonymous

\* Variant for a mutant: the group is recorded for the category.
RecordGroup(d, s) ==
  IF HasNoNewFact(d, s) THEN d
  ELSE [d EXCEPT !.completion[s] = categoryGroup[d.schedule[s].category]]
RecordCompletion(d, s) ==
  IF HasNoNewFact(d, s) THEN d
  ELSE [d EXCEPT !.completion[s] = d.schedule[s].category]

RecordAnySkip(d, q, a) == [d EXCEPT !.skips = @ \cup {<<q, a>>}]
RecordActivitySkip(d, q, a) ==
  IF d.queue[q].scope = Anonymous THEN d ELSE RecordAnySkip(d, q, a)

(* completion_time is min(now, expected_end_at).                            *)
CompletionDay(d, s) == IF IsDue(d, s) THEN d.schedule[s].due ELSE day

EndExecution(d, s) ==
  RecordCompletion([d EXCEPT !.schedule[s].state = "completed",
                             !.schedule[s].end = CompletionDay(d, s)], s)
EndWithItem(d, s) ==
  [EndExecution(d, s) EXCEPT
    !.item[d.schedule[s].queue][d.schedule[s].activity] = "completed"]

CompleteOpen(d, s) ==
  IF d.schedule[s].queue = None THEN EndExecution(d, s)
  ELSE FinalizeQueueIfFinished(EndWithItem(d, s), d.schedule[s].queue)

CompleteSchedule(d, s) ==
  IF d.schedule[s].state = "completed" THEN RecordCompletion(d, s)
  ELSE CompleteOpen(d, s)

(* get_active_schedule / reconcile_schedule: an overdue execution of the    *)
(* scope is completed by whoever reads it.                                  *)
CompleteOneOf(d, S) == IF S = {} THEN d ELSE CompleteSchedule(d, Some(S))
OverdueIn(d, sc) == {s \in OpenIn(d, sc) : IsDue(d, s)}
\* Variant for a mutant: direct executions are forgotten.
ReconcileOpenOfQueues(d, sc) ==
  CompleteOneOf(d, {s \in OverdueIn(d, sc) : FromQueue(d, s)})
ReconcileOpen(d, sc) == CompleteOneOf(d, OverdueIn(d, sc))

InsertSchedule(d, sc, q, a, c) ==
  [d EXCEPT !.schedule[Some(FreshSchedules(d))] =
    [state |-> "open", scope |-> sc, queue |-> q, activity |-> a,
     category |-> c, start |-> day, due |-> None, end |-> None]]

(* The checks of start_activity under the locks of the item, of its queue   *)
(* and of the category, on the copy of the activity that the view read.     *)
ItemIsAccepted(d, r) ==
  LET g == d.queue[r.queue].group
  IN /\ d.queue[r.queue].scope = r.scope
     /\ d.item[r.queue][r.activity] \in OpenToExpiry
     /\ d.queue[r.queue].state = "active"
     /\ r.row.active
     /\ BelongsToGroup(r.group, g)
     /\ ~CategoryExhausted(d, r.row.category)
     /\ ItemSchedules(d, r.queue, r.activity) = {}

(* The execution found open was overdue, and is locked until the commit.    *)
FoundIsLocked(d, r) == r.found \subseteq OverdueIn(d, r.scope)

(* unique_open_schedule_per_scope and unique_active_queue_per_scope_group.  *)
\* Variant for a mutant: the index is missing.
NoIndex(d, sc) == TRUE
IndexAllowsExecution(d, sc) == OpenIn(d, sc) = {}
NoQueueIndex(d, sc, g) == TRUE
IndexAllowsQueue(d, sc, g) == ActiveQueues(d, sc, g) = {}

(* The overdue execution is completed before the new one is inserted.       *)
InsertIsAllowed(d, r) ==
  FoundIsLocked(d, r) /\ IndexAllowsExecution(CompleteOneOf(d, r.found), r.scope)

(* History.save writes the whole copy of the activity back.                 *)
StartActivity(d, r) ==
  LET e == CompleteOneOf(d, r.found)
      f == [e EXCEPT !.item[r.queue][r.activity] = "started",
                     !.activity[r.activity] = r.row]
  IN InsertSchedule(f, r.scope, r.queue, r.activity, r.row.category)

StartPremium(d, r) ==
  InsertSchedule(CompleteOneOf(d, r.found), r.scope, None, r.activity,
                 d.activity[r.activity].category)

SkipItem(d, q, a) ==
  FinalizeQueueIfFinished(
    RecordActivitySkip([d EXCEPT !.item[q][a] = "skipped"], q, a), q)

RequeuedSkips(d, q) ==
  {a \in Activities : /\ d.item[q][a] = "skipped"
                      /\ NoIneligibilityReason(d, a, d.queue[q].group)}
RecreationCandidates(d, q) ==
  EligibleActivities(d, d.queue[q].group) \cup RequeuedSkips(d, q)

RecreateActiveQueue(d, q) ==
  LET cancelled ==
        [d EXCEPT !.queue[q].state = "cancelled",
                  !.item[q] = [a \in Activities |->
                    IF d.item[q][a] \in OpenToExpiry THEN "expired"
                    ELSE d.item[q][a]]]
  IN InsertQueue(cancelled, d.queue[q].scope, d.queue[q].group, "normal", None,
                 RecreationCandidates(d, q))

-----------------------------------------------------------------------------
(* The transactions.  HasRoom and HasScheduleRoom are the bounds of the     *)
(* instance: it stops, but for the job, when it is out of queue ids.        *)

HasRoom         == FreshQueues(db) # {}
HasScheduleRoom == HasRoom /\ FreshSchedules(db) # {}

Init ==
  /\ db = [queue |-> [q \in QueueIds |-> BlankQueue],
           item |-> [q \in QueueIds |-> [a \in Activities |-> "absent"]],
           schedule |-> [s \in ScheduleIds |-> BlankSchedule],
           completion |-> [s \in ScheduleIds |-> None],
           skips |-> {},
           activity |-> [a \in Activities |->
                           [active |-> TRUE, category |-> InitialCategory[a]]]]
  /\ categoryGroup = InitialGroup
  /\ day = 1
  /\ request = [w \in Workers |-> NoRequest]
  /\ edits = 0

\* Variant for a mutant: an item already presented is not looked for.
StartedIn(d, q) == {a \in Activities : d.item[q][a] = "started"}
Served(d, q) ==
  {a \in Activities : d.item[q][a] \in {"presented", "started"}}
Presentable(d, Q) ==
  {i \in Q \X Activities : Served(d, i[1]) = {} /\ d.item[i[1]][i[2]] = "pending"}

(* GET next: an item already presented or started is served again, else a   *)
(* pending one is presented, in the queue a read found or created in d.     *)
PresentOne(d, sc, g) ==
  LET choices == Presentable(d, ActiveQueues(d, sc, g))
  IN IF choices = {} THEN db' = d
     ELSE \E i \in choices : db' = [d EXCEPT !.item[i[1]][i[2]] = "presented"]

PresentNext(sc, g) ==
  /\ HasRoom
  /\ ActiveQueues(db, sc, g) # {}
  /\ PresentOne(RefreshActiveQueue(db, sc, g), sc, g)
  /\ UNCHANGED <<categoryGroup, day, request, edits>>

Accepts(w, r) ==
  /\ request[w] = NoRequest
  /\ request' = [request EXCEPT ![w] = r]
Continues(w, r) == request' = [request EXCEPT ![w] = r]
Ends(w) == request' = [request EXCEPT ![w] = NoRequest]

(* There is no active queue to lock, or the one the look-up saw and waited  *)
(* for was closed or cancelled meanwhile; a queue active since then is not  *)
(* seen either way.                                                         *)
WasReplaced(sc, g) ==
  \E q \in QueueIds : /\ db.queue[q].state \in {"closed", "cancelled"}
                      /\ db.queue[q].scope = sc /\ db.queue[q].group = g
LookUp(w, sc, g) ==
  /\ HasRoom
  /\ ActiveQueues(db, sc, g) = {} \/ WasReplaced(sc, g)
  /\ Accepts(w, [kind |-> "lookup", scope |-> sc, group |-> g])
  /\ UNCHANGED <<db, categoryGroup, day, edits>>

(* What may go into the queue is read without a lock; when it is nothing,   *)
(* the client is told why.                                                  *)
ReadCandidates(w) ==
  /\ HasRoom
  /\ request[w].kind = "lookup"
  /\ LET r == request[w]
         S == EligibleActivities(db, r.group)
     IN IF S = {} THEN Ends(w)
        ELSE Continues(w, [kind |-> "create", scope |-> r.scope,
                           group |-> r.group, candidates |-> S])
  /\ UNCHANGED <<db, categoryGroup, day, edits>>

CreateQueue(w) ==
  /\ request[w].kind = "create"
  /\ HasRoom
  /\ LET r == request[w]
     IN /\ IndexAllowsQueue(db, r.scope, r.group)
        /\ PresentOne(InsertQueue(db, r.scope, r.group, "normal", None, r.candidates),
                      r.scope, r.group)
  /\ Ends(w)
  /\ UNCHANGED <<categoryGroup, day, edits>>

(* The IntegrityError aborts the transaction; the query that should fetch   *)
(* the queue of the winner fails in it and the client gets an error.        *)
CreationFails(w) ==
  /\ HasRoom
  /\ request[w].kind = "create"
  /\ ~IndexAllowsQueue(db, request[w].scope, request[w].group)
  /\ Ends(w)
  /\ UNCHANGED <<db, categoryGroup, day, edits>>

(* POST start: the view reads the activity outside of any transaction.  A   *)
(* start that is refused whatever happens next (an item of another scope,   *)
(* or one that is no longer open) changes nothing and is left out.          *)
RequestStart(w, sc, q, a) ==
  /\ HasRoom
  /\ db.queue[q].scope = sc /\ db.item[q][a] \in OpenToExpiry
  /\ Accepts(w, [kind |-> "start", scope |-> sc, queue |-> q, activity |-> a,
                 row |-> db.activity[a],
                 group |-> categoryGroup[db.activity[a].category]])
  /\ UNCHANGED <<db, categoryGroup, day, edits>>

(* The transaction reads the open execution of the scope, which no lock it  *)
(* holds keeps others from inserting, and goes on unless that is running.   *)
(* The minutes of the group are read just before, without a lock that keeps *)
(* them: starts of every group count for the default one and lock their own.*)
FindOpen(w) ==
  /\ HasRoom
  /\ request[w].kind = "start"
  /\ LET r == request[w]
     IN /\ FitsRemainingMinutes(db, r.activity, db.queue[r.queue].group)
        /\ OpenIn(db, r.scope) \subseteq OverdueIn(db, r.scope)
        /\ Continues(w, [kind |-> "insert", scope |-> r.scope, queue |-> r.queue,
                         activity |-> r.activity, row |-> r.row, group |-> r.group,
                         found |-> OpenIn(db, r.scope)])
  /\ UNCHANGED <<db, categoryGroup, day, edits>>

StartCommits(w) ==
  /\ request[w].kind = "insert"
  /\ HasScheduleRoom
  /\ ItemIsAccepted(db, request[w])
  /\ InsertIsAllowed(db, request[w])
  /\ db' = StartActivity(db, request[w])
  /\ Ends(w)
  /\ UNCHANGED <<categoryGroup, day, edits>>

(* A premium started outside of the queues.                                 *)
PremiumFindsOpen(w, sc, a) ==
  /\ HasRoom
  /\ IsPremiumActive(a)
  /\ OpenIn(db, sc) \subseteq OverdueIn(db, sc)
  /\ Accepts(w, [kind |-> "premium", scope |-> sc, activity |-> a,
                 found |-> OpenIn(db, sc)])
  /\ UNCHANGED <<db, categoryGroup, day, edits>>

PremiumCommits(w) ==
  /\ request[w].kind = "premium"
  /\ HasScheduleRoom
  /\ InsertIsAllowed(db, request[w])
  /\ db' = StartPremium(db, request[w])
  /\ Ends(w)
  /\ UNCHANGED <<categoryGroup, day, edits>>

(* A conflict, be it a check or an IntegrityError, rolls everything back,   *)
(* the completion of an overdue execution included.                         *)
IsRefused(r) ==
  CASE r.kind = "start"   -> \/ ~FitsRemainingMinutes(db, r.activity, db.queue[r.queue].group)
                             \/ ~(OpenIn(db, r.scope) \subseteq OverdueIn(db, r.scope))
    [] r.kind = "insert"  -> ~(ItemIsAccepted(db, r) /\ InsertIsAllowed(db, r))
    [] r.kind = "premium" -> ~InsertIsAllowed(db, r)
    [] OTHER              -> FALSE
StartConflicts(w) ==
  /\ HasRoom
  /\ IsRefused(request[w])
  /\ Ends(w)
  /\ UNCHANGED <<db, categoryGroup, day, edits>>

Skip(q, a) ==
  /\ HasRoom
  /\ db.queue[q].mode # "skipped_review"
  /\ db.item[q][a] \in OpenToExpiry
  /\ db' = SkipItem(db, q, a)
  /\ UNCHANGED <<categoryGroup, day, request, edits>>

Complete(s) ==
  /\ HasRoom
  /\ db.schedule[s].state # "none"
  /\ db' = CompleteSchedule(db, s)
  /\ UNCHANGED <<categoryGroup, day, request, edits>>

(* GET active or status.                                                    *)
Poll(sc) ==
  /\ HasRoom
  /\ db' = ReconcileOpen(db, sc)
  /\ UNCHANGED <<categoryGroup, day, request, edits>>

(* POST recreate.  An execution counts as open here even when overdue.      *)
Recreate(sc, g) ==
  /\ HasRoom
  /\ OpenIn(db, sc) = {}
  /\ \E q \in ActiveQueues(db, sc, g) :
       /\ db.queue[q].mode = "normal"
       /\ RecreationCandidates(db, q) # {}
       /\ db' = RecreateActiveQueue(db, q)
  /\ UNCHANGED <<categoryGroup, day, request, edits>>

(* PATCH of an activity, with the reconciliation of every active queue.     *)
EditActivity(a, row) ==
  /\ HasRoom
  /\ edits < MaxEdits
  /\ db' = ReconcileActivity([db EXCEPT !.activity[a] = row], a)
  /\ edits' = edits + 1
  /\ UNCHANGED <<categoryGroup, day, request>>

(* The admin saves a category with another group: no queue is reconciled.   *)
(* Bound of the instance: each category is moved once.                      *)
MoveCategory(c, g) ==
  /\ HasRoom
  /\ categoryGroup[c] = InitialGroup[c] /\ g # InitialGroup[c]
  /\ categoryGroup' = [categoryGroup EXCEPT ![c] = g]
  /\ UNCHANGED <<db, day, request, edits>>

(* One queue of the job that reconciles all premium queues.                 *)
ReconcileJob(q) ==
  /\ db.queue[q].state = "active"
  /\ db' = ReconcilePremiumQueue(db, q)
  /\ UNCHANGED <<categoryGroup, day, request, edits>>

FallDue(s) ==
  /\ HasRoom
  /\ IsOpen(db, s) /\ ~IsDue(db, s)
  /\ db' = [db EXCEPT !.schedule[s].due = day]
  /\ UNCHANGED <<categoryGroup, day, request, edits>>

NewDay ==
  /\ HasRoom
  /\ day < MaxDay
  /\ day' = day + 1
  /\ UNCHANGED <<db, categoryGroup, request, edits>>

Next ==
  \/ \E sc \in Scopes, g \in Groups : PresentNext(sc, g) \/ Recreate(sc, g)
  \/ \E w \in Workers, sc \in Scopes, q \in QueueIds, a \in Activities :
       RequestStart(w, sc, q, a)
  \/ \E w \in Workers, sc \in Scopes, g \in Groups : LookUp(w, sc, g)
  \/ \E w \in Workers, sc \in Scopes, a \in Activities : PremiumFindsOpen(w, sc, a)
  \/ \E w \in Workers :
       \/ ReadCandidates(w) \/ CreateQueue(w) \/ CreationFails(w)
       \/ FindOpen(w) \/ StartCommits(w) \/ PremiumCommits(w) \/ StartConflicts(w)
  \/ \E q \in QueueIds, a \in Activities : Skip(q, a)
  \/ \E s \in ScheduleIds : Complete(s) \/ FallDue(s)
  \/ \E sc \in Scopes : Poll(sc)
  \/ \E a \in Activities : \E row \in EditedTo[a] : EditActivity(a, row)
  \/ \E c \in Moved, g \in Groups : MoveCategory(c, g)
  \/ \E q \in QueueIds : ReconcileJob(q)
  \/ NewDay

Spec == Init /\ [][Next]_vars

(* Clients poll the active execution again and again, so a poll that would  *)
(* change something is made sometime: the weak fairness of Poll, with what  *)
(* enables a changing step spelled out.  Nothing obliges a client to start, *)
(* skip or complete, nor an admin to edit.                                  *)
PollChanges(sc) == HasRoom /\ ReconcileOpen(db, sc) # db
Fairness == \A sc \in Scopes : []<>~PollChanges(sc) \/ []<><<Poll(sc)>>_vars
FairSpec == Spec /\ Fairness

-----------------------------------------------------------------------------
(* Properties.  The parts of the inductive invariant are operators on a     *)
(* database, because a service passes through several databases before its  *)
(* transaction commits the last one.                                        *)

(* Every row, request and counter has its type.                             *)
TypeOK ==
  /\ db \in Databases
  /\ day \in Days
  /\ categoryGroup \in [Categories -> Groups]
  /\ request \in [Workers -> Requests]
  /\ edits \in 0 .. MaxEdits

(* At most one execution is open per scope, although a start looks for an   *)
(* open one before it inserts and starts of other groups or of a premium    *)
(* share no lock with it: unique_open_schedule_per_scope decides between    *)
(* them, and the loser takes back the completion it made on the way.        *)
OneOpenExecutionIn(d) ==
  \A s, t \in ScheduleIds :
    /\ IsOpen(d, s) /\ IsOpen(d, t)
    /\ d.schedule[s].scope = d.schedule[t].scope
    => s = t
OneOpenExecution == OneOpenExecutionIn(db)

(* At most one queue is active per scope and group, although a queue is     *)
(* created by next, by a completion or a skip that opens a review, and by a *)
(* recreation.  The lock of the queue they replace keeps it for all but the *)
(* first reads of next, which have no row to lock: between those only       *)
(* unique_active_queue_per_scope_group decides.                             *)
OneActiveQueueIn(d) ==
  \A q, r \in QueueIds :
    /\ d.queue[q].state = "active" /\ d.queue[r].state = "active"
    /\ d.queue[q].scope = d.queue[r].scope
    /\ d.queue[q].group = d.queue[r].group
    => q = r
OneActiveQueue == OneActiveQueueIn(db)

(* An item is started exactly while an execution of it is open, and only an *)
(* executed item counts as completed: complete_schedule, the reconciliation *)
(* and a recreation never leave the item and its execution apart.           *)
ItemsMatchExecutionsIn(d) ==
  /\ \A s \in ScheduleIds : FromQueue(d, s) =>
       LET q == d.schedule[s].queue
       IN /\ d.queue[q].state # "none"
          /\ d.queue[q].scope = d.schedule[s].scope
          /\ d.item[q][d.schedule[s].activity] =
               IF IsOpen(d, s) THEN "started" ELSE "completed"
  /\ \A q \in QueueIds, a \in Activities :
       d.item[q][a] \in {"started", "completed"} => ItemSchedules(d, q, a) # {}
  /\ \A s, t \in ScheduleIds :
       /\ FromQueue(d, s) /\ FromQueue(d, t)
       /\ d.schedule[s].queue = d.schedule[t].queue
       /\ d.schedule[s].activity = d.schedule[t].activity
       => s = t
ItemsMatchExecutions == ItemsMatchExecutionsIn(db)

(* A queue that is closed or cancelled has nothing left to present, start,  *)
(* skip or complete: its executions ended before it did.                    *)
InactiveQueuesDrainedIn(d) ==
  \A q \in QueueIds : d.queue[q].state # "active" => Available(d, q) = {}
InactiveQueuesDrained == InactiveQueuesDrainedIn(db)

(* The review of a queue happens once, after it closed, for the same scope  *)
(* and group; it holds only activities skipped there and skips none itself, *)
(* even after edits and premium reconciliations of the active queues.       *)
ReviewRepeatsSkipsIn(d) ==
  \A r \in QueueIds : d.queue[r].mode = "skipped_review" =>
    LET q == d.queue[r].source
    IN /\ q # None
       /\ d.queue[q].state = "closed" /\ d.queue[q].mode = "normal"
       /\ d.queue[q].scope = d.queue[r].scope
       /\ d.queue[q].group = d.queue[r].group
       /\ \A a \in Members(d, r) :
            d.item[q][a] = "skipped" /\ d.item[r][a] # "skipped"
       /\ \A x \in QueueIds : d.queue[x].source = q => x = r
ReviewRepeatsSkips == ReviewRepeatsSkipsIn(db)

(* The position of a queue: consumed_count and pool_size, kept incrementally*)
(* by a dozen writers, agree with the items, and two calls of next never    *)
(* have two items presented at once.                                        *)
PositionMatches ==
  \A q \in QueueIds :
    /\ db.queue[q].consumed = Cardinality(Consumed(db, q))
    /\ db.queue[q].size = Cardinality(Members(db, q))
    /\ Cardinality({a \in Activities : db.item[q][a] = "presented"}) <= 1

(* Weekly goals count from the facts: one per completed execution and one   *)
(* per skipped item of an identified scope, under the category the          *)
(* execution started with, and none for anything else.                      *)
FactsMatchIn(d) ==
  /\ \A s \in ScheduleIds :
       LET row == d.schedule[s]
       IN d.completion[s] = IF row.state = "completed" /\ row.scope # Anonymous
                             THEN row.category ELSE None
  /\ d.skips = {i \in QueueIds \X Activities :
                   /\ d.item[i[1]][i[2]] = "skipped"
                   /\ d.queue[i[1]].scope # Anonymous}
FactsMatch == FactsMatchIn(db)

(* While no activity is edited, the queue starts of a day never exceed      *)
(* the category's daily limit, over all scopes, groups and start requests.  *)
CategoryLimit ==
  edits = 0 =>
  \A c \in Categories, n \in Days :
    Cardinality({s \in ScheduleIds : /\ FromQueue(db, s)
                                     /\ db.schedule[s].start = n
                                     /\ db.schedule[s].category = c})
      <= MaxDailyExecutions[c]

(* What is settled stays settled: a closed queue never reopens, a consumed  *)
(* or expired item never comes back, a completed execution keeps its row    *)
(* and a recorded fact is never changed or removed.                         *)
HistoryIsFinal ==
  [][/\ \A q \in QueueIds : db.queue[q].state \in {"closed", "cancelled"} =>
          db'.queue[q].state = db.queue[q].state
     /\ \A q \in QueueIds, a \in Activities :
          db.item[q][a] \in {"completed", "skipped", "expired"} =>
            db'.item[q][a] = db.item[q][a]
     /\ \A s \in ScheduleIds : db.schedule[s].state = "completed" =>
          db'.schedule[s] = db.schedule[s]
     /\ \A s \in ScheduleIds : db.completion[s] # None =>
          db'.completion[s] = db.completion[s]
     /\ db.skips \subseteq db'.skips]_vars

(* Whatever moves of categories, starts with a stale copy of an activity    *)
(* and creations from stale candidates left before, an edit leaves every    *)
(* active queue without a pending or presented item of another group.       *)
NoForeignItemIn(d) ==
  \A q \in QueueIds, a \in Activities :
    /\ d.queue[q].state = "active"
    /\ d.item[q][a] \in OpenToExpiry
    => BelongsToQueue(d.activity[a], d.queue[q].group)
EditsLeaveNoForeignItem ==
  [][edits' # edits => NoForeignItemIn(db)']_vars

(* Whatever edits, moved categories or stale requests did to the queue that *)
(* a read of next finds, the queue active after the read has something to   *)
(* serve and no pending or presented item of another group: a drained or    *)
(* sanitised queue is closed and followed up in the same read.              *)
NextRepairsQueue ==
  HasRoom => \A sc \in Scopes, g \in Groups : ActiveQueues(db, sc, g) # {} =>
    LET d == RefreshActiveQueue(db, sc, g)
    IN \A q \in ActiveQueues(d, sc, g) :
         /\ Available(d, q) # {}
         /\ \A a \in Activities : d.item[q][a] \in OpenToExpiry =>
              BelongsToQueue(d.activity[a], g)

(* An item of an active queue that belongs to its group goes on belonging   *)
(* while no category moves: no service turns it into a foreign one.         *)
ItemsStayAtHome ==
  [][UNCHANGED categoryGroup =>
       \A q \in QueueIds, a \in Activities :
         /\ db.queue[q].state = "active" /\ db'.queue[q].state = "active"
         /\ db.item[q][a] \in OpenToExpiry /\ db'.item[q][a] \in OpenToExpiry
         /\ BelongsToQueue(db.activity[a], db.queue[q].group)
         => BelongsToQueue(db'.activity[a], db.queue[q].group)]_vars

(* An execution past its end is completed by the reads of its scope, without*)
(* the client ever completing it (or the instance runs out of queue ids).   *)
OverdueIsCompleted ==
  \A s \in ScheduleIds : IsDue(db, s) ~> (~IsOpen(db, s) \/ ~HasRoom)

=============================================================================
