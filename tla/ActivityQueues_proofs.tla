------------------------ MODULE ActivityQueues_proofs ------------------------
(* Proofs about ActivityQueues for every catalogue, every number of scopes, *)
(* queues, executions, days and request threads.                            *)
(*                                                                          *)
(* A service is an operator on databases, so each has a lemma on databases: *)
(* it keeps the inductive invariant Good, and it leaves the rest of the     *)
(* database in a state the service that calls it can go on from.            *)
EXTENDS ActivityQueues, FiniteSetTheorems, TLAPS

Good(d) ==
  /\ d \in Databases
  /\ OneOpenExecutionIn(d)
  /\ OneActiveQueueIn(d)
  /\ ItemsMatchExecutionsIn(d)
  /\ InactiveQueuesDrainedIn(d)

(* The step from d to e leaves the queues themselves and the executions     *)
(* alone, up to counters.                                                   *)
SameQueues(d, e) ==
  \A q \in QueueIds : /\ e.queue[q].state = d.queue[q].state
                      /\ e.queue[q].scope = d.queue[q].scope
                      /\ e.queue[q].group = d.queue[q].group

(* It only moves items between the states that no execution explains.       *)
NoExecution == ItemStates \ {"started", "completed"}
OnlyItems(d, e) ==
  /\ e.schedule = d.schedule
  /\ SameQueues(d, e)
  /\ \A q \in QueueIds, a \in Activities :
       \/ e.item[q][a] = d.item[q][a]
       \/ /\ d.item[q][a] \in NoExecution /\ e.item[q][a] \in NoExecution
          /\ d.queue[q].state = "active" \/ e.item[q][a] \notin AvailableStates

(* What a reconciliation may write, counters aside: what is open expires,   *)
(* and what is missing is added to an active queue that is not a review.    *)
Reconciles(d, e) ==
  /\ e.schedule = d.schedule /\ e.completion = d.completion
  /\ e.skips = d.skips /\ e.activity = d.activity
  /\ \A q \in QueueIds : /\ e.queue[q].state = d.queue[q].state
                        /\ e.queue[q].scope = d.queue[q].scope
                        /\ e.queue[q].group = d.queue[q].group
                        /\ e.queue[q].mode = d.queue[q].mode
                        /\ e.queue[q].source = d.queue[q].source
  /\ \A q \in QueueIds, a \in Activities :
       \/ e.item[q][a] = d.item[q][a]
       \/ d.item[q][a] \in OpenToExpiry /\ e.item[q][a] = "expired"
       \/ /\ d.item[q][a] = "absent" /\ e.item[q][a] \in {"pending", "expired"}
          /\ d.queue[q].state = "active" /\ d.queue[q].mode = "normal"

LEMMA ReconcilesTransitive ==
  ASSUME NEW c, NEW d, NEW e, Reconciles(c, d), Reconciles(d, e)
  PROVE  Reconciles(c, e)
BY DEF Reconciles, OpenToExpiry

LEMMA ReconcilesOnlyItems ==
  ASSUME NEW d, NEW e, Reconciles(d, e)
  PROVE  OnlyItems(d, e)
BY DEF Reconciles, OnlyItems, SameQueues, NoExecution, ItemStates, OpenToExpiry,
       AvailableStates

-----------------------------------------------------------------------------
(* Ids and counters.                                                        *)

LEMMA SomeIsMember ==
  ASSUME NEW S, S # {}
  PROVE  Some(S) \in S
BY DEF Some

LEMMA NoneIsNoQueue == None \notin QueueIds
BY DEF None, QueueIds

LEMMA CountersAreNatural ==
  ASSUME NEW d, NEW q
  PROVE  Cardinality(Consumed(d, q)) \in Nat /\ Cardinality(Members(d, q)) \in Nat
<1>1. Consumed(d, q) \subseteq Activities /\ Members(d, q) \subseteq Activities
  BY DEF Consumed, Members
<1> QED
  BY <1>1, FinitenessAssumption, FS_Subset, FS_CardinalityType

(* A service that only moves such items keeps the invariant.                *)
LEMMA OnlyItemsKeepsGood ==
  ASSUME NEW d, NEW e, Good(d), e \in Databases, OnlyItems(d, e)
  PROVE  Good(e)
<1> USE DEF Good, OnlyItems, SameQueues
<1>1. OneOpenExecutionIn(e)
  BY DEF OneOpenExecutionIn, IsOpen
<1>2. OneActiveQueueIn(e)
  BY DEF OneActiveQueueIn
<1>3. ItemsMatchExecutionsIn(e)
  <2>1. \A q \in QueueIds, a \in Activities : ItemSchedules(e, q, a) = ItemSchedules(d, q, a)
    BY DEF ItemSchedules
  <2>2. \A s \in ScheduleIds : FromQueue(e, s) = FromQueue(d, s) /\ IsOpen(e, s) = IsOpen(d, s)
    BY DEF FromQueue, IsOpen
  <2>3. \A q \in QueueIds, a \in Activities :
          e.item[q][a] \in {"started", "completed"} \/ d.item[q][a] \in {"started", "completed"}
            => e.item[q][a] = d.item[q][a]
    BY DEF NoExecution
  <2>4. \A s \in ScheduleIds : FromQueue(d, s) => d.schedule[s].queue \in QueueIds /\ d.schedule[s].activity \in Activities
    BY DEF FromQueue, Databases, ScheduleRows
  <2> QED
    BY <2>1, <2>2, <2>3, <2>4 DEF ItemsMatchExecutionsIn
<1>4. InactiveQueuesDrainedIn(e)
  BY DEF InactiveQueuesDrainedIn, Available, NoExecution
<1> QED
  BY <1>1, <1>2, <1>3, <1>4

-----------------------------------------------------------------------------
(* Closing a queue and creating the one that follows it.                    *)

LEMMA RefreshKeepsGood ==
  ASSUME NEW d, NEW q \in QueueIds, Good(d)
  PROVE  /\ Good(RefreshQueueCounters(d, q))
         /\ OnlyItems(d, RefreshQueueCounters(d, q))
         /\ Reconciles(d, RefreshQueueCounters(d, q))
         /\ RefreshQueueCounters(d, q).item = d.item
<1> DEFINE e == RefreshQueueCounters(d, q)
<1>0. d \in Databases
  BY DEF Good
<1>1. /\ e.item = d.item /\ e.schedule = d.schedule
      /\ e.queue = [d.queue EXCEPT ![q].consumed = Cardinality(Consumed(d, q)),
                                   ![q].size = Cardinality(Members(d, q))]
      /\ e.completion = d.completion /\ e.skips = d.skips /\ e.activity = d.activity
  BY <1>0 DEF RefreshQueueCounters, Databases
<1>2. /\ e.queue \in [QueueIds -> QueueRows]
      /\ \A x \in QueueIds : /\ e.queue[x].state = d.queue[x].state
                             /\ e.queue[x].scope = d.queue[x].scope
                             /\ e.queue[x].group = d.queue[x].group
                             /\ e.queue[x].mode = d.queue[x].mode
                             /\ e.queue[x].source = d.queue[x].source
  <2> DEFINE m == Cardinality(Consumed(d, q))
             n == Cardinality(Members(d, q))
  <2>1. m \in Nat /\ n \in Nat
    BY CountersAreNatural
  <2>2. e.queue = [d.queue EXCEPT ![q] = [d.queue[q] EXCEPT !.consumed = m, !.size = n]]
    BY <1>0, <1>1 DEF Databases
  <2> HIDE DEF m, n, e
  <2>3. [d.queue[q] EXCEPT !.consumed = m, !.size = n] \in QueueRows
    <3>1. d.queue[q] \in QueueRows
      BY <1>0 DEF Databases
    <3> QED
      BY <2>1, <3>1 DEF QueueRows
  <2> QED
    BY <1>0, <2>2, <2>3 DEF Databases, QueueRows
<1>3. e \in Databases
  BY <1>0, <1>2, CountersAreNatural DEF RefreshQueueCounters, Databases, QueueRows
<1>4. Reconciles(d, e)
  BY <1>1, <1>2 DEF Reconciles
<1> QED
  BY <1>1, <1>3, <1>4, ReconcilesOnlyItems, OnlyItemsKeepsGood

(* What closing q leaves behind.                                            *)
ClosedAt(d, e, q) ==
  /\ e.item = d.item /\ e.schedule = d.schedule
  /\ e.completion = d.completion /\ e.skips = d.skips /\ e.activity = d.activity
  /\ e.queue[q].state = "closed"
  /\ \A x \in QueueIds : /\ e.queue[x].scope = d.queue[x].scope
                         /\ e.queue[x].group = d.queue[x].group
                         /\ e.queue[x].mode = d.queue[x].mode
                         /\ e.queue[x].source = d.queue[x].source
                         /\ x # q => e.queue[x].state = d.queue[x].state
Closed(d, q) == [d EXCEPT !.queue[q].state = "closed"]

LEMMA ClosedKeepsGood ==
  ASSUME NEW d, NEW q \in QueueIds, Good(d),
         d.queue[q].state = "active", Available(d, q) = {}
  PROVE  Good(Closed(d, q)) /\ ClosedAt(d, Closed(d, q), q)
<1> DEFINE c == Closed(d, q)
<1>0. d \in Databases
  BY DEF Good
<1>1. c \in Databases /\ ClosedAt(d, c, q)
  BY <1>0 DEF Closed, Databases, QueueRows, QueueStates, ClosedAt
<1> HIDE DEF c
<1>2. Good(c)
  <2>1. OneOpenExecutionIn(c) /\ OneActiveQueueIn(c)
    BY <1>1 DEF Good, ClosedAt, OneOpenExecutionIn, OneActiveQueueIn, IsOpen
  <2>2. ItemsMatchExecutionsIn(c)
    <3>1. \A x \in QueueIds, a \in Activities : ItemSchedules(c, x, a) = ItemSchedules(d, x, a)
      BY <1>1 DEF ItemSchedules, ClosedAt
    <3>2. \A s \in ScheduleIds : FromQueue(c, s) = FromQueue(d, s) /\ IsOpen(c, s) = IsOpen(d, s)
      BY <1>1 DEF FromQueue, IsOpen, ClosedAt
    <3>3. \A s \in ScheduleIds : FromQueue(d, s) => d.schedule[s].queue \in QueueIds
      BY <1>0 DEF FromQueue, Databases, ScheduleRows
    <3> QED
      BY <1>1, <3>1, <3>2, <3>3 DEF Good, ClosedAt, ItemsMatchExecutionsIn
  <2>3. InactiveQueuesDrainedIn(c)
    BY <1>1 DEF Good, ClosedAt, InactiveQueuesDrainedIn, Available
  <2> QED
    BY <1>1, <2>1, <2>2, <2>3 DEF Good
<1> QED
  BY <1>1, <1>2 DEF c

LEMMA CloseQueueKeepsGood ==
  ASSUME NEW d, NEW q \in QueueIds, Good(d),
         d.queue[q].state = "active", Available(d, q) = {}
  PROVE  Good(CloseQueue(d, q)) /\ ClosedAt(d, CloseQueue(d, q), q)
<1> DEFINE c == Closed(d, q)
<1>1. Good(c) /\ ClosedAt(d, c, q)
  BY ClosedKeepsGood
<1>2. CloseQueue(d, q) = RefreshQueueCounters(c, q)
  BY DEF CloseQueue, Closed
<1> HIDE DEF c
<1>3. /\ Good(CloseQueue(d, q)) /\ CloseQueue(d, q).item = c.item
      /\ Reconciles(c, CloseQueue(d, q))
  BY <1>1, <1>2, RefreshKeepsGood
<1> QED
  BY <1>1, <1>3 DEF Reconciles, ClosedAt

(* A new queue leaves the rows that exist alone.                            *)
OldRowsKept(d, e) ==
  /\ e.schedule = d.schedule
  /\ \A x \in QueueIds : d.queue[x].state # "none" =>
       e.queue[x] = d.queue[x] /\ e.item[x] = d.item[x]

LEMMA InsertQueueKeepsGood ==
  ASSUME NEW d, NEW sc \in Scopes, NEW g \in Groups, NEW mode \in QueueModes,
         NEW source \in QueueIds \cup {None}, NEW S, S \subseteq Activities,
         Good(d), FreshQueues(d) # {}, ActiveQueues(d, sc, g) = {}
  PROVE  /\ Good(InsertQueue(d, sc, g, mode, source, S))
         /\ OldRowsKept(d, InsertQueue(d, sc, g, mode, source, S))
         /\ ActiveQueues(InsertQueue(d, sc, g, mode, source, S), sc, g) # {}
<1> DEFINE n == Some(FreshQueues(d))
           e == InsertQueue(d, sc, g, mode, source, S)
<1>0. d \in Databases
  BY DEF Good
<1>1. n \in QueueIds /\ d.queue[n].state = "none"
  BY SomeIsMember DEF FreshQueues
<1>2. Cardinality(S) \in Nat
  BY FinitenessAssumption, FS_Subset, FS_CardinalityType
<1>3. e \in Databases
  BY <1>0, <1>1, <1>2 DEF InsertQueue, Databases, QueueRows, QueueStates, QueueModes, ItemStates
<1>4. /\ e.schedule = d.schedule
      /\ \A x \in QueueIds \ {n} : e.queue[x] = d.queue[x] /\ e.item[x] = d.item[x]
      /\ e.queue[n].state = "active" /\ e.queue[n].scope = sc /\ e.queue[n].group = g
      /\ \A a \in Activities : e.item[n][a] \in {"pending", "absent"}
  BY <1>0, <1>1 DEF InsertQueue, Databases
<1>5. OneOpenExecutionIn(e)
  BY <1>4 DEF Good, OneOpenExecutionIn, IsOpen
<1>6. OneActiveQueueIn(e)
  BY <1>4 DEF Good, OneActiveQueueIn, ActiveQueues
<1>7. ItemsMatchExecutionsIn(e)
  <2>1. \A x \in QueueIds, a \in Activities : ItemSchedules(e, x, a) = ItemSchedules(d, x, a)
    BY <1>4 DEF ItemSchedules
  <2>2. \A s \in ScheduleIds : FromQueue(e, s) = FromQueue(d, s) /\ IsOpen(e, s) = IsOpen(d, s)
    BY <1>4 DEF FromQueue, IsOpen
  <2>3. \A s \in ScheduleIds : FromQueue(d, s) =>
          d.schedule[s].queue \in QueueIds /\ d.schedule[s].queue # n
    BY <1>0, <1>1 DEF FromQueue, Databases, ScheduleRows, Good, ItemsMatchExecutionsIn
  <2>4. \A x \in QueueIds, a \in Activities :
          e.item[x][a] \in {"started", "completed"} => e.item[x][a] = d.item[x][a]
    BY <1>4
  <2> QED
    BY <1>4, <2>1, <2>2, <2>3, <2>4 DEF Good, ItemsMatchExecutionsIn
<1>8. InactiveQueuesDrainedIn(e)
  BY <1>4 DEF Good, InactiveQueuesDrainedIn, Available
<1>9. OldRowsKept(d, e)
  BY <1>1, <1>4 DEF OldRowsKept
<1>10. n \in ActiveQueues(e, sc, g)
  BY <1>1, <1>4 DEF ActiveQueues
<1> QED
  BY <1>3, <1>5, <1>6, <1>7, <1>8, <1>9, <1>10 DEF Good

(* What finishing queue q leaves behind: the rows of the other queues, all  *)
(* items and executions, and either the ids that were free or a new queue   *)
(* in q's place.                                                            *)
FinishedAt(d, e, q) ==
  /\ e.schedule = d.schedule
  /\ \A x \in QueueIds : d.queue[x].state # "none" =>
       /\ e.item[x] = d.item[x]
       /\ e.queue[x].state # "none"
       /\ e.queue[x].scope = d.queue[x].scope /\ e.queue[x].group = d.queue[x].group
  /\ \/ FreshQueues(e) # {}
     \/ ActiveQueues(e, d.queue[q].scope, d.queue[q].group) # {}

LEMMA CreateReviewKeepsGood ==
  ASSUME NEW d, NEW q \in QueueIds, Good(d), d.queue[q].state # "none",
         FreshQueues(d) # {},
         ActiveQueues(d, d.queue[q].scope, d.queue[q].group) = {}
  PROVE  Good(CreateReview(d, q)) /\ FinishedAt(d, CreateReview(d, q), q)
<1> DEFINE S == ReviewCandidates(d, q)
           sc == d.queue[q].scope
           g == d.queue[q].group
           e == InsertQueue(d, sc, g, "skipped_review", q, S)
<1>1. CASE CreateReview(d, q) = d
  BY <1>1 DEF FinishedAt
<1>2. CASE CreateReview(d, q) = e
  <2>1. sc \in Scopes /\ g \in Groups
    BY DEF Good, Databases, QueueRows
  <2>2. S \subseteq Activities /\ "skipped_review" \in QueueModes /\ q \in QueueIds \cup {None}
    BY DEF ReviewCandidates, QueueModes
  <2> HIDE DEF S, sc, g
  <2>3. Good(e) /\ OldRowsKept(d, e) /\ ActiveQueues(e, sc, g) # {}
    BY <2>1, <2>2, InsertQueueKeepsGood DEF sc, g
  <2> QED
    BY <1>2, <2>3 DEF OldRowsKept, FinishedAt, sc, g
<1> QED
  BY <1>1, <1>2 DEF CreateReview

LEMMA FinalizeKeepsGood ==
  ASSUME NEW d, NEW q \in QueueIds, Good(d), d.queue[q].state = "active",
         FreshQueues(d) # {}
  PROVE  /\ Good(FinalizeQueueIfFinished(d, q))
         /\ FinishedAt(d, FinalizeQueueIfFinished(d, q), q)
<1> DEFINE e == FinalizeQueueIfFinished(d, q)
<1>1. CASE Available(d, q) # {}
  <2>1. e = RefreshQueueCounters(d, q)
    BY <1>1 DEF FinalizeQueueIfFinished
  <2>2. Good(e) /\ OnlyItems(d, e) /\ e.item = d.item
    BY <2>1, RefreshKeepsGood
  <2>3. FreshQueues(e) = FreshQueues(d)
    BY <2>2 DEF OnlyItems, SameQueues, FreshQueues
  <2> QED
    BY <2>2, <2>3 DEF OnlyItems, SameQueues, FinishedAt
<1>2. CASE Available(d, q) = {}
  <2> DEFINE c == CloseQueue(d, q)
  <2>1. Good(c) /\ ClosedAt(d, c, q)
    BY <1>2, CloseQueueKeepsGood
  <2>2. e = CreateReview(c, q)
    BY <1>2 DEF FinalizeQueueIfFinished
  <2> HIDE DEF c, e
  <2>3. FreshQueues(c) # {} /\ c.queue[q].state # "none"
    BY <2>1 DEF ClosedAt, FreshQueues
  <2>4. ActiveQueues(c, c.queue[q].scope, c.queue[q].group) = {}
    BY <2>1 DEF ClosedAt, ActiveQueues, Good, OneActiveQueueIn
  <2>5. Good(e) /\ FinishedAt(c, e, q)
    BY <2>1, <2>2, <2>3, <2>4, CreateReviewKeepsGood
  <2>6. \A x \in QueueIds : d.queue[x].state # "none" => c.queue[x].state # "none"
    BY <2>1 DEF ClosedAt
  <2> QED
    BY <2>1, <2>5, <2>6 DEF ClosedAt, FinishedAt, e
<1> QED
  BY <1>1, <1>2

-----------------------------------------------------------------------------
(* Reconciling a queue.                                                     *)

LEMMA ExpireInvalidItemsKeepsGood ==
  ASSUME NEW d, NEW q \in QueueIds, Good(d)
  PROVE  /\ Good(ExpireInvalidItems(d, q))
         /\ SameQueues(d, ExpireInvalidItems(d, q))
         /\ Reconciles(d, ExpireInvalidItems(d, q))
         /\ \A x \in QueueIds, a \in Activities :
              ExpireInvalidItems(d, q).item[x][a] \in {d.item[x][a], "expired"}
<1> DEFINE c == SyncWithSchedules(d, q)
           e == ExpireIneligible(c, q)
<1>0. d \in Databases
  BY DEF Good
<1>1. /\ c \in Databases /\ Reconciles(d, c)
      /\ \A x \in QueueIds, a \in Activities : c.item[x][a] = d.item[x][a]
  <2>1. \A a \in Activities :
          d.item[q][a] \in AvailableStates /\ ItemSchedules(d, q, a) # {} =>
            d.item[q][a] = "started" /\ HasOpenSession(d, q, a)
    BY NoneIsNoQueue
    DEF Good, ItemsMatchExecutionsIn, AvailableStates, ItemSchedules, FromQueue,
        HasOpenSession, IsOpen
  <2>2. c.item \in [QueueIds -> [Activities -> ItemStates]] /\ c = [d EXCEPT !.item = c.item]
    BY <1>0, <2>1 DEF SyncWithSchedules, Databases, ItemStates
  <2>3. \A x \in QueueIds, a \in Activities : c.item[x][a] = d.item[x][a]
    BY <1>0, <2>1 DEF SyncWithSchedules, Databases
  <2> QED
    BY <1>0, <2>2, <2>3 DEF Databases, Reconciles
<1>2. Good(c)
  BY <1>1, ReconcilesOnlyItems, OnlyItemsKeepsGood
<1> HIDE DEF c
<1>3. /\ e \in Databases /\ Reconciles(c, e)
      /\ \A x \in QueueIds, a \in Activities : e.item[x][a] \in {c.item[x][a], "expired"}
  <2>1. c \in Databases
    BY <1>1
  <2>2. /\ e \in Databases /\ e.schedule = c.schedule /\ e.queue = c.queue
        /\ e.completion = c.completion /\ e.skips = c.skips /\ e.activity = c.activity
        /\ \A x \in QueueIds, a \in Activities :
             \/ e.item[x][a] = c.item[x][a]
             \/ c.item[x][a] \in OpenToExpiry /\ e.item[x][a] = "expired"
    BY <2>1 DEF ExpireIneligible, Databases, ItemStates
  <2> QED
    BY <2>2 DEF Reconciles
<1>4. Good(e)
  BY <1>2, <1>3, ReconcilesOnlyItems, OnlyItemsKeepsGood
<1>5. ExpireInvalidItems(d, q) = RefreshQueueCounters(e, q)
  BY DEF ExpireInvalidItems, c
<1> HIDE DEF e
<1>6. /\ Good(ExpireInvalidItems(d, q)) /\ Reconciles(e, ExpireInvalidItems(d, q))
      /\ ExpireInvalidItems(d, q).item = e.item
  BY <1>4, <1>5, RefreshKeepsGood
<1>7. Reconciles(d, ExpireInvalidItems(d, q))
  BY <1>1, <1>3, <1>6, ReconcilesTransitive
<1> QED
  BY <1>1, <1>3, <1>6, <1>7 DEF Reconciles, SameQueues

(* Rows that a reconciliation may write: what is open expires, and what is  *)
(* missing is added to an active queue.                                     *)
ReconciledRow(d, q, row) ==
  /\ row \in [Activities -> ItemStates]
  /\ \A a \in Activities :
       \/ row[a] = d.item[q][a]
       \/ d.item[q][a] \in {"pending", "presented"} /\ row[a] = "expired"
       \/ d.item[q][a] = "absent" /\ row[a] \in {"pending", "expired"}
          /\ d.queue[q].state = "active" /\ d.queue[q].mode = "normal"

LEMMA WriteRowsKeepsGood ==
  ASSUME NEW d, NEW rows, Good(d), rows = [q \in QueueIds |-> rows[q]],
         \A q \in QueueIds : ReconciledRow(d, q, rows[q])
  PROVE  /\ Good(WriteRows(d, rows)) /\ Reconciles(d, WriteRows(d, rows))
         /\ \A q \in QueueIds : WriteRows(d, rows).item[q] = rows[q]
<1> DEFINE e == WriteRows(d, rows)
<1>0. d \in Databases
  BY DEF Good
<1>1. \A q \in QueueIds : PoolSizeAfter(d, q, rows[q]) \in Nat
  <2> TAKE q \in QueueIds
  <2>1. {a \in Activities : rows[q][a] # "absent"} \subseteq Activities
    OBVIOUS
  <2>2. Cardinality({a \in Activities : rows[q][a] # "absent"}) \in Nat
    BY <2>1, FinitenessAssumption, FS_Subset, FS_CardinalityType
  <2> QED
    BY <1>0, <2>2 DEF PoolSizeAfter, Databases, QueueRows
<1>2. /\ e.schedule = d.schedule /\ e.completion = d.completion
      /\ e.skips = d.skips /\ e.activity = d.activity
      /\ e.queue \in [QueueIds -> QueueRows]
      /\ \A q \in QueueIds : /\ e.queue[q].state = d.queue[q].state
                             /\ e.queue[q].scope = d.queue[q].scope
                             /\ e.queue[q].group = d.queue[q].group
                             /\ e.queue[q].mode = d.queue[q].mode
                             /\ e.queue[q].source = d.queue[q].source
      /\ e.item \in [QueueIds -> [Activities -> ItemStates]]
      /\ \A q \in QueueIds : e.item[q] = rows[q]
      /\ e = [d EXCEPT !.item = e.item, !.queue = e.queue]
  <2> DEFINE size == [q \in QueueIds |-> PoolSizeAfter(d, q, rows[q])]
             items == [q \in QueueIds |-> rows[q]]
             queues == [q \in QueueIds |-> [d.queue[q] EXCEPT !.size = size[q]]]
  <2>1. \A q \in QueueIds : size[q] \in Nat
    BY <1>1
  <2>2. queues = [q \in QueueIds |->
                    [d.queue[q] EXCEPT !.size = PoolSizeAfter(d, q, rows[q])]]
    OBVIOUS
  <2>3. e = [d EXCEPT !.item = items, !.queue = queues]
    BY <2>2 DEF WriteRows
  <2> HIDE DEF e, items, size
  <2>4. \A q \in QueueIds : /\ queues[q] \in QueueRows
                            /\ queues[q].state = d.queue[q].state
                            /\ queues[q].scope = d.queue[q].scope
                            /\ queues[q].group = d.queue[q].group
                            /\ queues[q].mode = d.queue[q].mode
                            /\ queues[q].source = d.queue[q].source
    BY <1>0, <2>1 DEF Databases, QueueRows
  <2>5. queues \in [QueueIds -> QueueRows]
    BY <2>4
  <2> HIDE DEF queues
  <2>6. /\ e.item = items /\ e.schedule = d.schedule /\ e.queue = queues
        /\ e.completion = d.completion /\ e.skips = d.skips /\ e.activity = d.activity
    BY <1>0, <2>3 DEF Databases
  <2>7. items \in [QueueIds -> [Activities -> ItemStates]] /\ \A q \in QueueIds : items[q] = rows[q]
    BY DEF items, ReconciledRow
  <2> QED
    BY <2>3, <2>4, <2>5, <2>6, <2>7
<1> HIDE DEF e
<1>3. e \in Databases
  BY <1>0, <1>2 DEF Databases
<1>4. Reconciles(d, e)
  BY <1>2 DEF Reconciles, ReconciledRow, OpenToExpiry
<1> QED
  BY <1>2, <1>3, <1>4, ReconcilesOnlyItems, OnlyItemsKeepsGood DEF e

LEMMA PremiumReconciledRow ==
  ASSUME NEW d, NEW q \in QueueIds, NEW row, d.queue[q].state = "active",
         ReconciledRow(d, q, row)
  PROVE  ReconciledRow(d, q, PremiumReconciled(d, q, row))
<1> DEFINE f == ForeignExpired(d, q, row)
           p == PremiumReconciled(d, q, row)
<1>1. /\ f \in [Activities -> ItemStates]
      /\ \A a \in Activities : f[a] = row[a] \/ (row[a] \in OpenToExpiry /\ f[a] = "expired")
  BY DEF ForeignExpired, ReconciledRow, ItemStates
<1> HIDE DEF f
<1>2. /\ p \in [Activities -> ItemStates]
      /\ \A a \in Activities :
           p[a] = f[a] \/ (f[a] = "absent" /\ p[a] = "pending" /\ d.queue[q].mode = "normal")
  <2>1. p = WithMissingPremiums(d, q, f)
    BY DEF PremiumReconciled, f
  <2>2. \A a \in MissingPremiums(d, q, f) : f[a] = "absent" /\ d.queue[q].mode = "normal"
    BY DEF MissingPremiums
  <2> QED
    BY <1>1, <2>1, <2>2 DEF WithMissingPremiums, ItemStates
<1> HIDE DEF p
<1>3. \A a \in Activities : row[a] = "absent" => d.item[q][a] = "absent"
  BY DEF ReconciledRow
<1>4. \A a \in Activities :
        \/ p[a] = row[a]
        \/ (row[a] \in OpenToExpiry /\ p[a] = "expired")
        \/ (row[a] = "absent" /\ p[a] = "pending" /\ d.queue[q].mode = "normal")
  BY <1>1, <1>2 DEF OpenToExpiry
<1> QED
  BY <1>2, <1>3, <1>4 DEF ReconciledRow, OpenToExpiry, p

(* What the reconciliation of the premiums leaves open belongs to the queue. *)
LEMMA PremiumReconciledBelongs ==
  ASSUME NEW d, NEW q \in QueueIds, NEW row, Good(d), ReconciledRow(d, q, row),
         NEW a \in Activities, PremiumReconciled(d, q, row)[a] \in OpenToExpiry
  PROVE  BelongsToQueue(d.activity[a], d.queue[q].group)
<1> DEFINE f == ForeignExpired(d, q, row)
           p == PremiumReconciled(d, q, row)
           here == BelongsToQueue(d.activity[a], d.queue[q].group)
<1>1. \/ a \in MissingPremiums(d, q, f)
      \/ f[a] \in OpenToExpiry
  BY DEF PremiumReconciled, WithMissingPremiums
<1>2. CASE a \in MissingPremiums(d, q, f)
  BY <1>2 DEF MissingPremiums, PremiumIsOperationallyEligible, FitsQueue
<1>3. CASE f[a] \in OpenToExpiry
  <2>1. row[a] \in OpenToExpiry /\ (HasOpenSession(d, q, a) \/ here)
    BY <1>3 DEF ForeignExpired, OpenToExpiry
  <2>2. HasOpenSession(d, q, a) => d.item[q][a] = "started"
    BY NoneIsNoQueue
    DEF Good, ItemsMatchExecutionsIn, ItemSchedules, FromQueue, HasOpenSession, IsOpen
  <2> QED
    BY <2>1, <2>2 DEF ReconciledRow, OpenToExpiry
<1> QED
  BY <1>1, <1>2, <1>3

LEMMA ReconcilePremiumQueueKeepsGood ==
  ASSUME NEW d, NEW q \in QueueIds, Good(d)
  PROVE  /\ Good(ReconcilePremiumQueue(d, q))
         /\ Reconciles(d, ReconcilePremiumQueue(d, q))
         /\ NoForeignItemIn(d) => NoForeignItemIn(ReconcilePremiumQueue(d, q))
<1>1. CASE d.queue[q].state # "active"
  BY <1>1 DEF ReconcilePremiumQueue, Reconciles
<1>2. CASE d.queue[q].state = "active"
  <2> DEFINE row == PremiumReconciled(d, q, d.item[q])
             rows == [d.item EXCEPT ![q] = row]
  <2>1. \A x \in QueueIds : ReconciledRow(d, x, d.item[x])
    BY DEF Good, Databases, ReconciledRow
  <2>2. ReconciledRow(d, q, row)
    BY <1>2, <2>1, PremiumReconciledRow
  <2>3. ReconcilePremiumQueue(d, q) = WriteRows(d, rows)
    BY <1>2 DEF ReconcilePremiumQueue
  <2> HIDE DEF row
  <2>4. /\ rows = [x \in QueueIds |-> rows[x]]
        /\ \A x \in QueueIds : ReconciledRow(d, x, rows[x]) /\ (x # q => rows[x] = d.item[x])
    BY <2>1, <2>2 DEF Good, Databases
  <2>5. \A a \in Activities :
          rows[q][a] \in OpenToExpiry => BelongsToQueue(d.activity[a], d.queue[q].group)
    <3>1. rows[q] = row
      BY DEF Good, Databases
    <3> QED
      BY <2>1, <3>1, PremiumReconciledBelongs DEF row
  <2> HIDE DEF rows
  <2> DEFINE e == ReconcilePremiumQueue(d, q)
  <2>6. /\ Good(e) /\ Reconciles(d, e)
        /\ \A x \in QueueIds : e.item[x] = rows[x]
    BY <2>3, <2>4, WriteRowsKeepsGood
  <2> HIDE DEF e
  <2>7. NoForeignItemIn(d) => NoForeignItemIn(e)
    BY <2>4, <2>5, <2>6 DEF NoForeignItemIn, Reconciles, BelongsToQueue
  <2> QED
    BY <2>6, <2>7 DEF e
<1> QED
  BY <1>1, <1>2

LEMMA ReconcileActivityKeepsGood ==
  ASSUME NEW d, NEW a \in Activities, Good(d)
  PROVE  /\ Good(ReconcileActivity(d, a))
         /\ Reconciles(d, ReconcileActivity(d, a))
         /\ NoForeignItemIn(ReconcileActivity(d, a))
<1> DEFINE Q == {q \in QueueIds : d.queue[q].state = "active"}
           Row(q) == IF q \in Q THEN PremiumReconciled(d, q, ActivityReconciled(d, q, a))
                     ELSE d.item[q]
           rows == [q \in QueueIds |-> Row(q)]
<1>1. \A q \in QueueIds :
        /\ ReconciledRow(d, q, Row(q))
        /\ q \in Q => \A b \in Activities :
             Row(q)[b] \in OpenToExpiry => BelongsToQueue(d.activity[b], d.queue[q].group)
  <2> TAKE q \in QueueIds
  <2>1. CASE q \notin Q
    BY <2>1 DEF Good, Databases, ReconciledRow
  <2>2. CASE q \in Q
    <3>1. d.item[q] \in [Activities -> ItemStates]
      BY DEF Good, Databases
    <3>2. ReconciledRow(d, q, ActivityReconciled(d, q, a))
      BY <2>2, <3>1 DEF ActivityReconciled, ReconciledRow, IsExpired, IsInserted, IsMissing,
                        OpenToExpiry, ItemStates
    <3> QED
      BY <2>2, <3>2, PremiumReconciledRow, PremiumReconciledBelongs
  <2> QED
    BY <2>1, <2>2
<1>2. /\ ReconcileActivity(d, a) = WriteRows(d, rows)
      /\ rows = [q \in QueueIds |-> rows[q]]
  BY DEF ReconcileActivity, ReconcileQueues
<1> HIDE DEF Row
<1>3. \A q \in QueueIds :
        /\ ReconciledRow(d, q, rows[q])
        /\ q \in Q => \A b \in Activities :
             rows[q][b] \in OpenToExpiry => BelongsToQueue(d.activity[b], d.queue[q].group)
  BY <1>1
<1> HIDE DEF rows
<1> DEFINE e == ReconcileActivity(d, a)
<1>4. /\ Good(e) /\ Reconciles(d, e)
      /\ \A q \in QueueIds : e.item[q] = rows[q]
  BY <1>2, <1>3, WriteRowsKeepsGood
<1> HIDE DEF e
<1>5. NoForeignItemIn(e)
  BY <1>3, <1>4 DEF NoForeignItemIn, Reconciles, BelongsToQueue
<1> QED
  BY <1>4, <1>5 DEF e

LEMMA EligibleAreActivities ==
  ASSUME NEW d, NEW g
  PROVE  EligibleActivities(d, g) \subseteq Activities
BY DEF EligibleActivities

LEMMA CreateNormalQueueKeepsGood ==
  ASSUME NEW d, NEW sc \in Scopes, NEW g \in Groups, Good(d),
         FreshQueues(d) # {}, ActiveQueues(d, sc, g) = {}
  PROVE  Good(CreateNormalQueue(d, sc, g))
<1>1. "normal" \in QueueModes /\ None \in QueueIds \cup {None}
  BY DEF QueueModes
<1> QED
  BY <1>1, EligibleAreActivities, InsertQueueKeepsGood DEF CreateNormalQueue

LEMMA RefreshActiveQueueKeepsGood ==
  ASSUME NEW d, NEW sc \in Scopes, NEW g \in Groups, Good(d), FreshQueues(d) # {},
         ActiveQueues(d, sc, g) # {}
  PROVE  Good(RefreshActiveQueue(d, sc, g))
<1> DEFINE q == Some(ActiveQueues(d, sc, g))
           x == ExpireInvalidItems(d, q)
           p == IF d.queue[q].mode = "normal" THEN ReconcilePremiumQueue(x, q) ELSE x
           f == FinalizeQueueIfFinished(p, q)
<1>1. Good(f) /\ (FreshQueues(f) # {} \/ ActiveQueues(f, sc, g) # {})
  <2>1. q \in QueueIds /\ d.queue[q].state = "active"
        /\ d.queue[q].scope = sc /\ d.queue[q].group = g
    BY SomeIsMember DEF ActiveQueues
  <2> HIDE DEF q
  <2>2. Good(x) /\ SameQueues(d, x)
    BY <2>1, ExpireInvalidItemsKeepsGood
  <2> HIDE DEF x
  <2>3. Good(p) /\ SameQueues(x, p)
    BY <2>1, <2>2, ReconcilePremiumQueueKeepsGood DEF Reconciles, SameQueues
  <2> HIDE DEF p
  <2>4. /\ p.queue[q].state = "active" /\ p.queue[q].scope = sc /\ p.queue[q].group = g
        /\ FreshQueues(p) # {}
    BY <2>1, <2>2, <2>3 DEF SameQueues, FreshQueues
  <2>5. Good(f) /\ FinishedAt(p, f, q)
    BY <2>1, <2>3, <2>4, FinalizeKeepsGood
  <2> HIDE DEF f
  <2> QED
    BY <2>4, <2>5 DEF FinishedAt
<1>2. RefreshActiveQueue(d, sc, g) =
        IF ActiveQueues(f, sc, g) # {} THEN f ELSE CreateNormalQueue(f, sc, g)
  BY DEF RefreshActiveQueue
<1> HIDE DEF f
<1> QED
  BY <1>1, <1>2, CreateNormalQueueKeepsGood

-----------------------------------------------------------------------------
(* Executions.                                                              *)

(* A fact is written beside the rows the invariant is about.                *)
LEMMA RecordCompletionFrame ==
  ASSUME NEW d, NEW s \in ScheduleIds, d \in Databases
  PROVE  /\ RecordCompletion(d, s) \in Databases
         /\ RecordCompletion(d, s).item = d.item
         /\ RecordCompletion(d, s).schedule = d.schedule
         /\ RecordCompletion(d, s).queue = d.queue
<1>1. d.schedule[s].category \in Categories
  BY DEF Databases, ScheduleRows
<1> QED
  BY <1>1 DEF RecordCompletion, Databases

LEMMA RecordCompletionKeepsGood ==
  ASSUME NEW d, NEW s \in ScheduleIds, Good(d), d.schedule[s].state # "none"
  PROVE  /\ Good(RecordCompletion(d, s))
         /\ OnlyItems(d, RecordCompletion(d, s))
         /\ RecordCompletion(d, s).item = d.item
<1> DEFINE e == RecordCompletion(d, s)
<1>0. d \in Databases
  BY DEF Good
<1>2. /\ e \in Databases
      /\ e.item = d.item /\ e.schedule = d.schedule /\ e.queue = d.queue
  BY <1>0, RecordCompletionFrame
<1> HIDE DEF e
<1>3. OnlyItems(d, e)
  BY <1>2 DEF OnlyItems, SameQueues
<1> QED
  BY <1>2, <1>3, OnlyItemsKeepsGood DEF e

(* What completing execution s leaves behind.                               *)
CompletedAt(d, e, s) ==
  /\ \A t \in ScheduleIds \ {s} : e.schedule[t] = d.schedule[t]
  /\ e.schedule[s].state = "completed"
  /\ e.schedule[s].queue = d.schedule[s].queue
  /\ e.schedule[s].activity = d.schedule[s].activity
  /\ e.schedule[s].scope = d.schedule[s].scope
  /\ \A x \in QueueIds : d.queue[x].state # "none" =>
       /\ e.queue[x].state # "none"
       /\ e.queue[x].scope = d.queue[x].scope /\ e.queue[x].group = d.queue[x].group
       /\ \A a \in Activities :
            d.item[x][a] \in OpenToExpiry => e.item[x][a] = d.item[x][a]

(* The database in which execution s has ended and nothing else changed.    *)
Ended(d, s) ==
  [d EXCEPT !.schedule[s].state = "completed",
            !.schedule[s].end = CompletionDay(d, s)]

LEMMA EndedFrame ==
  ASSUME NEW d, NEW s \in ScheduleIds, d \in Databases, day \in Days
  PROVE  /\ Ended(d, s) \in Databases
         /\ Ended(d, s).item = d.item /\ Ended(d, s).queue = d.queue
         /\ \A t \in ScheduleIds \ {s} : Ended(d, s).schedule[t] = d.schedule[t]
         /\ Ended(d, s).schedule[s].state = "completed"
         /\ Ended(d, s).schedule[s].queue = d.schedule[s].queue
         /\ Ended(d, s).schedule[s].activity = d.schedule[s].activity
         /\ Ended(d, s).schedule[s].scope = d.schedule[s].scope
         /\ Ended(d, s).schedule[s].category = d.schedule[s].category
         /\ Ended(d, s).schedule[s].start = d.schedule[s].start
         /\ Ended(d, s).completion = d.completion /\ Ended(d, s).skips = d.skips
         /\ Ended(d, s).activity = d.activity
<1> DEFINE n == CompletionDay(d, s)
           row == [d.schedule[s] EXCEPT !.state = "completed", !.end = n]
<1>1. n \in Days \cup {None}
  BY DEF CompletionDay, Databases, ScheduleRows
<1>2. Ended(d, s) = [d EXCEPT !.schedule = [d.schedule EXCEPT ![s] = row]]
  BY DEF Ended, Databases
<1> HIDE DEF n
<1>3. /\ row \in ScheduleRows /\ row.state = "completed"
      /\ row.queue = d.schedule[s].queue /\ row.activity = d.schedule[s].activity
      /\ row.scope = d.schedule[s].scope /\ row.category = d.schedule[s].category
      /\ row.start = d.schedule[s].start
  BY <1>1 DEF Databases, ScheduleRows
<1> HIDE DEF row
<1>4. /\ Ended(d, s).schedule = [d.schedule EXCEPT ![s] = row]
      /\ Ended(d, s).item = d.item /\ Ended(d, s).queue = d.queue
      /\ Ended(d, s).completion = d.completion /\ Ended(d, s).skips = d.skips
      /\ Ended(d, s).activity = d.activity
      /\ d.schedule \in [ScheduleIds -> ScheduleRows]
  BY <1>2 DEF Databases
<1>5. [d.schedule EXCEPT ![s] = row] \in [ScheduleIds -> ScheduleRows]
  BY <1>3, <1>4
<1>6. Ended(d, s) \in Databases
  BY <1>2, <1>5 DEF Databases
<1> QED
  BY <1>3, <1>4, <1>6

(* What the end of execution s writes: its row, its fact unless it has one  *)
(* or its scope has none, and at most the item it was started from.         *)
EndsAt(d, e, s) ==
  /\ e.queue = d.queue /\ e.skips = d.skips /\ e.activity = d.activity
  /\ \A t \in ScheduleIds \ {s} :
       e.schedule[t] = d.schedule[t] /\ e.completion[t] = d.completion[t]
  /\ e.schedule[s].state = "completed"
  /\ e.schedule[s].scope = d.schedule[s].scope
  /\ e.schedule[s].queue = d.schedule[s].queue
  /\ e.schedule[s].activity = d.schedule[s].activity
  /\ e.schedule[s].category = d.schedule[s].category
  /\ e.schedule[s].start = d.schedule[s].start
  /\ e.completion[s] = IF HasNoNewFact(d, s) THEN d.completion[s] ELSE d.schedule[s].category
  /\ \A x \in QueueIds, a \in Activities :
       \/ e.item[x][a] = d.item[x][a]
       \/ d.item[x][a] = "started" /\ e.item[x][a] = "completed"

LEMMA EndExecutionFrame ==
  ASSUME NEW d, NEW s \in ScheduleIds, d \in Databases, day \in Days,
         NEW e, e = EndExecution(d, s)
  PROVE  e \in Databases /\ e.item = d.item /\ EndsAt(d, e, s)
<1> DEFINE n == Ended(d, s)
<1>1. e = RecordCompletion(n, s)
  BY DEF EndExecution, Ended
<1>2. /\ n \in Databases
      /\ n.item = d.item /\ n.queue = d.queue
      /\ \A t \in ScheduleIds \ {s} : n.schedule[t] = d.schedule[t]
      /\ n.schedule[s].state = "completed"
      /\ n.schedule[s].queue = d.schedule[s].queue
      /\ n.schedule[s].activity = d.schedule[s].activity
      /\ n.schedule[s].scope = d.schedule[s].scope
      /\ n.schedule[s].category = d.schedule[s].category
      /\ n.schedule[s].start = d.schedule[s].start
      /\ n.completion = d.completion /\ n.skips = d.skips
      /\ n.activity = d.activity
  BY EndedFrame
<1> HIDE DEF n
<1>3. /\ e \in Databases /\ e.item = n.item /\ e.queue = n.queue /\ e.schedule = n.schedule
  BY <1>1, <1>2, RecordCompletionFrame
<1>4. /\ e.skips = n.skips /\ e.activity = n.activity
      /\ \A t \in ScheduleIds \ {s} : e.completion[t] = n.completion[t]
      /\ e.completion[s] = IF HasNoNewFact(d, s) THEN d.completion[s] ELSE d.schedule[s].category
  BY <1>1, <1>2 DEF RecordCompletion, HasNoNewFact, Databases
<1> QED
  BY <1>2, <1>3, <1>4 DEF EndsAt

LEMMA EndsAtKeepsUniqueness ==
  ASSUME NEW d, NEW e, NEW s \in ScheduleIds, Good(d), d.schedule[s].state = "open",
         EndsAt(d, e, s)
  PROVE  /\ OneOpenExecutionIn(e) /\ OneActiveQueueIn(e)
         /\ \A x \in QueueIds, b \in Activities :
              ItemSchedules(e, x, b) = ItemSchedules(d, x, b)
<1>1. \A t \in ScheduleIds : IsOpen(e, t) => IsOpen(d, t) /\ t # s
  BY DEF EndsAt, IsOpen
<1>2. OneOpenExecutionIn(e)
  BY <1>1 DEF EndsAt, Good, OneOpenExecutionIn
<1>3. OneActiveQueueIn(e)
  BY DEF EndsAt, Good, OneActiveQueueIn
<1>4. \A x \in QueueIds, b \in Activities : ItemSchedules(e, x, b) = ItemSchedules(d, x, b)
  BY DEF EndsAt, ItemSchedules
<1> QED
  BY <1>2, <1>3, <1>4

(* The end of an execution and of the item it was started from.             *)
LEMMA EndWithItemKeepsGood ==
  ASSUME NEW d, NEW s \in ScheduleIds, Good(d), d.schedule[s].state = "open",
         d.schedule[s].queue # None, day \in Days
  PROVE  /\ Good(EndWithItem(d, s)) /\ EndsAt(d, EndWithItem(d, s), s)
         /\ d.schedule[s].queue \in QueueIds
         /\ d.queue[d.schedule[s].queue].state = "active"
         /\ \A x \in QueueIds, b \in Activities : d.item[x][b] \in OpenToExpiry =>
              EndWithItem(d, s).item[x][b] = d.item[x][b]
         /\ \A x \in QueueIds : x # d.schedule[s].queue =>
              EndWithItem(d, s).item[x] = d.item[x]
<1> DEFINE q == d.schedule[s].queue
           a == d.schedule[s].activity
           f == EndExecution(d, s)
           g == EndWithItem(d, s)
<1>0. /\ d \in Databases /\ q \in QueueIds /\ a \in Activities
      /\ FromQueue(d, s) /\ IsOpen(d, s)
  BY DEF Good, Databases, ScheduleRows, FromQueue, IsOpen
<1>1. g = [f EXCEPT !.item = [f.item EXCEPT ![q] = [f.item[q] EXCEPT ![a] = "completed"]]]
      /\ f \in Databases /\ f.item = d.item /\ EndsAt(d, f, s)
  <2> HIDE DEF f
  <2>1. f \in Databases /\ f.item = d.item /\ EndsAt(d, f, s)
    BY <1>0, EndExecutionFrame DEF f
  <2> QED
    BY <1>0, <2>1 DEF EndWithItem, f, Databases
<1> HIDE DEF g, f
<1>2. d.item[q][a] = "started" /\ d.queue[q].scope = d.schedule[s].scope
  BY <1>0 DEF Good, ItemsMatchExecutionsIn
<1>3. d.queue[q].state = "active"
  BY <1>0, <1>2 DEF Good, InactiveQueuesDrainedIn, Available, AvailableStates
<1>4. /\ g \in Databases /\ g.queue = d.queue /\ g.schedule = f.schedule
      /\ g.item[q][a] = "completed"
      /\ \A x \in QueueIds : x # q => g.item[x] = d.item[x]
      /\ \A x \in QueueIds, b \in Activities :
           x # q \/ b # a => g.item[x][b] = d.item[x][b]
      /\ EndsAt(d, g, s)
  <2> DEFINE items == [f.item EXCEPT ![q] = [f.item[q] EXCEPT ![a] = "completed"]]
  <2>1. /\ items \in [QueueIds -> [Activities -> ItemStates]]
        /\ items[q][a] = "completed"
        /\ \A x \in QueueIds : x # q => items[x] = d.item[x]
        /\ \A x \in QueueIds, b \in Activities :
             x # q \/ b # a => items[x][b] = d.item[x][b]
    BY <1>0, <1>1 DEF Databases, ItemStates
  <2> HIDE DEF items
  <2>2. g = [f EXCEPT !.item = items]
    BY <1>1 DEF items
  <2>3. /\ g \in Databases /\ g.item = items /\ g.queue = f.queue /\ g.schedule = f.schedule
        /\ g.completion = f.completion /\ g.skips = f.skips /\ g.activity = f.activity
    BY <1>1, <2>1, <2>2 DEF Databases
  <2>4. EndsAt(d, g, s)
    BY <1>1, <1>2, <2>1, <2>3 DEF EndsAt
  <2> QED
    BY <2>1, <2>3, <2>4 DEF EndsAt
<1>5. /\ OneOpenExecutionIn(g) /\ OneActiveQueueIn(g)
      /\ \A x \in QueueIds, b \in Activities : ItemSchedules(g, x, b) = ItemSchedules(d, x, b)
  BY <1>4, EndsAtKeepsUniqueness
<1>6. \A t \in ScheduleIds : FromQueue(g, t) =>
        /\ FromQueue(d, t)
        /\ g.schedule[t].queue = d.schedule[t].queue
        /\ g.schedule[t].activity = d.schedule[t].activity
        /\ g.schedule[t].scope = d.schedule[t].scope
        /\ g.schedule[t].queue \in QueueIds
        /\ g.schedule[t].activity \in Activities
        /\ t # s => /\ g.schedule[t].queue # q \/ g.schedule[t].activity # a
                    /\ IsOpen(g, t) = IsOpen(d, t)
        /\ t = s => ~IsOpen(g, t)
  <2>1. \A t \in ScheduleIds \ {s} : g.schedule[t] = d.schedule[t]
    BY <1>4 DEF EndsAt
  <2>2. g.schedule[s].state = "completed" /\ g.schedule[s].queue = q
        /\ g.schedule[s].activity = a /\ g.schedule[s].scope = d.schedule[s].scope
    BY <1>4 DEF EndsAt
  <2>3. \A t \in ScheduleIds : FromQueue(g, t) =>
          d.schedule[t].queue \in QueueIds /\ d.schedule[t].activity \in Activities
    BY <1>0, <2>1 DEF FromQueue, Databases, ScheduleRows
  <2> QED
    BY <1>0, <2>1, <2>2, <2>3 DEF FromQueue, IsOpen, Good, ItemsMatchExecutionsIn
<1>7. \A t \in ScheduleIds : FromQueue(g, t) =>
        LET x == g.schedule[t].queue
        IN /\ g.queue[x].state # "none"
           /\ g.queue[x].scope = g.schedule[t].scope
           /\ g.item[x][g.schedule[t].activity] =
                IF IsOpen(g, t) THEN "started" ELSE "completed"
  BY <1>4, <1>6 DEF Good, ItemsMatchExecutionsIn
<1>8. \A x \in QueueIds, b \in Activities :
        g.item[x][b] \in {"started", "completed"} => ItemSchedules(g, x, b) # {}
  BY <1>0, <1>2, <1>4, <1>5 DEF Good, ItemsMatchExecutionsIn
<1>9. ItemsMatchExecutionsIn(g)
  BY <1>6, <1>7, <1>8 DEF Good, ItemsMatchExecutionsIn
<1>10. InactiveQueuesDrainedIn(g)
  BY <1>0, <1>3, <1>4 DEF Good, InactiveQueuesDrainedIn, Available, AvailableStates
<1>11. \A x \in QueueIds, b \in Activities :
         d.item[x][b] \in OpenToExpiry => g.item[x][b] = d.item[x][b]
  BY <1>2, <1>4 DEF OpenToExpiry
<1> QED
  BY <1>0, <1>3, <1>4, <1>5, <1>9, <1>10, <1>11 DEF Good, g

LEMMA CompleteScheduleKeepsGood ==
  ASSUME NEW d, NEW s \in ScheduleIds, Good(d), d.schedule[s].state # "none",
         FreshQueues(d) # {}, day \in Days
  PROVE  Good(CompleteSchedule(d, s)) /\ CompletedAt(d, CompleteSchedule(d, s), s)
<1> DEFINE e == CompleteSchedule(d, s)
           q == d.schedule[s].queue
           f == EndExecution(d, s)
           g == EndWithItem(d, s)
<1>0. d \in Databases /\ d.schedule[s].state \in {"open", "completed"}
  BY DEF Good, Databases, ScheduleRows
<1>1. CASE d.schedule[s].state = "completed"
  <2>1. e = RecordCompletion(d, s)
    BY <1>1 DEF CompleteSchedule
  <2>2. Good(e) /\ OnlyItems(d, e) /\ e.item = d.item
    BY <2>1, RecordCompletionKeepsGood
  <2> HIDE DEF e
  <2> QED
    BY <1>1, <2>2 DEF OnlyItems, SameQueues, CompletedAt, e
<1>2. CASE d.schedule[s].state = "open"
  <2>1. e = CompleteOpen(d, s)
    BY <1>2 DEF CompleteSchedule
  <2> HIDE DEF e
  <2>2. CASE q = None
    <3> HIDE DEF f
    <3>1. f \in Databases /\ f.item = d.item /\ EndsAt(d, f, s)
      BY <1>0, EndExecutionFrame DEF f
    <3>2. e = f
      BY <2>1, <2>2 DEF CompleteOpen, f
    <3>3. /\ OneOpenExecutionIn(f) /\ OneActiveQueueIn(f)
          /\ \A x \in QueueIds, b \in Activities :
               ItemSchedules(f, x, b) = ItemSchedules(d, x, b)
      BY <1>2, <3>1, EndsAtKeepsUniqueness
    <3>4. \A t \in ScheduleIds : FromQueue(f, t) =>
            t # s /\ FromQueue(d, t) /\ f.schedule[t] = d.schedule[t]
      BY <2>2, <3>1 DEF EndsAt, FromQueue
    <3>5. ItemsMatchExecutionsIn(f)
      BY <3>1, <3>3, <3>4 DEF Good, EndsAt, ItemsMatchExecutionsIn, IsOpen
    <3>6. InactiveQueuesDrainedIn(f)
      BY <3>1 DEF Good, EndsAt, InactiveQueuesDrainedIn, Available
    <3> QED
      BY <3>1, <3>2, <3>3, <3>5, <3>6 DEF Good, EndsAt, CompletedAt, e
  <2>3. CASE q # None
    <3>1. /\ Good(g) /\ EndsAt(d, g, s) /\ q \in QueueIds /\ d.queue[q].state = "active"
          /\ \A x \in QueueIds, b \in Activities :
               d.item[x][b] \in OpenToExpiry => g.item[x][b] = d.item[x][b]
      BY <1>2, <2>3, EndWithItemKeepsGood
    <3>2. e = FinalizeQueueIfFinished(g, q)
      BY <2>1, <2>3 DEF CompleteOpen
    <3> HIDE DEF g
    <3>3. FreshQueues(g) # {} /\ g.queue[q].state = "active"
      BY <3>1 DEF FreshQueues, EndsAt
    <3>4. Good(e) /\ FinishedAt(g, e, q)
      BY <3>1, <3>2, <3>3, FinalizeKeepsGood
    <3>5. CompletedAt(d, e, s)
      BY <3>1, <3>4 DEF FinishedAt, EndsAt, CompletedAt, OpenToExpiry
    <3> QED
      BY <3>4, <3>5 DEF e
  <2> QED
    BY <2>2, <2>3
<1> QED
  BY <1>0, <1>1, <1>2

(* The executions that a service found open.                                *)
AllOpen(d, S) == S \subseteq ScheduleIds /\ \A s \in S : IsOpen(d, s)

LEMMA OverdueAreOpen ==
  ASSUME NEW d, NEW S, NEW sc, S \subseteq OverdueIn(d, sc)
  PROVE  AllOpen(d, S)
BY DEF AllOpen, OverdueIn, OpenIn

(* An overdue execution of the scope is completed on the way: what a start  *)
(* read before is still so after it.                                        *)
LEMMA CompleteOneOfKeepsGood ==
  ASSUME NEW d, NEW S, AllOpen(d, S), Good(d), FreshQueues(d) # {}, day \in Days
  PROVE  LET e == CompleteOneOf(d, S)
         IN /\ Good(e)
            /\ \A t \in ScheduleIds :
                 /\ e.schedule[t].state = "none" <=> d.schedule[t].state = "none"
                 /\ d.schedule[t].state # "none" =>
                      /\ e.schedule[t].queue = d.schedule[t].queue
                      /\ e.schedule[t].activity = d.schedule[t].activity
            /\ \A x \in QueueIds : d.queue[x].state # "none" =>
                 /\ e.queue[x].state # "none"
                 /\ e.queue[x].scope = d.queue[x].scope
                 /\ \A a \in Activities :
                      d.item[x][a] \in OpenToExpiry => e.item[x][a] = d.item[x][a]
<1> DEFINE e == CompleteOneOf(d, S)
           s == Some(S)
<1>1. CASE S = {}
  <2>1. e = d
    BY <1>1 DEF CompleteOneOf
  <2> HIDE DEF e
  <2> QED
    BY <2>1 DEF e
<1>2. CASE S # {}
  <2>1. s \in ScheduleIds /\ d.schedule[s].state = "open"
    BY <1>2, SomeIsMember DEF AllOpen, IsOpen
  <2>2. e = CompleteSchedule(d, s)
    BY <1>2 DEF CompleteOneOf
  <2> HIDE DEF e, s
  <2>3. Good(e) /\ CompletedAt(d, e, s)
    BY <2>1, <2>2, CompleteScheduleKeepsGood
  <2> QED
    BY <2>1, <2>3 DEF CompletedAt, e
<1> QED
  BY <1>1, <1>2

(* A start inserts one open execution, beside what it does to the item and  *)
(* to the activity.                                                         *)
StartsAt(d, e, n, sc, q, a, c) ==
  /\ n \in ScheduleIds /\ d.schedule[n].state = "none"
  /\ \A t \in ScheduleIds \ {n} : e.schedule[t] = d.schedule[t]
  /\ e.schedule[n].state = "open" /\ e.schedule[n].scope = sc
  /\ e.schedule[n].queue = q /\ e.schedule[n].activity = a
  /\ e.schedule[n].category = c /\ e.schedule[n].start = day
  /\ e.queue = d.queue /\ e.completion = d.completion /\ e.skips = d.skips

LEMMA InsertScheduleFrame ==
  ASSUME NEW d, NEW sc \in Scopes, NEW q \in QueueIds \cup {None}, NEW a \in Activities,
         NEW c \in Categories, d \in Databases, FreshSchedules(d) # {}, day \in Days,
         NEW e, e = InsertSchedule(d, sc, q, a, c)
  PROVE  /\ e \in Databases /\ e.item = d.item /\ e.activity = d.activity
         /\ \E n \in ScheduleIds : StartsAt(d, e, n, sc, q, a, c)
<1> DEFINE n == Some(FreshSchedules(d))
           row == [state |-> "open", scope |-> sc, queue |-> q, activity |-> a,
                   category |-> c, start |-> day, due |-> None, end |-> None]
<1>1. n \in ScheduleIds /\ d.schedule[n].state = "none"
  BY SomeIsMember DEF FreshSchedules
<1>2. e = [d EXCEPT !.schedule[n] = row]
  BY DEF InsertSchedule
<1> HIDE DEF n
<1>3. row \in ScheduleRows
  BY DEF ScheduleRows
<1>4. /\ row.state = "open" /\ row.scope = sc /\ row.queue = q /\ row.activity = a
      /\ row.category = c /\ row.start = day
  OBVIOUS
<1> HIDE DEF row
<1>5. [d.schedule EXCEPT ![n] = row] \in [ScheduleIds -> ScheduleRows]
  BY <1>1, <1>3 DEF Databases
<1>6. e = [d EXCEPT !.schedule = [d.schedule EXCEPT ![n] = row]]
  BY <1>2 DEF Databases
<1>7. /\ e \in Databases /\ e.item = d.item /\ e.activity = d.activity
      /\ e.queue = d.queue /\ e.completion = d.completion /\ e.skips = d.skips
      /\ e.schedule[n] = row
      /\ \A t \in ScheduleIds \ {n} : e.schedule[t] = d.schedule[t]
  BY <1>1, <1>5, <1>6 DEF Databases
<1> QED
  BY <1>1, <1>4, <1>7 DEF StartsAt

(* The start of an item marks it and writes the copy of the activity back.  *)
ItemStarted(d, r) ==
  [d EXCEPT !.item[r.queue][r.activity] = "started",
            !.activity[r.activity] = r.row]

StartsItemAt(d, e, r) ==
  /\ e \in Databases
  /\ e.item[r.queue][r.activity] = "started"
  /\ \A x \in QueueIds, b \in Activities :
       x # r.queue \/ b # r.activity => e.item[x][b] = d.item[x][b]
  /\ e.activity = [d.activity EXCEPT ![r.activity] = r.row]
  /\ \E n \in ScheduleIds :
       StartsAt(d, e, n, r.scope, r.queue, r.activity, r.row.category)

LEMMA StartItemFrame ==
  ASSUME NEW d, NEW r \in CheckedStarts, d \in Databases, FreshSchedules(d) # {},
         day \in Days, NEW e,
         e = InsertSchedule(ItemStarted(d, r), r.scope, r.queue, r.activity, r.row.category)
  PROVE  StartsItemAt(d, e, r)
<1> DEFINE q == r.queue
           a == r.activity
           f == ItemStarted(d, r)
           items == [d.item EXCEPT ![q] = [d.item[q] EXCEPT ![a] = "started"]]
           rows == [d.activity EXCEPT ![a] = r.row]
<1>1. /\ q \in QueueIds /\ a \in Activities /\ r.scope \in Scopes
      /\ r.row \in ActivityRows /\ r.row.category \in Categories
  BY DEF CheckedStarts, ActivityRows
<1>2. f = [d EXCEPT !.item = items, !.activity = rows]
  BY <1>1 DEF ItemStarted, Databases
<1>3. /\ items \in [QueueIds -> [Activities -> ItemStates]]
      /\ rows \in [Activities -> ActivityRows]
      /\ items[q][a] = "started"
      /\ \A x \in QueueIds, b \in Activities :
           x # q \/ b # a => items[x][b] = d.item[x][b]
  BY <1>1 DEF Databases, ItemStates
<1>4. e = InsertSchedule(f, r.scope, q, a, r.row.category)
  OBVIOUS
<1> HIDE DEF f, items, rows
<1>5. /\ f \in Databases /\ f.queue = d.queue /\ f.schedule = d.schedule
      /\ f.completion = d.completion /\ f.skips = d.skips
      /\ f.item = items /\ f.activity = rows
  BY <1>2, <1>3 DEF Databases
<1>6. FreshSchedules(f) # {}
  BY <1>5 DEF FreshSchedules
<1>7. /\ e \in Databases /\ e.item = items /\ e.activity = rows
      /\ \E n \in ScheduleIds : StartsAt(f, e, n, r.scope, q, a, r.row.category)
  <2> HIDE DEF q, a
  <2>1. q \in QueueIds \cup {None}
    BY <1>1
  <2> QED
    BY <1>1, <1>4, <1>5, <1>6, <2>1, InsertScheduleFrame
<1>8. \A n \in ScheduleIds : StartsAt(f, e, n, r.scope, q, a, r.row.category) =>
        StartsAt(d, e, n, r.scope, q, a, r.row.category)
  BY <1>5 DEF StartsAt
<1> QED
  BY <1>3, <1>7, <1>8 DEF rows, StartsItemAt

(* A new execution of an activity outside of the queues, or of an item that *)
(* has just been marked started.                                            *)
LEMMA StartActivityKeepsGood ==
  ASSUME NEW d, NEW r \in CheckedStarts, Good(d), day \in Days,
         FreshQueues(d) # {}, FreshSchedules(d) # {},
         ItemIsAccepted(d, r), InsertIsAllowed(d, r)
  PROVE  Good(StartActivity(d, r))
<1> DEFINE e == CompleteOneOf(d, r.found)
           q == r.queue
           a == r.activity
           h == StartActivity(d, r)
<1>1. /\ q \in QueueIds /\ a \in Activities /\ r.scope \in Scopes
      /\ r.row \in ActivityRows /\ r.row.category \in Categories
  BY DEF CheckedStarts, ActivityRows
<1>2. /\ d.queue[q].scope = r.scope /\ d.item[q][a] \in OpenToExpiry
      /\ d.queue[q].state = "active" /\ ItemSchedules(d, q, a) = {}
      /\ OpenIn(e, r.scope) = {}
  BY DEF ItemIsAccepted, InsertIsAllowed, IndexAllowsExecution
<1>3. /\ Good(e)
      /\ \A t \in ScheduleIds :
           /\ e.schedule[t].state = "none" <=> d.schedule[t].state = "none"
           /\ d.schedule[t].state # "none" =>
                /\ e.schedule[t].queue = d.schedule[t].queue
                /\ e.schedule[t].activity = d.schedule[t].activity
      /\ e.queue[q].state # "none" /\ e.queue[q].scope = r.scope
      /\ e.item[q][a] \in OpenToExpiry
  BY <1>1, <1>2, OverdueAreOpen, CompleteOneOfKeepsGood DEF InsertIsAllowed, FoundIsLocked
<1>4. h = InsertSchedule(ItemStarted(e, r), r.scope, q, a, r.row.category)
  BY DEF StartActivity, ItemStarted
<1> HIDE DEF e, h
<1>5. e \in Databases /\ e.queue[q].state = "active" /\ ItemSchedules(e, q, a) = {}
      /\ FreshSchedules(e) # {}
  BY <1>1, <1>2, <1>3
  DEF Good, InactiveQueuesDrainedIn, Available, AvailableStates, OpenToExpiry,
      ItemSchedules, FreshSchedules
<1>6. /\ h \in Databases /\ h.item[q][a] = "started"
      /\ \A x \in QueueIds, b \in Activities :
           x # q \/ b # a => h.item[x][b] = e.item[x][b]
      /\ \E n \in ScheduleIds : StartsAt(e, h, n, r.scope, q, a, r.row.category)
  <2>1. StartsItemAt(e, h, r)
    BY <1>4, <1>5, StartItemFrame
  <2> QED
    BY <2>1 DEF StartsItemAt
<1>7. PICK n \in ScheduleIds : StartsAt(e, h, n, r.scope, q, a, r.row.category)
  BY <1>6
<1>8. e.schedule[n].state = "none"
  BY <1>7 DEF StartsAt
<1>9. /\ h.schedule[n].state = "open" /\ h.schedule[n].scope = r.scope
      /\ h.schedule[n].queue = q /\ h.schedule[n].activity = a
  BY <1>7 DEF StartsAt
<1>10. /\ h \in Databases /\ h.queue = e.queue
       /\ \A t \in ScheduleIds \ {n} : h.schedule[t] = e.schedule[t]
  BY <1>6, <1>7 DEF StartsAt
<1> HIDE DEF q, a
<1>11. OneOpenExecutionIn(h)
  <2>1. \A t \in ScheduleIds \ {n} : IsOpen(h, t) => h.schedule[t].scope # r.scope
    BY <1>2, <1>10 DEF OpenIn, IsOpen
  <2> QED
    BY <1>3, <1>9, <1>10, <2>1 DEF Good, OneOpenExecutionIn, IsOpen
<1>12. OneActiveQueueIn(h)
  BY <1>3, <1>10 DEF Good, OneActiveQueueIn
<1>13. ItemsMatchExecutionsIn(h)
  <2>1. \A t \in ScheduleIds \ {n} : FromQueue(h, t) =>
          /\ FromQueue(e, t)
          /\ e.schedule[t].queue \in QueueIds /\ e.schedule[t].activity \in Activities
          /\ e.schedule[t].queue # q \/ e.schedule[t].activity # a
          /\ IsOpen(h, t) = IsOpen(e, t)
    BY <1>5, <1>10 DEF FromQueue, IsOpen, ItemSchedules, Databases, ScheduleRows
  <2>2. \A x \in QueueIds, b \in Activities :
          ItemSchedules(e, x, b) \subseteq ItemSchedules(h, x, b)
    BY <1>8, <1>10 DEF ItemSchedules
  <2>3. n \in ItemSchedules(h, q, a)
    BY <1>9 DEF ItemSchedules
  <2>4. \A t \in ScheduleIds : FromQueue(h, t) =>
          LET x == h.schedule[t].queue
          IN /\ h.queue[x].state # "none"
             /\ h.queue[x].scope = h.schedule[t].scope
             /\ h.item[x][h.schedule[t].activity] =
                  IF IsOpen(h, t) THEN "started" ELSE "completed"
    <3> TAKE t \in ScheduleIds
    <3>1. CASE t = n
      BY <1>3, <1>6, <1>9, <1>10, <3>1 DEF IsOpen
    <3>2. CASE t # n
      <4> HAVE FromQueue(h, t)
      <4> DEFINE x == e.schedule[t].queue
                 b == e.schedule[t].activity
      <4>1. /\ FromQueue(e, t) /\ x \in QueueIds /\ b \in Activities
            /\ x # q \/ b # a
            /\ h.schedule[t] = e.schedule[t] /\ IsOpen(h, t) = IsOpen(e, t)
        BY <1>10, <2>1, <3>2
      <4>2. /\ e.queue[x].state # "none" /\ e.queue[x].scope = e.schedule[t].scope
            /\ e.item[x][b] = IF IsOpen(e, t) THEN "started" ELSE "completed"
        BY <1>3, <4>1 DEF Good, ItemsMatchExecutionsIn
      <4>3. h.queue = e.queue /\ h.item[x][b] = e.item[x][b]
        BY <1>6, <1>10, <4>1
      <4> HIDE DEF x, b
      <4> QED
        BY <4>1, <4>2, <4>3 DEF x, b
    <3> QED
      BY <3>1, <3>2
  <2>5. \A x \in QueueIds, b \in Activities :
          h.item[x][b] \in {"started", "completed"} => ItemSchedules(h, x, b) # {}
    BY <1>3, <1>6, <1>10, <2>2, <2>3 DEF Good, ItemsMatchExecutionsIn
  <2>6. \A s, t \in ScheduleIds :
          /\ FromQueue(h, s) /\ FromQueue(h, t)
          /\ h.schedule[s].queue = h.schedule[t].queue
          /\ h.schedule[s].activity = h.schedule[t].activity
          => s = t
    BY <1>3, <1>9, <1>10, <2>1 DEF Good, ItemsMatchExecutionsIn
  <2> QED
    BY <2>4, <2>5, <2>6 DEF ItemsMatchExecutionsIn
<1>14. InactiveQueuesDrainedIn(h)
  BY <1>3, <1>5, <1>6, <1>10 DEF Good, InactiveQueuesDrainedIn, Available
<1> QED
  BY <1>10, <1>11, <1>12, <1>13, <1>14 DEF Good, h

LEMMA StartPremiumKeepsGood ==
  ASSUME NEW d, NEW r \in PremiumStarts, Good(d), day \in Days,
         FreshQueues(d) # {}, FreshSchedules(d) # {}, InsertIsAllowed(d, r)
  PROVE  Good(StartPremium(d, r))
<1> DEFINE e == CompleteOneOf(d, r.found)
           sc == r.scope
           a == r.activity
           c == d.activity[a].category
           h == StartPremium(d, r)
<1>0. sc \in Scopes /\ a \in Activities
  BY DEF PremiumStarts
<1>1. /\ Good(e) /\ OpenIn(e, sc) = {}
      /\ \A t \in ScheduleIds :
           e.schedule[t].state = "none" <=> d.schedule[t].state = "none"
  BY OverdueAreOpen, CompleteOneOfKeepsGood
  DEF InsertIsAllowed, FoundIsLocked, IndexAllowsExecution
<1>2. h = InsertSchedule(e, sc, None, a, c)
  BY DEF StartPremium
<1>3. c \in Categories
  BY <1>0 DEF Good, Databases, ActivityRows
<1> HIDE DEF e, h, c, sc, a
<1>4. e \in Databases /\ FreshSchedules(e) # {} /\ None \in QueueIds \cup {None}
  BY <1>1 DEF Good, FreshSchedules
<1>5. /\ h \in Databases /\ h.item = e.item
      /\ \E n \in ScheduleIds : StartsAt(e, h, n, sc, None, a, c)
  BY <1>0, <1>2, <1>3, <1>4, InsertScheduleFrame
<1>6. PICK n \in ScheduleIds : StartsAt(e, h, n, sc, None, a, c)
  BY <1>5
<1>7. /\ h \in Databases /\ h.queue = e.queue /\ h.item = e.item
      /\ e.schedule[n].state = "none"
      /\ h.schedule[n].state = "open" /\ h.schedule[n].scope = sc
      /\ h.schedule[n].queue = None
      /\ \A t \in ScheduleIds \ {n} : h.schedule[t] = e.schedule[t]
  BY <1>5, <1>6 DEF StartsAt
<1>8. OneOpenExecutionIn(h)
  <2>1. \A t \in ScheduleIds \ {n} : IsOpen(h, t) => h.schedule[t].scope # sc
    BY <1>1, <1>7 DEF OpenIn, IsOpen
  <2> QED
    BY <1>1, <1>7, <2>1 DEF Good, OneOpenExecutionIn, IsOpen
<1>9. OneActiveQueueIn(h)
  BY <1>1, <1>7 DEF Good, OneActiveQueueIn
<1>10. ItemsMatchExecutionsIn(h)
  <2>1. \A t \in ScheduleIds : FromQueue(h, t) =>
          /\ t # n /\ FromQueue(e, t) /\ h.schedule[t] = e.schedule[t]
          /\ IsOpen(h, t) = IsOpen(e, t)
    BY <1>7 DEF FromQueue, IsOpen
  <2>2. \A x \in QueueIds, b \in Activities :
          ItemSchedules(e, x, b) = ItemSchedules(h, x, b)
    BY <1>7, NoneIsNoQueue DEF ItemSchedules
  <2> QED
    BY <1>1, <1>7, <2>1, <2>2 DEF Good, ItemsMatchExecutionsIn
<1>11. InactiveQueuesDrainedIn(h)
  BY <1>1, <1>7 DEF Good, InactiveQueuesDrainedIn, Available
<1> QED
  BY <1>7, <1>8, <1>9, <1>10, <1>11 DEF Good, h

-----------------------------------------------------------------------------
(* Moving one item of an active queue.                                      *)

MovesItem(d, e, q, a, to) ==
  /\ e.queue = d.queue /\ e.schedule = d.schedule /\ e.completion = d.completion
  /\ e.skips = d.skips /\ e.activity = d.activity
  /\ e.item[q][a] = to
  /\ \A x \in QueueIds, b \in Activities :
       x # q \/ b # a => e.item[x][b] = d.item[x][b]

LEMMA MoveItemKeepsGood ==
  ASSUME NEW d, NEW q \in QueueIds, NEW a \in Activities, NEW to \in NoExecution,
         Good(d), d.queue[q].state = "active", d.item[q][a] \in NoExecution,
         NEW f, f = [d EXCEPT !.item[q][a] = to]
  PROVE  Good(f) /\ MovesItem(d, f, q, a, to)
<1> DEFINE e == [d EXCEPT !.item[q][a] = to]
           items == [d.item EXCEPT ![q] = [d.item[q] EXCEPT ![a] = to]]
<1>0. d \in Databases
  BY DEF Good
<1>1. e = [d EXCEPT !.item = items]
  BY <1>0 DEF Databases
<1>2. /\ items \in [QueueIds -> [Activities -> ItemStates]]
      /\ items[q][a] = to
      /\ \A x \in QueueIds, b \in Activities :
           \/ items[x][b] = d.item[x][b]
           \/ x = q /\ b = a /\ items[x][b] = to
  BY <1>0 DEF Databases, NoExecution
<1> HIDE DEF e, items
<1>3. /\ e \in Databases /\ e.item = items /\ e.queue = d.queue /\ e.schedule = d.schedule
      /\ e.completion = d.completion /\ e.skips = d.skips /\ e.activity = d.activity
  BY <1>0, <1>1, <1>2 DEF Databases
<1>4. OnlyItems(d, e)
  BY <1>2, <1>3 DEF OnlyItems, SameQueues
<1> QED
  BY <1>2, <1>3, <1>4, OnlyItemsKeepsGood DEF e, MovesItem

(* A skip marks the item and records a fact for an identified scope.        *)
Skipped(d, q, a) == RecordActivitySkip([d EXCEPT !.item[q][a] = "skipped"], q, a)
SkipsAt(d, e, q, a) ==
  /\ e.queue = d.queue /\ e.schedule = d.schedule /\ e.completion = d.completion
  /\ e.activity = d.activity
  /\ e.skips = IF d.queue[q].scope = Anonymous THEN d.skips ELSE d.skips \cup {<<q, a>>}
  /\ e.item[q][a] = "skipped"
  /\ \A x \in QueueIds, b \in Activities :
       x # q \/ b # a => e.item[x][b] = d.item[x][b]

LEMMA SkippedKeepsGood ==
  ASSUME NEW d, NEW q \in QueueIds, NEW a \in Activities, Good(d),
         d.item[q][a] \in OpenToExpiry, NEW f, f = Skipped(d, q, a)
  PROVE  /\ Good(f) /\ SkipsAt(d, f, q, a)
         /\ d.queue[q].state = "active"
<1> DEFINE e == [d EXCEPT !.item[q][a] = "skipped"]
<1>1. /\ d.queue[q].state = "active" /\ d.item[q][a] \in NoExecution
      /\ "skipped" \in NoExecution
  BY DEF Good, InactiveQueuesDrainedIn, Available, AvailableStates, OpenToExpiry,
         NoExecution, ItemStates
<1>2. Good(e) /\ MovesItem(d, e, q, a, "skipped")
  BY <1>1, MoveItemKeepsGood
<1>3. f = RecordActivitySkip(e, q, a)
  BY DEF Skipped
<1> HIDE DEF e
<1>4. /\ f \in Databases /\ f.item = e.item /\ f.queue = e.queue
      /\ f.schedule = e.schedule /\ f.completion = e.completion /\ f.activity = e.activity
      /\ f.skips = IF e.queue[q].scope = Anonymous THEN e.skips ELSE e.skips \cup {<<q, a>>}
  <2>1. e \in Databases
    BY <1>2 DEF Good
  <2>2. CASE e.queue[q].scope = Anonymous
    BY <1>3, <2>1, <2>2 DEF RecordActivitySkip
  <2>3. CASE e.queue[q].scope # Anonymous
    <3> DEFINE S == e.skips \cup {<<q, a>>}
    <3>1. f = [e EXCEPT !.skips = S]
      BY <1>3, <2>3 DEF RecordActivitySkip, RecordAnySkip
    <3>2. S \in SUBSET (QueueIds \X Activities)
      BY <2>1 DEF Databases
    <3> HIDE DEF S
    <3>3. /\ f \in Databases /\ f.item = e.item /\ f.queue = e.queue
          /\ f.schedule = e.schedule /\ f.completion = e.completion
          /\ f.activity = e.activity /\ f.skips = S
      BY <2>1, <3>1, <3>2 DEF Databases
    <3> QED
      BY <2>3, <3>3 DEF S
  <2> QED
    BY <2>2, <2>3
<1>5. Good(f)
  BY <1>2, <1>4, OnlyItemsKeepsGood DEF OnlyItems, SameQueues
<1>6. SkipsAt(d, f, q, a)
  BY <1>2, <1>4 DEF MovesItem, SkipsAt
<1> QED
  BY <1>1, <1>5, <1>6

LEMMA SkipItemKeepsGood ==
  ASSUME NEW d, NEW q \in QueueIds, NEW a \in Activities, Good(d),
         d.item[q][a] \in OpenToExpiry, FreshQueues(d) # {}
  PROVE  Good(SkipItem(d, q, a))
<1> DEFINE f == Skipped(d, q, a)
<1>1. Good(f) /\ SkipsAt(d, f, q, a) /\ d.queue[q].state = "active"
  BY SkippedKeepsGood
<1>2. SkipItem(d, q, a) = FinalizeQueueIfFinished(f, q)
  BY DEF SkipItem, Skipped
<1> HIDE DEF f
<1>3. f.queue[q].state = "active" /\ FreshQueues(f) # {}
  BY <1>1 DEF SkipsAt, FreshQueues
<1> QED
  BY <1>1, <1>2, <1>3, FinalizeKeepsGood

(* The cancelled queue keeps what happened in it, and nothing is left open. *)
CancelledRow(d, q) ==
  [a \in Activities |->
     IF d.item[q][a] \in OpenToExpiry THEN "expired" ELSE d.item[q][a]]
Cancelled(d, q) ==
  [d EXCEPT !.queue[q].state = "cancelled", !.item[q] = CancelledRow(d, q)]
CancelsAt(d, e, q) ==
  /\ e.schedule = d.schedule /\ e.completion = d.completion
  /\ e.skips = d.skips /\ e.activity = d.activity
  /\ e.queue[q].state = "cancelled" /\ e.item[q] = CancelledRow(d, q)
  /\ \A x \in QueueIds : /\ e.queue[x].scope = d.queue[x].scope
                         /\ e.queue[x].group = d.queue[x].group
                         /\ e.queue[x].mode = d.queue[x].mode
                         /\ e.queue[x].source = d.queue[x].source
                         /\ e.queue[x].consumed = d.queue[x].consumed
                         /\ e.queue[x].size = d.queue[x].size
                         /\ x # q => /\ e.queue[x].state = d.queue[x].state
                                     /\ e.item[x] = d.item[x]

LEMMA CancelledKeepsGood ==
  ASSUME NEW d, NEW sc \in Scopes, NEW g \in Groups, Good(d),
         OpenIn(d, sc) = {}, NEW q \in ActiveQueues(d, sc, g)
  PROVE  Good(Cancelled(d, q)) /\ CancelsAt(d, Cancelled(d, q), q)
<1> DEFINE row == CancelledRow(d, q)
           c == Cancelled(d, q)
<1>0. d \in Databases /\ q \in QueueIds /\ d.queue[q].state = "active"
      /\ d.queue[q].scope = sc /\ d.queue[q].group = g
  BY DEF Good, ActiveQueues
<1>1. \A a \in Activities : d.item[q][a] # "started"
  <2> TAKE a \in Activities
  <2> SUFFICES ASSUME d.item[q][a] = "started" PROVE FALSE
    OBVIOUS
  <2>1. PICK s \in ScheduleIds : d.schedule[s].state # "none" /\ d.schedule[s].queue = q
                                 /\ d.schedule[s].activity = a
    BY <1>0 DEF Good, ItemsMatchExecutionsIn, ItemSchedules
  <2>2. IsOpen(d, s) /\ d.schedule[s].scope = sc
    BY <1>0, <2>1, NoneIsNoQueue DEF Good, ItemsMatchExecutionsIn, FromQueue
  <2> QED
    BY <2>2 DEF OpenIn
<1>2. /\ row \in [Activities -> ItemStates]
      /\ \A a \in Activities : /\ row[a] \notin AvailableStates
                               /\ \/ row[a] = d.item[q][a]
                                  \/ d.item[q][a] \in OpenToExpiry /\ row[a] = "expired"
  BY <1>0, <1>1 DEF CancelledRow, Databases, ItemStates, OpenToExpiry, AvailableStates
<1> HIDE DEF row
<1>4. c \in Databases /\ CancelsAt(d, c, q)
  <2> DEFINE new == [d.queue[q] EXCEPT !.state = "cancelled"]
  <2>1. c = [d EXCEPT !.queue = [d.queue EXCEPT ![q] = new],
                      !.item = [d.item EXCEPT ![q] = row]]
    BY <1>0 DEF Cancelled, row, Databases
  <2>2. new \in QueueRows /\ new.state = "cancelled"
        /\ new.scope = d.queue[q].scope /\ new.group = d.queue[q].group
        /\ new.mode = d.queue[q].mode /\ new.source = d.queue[q].source
        /\ new.consumed = d.queue[q].consumed /\ new.size = d.queue[q].size
    BY <1>0 DEF Databases, QueueRows, QueueStates
  <2> HIDE DEF new, c
  <2>3. /\ [d.queue EXCEPT ![q] = new] \in [QueueIds -> QueueRows]
        /\ [d.item EXCEPT ![q] = row] \in [QueueIds -> [Activities -> ItemStates]]
    BY <1>0, <1>2, <2>2 DEF Databases
  <2>4. /\ c \in Databases /\ c.schedule = d.schedule /\ c.completion = d.completion
        /\ c.skips = d.skips /\ c.activity = d.activity
        /\ c.queue = [d.queue EXCEPT ![q] = new] /\ c.item = [d.item EXCEPT ![q] = row]
    BY <1>0, <2>1, <2>3 DEF Databases
  <2> HIDE DEF row
  <2> QED
    BY <1>0, <2>2, <2>4 DEF CancelsAt, row, Databases
<1> HIDE DEF c
<1>5. Good(c)
  <2>1. OneOpenExecutionIn(c)
    BY <1>4 DEF CancelsAt, Good, OneOpenExecutionIn, IsOpen
  <2>2. OneActiveQueueIn(c)
    BY <1>4 DEF CancelsAt, Good, OneActiveQueueIn
  <2>3. ItemsMatchExecutionsIn(c)
    <3>1. \A x \in QueueIds, b \in Activities : ItemSchedules(c, x, b) = ItemSchedules(d, x, b)
      BY <1>4 DEF CancelsAt, ItemSchedules
    <3>2. \A s \in ScheduleIds : FromQueue(c, s) = FromQueue(d, s) /\ IsOpen(c, s) = IsOpen(d, s)
      BY <1>4 DEF CancelsAt, FromQueue, IsOpen
    <3>3. \A s \in ScheduleIds : FromQueue(d, s) =>
            d.schedule[s].queue \in QueueIds /\ d.schedule[s].activity \in Activities
      BY <1>0 DEF FromQueue, Databases, ScheduleRows
    <3>4. \A x \in QueueIds, b \in Activities :
            c.item[x][b] \in {"started", "completed"} \/ d.item[x][b] \in {"started", "completed"}
              => c.item[x][b] = d.item[x][b]
      BY <1>2, <1>4 DEF CancelsAt, row, OpenToExpiry
    <3>5. \A x \in QueueIds : c.queue[x].state = "none" <=> d.queue[x].state = "none"
      BY <1>0, <1>4 DEF CancelsAt
    <3> QED
      BY <1>4, <3>1, <3>2, <3>3, <3>4, <3>5 DEF CancelsAt, Good, ItemsMatchExecutionsIn
  <2>4. InactiveQueuesDrainedIn(c)
    BY <1>2, <1>4 DEF CancelsAt, row, Good, InactiveQueuesDrainedIn, Available
  <2> QED
    BY <1>4, <2>1, <2>2, <2>3, <2>4 DEF Good
<1> QED
  BY <1>4, <1>5 DEF c

LEMMA RecreateKeepsGood ==
  ASSUME NEW d, NEW sc \in Scopes, NEW g \in Groups, Good(d),
         OpenIn(d, sc) = {}, FreshQueues(d) # {},
         NEW q \in ActiveQueues(d, sc, g)
  PROVE  Good(RecreateActiveQueue(d, q))
<1> DEFINE c == Cancelled(d, q)
           S == RecreationCandidates(d, q)
<1>1. q \in QueueIds /\ d.queue[q].state = "active"
      /\ d.queue[q].scope = sc /\ d.queue[q].group = g
  BY DEF ActiveQueues
<1>2. RecreateActiveQueue(d, q) = InsertQueue(c, sc, g, "normal", None, S)
  BY <1>1 DEF RecreateActiveQueue, Cancelled, CancelledRow
<1>3. Good(c) /\ CancelsAt(d, c, q)
  BY CancelledKeepsGood
<1> HIDE DEF c
<1>4. FreshQueues(c) # {} /\ ActiveQueues(c, sc, g) = {}
  BY <1>1, <1>3 DEF CancelsAt, FreshQueues, ActiveQueues, Good, OneActiveQueueIn
<1>5. S \subseteq Activities /\ "normal" \in QueueModes /\ None \in QueueIds \cup {None}
      /\ sc \in Scopes /\ g \in Groups
  BY EligibleAreActivities DEF RecreationCandidates, RequeuedSkips, QueueModes
<1> HIDE DEF S
<1> QED
  BY <1>2, <1>3, <1>4, <1>5, InsertQueueKeepsGood

-----------------------------------------------------------------------------
(* The transactions.                                                        *)

LEMMA PresentOneKeepsGood ==
  ASSUME NEW d, NEW sc, NEW g, Good(d), PresentOne(d, sc, g)
  PROVE  Good(db')
<1> DEFINE choices == Presentable(d, ActiveQueues(d, sc, g))
<1>1. \/ db' = d
      \/ \E i \in choices : db' = [d EXCEPT !.item[i[1]][i[2]] = "presented"]
  BY DEF PresentOne
<1>2. ASSUME NEW i \in choices, db' = [d EXCEPT !.item[i[1]][i[2]] = "presented"]
      PROVE  Good(db')
  <2>1. /\ i[1] \in ActiveQueues(d, sc, g) /\ i[2] \in Activities
        /\ d.item[i[1]][i[2]] = "pending"
    BY DEF Presentable
  <2>2. /\ i[1] \in QueueIds /\ d.queue[i[1]].state = "active"
        /\ d.item[i[1]][i[2]] \in NoExecution /\ "presented" \in NoExecution
    BY <2>1 DEF ActiveQueues, NoExecution, ItemStates
  <2> QED
    BY <1>2, <2>1, <2>2, MoveItemKeepsGood
<1> QED
  BY <1>1, <1>2

LEMMA PresentNextKeepsGood ==
  ASSUME NEW sc \in Scopes, NEW g \in Groups, Good(db), PresentNext(sc, g)
  PROVE  Good(db')
<1>1. Good(RefreshActiveQueue(db, sc, g)) /\ PresentOne(RefreshActiveQueue(db, sc, g), sc, g)
  BY RefreshActiveQueueKeepsGood DEF PresentNext, HasRoom
<1> QED
  BY <1>1, PresentOneKeepsGood

(* The queue that a read of next creates; the index has admitted it.        *)
LEMMA CreateQueueKeepsGood ==
  ASSUME NEW w \in Workers, Good(db), request[w] \in Creations, CreateQueue(w)
  PROVE  Good(db')
<1> DEFINE r == request[w]
           e == InsertQueue(db, r.scope, r.group, "normal", None, r.candidates)
<1>1. /\ r.scope \in Scopes /\ r.group \in Groups /\ r.candidates \subseteq Activities
      /\ "normal" \in QueueModes /\ None \in QueueIds \cup {None}
  BY DEF Creations, QueueModes
<1>2. /\ FreshQueues(db) # {} /\ ActiveQueues(db, r.scope, r.group) = {}
      /\ PresentOne(e, r.scope, r.group)
  BY DEF CreateQueue, HasRoom, IndexAllowsQueue
<1>3. Good(e)
  BY <1>1, <1>2, InsertQueueKeepsGood
<1> QED
  BY <1>2, <1>3, PresentOneKeepsGood

LEMMA FallDueKeepsGood ==
  ASSUME NEW s \in ScheduleIds, Good(db), FallDue(s), day \in Days
  PROVE  Good(db')
<1> DEFINE row == [db.schedule[s] EXCEPT !.due = day]
<1>0. db \in Databases /\ db' = [db EXCEPT !.schedule[s].due = day]
  BY DEF Good, FallDue
<1>1. db' = [db EXCEPT !.schedule = [db.schedule EXCEPT ![s] = row]]
  BY <1>0 DEF Databases
<1>2. /\ row \in ScheduleRows /\ row.state = db.schedule[s].state
      /\ row.queue = db.schedule[s].queue /\ row.activity = db.schedule[s].activity
      /\ row.scope = db.schedule[s].scope
  BY <1>0 DEF Databases, ScheduleRows
<1> HIDE DEF row
<1>3. [db.schedule EXCEPT ![s] = row] \in [ScheduleIds -> ScheduleRows]
  BY <1>0, <1>2 DEF Databases
<1>4. /\ db' \in Databases /\ db'.queue = db.queue /\ db'.item = db.item
      /\ \A t \in ScheduleIds : /\ db'.schedule[t].state = db.schedule[t].state
                                /\ db'.schedule[t].scope = db.schedule[t].scope
                                /\ db'.schedule[t].queue = db.schedule[t].queue
                                /\ db'.schedule[t].activity = db.schedule[t].activity
  BY <1>0, <1>1, <1>2, <1>3 DEF Databases
<1>5. OneOpenExecutionIn(db')
  BY <1>4 DEF Good, OneOpenExecutionIn, IsOpen
<1>6. OneActiveQueueIn(db')
  BY <1>4 DEF Good, OneActiveQueueIn
<1>7. ItemsMatchExecutionsIn(db')
  <2>1. \A x \in QueueIds, b \in Activities : ItemSchedules(db', x, b) = ItemSchedules(db, x, b)
    BY <1>4 DEF ItemSchedules
  <2>2. \A t \in ScheduleIds : FromQueue(db', t) = FromQueue(db, t) /\ IsOpen(db', t) = IsOpen(db, t)
    BY <1>4 DEF FromQueue, IsOpen
  <2> QED
    BY <1>4, <2>1, <2>2 DEF Good, ItemsMatchExecutionsIn
<1>8. InactiveQueuesDrainedIn(db')
  BY <1>4 DEF Good, InactiveQueuesDrainedIn, Available
<1> QED
  BY <1>4, <1>5, <1>6, <1>7, <1>8 DEF Good

LEMMA InitGood == Init => TypeOK /\ Good(db)
<1> SUFFICES ASSUME Init PROVE TypeOK /\ Good(db)
  OBVIOUS
<1>1. BlankQueue \in QueueRows /\ BlankQueue.state = "none"
  <2>1. (CHOOSE s \in Scopes : TRUE) \in Scopes
    BY CatalogAssumption
  <2> QED
    BY <2>1, CatalogAssumption DEF BlankQueue, QueueRows, QueueStates, QueueModes
<1>2. BlankSchedule \in ScheduleRows /\ BlankSchedule.state = "none"
  <2>1. /\ (CHOOSE s \in Scopes : TRUE) \in Scopes
        /\ (CHOOSE a \in Activities : TRUE) \in Activities
        /\ (CHOOSE c \in Categories : TRUE) \in Categories
        /\ 1 \in Days
    BY CatalogAssumption, BoundsAssumption DEF Days
  <2> QED
    BY <2>1 DEF BlankSchedule, ScheduleRows
<1>3. db \in Databases
  BY <1>1, <1>2, CatalogAssumption DEF Init, Databases, ItemStates, ActivityRows
<1>4. TypeOK
  BY <1>3, BoundsAssumption, CatalogAssumption DEF Init, TypeOK, Days, Requests
<1>5. /\ \A q \in QueueIds, a \in Activities : db.item[q][a] = "absent"
      /\ \A q \in QueueIds : db.queue[q].state = "none"
      /\ \A s \in ScheduleIds : db.schedule[s].state = "none"
  BY <1>1, <1>2 DEF Init
<1>6. OneOpenExecutionIn(db) /\ OneActiveQueueIn(db) /\ InactiveQueuesDrainedIn(db)
      /\ ItemsMatchExecutionsIn(db)
  BY <1>5 DEF OneOpenExecutionIn, OneActiveQueueIn, InactiveQueuesDrainedIn,
              ItemsMatchExecutionsIn, IsOpen, FromQueue, Available, AvailableStates
<1> QED
  BY <1>3, <1>4, <1>6 DEF Good

(* What a request has read so far tells which kind of request it is.        *)
LEMMA KindOfRequest ==
  ASSUME NEW r \in Requests
  PROVE  /\ r.kind = "start" => r \in StartRequests
         /\ r.kind = "insert" => r \in CheckedStarts
         /\ r.kind = "premium" => r \in PremiumStarts
         /\ r.kind = "lookup" => r \in LookUps
         /\ r.kind = "create" => r \in Creations
BY DEF Requests, StartRequests, CheckedStarts, PremiumStarts, LookUps, Creations, NoRequest

(* The inductive invariant.                                                 *)
IInv == TypeOK /\ Good(db)

LEMMA NextKeepsIInv == IInv /\ [Next]_vars => IInv'
<1> SUFFICES ASSUME IInv, [Next]_vars PROVE IInv'
  OBVIOUS
<1>0. /\ Good(db) /\ db \in Databases /\ day \in Days /\ edits \in 0 .. MaxEdits
      /\ request \in [Workers -> Requests] /\ categoryGroup \in [Categories -> Groups]
  BY DEF IInv, TypeOK
<1> DEFINE Others == /\ day' \in Days /\ edits' \in 0 .. MaxEdits
                     /\ request' \in [Workers -> Requests]
                     /\ categoryGroup' \in [Categories -> Groups]
<1>1. SUFFICES Good(db') /\ Others
  BY DEF IInv, TypeOK, Good
<1>2. ASSUME NEW sc \in Scopes, NEW g \in Groups, PresentNext(sc, g)
      PROVE  Good(db') /\ Others
  <2>1. Good(db')
    BY <1>0, <1>2, PresentNextKeepsGood
  <2> QED
    BY <1>0, <1>2, <2>1 DEF PresentNext
<1>3. ASSUME NEW sc \in Scopes, NEW g \in Groups, Recreate(sc, g)
      PROVE  Good(db') /\ Others
  <2>1. PICK q \in ActiveQueues(db, sc, g) : db' = RecreateActiveQueue(db, q)
    BY <1>3 DEF Recreate
  <2>2. Good(db')
    BY <1>0, <1>3, <2>1, RecreateKeepsGood DEF Recreate, HasRoom
  <2> QED
    BY <1>0, <1>3, <2>2 DEF Recreate
<1>4. ASSUME NEW w \in Workers, NEW sc \in Scopes, NEW q \in QueueIds, NEW a \in Activities,
             RequestStart(w, sc, q, a)
      PROVE  Good(db') /\ Others
  <2>1. db.activity[a] \in ActivityRows /\ categoryGroup[db.activity[a].category] \in Groups
    BY <1>0 DEF Databases, ActivityRows
  <2>2. [kind |-> "start", scope |-> sc, queue |-> q, activity |-> a, row |-> db.activity[a],
         group |-> categoryGroup[db.activity[a].category]] \in Requests
    BY <2>1 DEF StartRequests, Requests
  <2> QED
    BY <1>0, <1>4, <2>2 DEF RequestStart, Accepts
<1>5. ASSUME NEW w \in Workers, StartCommits(w)
      PROVE  Good(db') /\ Others
  <2>1. request[w] \in CheckedStarts /\ NoRequest \in Requests
    BY <1>0, <1>5, KindOfRequest DEF StartCommits, Requests
  <2>2. Good(db')
    BY <1>0, <1>5, <2>1, StartActivityKeepsGood DEF StartCommits, HasScheduleRoom, HasRoom
  <2> QED
    BY <1>0, <1>5, <2>1, <2>2 DEF StartCommits, Ends
<1>6. ASSUME NEW w \in Workers, StartConflicts(w) \/ CreationFails(w)
      PROVE  Good(db') /\ Others
  <2>1. NoRequest \in Requests
    BY DEF Requests
  <2> QED
    BY <1>0, <1>6, <2>1 DEF StartConflicts, CreationFails, Ends
<1>7. ASSUME NEW w \in Workers, PremiumCommits(w)
      PROVE  Good(db') /\ Others
  <2>1. request[w] \in PremiumStarts /\ NoRequest \in Requests
    BY <1>0, <1>7, KindOfRequest DEF PremiumCommits, Requests
  <2>2. Good(db')
    BY <1>0, <1>7, <2>1, StartPremiumKeepsGood DEF PremiumCommits, HasScheduleRoom, HasRoom
  <2> QED
    BY <1>0, <1>7, <2>1, <2>2 DEF PremiumCommits, Ends
<1>16. ASSUME NEW w \in Workers, NEW sc \in Scopes, NEW g \in Groups, LookUp(w, sc, g)
       PROVE  Good(db') /\ Others
  <2>1. [kind |-> "lookup", scope |-> sc, group |-> g] \in Requests
    BY DEF LookUps, Requests
  <2> QED
    BY <1>0, <1>16, <2>1 DEF LookUp, Accepts
<1>17. ASSUME NEW w \in Workers, ReadCandidates(w)
       PROVE  Good(db') /\ Others
  <2> DEFINE r == request[w]
             S == EligibleActivities(db, r.group)
             c == [kind |-> "create", scope |-> r.scope, group |-> r.group,
                   candidates |-> S]
  <2>1. r \in LookUps /\ NoRequest \in Requests
    BY <1>0, <1>17, KindOfRequest DEF ReadCandidates, Requests
  <2>2. S \subseteq Activities
    BY EligibleAreActivities
  <2>3. request' = [request EXCEPT ![w] = NoRequest] \/ request' = [request EXCEPT ![w] = c]
    BY <1>17 DEF ReadCandidates, Ends, Continues
  <2> HIDE DEF S
  <2>4. c \in Requests
    BY <2>1, <2>2 DEF LookUps, Creations, Requests
  <2> QED
    BY <1>0, <1>17, <2>1, <2>3, <2>4 DEF ReadCandidates
<1>18. ASSUME NEW w \in Workers, CreateQueue(w)
       PROVE  Good(db') /\ Others
  <2>1. request[w] \in Creations /\ NoRequest \in Requests
    BY <1>0, <1>18, KindOfRequest DEF CreateQueue, Requests
  <2>2. Good(db')
    BY <1>0, <1>18, <2>1, CreateQueueKeepsGood
  <2> QED
    BY <1>0, <1>18, <2>1, <2>2 DEF CreateQueue, Ends
<1>19. ASSUME NEW w \in Workers, FindOpen(w)
       PROVE  Good(db') /\ Others
  <2> DEFINE r == request[w]
             c == [kind |-> "insert", scope |-> r.scope, queue |-> r.queue,
                   activity |-> r.activity, row |-> r.row, group |-> r.group,
                   found |-> OpenIn(db, r.scope)]
  <2>1. r \in StartRequests
    BY <1>0, <1>19, KindOfRequest DEF FindOpen
  <2>2. c \in Requests
    BY <2>1 DEF StartRequests, CheckedStarts, Requests, OpenIn
  <2>3. request' = [request EXCEPT ![w] = c]
    BY <1>19 DEF FindOpen, Continues
  <2> QED
    BY <1>0, <1>19, <2>2, <2>3 DEF FindOpen
<1>20. ASSUME NEW w \in Workers, NEW sc \in Scopes, NEW a \in Activities,
              PremiumFindsOpen(w, sc, a)
       PROVE  Good(db') /\ Others
  <2>1. [kind |-> "premium", scope |-> sc, activity |-> a, found |-> OpenIn(db, sc)] \in Requests
    BY DEF PremiumStarts, Requests, OpenIn
  <2> QED
    BY <1>0, <1>20, <2>1 DEF PremiumFindsOpen, Accepts
<1>21. ASSUME NEW c \in Moved, NEW g \in Groups, MoveCategory(c, g)
       PROVE  Good(db') /\ Others
  BY <1>0, <1>21, BoundsAssumption, CatalogAssumption DEF MoveCategory
<1>8. ASSUME NEW q \in QueueIds, NEW a \in Activities, Skip(q, a)
      PROVE  Good(db') /\ Others
  <2>1. Good(db')
    BY <1>0, <1>8, SkipItemKeepsGood DEF Skip, HasRoom
  <2> QED
    BY <1>0, <1>8, <2>1 DEF Skip
<1>9. ASSUME NEW s \in ScheduleIds, Complete(s)
      PROVE  Good(db') /\ Others
  <2>1. Good(db')
    BY <1>0, <1>9, CompleteScheduleKeepsGood DEF Complete, HasRoom
  <2> QED
    BY <1>0, <1>9, <2>1 DEF Complete
<1>10. ASSUME NEW s \in ScheduleIds, FallDue(s)
       PROVE  Good(db') /\ Others
  <2>1. Good(db')
    BY <1>0, <1>10, FallDueKeepsGood
  <2> QED
    BY <1>0, <1>10, <2>1 DEF FallDue
<1>11. ASSUME NEW sc \in Scopes, Poll(sc)
       PROVE  Good(db') /\ Others
  <2>1. Good(db')
    BY <1>0, <1>11, OverdueAreOpen, CompleteOneOfKeepsGood DEF Poll, HasRoom, ReconcileOpen
  <2> QED
    BY <1>0, <1>11, <2>1 DEF Poll
<1>12. ASSUME NEW a \in Activities, NEW row \in EditedTo[a], EditActivity(a, row)
       PROVE  Good(db') /\ Others
  <2>0. row \in ActivityRows
    BY CatalogAssumption DEF ActivityRows
  <2> DEFINE e == [db EXCEPT !.activity[a] = row]
  <2>1. e \in Databases /\ e.queue = db.queue /\ e.item = db.item /\ e.schedule = db.schedule
    BY <1>0, <2>0 DEF Databases
  <2>2. db' = ReconcileActivity(e, a)
    BY <1>12 DEF EditActivity
  <2> HIDE DEF e
  <2>3. Good(e)
    BY <1>0, <2>1, OnlyItemsKeepsGood DEF OnlyItems, SameQueues
  <2>4. Good(db')
    BY <2>2, <2>3, ReconcileActivityKeepsGood
  <2>5. edits' \in 0 .. MaxEdits
    BY <1>0, <1>12, BoundsAssumption DEF EditActivity
  <2> QED
    BY <1>0, <1>12, <2>4, <2>5 DEF EditActivity
<1>13. ASSUME NEW q \in QueueIds, ReconcileJob(q)
       PROVE  Good(db') /\ Others
  <2>1. Good(db')
    BY <1>0, <1>13, ReconcilePremiumQueueKeepsGood DEF ReconcileJob
  <2> QED
    BY <1>0, <1>13, <2>1 DEF ReconcileJob
<1>14. CASE NewDay
  BY <1>0, <1>14, BoundsAssumption DEF NewDay, Days
<1>15. CASE UNCHANGED vars
  BY <1>0, <1>15 DEF vars
<1> QED
  BY <1>2, <1>3, <1>4, <1>5, <1>6, <1>7, <1>8, <1>9, <1>10, <1>11, <1>12, <1>13,
     <1>14, <1>15, <1>16, <1>17, <1>18, <1>19, <1>20, <1>21 DEF Next

LEMMA IInvIsInvariant == Spec => []IInv
<1>1. Init => IInv
  BY InitGood DEF IInv
<1> QED
  BY <1>1, NextKeepsIInv, PTL DEF Spec

(* Every reachable state is well typed, for every catalogue and bound.      *)
THEOREM TypeCorrect == Spec => []TypeOK
<1>1. IInv => TypeOK
  BY DEF IInv
<1> QED
  BY <1>1, IInvIsInvariant, PTL

(* One open execution per scope, for any number of starts at once, since    *)
(* each inserts behind the index and nothing reopens an execution.          *)
THEOREM OneOpenExecutionPerScope == Spec => []OneOpenExecution
<1>1. IInv => OneOpenExecution
  BY DEF IInv, Good, OneOpenExecution
<1> QED
  BY <1>1, IInvIsInvariant, PTL

(* One active queue per scope and group, for any number of first reads of   *)
(* next at once: the index decides between those, and the queues that a     *)
(* review, a recreation or a drained queue brings need no index.            *)
THEOREM OneActiveQueuePerGroup == Spec => []OneActiveQueue
<1>1. IInv => OneActiveQueue
  BY DEF IInv, Good, OneActiveQueue
<1> QED
  BY <1>1, IInvIsInvariant, PTL

(* Items and executions never come apart: an item is started while its      *)
(* execution is open and completed once it has ended, and it has only one.  *)
THEOREM ItemsFollowExecutions == Spec => []ItemsMatchExecutions
<1>1. IInv => ItemsMatchExecutions
  BY DEF IInv, Good, ItemsMatchExecutions
<1> QED
  BY <1>1, IInvIsInvariant, PTL

(* A closed or cancelled queue has nothing left to serve.                   *)
THEOREM InactiveQueuesAreDrained == Spec => []InactiveQueuesDrained
<1>1. IInv => InactiveQueuesDrained
  BY DEF IInv, Good, InactiveQueuesDrained
<1> QED
  BY <1>1, IInvIsInvariant, PTL

-----------------------------------------------------------------------------
(* Reviews, facts and history.  A service is again a step from a database   *)
(* to a database: Kept says what every service, and so every transaction    *)
(* built from services, keeps.                                              *)

(* An id that no queue has yet holds nothing.                               *)
FreshQueuesAreBlank(d) ==
  \A q \in QueueIds : d.queue[q].state = "none" =>
    /\ d.queue[q].mode = "normal" /\ d.queue[q].source = None
    /\ \A a \in Activities : d.item[q][a] = "absent"

OnePresentedIn(d) ==
  \A q \in QueueIds, a, b \in Activities :
    d.item[q][a] = "presented" /\ d.item[q][b] = "presented" => a = b

Sound(d) ==
  /\ FreshQueuesAreBlank(d)
  /\ OnePresentedIn(d)
  /\ FactsMatchIn(d)
  /\ ReviewRepeatsSkipsIn(d)

(* The history of d is final in e.                                          *)
QueuesFollow(d, e) ==
  \A q \in QueueIds : d.queue[q].state # "none" =>
    /\ e.queue[q].state # "none"
    /\ d.queue[q].state \in {"closed", "cancelled"} => e.queue[q].state = d.queue[q].state
    /\ e.queue[q].scope = d.queue[q].scope /\ e.queue[q].group = d.queue[q].group
    /\ e.queue[q].mode = d.queue[q].mode /\ e.queue[q].source = d.queue[q].source
ItemsFollow(d, e) ==
  \A q \in QueueIds, a \in Activities :
    d.item[q][a] \in {"completed", "skipped", "expired"} => e.item[q][a] = d.item[q][a]
ExecutionsFollow(d, e) ==
  \A s \in ScheduleIds :
    /\ d.schedule[s].state = "completed" => e.schedule[s] = d.schedule[s]
    /\ d.completion[s] # None => e.completion[s] = d.completion[s]
Follows(d, e) ==
  /\ QueuesFollow(d, e) /\ ItemsFollow(d, e) /\ ExecutionsFollow(d, e)
  /\ d.skips \subseteq e.skips

(* No execution starts and no activity is edited from d to e.               *)
NoStart(d, e) ==
  /\ e.activity = d.activity
  /\ \A s \in ScheduleIds :
       /\ e.schedule[s].state = "none" <=> d.schedule[s].state = "none"
       /\ e.schedule[s].queue = d.schedule[s].queue
       /\ e.schedule[s].activity = d.schedule[s].activity
       /\ e.schedule[s].category = d.schedule[s].category
       /\ e.schedule[s].start = d.schedule[s].start

Kept(d, e) ==
  /\ Sound(e)
  /\ Follows(d, e)
  /\ NoStart(d, e)
  /\ NoForeignItemIn(d) => NoForeignItemIn(e)

LEMMA FollowsTransitive ==
  ASSUME NEW c, NEW d, NEW e, Follows(c, d), Follows(d, e)
  PROVE  Follows(c, e)
BY DEF Follows, QueuesFollow, ItemsFollow, ExecutionsFollow

LEMMA KeptTransitive ==
  ASSUME NEW c, NEW d, NEW e, Kept(c, d), Kept(d, e)
  PROVE  Kept(c, e)
BY FollowsTransitive DEF Kept, NoStart

LEMMA KeptReflexive ==
  ASSUME NEW d, Sound(d)
  PROVE  Kept(d, d)
BY DEF Kept, Follows, QueuesFollow, ItemsFollow, ExecutionsFollow, NoStart

(* The facts about queues and executions are kept apart in the proofs.      *)
CompletionsMatch(d) ==
  \A s \in ScheduleIds :
    d.completion[s] = IF d.schedule[s].state = "completed" /\ d.schedule[s].scope # Anonymous
                      THEN d.schedule[s].category ELSE None
SkipsMatch(d) ==
  /\ d.skips \subseteq QueueIds \X Activities
  /\ \A q \in QueueIds, a \in Activities :
       <<q, a>> \in d.skips <=> d.item[q][a] = "skipped" /\ d.queue[q].scope # Anonymous

LEMMA FactsInTwoParts ==
  ASSUME NEW d
  PROVE  FactsMatchIn(d) <=> CompletionsMatch(d) /\ SkipsMatch(d)
<1>1. (d.skips = {i \in QueueIds \X Activities :
                   /\ d.item[i[1]][i[2]] = "skipped"
                   /\ d.queue[i[1]].scope # Anonymous}) <=> SkipsMatch(d)
  BY DEF SkipsMatch
<1> QED
  BY <1>1 DEF FactsMatchIn, CompletionsMatch

(* Reviews stay what they are while no queue is inserted, no item is added  *)
(* to a review and none of it is skipped.                                   *)
NoNewReview(d, e) ==
  \A q \in QueueIds :
    /\ e.queue[q].mode = d.queue[q].mode /\ e.queue[q].source = d.queue[q].source
    /\ d.queue[q].mode = "skipped_review" =>
         \A a \in Activities :
           /\ d.item[q][a] = "absent" => e.item[q][a] = "absent"
           /\ d.item[q][a] # "skipped" => e.item[q][a] # "skipped"

LEMMA ReviewsFollow ==
  ASSUME NEW d, NEW e, d \in Databases, Sound(d), NoNewReview(d, e),
         QueuesFollow(d, e), ItemsFollow(d, e)
  PROVE  ReviewRepeatsSkipsIn(e)
<1> SUFFICES ASSUME NEW r \in QueueIds, e.queue[r].mode = "skipped_review"
             PROVE  LET q == e.queue[r].source
                    IN /\ q # None
                       /\ e.queue[q].state = "closed" /\ e.queue[q].mode = "normal"
                       /\ e.queue[q].scope = e.queue[r].scope
                       /\ e.queue[q].group = e.queue[r].group
                       /\ \A a \in Members(e, r) :
                            e.item[q][a] = "skipped" /\ e.item[r][a] # "skipped"
                       /\ \A x \in QueueIds : e.queue[x].source = q => x = r
  BY DEF ReviewRepeatsSkipsIn
<1> DEFINE q == d.queue[r].source
<1>1. /\ d.queue[r].mode = "skipped_review" /\ e.queue[r].source = q
      /\ d.queue[r].state # "none"
  BY DEF NoNewReview, Sound, FreshQueuesAreBlank
<1>2. /\ q # None
      /\ d.queue[q].state = "closed" /\ d.queue[q].mode = "normal"
      /\ d.queue[q].scope = d.queue[r].scope
      /\ d.queue[q].group = d.queue[r].group
      /\ \A a \in Members(d, r) : d.item[q][a] = "skipped" /\ d.item[r][a] # "skipped"
      /\ \A x \in QueueIds : d.queue[x].source = q => x = r
  BY <1>1 DEF Sound, ReviewRepeatsSkipsIn
<1>3. q \in QueueIds
  BY <1>2 DEF Databases, QueueRows
<1> HIDE DEF q
<1>4. /\ e.queue[q].state = "closed" /\ e.queue[q].mode = "normal"
      /\ e.queue[q].scope = e.queue[r].scope /\ e.queue[q].group = e.queue[r].group
  BY <1>1, <1>2, <1>3 DEF QueuesFollow
<1>5. \A a \in Members(e, r) : e.item[q][a] = "skipped" /\ e.item[r][a] # "skipped"
  BY <1>1, <1>2, <1>3 DEF NoNewReview, ItemsFollow, Members
<1>6. \A x \in QueueIds : e.queue[x].source = q => x = r
  BY <1>2 DEF NoNewReview
<1> QED
  BY <1>1, <1>2, <1>4, <1>5, <1>6

(* A reconciliation keeps everything, provided what it adds belongs.        *)
LEMMA ReconcilesKept ==
  ASSUME NEW d, NEW e, d \in Databases, Sound(d), Reconciles(d, e),
         NoForeignItemIn(d) => NoForeignItemIn(e)
  PROVE  Kept(d, e)
<1>1. FreshQueuesAreBlank(e) /\ OnePresentedIn(e)
  BY DEF Sound, Reconciles, FreshQueuesAreBlank, OnePresentedIn, OpenToExpiry
<1>2. FactsMatchIn(e)
  <2>1. CompletionsMatch(e)
    BY FactsInTwoParts DEF Sound, Reconciles, CompletionsMatch
  <2>2. SkipsMatch(e)
    BY FactsInTwoParts DEF Sound, Reconciles, SkipsMatch, OpenToExpiry
  <2> QED
    BY <2>1, <2>2, FactsInTwoParts
<1>3. Follows(d, e)
  BY DEF Reconciles, Follows, QueuesFollow, ItemsFollow, ExecutionsFollow, OpenToExpiry
<1>4. ReviewRepeatsSkipsIn(e)
  <2>1. NoNewReview(d, e)
    BY DEF Reconciles, NoNewReview, OpenToExpiry
  <2> QED
    BY <1>3, <2>1, ReviewsFollow DEF Follows
<1> QED
  BY <1>1, <1>2, <1>3, <1>4 DEF Kept, Sound, NoStart, Reconciles

LEMMA RefreshKept ==
  ASSUME NEW d, NEW q \in QueueIds, Good(d), Sound(d)
  PROVE  Kept(d, RefreshQueueCounters(d, q))
<1> DEFINE e == RefreshQueueCounters(d, q)
<1>1. Reconciles(d, e) /\ e.item = d.item
  BY RefreshKeepsGood
<1> HIDE DEF e
<1>2. NoForeignItemIn(d) => NoForeignItemIn(e)
  BY <1>1 DEF Reconciles, NoForeignItemIn, BelongsToQueue
<1>3. d \in Databases
  BY DEF Good
<1> QED
  BY <1>1, <1>2, <1>3, ReconcilesKept DEF e

LEMMA CloseQueueKept ==
  ASSUME NEW d, NEW q \in QueueIds, Good(d), Sound(d),
         d.queue[q].state = "active", Available(d, q) = {}
  PROVE  Kept(d, CloseQueue(d, q))
<1> DEFINE c == Closed(d, q)
<1>0. d \in Databases
  BY DEF Good
<1>1. Good(c) /\ ClosedAt(d, c, q)
  BY ClosedKeepsGood
<1>2. CloseQueue(d, q) = RefreshQueueCounters(c, q)
  BY DEF CloseQueue, Closed
<1> HIDE DEF c
<1>3. Follows(d, c)
  BY <1>1 DEF ClosedAt, Follows, QueuesFollow, ItemsFollow, ExecutionsFollow
<1>4. Sound(c)
  <2>1. FreshQueuesAreBlank(c) /\ OnePresentedIn(c)
    BY <1>1 DEF ClosedAt, Sound, FreshQueuesAreBlank, OnePresentedIn
  <2>2. FactsMatchIn(c)
    BY <1>1, FactsInTwoParts DEF ClosedAt, Sound, CompletionsMatch, SkipsMatch
  <2>3. NoNewReview(d, c)
    BY <1>1 DEF ClosedAt, NoNewReview
  <2> QED
    BY <1>0, <1>3, <2>1, <2>2, <2>3, ReviewsFollow DEF Sound, Follows
<1>5. NoForeignItemIn(d) => NoForeignItemIn(c)
  BY <1>1 DEF ClosedAt, NoForeignItemIn, BelongsToQueue
<1>6. Kept(d, c)
  BY <1>1, <1>3, <1>4, <1>5 DEF ClosedAt, Kept, NoStart
<1>7. Kept(c, CloseQueue(d, q))
  BY <1>1, <1>2, <1>4, RefreshKept
<1> QED
  BY <1>6, <1>7, KeptTransitive

LEMMA ExpireInvalidItemsKept ==
  ASSUME NEW d, NEW q \in QueueIds, Good(d), Sound(d)
  PROVE  Kept(d, ExpireInvalidItems(d, q))
<1> DEFINE e == ExpireInvalidItems(d, q)
<1>1. /\ Reconciles(d, e)
      /\ \A x \in QueueIds, a \in Activities : e.item[x][a] \in {d.item[x][a], "expired"}
  BY ExpireInvalidItemsKeepsGood
<1> HIDE DEF e
<1>2. NoForeignItemIn(d) => NoForeignItemIn(e)
  BY <1>1 DEF Reconciles, NoForeignItemIn, BelongsToQueue, OpenToExpiry
<1>3. d \in Databases
  BY DEF Good
<1> QED
  BY <1>1, <1>2, <1>3, ReconcilesKept DEF e

LEMMA ReconcilePremiumQueueKept ==
  ASSUME NEW d, NEW q \in QueueIds, Good(d), Sound(d)
  PROVE  Kept(d, ReconcilePremiumQueue(d, q))
<1> d \in Databases
  BY DEF Good
<1> QED
  BY ReconcilePremiumQueueKeepsGood, ReconcilesKept

(* A queue may be inserted as a normal one, or as the one review of a       *)
(* closed normal queue, of items skipped there.                             *)
IsReviewOf(d, sc, g, source, S) ==
  /\ source \in QueueIds
  /\ d.queue[source].state = "closed" /\ d.queue[source].mode = "normal"
  /\ d.queue[source].scope = sc /\ d.queue[source].group = g
  /\ \A a \in S : d.item[source][a] = "skipped"
  /\ \A x \in QueueIds : d.queue[x].state # "none" => d.queue[x].source # source

LEMMA InsertQueueKept ==
  ASSUME NEW d, NEW sc \in Scopes, NEW g \in Groups, NEW mode \in QueueModes,
         NEW source \in QueueIds \cup {None}, NEW S, S \subseteq Activities,
         Good(d), Sound(d), FreshQueues(d) # {},
         \/ mode = "normal" /\ source = None
         \/ mode = "skipped_review" /\ IsReviewOf(d, sc, g, source, S)
  PROVE  LET e == InsertQueue(d, sc, g, mode, source, S)
         IN /\ Sound(e) /\ Follows(d, e) /\ NoStart(d, e)
            /\ /\ NoForeignItemIn(d)
               /\ \A a \in S : BelongsToQueue(d.activity[a], g)
               => NoForeignItemIn(e)
<1> DEFINE n == Some(FreshQueues(d))
           e == InsertQueue(d, sc, g, mode, source, S)
<1>0. d \in Databases
  BY DEF Good
<1>1. n \in QueueIds /\ d.queue[n].state = "none"
  BY SomeIsMember DEF FreshQueues
<1>2. /\ e.schedule = d.schedule /\ e.completion = d.completion
      /\ e.skips = d.skips /\ e.activity = d.activity
      /\ \A x \in QueueIds \ {n} : e.queue[x] = d.queue[x] /\ e.item[x] = d.item[x]
      /\ e.queue[n].state = "active" /\ e.queue[n].scope = sc /\ e.queue[n].group = g
      /\ e.queue[n].mode = mode /\ e.queue[n].source = source
      /\ \A a \in Activities : e.item[n][a] = IF a \in S THEN "pending" ELSE "absent"
  BY <1>0, <1>1 DEF InsertQueue, Databases
<1> HIDE DEF n, e
<1>3. d.queue[n].mode = "normal" /\ d.queue[n].source = None
      /\ \A a \in Activities : d.item[n][a] = "absent"
  BY <1>1 DEF Sound, FreshQueuesAreBlank
<1>4. Follows(d, e)
  BY <1>1, <1>2, <1>3 DEF Follows, QueuesFollow, ItemsFollow, ExecutionsFollow
<1>5. FreshQueuesAreBlank(e) /\ OnePresentedIn(e)
  BY <1>1, <1>2 DEF Sound, FreshQueuesAreBlank, OnePresentedIn
<1>6. FactsMatchIn(e)
  <2>1. CompletionsMatch(e)
    BY <1>2, FactsInTwoParts DEF Sound, CompletionsMatch
  <2>2. SkipsMatch(e)
    BY <1>2, <1>3, FactsInTwoParts DEF Sound, SkipsMatch
  <2> QED
    BY <2>1, <2>2, FactsInTwoParts
<1>7. /\ NoForeignItemIn(d)
      /\ \A a \in S : BelongsToQueue(d.activity[a], g)
      => NoForeignItemIn(e)
  BY <1>2 DEF NoForeignItemIn, BelongsToQueue, OpenToExpiry
<1>8. ReviewRepeatsSkipsIn(e)
  <2> SUFFICES ASSUME NEW r \in QueueIds, e.queue[r].mode = "skipped_review"
               PROVE  LET q == e.queue[r].source
                      IN /\ q # None
                         /\ e.queue[q].state = "closed" /\ e.queue[q].mode = "normal"
                         /\ e.queue[q].scope = e.queue[r].scope
                         /\ e.queue[q].group = e.queue[r].group
                         /\ \A a \in Members(e, r) :
                              e.item[q][a] = "skipped" /\ e.item[r][a] # "skipped"
                         /\ \A x \in QueueIds : e.queue[x].source = q => x = r
    BY DEF ReviewRepeatsSkipsIn
  <2>1. CASE r # n
    <3> DEFINE q == d.queue[r].source
    <3>1. /\ d.queue[r].mode = "skipped_review" /\ e.queue[r].source = q
          /\ d.queue[r].state # "none" /\ e.queue[r] = d.queue[r] /\ e.item[r] = d.item[r]
      BY <1>2, <2>1 DEF Sound, FreshQueuesAreBlank
    <3>2. /\ q # None
          /\ d.queue[q].state = "closed" /\ d.queue[q].mode = "normal"
          /\ d.queue[q].scope = d.queue[r].scope
          /\ d.queue[q].group = d.queue[r].group
          /\ \A a \in Members(d, r) : d.item[q][a] = "skipped" /\ d.item[r][a] # "skipped"
          /\ \A x \in QueueIds : d.queue[x].source = q => x = r
      BY <3>1 DEF Sound, ReviewRepeatsSkipsIn
    <3>3. q \in QueueIds
      BY <1>0, <3>2 DEF Databases, QueueRows
    <3>4. q # n /\ e.queue[q] = d.queue[q] /\ e.item[q] = d.item[q]
      BY <1>1, <1>2, <3>2, <3>3
    <3>5. source # q
      BY <3>1, <3>2 DEF IsReviewOf
    <3> HIDE DEF q
    <3>6. \A x \in QueueIds : e.queue[x].source = q => x = r
      BY <1>2, <3>2, <3>5
    <3> QED
      BY <3>1, <3>2, <3>4, <3>6 DEF Members
  <2>2. CASE r = n
    <3>1. e.queue[r].source = source /\ IsReviewOf(d, sc, g, source, S)
      BY <1>2, <2>2
    <3>2. /\ source # None /\ source # n /\ source \in QueueIds
          /\ e.queue[source] = d.queue[source] /\ e.item[source] = d.item[source]
      BY <1>1, <1>2, <3>1, NoneIsNoQueue DEF IsReviewOf
    <3>3. \A x \in QueueIds : e.queue[x].source = source => x = n
      BY <1>2, <3>1, <3>2 DEF IsReviewOf, Sound, FreshQueuesAreBlank
    <3>4. \A a \in Members(e, n) : e.item[source][a] = "skipped" /\ e.item[n][a] # "skipped"
      BY <1>2, <3>1, <3>2 DEF Members, IsReviewOf
    <3> QED
      BY <1>2, <2>2, <3>1, <3>2, <3>3, <3>4 DEF IsReviewOf
  <2> QED
    BY <2>1, <2>2
<1>9. NoStart(d, e)
  BY <1>2 DEF NoStart
<1> QED
  BY <1>4, <1>5, <1>6, <1>7, <1>8, <1>9 DEF Sound, e

LEMMA CreateReviewKept ==
  ASSUME NEW d, NEW q \in QueueIds, Good(d), Sound(d), d.queue[q].state = "closed",
         FreshQueues(d) # {}
  PROVE  Kept(d, CreateReview(d, q))
<1> DEFINE S == ReviewCandidates(d, q)
           sc == d.queue[q].scope
           g == d.queue[q].group
           e == InsertQueue(d, sc, g, "skipped_review", q, S)
<1>1. CASE CreateReview(d, q) = d
  BY <1>1, KeptReflexive
<1>2. CASE CreateReview(d, q) # d
  <2>1. sc \in Scopes /\ g \in Groups
    BY DEF Good, Databases, QueueRows
  <2>2. S \subseteq Activities /\ "skipped_review" \in QueueModes /\ q \in QueueIds \cup {None}
    BY DEF ReviewCandidates, QueueModes
  <2>3. IsReviewOf(d, sc, g, q, S)
    BY <1>2 DEF CreateReview, IsReviewOf, ReviewCandidates
  <2>4. \A a \in S : BelongsToQueue(d.activity[a], g)
    BY DEF ReviewCandidates, ActivityIsEligible, FitsQueue
  <2>5. CreateReview(d, q) = e
    BY <1>2 DEF CreateReview
  <2> HIDE DEF S, sc, g
  <2> QED
    BY <2>1, <2>2, <2>3, <2>4, <2>5, InsertQueueKept DEF Kept
<1> QED
  BY <1>1, <1>2

LEMMA FinalizeKept ==
  ASSUME NEW d, NEW q \in QueueIds, Good(d), Sound(d), d.queue[q].state = "active",
         FreshQueues(d) # {}
  PROVE  Kept(d, FinalizeQueueIfFinished(d, q))
<1>1. CASE Available(d, q) # {}
  BY <1>1, RefreshKept DEF FinalizeQueueIfFinished
<1>2. CASE Available(d, q) = {}
  <2> DEFINE c == CloseQueue(d, q)
  <2>1. Good(c) /\ ClosedAt(d, c, q) /\ Kept(d, c)
    BY <1>2, CloseQueueKeepsGood, CloseQueueKept
  <2>2. FinalizeQueueIfFinished(d, q) = CreateReview(c, q)
    BY <1>2 DEF FinalizeQueueIfFinished
  <2> HIDE DEF c
  <2>3. FreshQueues(c) # {} /\ c.queue[q].state = "closed" /\ Sound(c)
    BY <2>1 DEF ClosedAt, FreshQueues, Kept
  <2> QED
    BY <2>1, <2>2, <2>3, CreateReviewKept, KeptTransitive
<1> QED
  BY <1>1, <1>2

LEMMA CreateNormalQueueKept ==
  ASSUME NEW d, NEW sc \in Scopes, NEW g \in Groups, Good(d), Sound(d),
         FreshQueues(d) # {}
  PROVE  Kept(d, CreateNormalQueue(d, sc, g))
<1>1. "normal" \in QueueModes /\ None \in QueueIds \cup {None}
  BY DEF QueueModes
<1>2. \A a \in EligibleActivities(d, g) : BelongsToQueue(d.activity[a], g)
  BY DEF EligibleActivities, ActivityIsEligible, FitsQueue
<1> QED
  BY <1>1, <1>2, EligibleAreActivities, InsertQueueKept, KeptReflexive DEF CreateNormalQueue, Kept

LEMMA RefreshActiveQueueKept ==
  ASSUME NEW d, NEW sc \in Scopes, NEW g \in Groups, Good(d), Sound(d), FreshQueues(d) # {},
         ActiveQueues(d, sc, g) # {}
  PROVE  Kept(d, RefreshActiveQueue(d, sc, g))
<1> DEFINE q == Some(ActiveQueues(d, sc, g))
           x == ExpireInvalidItems(d, q)
           p == IF d.queue[q].mode = "normal" THEN ReconcilePremiumQueue(x, q) ELSE x
           f == FinalizeQueueIfFinished(p, q)
<1>1. /\ Good(f) /\ Kept(d, f)
      /\ FreshQueues(f) # {} \/ ActiveQueues(f, sc, g) # {}
  <2>1. q \in QueueIds /\ d.queue[q].state = "active"
        /\ d.queue[q].scope = sc /\ d.queue[q].group = g
    BY SomeIsMember DEF ActiveQueues
  <2> HIDE DEF q
  <2>2. Good(x) /\ SameQueues(d, x) /\ Kept(d, x) /\ Sound(x)
    BY <2>1, ExpireInvalidItemsKeepsGood, ExpireInvalidItemsKept DEF Kept
  <2> HIDE DEF x
  <2>3. Good(p) /\ SameQueues(x, p) /\ Kept(d, p) /\ Sound(p)
    BY <2>1, <2>2, ReconcilePremiumQueueKeepsGood, ReconcilePremiumQueueKept, KeptTransitive
    DEF Reconciles, SameQueues, Kept
  <2> HIDE DEF p
  <2>4. /\ p.queue[q].state = "active" /\ p.queue[q].scope = sc /\ p.queue[q].group = g
        /\ FreshQueues(p) # {}
    BY <2>1, <2>2, <2>3 DEF SameQueues, FreshQueues
  <2>5. Good(f) /\ FinishedAt(p, f, q) /\ Kept(p, f)
    BY <2>1, <2>3, <2>4, FinalizeKeepsGood, FinalizeKept
  <2> HIDE DEF f
  <2>6. Kept(d, f)
    BY <2>3, <2>5, KeptTransitive
  <2> QED
    BY <2>4, <2>5, <2>6 DEF FinishedAt
<1>2. RefreshActiveQueue(d, sc, g) =
        IF ActiveQueues(f, sc, g) # {} THEN f ELSE CreateNormalQueue(f, sc, g)
  BY DEF RefreshActiveQueue
<1> HIDE DEF f
<1>3. Sound(f)
  BY <1>1 DEF Kept
<1>4. CASE ActiveQueues(f, sc, g) # {}
  BY <1>1, <1>2, <1>4
<1>5. CASE ActiveQueues(f, sc, g) = {}
  <2>1. Kept(f, CreateNormalQueue(f, sc, g))
    BY <1>1, <1>3, <1>5, CreateNormalQueueKept
  <2> QED
    BY <1>1, <1>2, <1>5, <2>1, KeptTransitive
<1> QED
  BY <1>4, <1>5

LEMMA RecordCompletionKept ==
  ASSUME NEW d, NEW s \in ScheduleIds, Good(d), Sound(d), d.schedule[s].state = "completed"
  PROVE  Kept(d, RecordCompletion(d, s))
<1> DEFINE e == RecordCompletion(d, s)
<1>0. d \in Databases
  BY DEF Good
<1>1. d.completion[s] = IF d.schedule[s].scope # Anonymous THEN d.schedule[s].category ELSE None
  BY FactsInTwoParts DEF Sound, CompletionsMatch
<1>2. /\ e.queue = d.queue /\ e.item = d.item /\ e.schedule = d.schedule
      /\ e.skips = d.skips /\ e.activity = d.activity /\ e.completion = d.completion
  BY <1>0, <1>1 DEF RecordCompletion, HasNoNewFact, Databases
<1> HIDE DEF e
<1>3. Reconciles(d, e)
  BY <1>2 DEF Reconciles
<1>4. NoForeignItemIn(d) => NoForeignItemIn(e)
  BY <1>2 DEF NoForeignItemIn, BelongsToQueue
<1> QED
  BY <1>0, <1>3, <1>4, ReconcilesKept DEF e

LEMMA EndsKept ==
  ASSUME NEW d, NEW e, NEW s \in ScheduleIds, d \in Databases, Sound(d),
         d.schedule[s].state = "open", EndsAt(d, e, s)
  PROVE  Kept(d, e)
<1>0. d.completion[s] = None
  BY FactsInTwoParts DEF Sound, CompletionsMatch
<1>1. FreshQueuesAreBlank(e) /\ OnePresentedIn(e)
  BY DEF Sound, EndsAt, FreshQueuesAreBlank, OnePresentedIn
<1>2. FactsMatchIn(e)
  <2>1. CompletionsMatch(e)
    BY <1>0, FactsInTwoParts DEF Sound, EndsAt, HasNoNewFact, CompletionsMatch
  <2>2. SkipsMatch(e)
    BY FactsInTwoParts DEF Sound, EndsAt, SkipsMatch
  <2> QED
    BY <2>1, <2>2, FactsInTwoParts
<1>3. Follows(d, e)
  BY <1>0 DEF EndsAt, Follows, QueuesFollow, ItemsFollow, ExecutionsFollow
<1>4. ReviewRepeatsSkipsIn(e)
  <2>1. NoNewReview(d, e)
    BY DEF EndsAt, NoNewReview
  <2> QED
    BY <1>3, <2>1, ReviewsFollow DEF Follows
<1>5. NoForeignItemIn(d) => NoForeignItemIn(e)
  BY DEF EndsAt, NoForeignItemIn, BelongsToQueue, OpenToExpiry
<1>6. NoStart(d, e)
  BY DEF EndsAt, NoStart
<1> QED
  BY <1>1, <1>2, <1>3, <1>4, <1>5, <1>6 DEF Kept, Sound

LEMMA CompleteScheduleKept ==
  ASSUME NEW d, NEW s \in ScheduleIds, Good(d), Sound(d), d.schedule[s].state # "none",
         FreshQueues(d) # {}, day \in Days
  PROVE  Kept(d, CompleteSchedule(d, s))
<1> DEFINE e == CompleteSchedule(d, s)
           q == d.schedule[s].queue
           f == EndExecution(d, s)
           g == EndWithItem(d, s)
<1>0. d \in Databases /\ d.schedule[s].state \in {"open", "completed"}
  BY DEF Good, Databases, ScheduleRows
<1>1. CASE d.schedule[s].state = "completed"
  BY <1>1, RecordCompletionKept DEF CompleteSchedule
<1>2. CASE d.schedule[s].state = "open"
  <2>1. CASE q = None
    <3> HIDE DEF f
    <3>1. EndsAt(d, f, s)
      BY <1>0, EndExecutionFrame DEF f
    <3>2. e = f
      BY <1>2, <2>1 DEF CompleteSchedule, CompleteOpen, f
    <3> QED
      BY <1>0, <1>2, <3>1, <3>2, EndsKept
  <2>2. CASE q # None
    <3>1. /\ Good(g) /\ EndsAt(d, g, s) /\ q \in QueueIds /\ d.queue[q].state = "active"
      BY <1>2, <2>2, EndWithItemKeepsGood
    <3>2. e = FinalizeQueueIfFinished(g, q)
      BY <1>2, <2>2 DEF CompleteSchedule, CompleteOpen
    <3> HIDE DEF g
    <3>3. FreshQueues(g) # {} /\ g.queue[q].state = "active"
      BY <3>1 DEF FreshQueues, EndsAt
    <3>4. Kept(d, g) /\ Sound(g)
      BY <1>0, <1>2, <3>1, EndsKept DEF Kept
    <3> HIDE DEF e, q
    <3> QED
      BY <3>1, <3>2, <3>3, <3>4, FinalizeKept, KeptTransitive DEF e
  <2> QED
    BY <2>1, <2>2
<1> QED
  BY <1>0, <1>1, <1>2

LEMMA CompleteOneOfKept ==
  ASSUME NEW d, NEW S, AllOpen(d, S), Good(d), Sound(d), FreshQueues(d) # {}, day \in Days
  PROVE  Kept(d, CompleteOneOf(d, S))
<1>1. CASE S = {}
  BY <1>1, KeptReflexive DEF CompleteOneOf
<1>2. CASE S # {}
  <2>1. Some(S) \in ScheduleIds /\ d.schedule[Some(S)].state = "open"
    BY <1>2, SomeIsMember DEF AllOpen, IsOpen
  <2>2. CompleteOneOf(d, S) = CompleteSchedule(d, Some(S))
    BY <1>2 DEF CompleteOneOf
  <2> QED
    BY <2>1, <2>2, CompleteScheduleKept
<1> QED
  BY <1>1, <1>2

(* A start keeps the history and the facts.                                 *)
LEMMA StartsKept ==
  ASSUME NEW d, NEW e, NEW n, NEW sc, NEW q, NEW a, NEW c, d \in Databases, Sound(d),
         StartsAt(d, e, n, sc, q, a, c),
         \A x \in QueueIds, b \in Activities :
           \/ e.item[x][b] = d.item[x][b]
           \/ d.item[x][b] \in OpenToExpiry /\ e.item[x][b] = "started"
  PROVE  Sound(e) /\ Follows(d, e)
<1>1. FreshQueuesAreBlank(e) /\ OnePresentedIn(e)
  BY DEF Sound, StartsAt, FreshQueuesAreBlank, OnePresentedIn, OpenToExpiry
<1>2. FactsMatchIn(e)
  <2>1. CompletionsMatch(e)
    BY FactsInTwoParts DEF Sound, StartsAt, CompletionsMatch
  <2>2. SkipsMatch(e)
    BY FactsInTwoParts DEF Sound, StartsAt, SkipsMatch, OpenToExpiry
  <2> QED
    BY <2>1, <2>2, FactsInTwoParts
<1>3. Follows(d, e)
  BY DEF StartsAt, Follows, QueuesFollow, ItemsFollow, ExecutionsFollow, OpenToExpiry
<1>4. ReviewRepeatsSkipsIn(e)
  <2>1. NoNewReview(d, e)
    BY DEF StartsAt, NoNewReview, OpenToExpiry
  <2> QED
    BY <1>3, <2>1, ReviewsFollow DEF Follows
<1> QED
  BY <1>1, <1>2, <1>3, <1>4 DEF Sound

(* Exactly one execution starts from d to e.                                *)
OneStart(d, e, q, a, c) ==
  \E n \in ScheduleIds :
    /\ d.schedule[n].state = "none" /\ e.schedule[n].state # "none"
    /\ e.schedule[n].queue = q /\ e.schedule[n].activity = a
    /\ e.schedule[n].category = c /\ e.schedule[n].start = day
    /\ \A t \in ScheduleIds \ {n} :
         /\ e.schedule[t].state = "none" <=> d.schedule[t].state = "none"
         /\ e.schedule[t].queue = d.schedule[t].queue
         /\ e.schedule[t].activity = d.schedule[t].activity
         /\ e.schedule[t].category = d.schedule[t].category
         /\ e.schedule[t].start = d.schedule[t].start

LEMMA StartActivityKept ==
  ASSUME NEW d, NEW r \in CheckedStarts, Good(d), Sound(d), day \in Days,
         FreshQueues(d) # {}, FreshSchedules(d) # {},
         ItemIsAccepted(d, r), InsertIsAllowed(d, r),
         NEW h, h = StartActivity(d, r)
  PROVE  /\ Sound(h) /\ Follows(d, h)
         /\ OneStart(d, h, r.queue, r.activity, r.row.category)
         /\ h.activity = [d.activity EXCEPT ![r.activity] = r.row]
         /\ NoForeignItemIn(d) /\ r.row = d.activity[r.activity] => NoForeignItemIn(h)
<1> DEFINE e == CompleteOneOf(d, r.found)
           q == r.queue
           a == r.activity
           c == r.row.category
<1>1. q \in QueueIds /\ a \in Activities /\ r.scope \in Scopes /\ AllOpen(d, r.found)
  BY OverdueAreOpen DEF CheckedStarts, InsertIsAllowed, FoundIsLocked
<1>2. d.item[q][a] \in OpenToExpiry /\ d.queue[q].state = "active"
  BY DEF ItemIsAccepted
<1>3. /\ Good(e) /\ Kept(d, e) /\ e.item[q][a] \in OpenToExpiry
      /\ \A t \in ScheduleIds : e.schedule[t].state = "none" <=> d.schedule[t].state = "none"
  BY <1>1, <1>2, CompleteOneOfKeepsGood, CompleteOneOfKept
<1>4. h = InsertSchedule(ItemStarted(e, r), r.scope, q, a, c)
  BY DEF StartActivity, ItemStarted
<1> HIDE DEF e
<1>5. e \in Databases /\ FreshSchedules(e) # {} /\ Sound(e)
  BY <1>3 DEF Good, FreshSchedules, Kept
<1>6. StartsItemAt(e, h, r)
  BY <1>4, <1>5, StartItemFrame
<1>7. PICK n \in ScheduleIds : StartsAt(e, h, n, r.scope, q, a, c)
  BY <1>6 DEF StartsItemAt
<1>8. \A x \in QueueIds, b \in Activities :
        \/ h.item[x][b] = e.item[x][b]
        \/ x = q /\ b = a /\ e.item[x][b] \in OpenToExpiry /\ h.item[x][b] = "started"
  BY <1>3, <1>6 DEF StartsItemAt
<1> HIDE DEF q, a, c
<1>9. Sound(h) /\ Follows(e, h)
  BY <1>5, <1>7, <1>8, StartsKept
<1>10. Follows(d, h)
  BY <1>3, <1>9, FollowsTransitive DEF Kept
<1>11. OneStart(d, h, q, a, c)
  BY <1>3, <1>7 DEF Kept, NoStart, StartsAt, OneStart
<1>12. h.activity = [d.activity EXCEPT ![a] = r.row]
  BY <1>3, <1>6 DEF Kept, NoStart, StartsItemAt, a
<1>13. ASSUME NoForeignItemIn(d), r.row = d.activity[a]
       PROVE  NoForeignItemIn(h)
  <2>1. NoForeignItemIn(e) /\ h.queue = e.queue
    BY <1>3, <1>7, <1>13 DEF Kept, StartsAt
  <2>2. e.activity \in [Activities -> ActivityRows] /\ d.activity = e.activity
    BY <1>3, <1>5 DEF Databases, Kept, NoStart
  <2>3. h.activity = e.activity
    BY <1>12, <1>13, <2>2
  <2> QED
    BY <1>8, <2>1, <2>3 DEF NoForeignItemIn, BelongsToQueue, OpenToExpiry
<1> QED
  BY <1>9, <1>10, <1>11, <1>12, <1>13 DEF q, a, c

LEMMA StartPremiumKept ==
  ASSUME NEW d, NEW r \in PremiumStarts, Good(d), Sound(d), day \in Days,
         FreshQueues(d) # {}, FreshSchedules(d) # {}, InsertIsAllowed(d, r),
         NEW h, h = StartPremium(d, r)
  PROVE  /\ Sound(h) /\ Follows(d, h)
         /\ OneStart(d, h, None, r.activity, d.activity[r.activity].category)
         /\ h.activity = d.activity
         /\ NoForeignItemIn(d) => NoForeignItemIn(h)
<1> DEFINE e == CompleteOneOf(d, r.found)
           sc == r.scope
           a == r.activity
           c == d.activity[a].category
<1>0. sc \in Scopes /\ a \in Activities /\ AllOpen(d, r.found)
  BY OverdueAreOpen DEF PremiumStarts, InsertIsAllowed, FoundIsLocked
<1>1. /\ Good(e) /\ Kept(d, e)
      /\ \A t \in ScheduleIds : e.schedule[t].state = "none" <=> d.schedule[t].state = "none"
  BY <1>0, CompleteOneOfKeepsGood, CompleteOneOfKept
<1>2. h = InsertSchedule(e, sc, None, a, c)
  BY DEF StartPremium
<1>3. c \in Categories
  BY <1>0 DEF Good, Databases, ActivityRows
<1> HIDE DEF e, c, sc, a
<1>4. e \in Databases /\ FreshSchedules(e) # {} /\ None \in QueueIds \cup {None} /\ Sound(e)
  BY <1>1 DEF Good, FreshSchedules, Kept
<1>5. /\ h \in Databases /\ h.item = e.item /\ h.activity = e.activity
      /\ \E n \in ScheduleIds : StartsAt(e, h, n, sc, None, a, c)
  BY <1>0, <1>2, <1>3, <1>4, InsertScheduleFrame
<1>6. PICK n \in ScheduleIds : StartsAt(e, h, n, sc, None, a, c)
  BY <1>5
<1>7. Sound(h) /\ Follows(e, h)
  BY <1>4, <1>5, <1>6, StartsKept
<1>8. Follows(d, h)
  BY <1>1, <1>7, FollowsTransitive DEF Kept
<1>9. OneStart(d, h, None, a, c)
  BY <1>1, <1>6 DEF Kept, NoStart, StartsAt, OneStart
<1>10. NoForeignItemIn(d) => NoForeignItemIn(h)
  BY <1>1, <1>5, <1>6 DEF Kept, StartsAt, NoForeignItemIn, BelongsToQueue
<1> QED
  BY <1>1, <1>5, <1>7, <1>8, <1>9, <1>10 DEF Kept, NoStart, c, a

LEMMA SkipItemKept ==
  ASSUME NEW d, NEW q \in QueueIds, NEW a \in Activities, Good(d), Sound(d),
         d.item[q][a] \in OpenToExpiry, d.queue[q].mode # "skipped_review",
         FreshQueues(d) # {}
  PROVE  Kept(d, SkipItem(d, q, a))
<1> DEFINE f == Skipped(d, q, a)
<1>0. d \in Databases
  BY DEF Good
<1>1. Good(f) /\ SkipsAt(d, f, q, a) /\ d.queue[q].state = "active"
  BY SkippedKeepsGood
<1>2. SkipItem(d, q, a) = FinalizeQueueIfFinished(f, q)
  BY DEF SkipItem, Skipped
<1> HIDE DEF f
<1>3. Kept(d, f)
  <2>1. FreshQueuesAreBlank(f) /\ OnePresentedIn(f)
    BY <1>1 DEF Sound, SkipsAt, FreshQueuesAreBlank, OnePresentedIn
  <2>2. CompletionsMatch(f)
    BY <1>1, FactsInTwoParts DEF Sound, SkipsAt, CompletionsMatch
  <2>3. SkipsMatch(f)
    BY <1>1, FactsInTwoParts DEF Sound, SkipsAt, SkipsMatch, OpenToExpiry
  <2>4. FactsMatchIn(f)
    BY <2>2, <2>3, FactsInTwoParts
  <2>5. Follows(d, f)
    <3>1. QueuesFollow(d, f) /\ ItemsFollow(d, f)
      BY <1>1 DEF SkipsAt, QueuesFollow, ItemsFollow, OpenToExpiry
    <3>2. ExecutionsFollow(d, f)
      BY <1>1 DEF SkipsAt, ExecutionsFollow
    <3>3. d.skips \subseteq f.skips
      BY <1>1 DEF SkipsAt
    <3> QED
      BY <3>1, <3>2, <3>3 DEF Follows
  <2>6. NoNewReview(d, f)
    BY <1>1 DEF SkipsAt, NoNewReview, OpenToExpiry
  <2>7. ReviewRepeatsSkipsIn(f)
    BY <1>0, <2>5, <2>6, ReviewsFollow DEF Follows
  <2>8. NoForeignItemIn(d) => NoForeignItemIn(f)
    BY <1>1 DEF SkipsAt, NoForeignItemIn, BelongsToQueue, OpenToExpiry
  <2>9. NoStart(d, f)
    BY <1>1 DEF SkipsAt, NoStart
  <2> QED
    BY <2>1, <2>4, <2>5, <2>7, <2>8, <2>9 DEF Kept, Sound
<1>4. f.queue[q].state = "active" /\ FreshQueues(f) # {} /\ Sound(f)
  BY <1>1, <1>3 DEF SkipsAt, FreshQueues, Kept
<1> QED
  BY <1>1, <1>2, <1>3, <1>4, FinalizeKept, KeptTransitive

LEMMA RecreateKept ==
  ASSUME NEW d, NEW sc \in Scopes, NEW g \in Groups, Good(d), Sound(d),
         OpenIn(d, sc) = {}, FreshQueues(d) # {},
         NEW q \in ActiveQueues(d, sc, g)
  PROVE  Kept(d, RecreateActiveQueue(d, q))
<1> DEFINE c == Cancelled(d, q)
           S == RecreationCandidates(d, q)
<1>0. d \in Databases
  BY DEF Good
<1>1. q \in QueueIds /\ d.queue[q].state = "active"
      /\ d.queue[q].scope = sc /\ d.queue[q].group = g
  BY DEF ActiveQueues
<1>2. RecreateActiveQueue(d, q) = InsertQueue(c, sc, g, "normal", None, S)
  BY <1>1 DEF RecreateActiveQueue, Cancelled, CancelledRow
<1>3. Good(c) /\ CancelsAt(d, c, q)
  BY CancelledKeepsGood
<1> HIDE DEF c
<1>4. \A x \in QueueIds, a \in Activities :
        \/ c.item[x][a] = d.item[x][a]
        \/ d.item[x][a] \in OpenToExpiry /\ c.item[x][a] = "expired"
  BY <1>3 DEF CancelsAt, CancelledRow
<1>5. Kept(d, c)
  <2>1. FreshQueuesAreBlank(c) /\ OnePresentedIn(c)
    BY <1>1, <1>3, <1>4 DEF Sound, CancelsAt, FreshQueuesAreBlank, OnePresentedIn, OpenToExpiry
  <2>2. CompletionsMatch(c)
    BY <1>3, FactsInTwoParts DEF Sound, CancelsAt, CompletionsMatch
  <2>3. SkipsMatch(c)
    BY <1>3, <1>4, FactsInTwoParts DEF Sound, CancelsAt, SkipsMatch, OpenToExpiry
  <2>4. FactsMatchIn(c)
    BY <2>2, <2>3, FactsInTwoParts
  <2>5. Follows(d, c)
    BY <1>1, <1>3, <1>4 DEF CancelsAt, Follows, QueuesFollow, ItemsFollow, ExecutionsFollow, OpenToExpiry
  <2>6. NoNewReview(d, c)
    BY <1>3, <1>4 DEF CancelsAt, NoNewReview, OpenToExpiry
  <2>7. ReviewRepeatsSkipsIn(c)
    BY <1>0, <2>5, <2>6, ReviewsFollow DEF Follows
  <2>8. NoForeignItemIn(d) => NoForeignItemIn(c)
    BY <1>1, <1>3, <1>4 DEF CancelsAt, NoForeignItemIn, BelongsToQueue, OpenToExpiry
  <2>9. NoStart(d, c)
    BY <1>3 DEF CancelsAt, NoStart
  <2> QED
    BY <2>1, <2>4, <2>5, <2>7, <2>8, <2>9 DEF Kept, Sound
<1>6. FreshQueues(c) # {} /\ Sound(c)
  BY <1>1, <1>3, <1>5 DEF CancelsAt, FreshQueues, Kept
<1>7. S \subseteq Activities /\ "normal" \in QueueModes /\ None \in QueueIds \cup {None}
      /\ sc \in Scopes /\ g \in Groups
  BY EligibleAreActivities DEF RecreationCandidates, RequeuedSkips, QueueModes
<1>8. \A a \in S : BelongsToQueue(c.activity[a], g)
  BY <1>1, <1>3
  DEF CancelsAt, RecreationCandidates, RequeuedSkips, EligibleActivities,
      ActivityIsEligible, NoIneligibilityReason, FitsQueue
<1> HIDE DEF S
<1>9. Kept(c, InsertQueue(c, sc, g, "normal", None, S))
  BY <1>3, <1>6, <1>7, <1>8, InsertQueueKept DEF Kept
<1> QED
  BY <1>2, <1>5, <1>9, KeptTransitive

LEMMA PresentOneKept ==
  ASSUME NEW d, NEW sc, NEW g, Good(d), Sound(d), PresentOne(d, sc, g)
  PROVE  Kept(d, db')
<1> DEFINE choices == Presentable(d, ActiveQueues(d, sc, g))
<1>2. \/ db' = d
      \/ \E i \in choices : db' = [d EXCEPT !.item[i[1]][i[2]] = "presented"]
  BY DEF PresentOne
<1>3. CASE db' = d
  BY <1>3, KeptReflexive
<1>4. ASSUME NEW i \in choices, db' = [d EXCEPT !.item[i[1]][i[2]] = "presented"]
      PROVE  Kept(d, db')
  <2> DEFINE q == i[1]
             a == i[2]
  <2>1. /\ q \in ActiveQueues(d, sc, g) /\ a \in Activities
        /\ d.item[q][a] = "pending" /\ Served(d, q) = {}
    BY DEF Presentable
  <2>2. /\ q \in QueueIds /\ d.queue[q].state = "active"
        /\ d.item[q][a] \in NoExecution /\ "presented" \in NoExecution
    BY <2>1 DEF ActiveQueues, NoExecution, ItemStates
  <2>3. MovesItem(d, db', q, a, "presented")
    BY <1>4, <2>1, <2>2, MoveItemKeepsGood
  <2>4. d \in Databases
    BY DEF Good
  <2> HIDE DEF q, a
  <2>5. OnePresentedIn(db') /\ FreshQueuesAreBlank(db')
    BY <2>1, <2>2, <2>3, <2>4
    DEF MovesItem, Sound, OnePresentedIn, FreshQueuesAreBlank, Served
  <2>6. CompletionsMatch(db')
    BY <2>3, <2>4, FactsInTwoParts DEF Sound, MovesItem, CompletionsMatch
  <2>7. SkipsMatch(db')
    BY <2>1, <2>3, <2>4, FactsInTwoParts DEF Sound, MovesItem, SkipsMatch
  <2>8. Follows(d, db')
    BY <2>1, <2>3 DEF MovesItem, Follows, QueuesFollow, ItemsFollow, ExecutionsFollow
  <2>9. NoNewReview(d, db')
    BY <2>1, <2>3 DEF MovesItem, NoNewReview
  <2>10. ReviewRepeatsSkipsIn(db')
    BY <2>4, <2>8, <2>9, ReviewsFollow DEF Follows
  <2>11. NoForeignItemIn(d) => NoForeignItemIn(db')
    BY <2>1, <2>3 DEF MovesItem, NoForeignItemIn, BelongsToQueue, OpenToExpiry
  <2>12. NoStart(d, db')
    BY <2>3 DEF MovesItem, NoStart
  <2>13. FactsMatchIn(db')
    BY <2>6, <2>7, FactsInTwoParts
  <2> QED
    BY <2>5, <2>8, <2>10, <2>11, <2>12, <2>13 DEF Kept, Sound
<1> QED
  BY <1>2, <1>3, <1>4

LEMMA PresentNextKept ==
  ASSUME NEW sc \in Scopes, NEW g \in Groups, Good(db), Sound(db), PresentNext(sc, g)
  PROVE  Kept(db, db')
<1> DEFINE d == RefreshActiveQueue(db, sc, g)
<1>1. Good(d) /\ Kept(db, d) /\ PresentOne(d, sc, g)
  BY RefreshActiveQueueKeepsGood, RefreshActiveQueueKept DEF PresentNext, HasRoom
<1> HIDE DEF d
<1>2. Sound(d)
  BY <1>1 DEF Kept
<1>3. Kept(d, db')
  BY <1>1, <1>2, PresentOneKept
<1> QED
  BY <1>1, <1>3, KeptTransitive

(* A queue created from candidates read before may hold a foreign item.     *)
LEMMA CreateQueueKept ==
  ASSUME NEW w \in Workers, Good(db), Sound(db), request[w] \in Creations, CreateQueue(w)
  PROVE  /\ Sound(db') /\ Follows(db, db') /\ NoStart(db, db')
         /\ /\ NoForeignItemIn(db)
            /\ \A a \in request[w].candidates :
                 BelongsToQueue(db.activity[a], request[w].group)
            => NoForeignItemIn(db')
<1> DEFINE r == request[w]
           e == InsertQueue(db, r.scope, r.group, "normal", None, r.candidates)
<1>1. /\ r.scope \in Scopes /\ r.group \in Groups /\ r.candidates \subseteq Activities
      /\ "normal" \in QueueModes /\ None \in QueueIds \cup {None}
  BY DEF Creations, QueueModes
<1>2. /\ FreshQueues(db) # {} /\ ActiveQueues(db, r.scope, r.group) = {}
      /\ PresentOne(e, r.scope, r.group)
  BY DEF CreateQueue, HasRoom, IndexAllowsQueue
<1>3. Good(e)
  BY <1>1, <1>2, InsertQueueKeepsGood
<1>4. /\ Sound(e) /\ Follows(db, e) /\ NoStart(db, e)
      /\ /\ NoForeignItemIn(db)
         /\ \A a \in r.candidates : BelongsToQueue(db.activity[a], r.group)
         => NoForeignItemIn(e)
  BY <1>1, <1>2, InsertQueueKept
<1> HIDE DEF e
<1>5. Kept(e, db')
  BY <1>2, <1>3, <1>4, PresentOneKept
<1>6. Follows(db, db')
  BY <1>4, <1>5, FollowsTransitive DEF Kept
<1>7. NoStart(db, db')
  BY <1>4, <1>5 DEF Kept, NoStart
<1> QED
  BY <1>4, <1>5, <1>6, <1>7 DEF Kept

LEMMA FallDueKept ==
  ASSUME NEW s \in ScheduleIds, db \in Databases, Sound(db), FallDue(s)
  PROVE  Kept(db, db')
<1>1. /\ db'.queue = db.queue /\ db'.item = db.item /\ db'.completion = db.completion
      /\ db'.skips = db.skips /\ db'.activity = db.activity
      /\ db.schedule[s].state = "open" /\ db'.schedule[s].state = "open"
      /\ db'.schedule[s].queue = db.schedule[s].queue
      /\ db'.schedule[s].activity = db.schedule[s].activity
      /\ db'.schedule[s].category = db.schedule[s].category
      /\ db'.schedule[s].start = db.schedule[s].start
      /\ \A t \in ScheduleIds \ {s} : db'.schedule[t] = db.schedule[t]
  BY DEF FallDue, IsOpen, Databases, ScheduleRows
<1>2. Follows(db, db')
  BY <1>1 DEF Follows, QueuesFollow, ItemsFollow, ExecutionsFollow
<1>3. FreshQueuesAreBlank(db') /\ OnePresentedIn(db')
  BY <1>1 DEF Sound, FreshQueuesAreBlank, OnePresentedIn
<1>4. CompletionsMatch(db') /\ SkipsMatch(db')
  BY <1>1, FactsInTwoParts DEF Sound, CompletionsMatch, SkipsMatch
<1>5. FactsMatchIn(db')
  BY <1>4, FactsInTwoParts
<1>6. ReviewRepeatsSkipsIn(db')
  BY <1>1, <1>2, ReviewsFollow DEF NoNewReview, Follows
<1>7. NoForeignItemIn(db) => NoForeignItemIn(db')
  BY <1>1 DEF NoForeignItemIn, BelongsToQueue
<1>8. NoStart(db, db')
  BY <1>1 DEF NoStart
<1> QED
  BY <1>2, <1>3, <1>5, <1>6, <1>7, <1>8 DEF Kept, Sound

(* An edit leaves no foreign item, whatever the queues held before it.      *)
LEMMA EditActivityKept ==
  ASSUME NEW a \in Activities, NEW row \in ActivityRows, Good(db), Sound(db),
         EditActivity(a, row)
  PROVE  Sound(db') /\ Follows(db, db') /\ NoForeignItemIn(db')
<1> DEFINE e == [db EXCEPT !.activity[a] = row]
<1>1. db \in Databases
  BY DEF Good
<1>2. /\ e \in Databases /\ e.queue = db.queue /\ e.item = db.item
      /\ e.schedule = db.schedule /\ e.completion = db.completion /\ e.skips = db.skips
  BY <1>1 DEF Databases
<1>3. db' = ReconcileActivity(e, a)
  BY DEF EditActivity
<1> HIDE DEF e
<1>4. Good(e)
  BY <1>2, OnlyItemsKeepsGood DEF OnlyItems, SameQueues
<1>5. Sound(e)
  <2>1. FreshQueuesAreBlank(e) /\ OnePresentedIn(e)
    BY <1>2 DEF Sound, FreshQueuesAreBlank, OnePresentedIn
  <2>2. FactsMatchIn(e)
    BY <1>2 DEF Sound, FactsMatchIn
  <2>3. ReviewRepeatsSkipsIn(e)
    BY <1>2 DEF Sound, ReviewRepeatsSkipsIn, Members
  <2> QED
    BY <2>1, <2>2, <2>3 DEF Sound
<1>6. Follows(db, e)
  BY <1>2 DEF Follows, QueuesFollow, ItemsFollow, ExecutionsFollow
<1>7. Reconciles(e, db') /\ NoForeignItemIn(db')
  BY <1>3, <1>4, ReconcileActivityKeepsGood
<1>8. Kept(e, db')
  BY <1>2, <1>5, <1>7, ReconcilesKept
<1> QED
  BY <1>6, <1>7, <1>8, FollowsTransitive DEF Kept

-----------------------------------------------------------------------------
(* Counters.  A service writes items first and recounts their queue last,   *)
(* so between the two only the other queues are known to be counted.        *)

Counted(d, q) ==
  /\ d.queue[q].consumed = Cardinality(Consumed(d, q))
  /\ d.queue[q].size = Cardinality(Members(d, q))
AllCounted(d) == \A q \in QueueIds : Counted(d, q)
OthersCounted(d, q) == \A x \in QueueIds \ {q} : Counted(d, x)

(* From d to e no item enters queue q or is consumed there.                 *)
CountsFollow(d, e, q) ==
  /\ e.queue[q].consumed = d.queue[q].consumed /\ e.queue[q].size = d.queue[q].size
  /\ \A a \in Activities :
       /\ e.item[q][a] \in ConsumedStates <=> d.item[q][a] \in ConsumedStates
       /\ e.item[q][a] = "absent" <=> d.item[q][a] = "absent"

LEMMA CountsFollowKeepsCounted ==
  ASSUME NEW d, NEW e, NEW q, Counted(d, q), CountsFollow(d, e, q)
  PROVE  Counted(e, q)
<1>1. Consumed(e, q) = Consumed(d, q) /\ Members(e, q) = Members(d, q)
  BY DEF CountsFollow, Consumed, Members
<1> QED
  BY <1>1 DEF CountsFollow, Counted

LEMMA SameItemsKeepCounted ==
  ASSUME NEW d, NEW e, AllCounted(d), e.queue = d.queue, e.item = d.item
  PROVE  AllCounted(e)
BY CountsFollowKeepsCounted DEF AllCounted, CountsFollow

LEMMA RefreshCounts ==
  ASSUME NEW d, NEW q \in QueueIds, d \in Databases, OthersCounted(d, q)
  PROVE  AllCounted(RefreshQueueCounters(d, q))
<1> DEFINE e == RefreshQueueCounters(d, q)
           m == Cardinality(Consumed(d, q))
           n == Cardinality(Members(d, q))
           row == [d.queue[q] EXCEPT !.consumed = m, !.size = n]
<1>1. e = [d EXCEPT !.queue = [d.queue EXCEPT ![q] = row]]
  BY DEF RefreshQueueCounters, Databases
<1>2. row.consumed = m /\ row.size = n
  BY DEF Databases, QueueRows
<1> HIDE DEF e, row, m, n
<1>3. /\ e.item = d.item /\ e.queue[q] = row
      /\ \A x \in QueueIds \ {q} : e.queue[x] = d.queue[x]
  BY <1>1 DEF Databases
<1>4. Counted(e, q)
  BY <1>2, <1>3 DEF Counted, Consumed, Members, m, n
<1>5. \A x \in QueueIds \ {q} : Counted(e, x)
  BY <1>3, CountsFollowKeepsCounted DEF OthersCounted, CountsFollow
<1> QED
  BY <1>4, <1>5 DEF AllCounted, e

LEMMA CloseQueueCounts ==
  ASSUME NEW d, NEW q \in QueueIds, Good(d), OthersCounted(d, q),
         d.queue[q].state = "active", Available(d, q) = {}
  PROVE  AllCounted(CloseQueue(d, q))
<1> DEFINE c == Closed(d, q)
<1>1. c \in Databases
  BY ClosedKeepsGood DEF Good
<1>2. c.item = d.item /\ \A x \in QueueIds \ {q} : c.queue[x] = d.queue[x]
  BY DEF Closed, Good, Databases
<1>3. CloseQueue(d, q) = RefreshQueueCounters(c, q)
  BY DEF CloseQueue, Closed
<1> HIDE DEF c
<1>4. OthersCounted(c, q)
  BY <1>2, CountsFollowKeepsCounted DEF OthersCounted, CountsFollow
<1> QED
  BY <1>1, <1>3, <1>4, RefreshCounts

LEMMA InsertQueueCounts ==
  ASSUME NEW d, NEW sc \in Scopes, NEW g \in Groups, NEW mode \in QueueModes,
         NEW source \in QueueIds \cup {None}, NEW S, S \subseteq Activities,
         Good(d), FreshQueues(d) # {}, AllCounted(d)
  PROVE  AllCounted(InsertQueue(d, sc, g, mode, source, S))
<1> DEFINE n == Some(FreshQueues(d))
           e == InsertQueue(d, sc, g, mode, source, S)
<1>1. n \in QueueIds
  BY SomeIsMember DEF FreshQueues
<1>2. /\ \A x \in QueueIds \ {n} : e.queue[x] = d.queue[x] /\ e.item[x] = d.item[x]
      /\ e.queue[n].consumed = 0 /\ e.queue[n].size = Cardinality(S)
      /\ \A a \in Activities : e.item[n][a] = IF a \in S THEN "pending" ELSE "absent"
  BY <1>1 DEF InsertQueue, Good, Databases
<1> HIDE DEF n, e
<1>3. Consumed(e, n) = {} /\ Members(e, n) = S
  BY <1>2 DEF Consumed, Members, ConsumedStates
<1>4. Counted(e, n)
  BY <1>2, <1>3, FS_EmptySet DEF Counted
<1>5. \A x \in QueueIds \ {n} : Counted(e, x)
  BY <1>2, CountsFollowKeepsCounted DEF AllCounted, CountsFollow
<1> QED
  BY <1>4, <1>5 DEF AllCounted, e

LEMMA CreateReviewCounts ==
  ASSUME NEW d, NEW q \in QueueIds, Good(d), FreshQueues(d) # {}, AllCounted(d)
  PROVE  AllCounted(CreateReview(d, q))
<1> DEFINE S == ReviewCandidates(d, q)
           sc == d.queue[q].scope
           g == d.queue[q].group
           e == InsertQueue(d, sc, g, "skipped_review", q, S)
<1>1. CASE CreateReview(d, q) = d
  BY <1>1
<1>2. CASE CreateReview(d, q) # d
  <2>1. sc \in Scopes /\ g \in Groups
    BY DEF Good, Databases, QueueRows
  <2>2. S \subseteq Activities /\ "skipped_review" \in QueueModes /\ q \in QueueIds \cup {None}
    BY DEF ReviewCandidates, QueueModes
  <2>3. CreateReview(d, q) = e
    BY <1>2 DEF CreateReview
  <2> HIDE DEF S, sc, g
  <2> QED
    BY <2>1, <2>2, <2>3, InsertQueueCounts
<1> QED
  BY <1>1, <1>2

(* Finishing a queue recounts it, whatever its counters were.               *)
LEMMA FinalizeCounts ==
  ASSUME NEW d, NEW q \in QueueIds, Good(d), OthersCounted(d, q),
         d.queue[q].state = "active", FreshQueues(d) # {}
  PROVE  AllCounted(FinalizeQueueIfFinished(d, q))
<1>1. CASE Available(d, q) # {}
  BY <1>1, RefreshCounts DEF FinalizeQueueIfFinished, Good
<1>2. CASE Available(d, q) = {}
  <2> DEFINE c == CloseQueue(d, q)
  <2>1. Good(c) /\ ClosedAt(d, c, q) /\ AllCounted(c)
    BY <1>2, CloseQueueKeepsGood, CloseQueueCounts
  <2>2. FinalizeQueueIfFinished(d, q) = CreateReview(c, q)
    BY <1>2 DEF FinalizeQueueIfFinished
  <2> HIDE DEF c
  <2>3. FreshQueues(c) # {}
    BY <2>1 DEF ClosedAt, FreshQueues
  <2> QED
    BY <2>1, <2>2, <2>3, CreateReviewCounts
<1> QED
  BY <1>1, <1>2

LEMMA ExpireInvalidItemsCounts ==
  ASSUME NEW d, NEW q \in QueueIds, Good(d), AllCounted(d)
  PROVE  AllCounted(ExpireInvalidItems(d, q))
<1> DEFINE c == SyncWithSchedules(d, q)
           e == ExpireIneligible(c, q)
<1>0. d \in Databases
  BY DEF Good
<1>1. /\ c \in Databases /\ c.queue = d.queue
      /\ \A x \in QueueIds \ {q} : c.item[x] = d.item[x]
  BY <1>0 DEF SyncWithSchedules, Databases, ItemStates
<1> HIDE DEF c
<1>2. /\ e \in Databases /\ e.queue = c.queue
      /\ \A x \in QueueIds \ {q} : e.item[x] = c.item[x]
  <2>1. c \in Databases
    BY <1>1
  <2> QED
    BY <2>1 DEF ExpireIneligible, Databases, ItemStates
<1>3. ExpireInvalidItems(d, q) = RefreshQueueCounters(e, q)
  BY DEF ExpireInvalidItems, c
<1> HIDE DEF e
<1>4. OthersCounted(e, q)
  BY <1>1, <1>2, CountsFollowKeepsCounted DEF AllCounted, OthersCounted, CountsFollow
<1> QED
  BY <1>2, <1>3, <1>4, RefreshCounts

(* pool_size is recounted exactly when it has to be.                        *)
LEMMA WriteRowsCounts ==
  ASSUME NEW d, NEW rows, Good(d), AllCounted(d), rows = [q \in QueueIds |-> rows[q]],
         \A q \in QueueIds : ReconciledRow(d, q, rows[q])
  PROVE  AllCounted(WriteRows(d, rows))
<1> DEFINE e == WriteRows(d, rows)
<1>1. \A q \in QueueIds : /\ e.item[q] = rows[q]
                          /\ e.queue[q].consumed = d.queue[q].consumed
                          /\ e.queue[q].size = PoolSizeAfter(d, q, rows[q])
  BY DEF WriteRows, Good, Databases, QueueRows
<1> HIDE DEF e
<1>2. SUFFICES ASSUME NEW q \in QueueIds PROVE Counted(e, q)
  BY DEF AllCounted, e
<1>3. Consumed(e, q) = Consumed(d, q)
  BY <1>1 DEF ReconciledRow, Consumed, ConsumedStates
<1>4. Members(e, q) = {a \in Activities : rows[q][a] # "absent"}
  BY <1>1 DEF Members
<1>5. Inserted(d, q, rows[q]) = {} => Members(e, q) = Members(d, q)
  BY <1>1 DEF ReconciledRow, Inserted, Members
<1> QED
  BY <1>1, <1>3, <1>4, <1>5 DEF Counted, AllCounted, PoolSizeAfter

LEMMA ReconcilePremiumQueueCounts ==
  ASSUME NEW d, NEW q \in QueueIds, Good(d), AllCounted(d)
  PROVE  AllCounted(ReconcilePremiumQueue(d, q))
<1>1. CASE d.queue[q].state # "active"
  BY <1>1 DEF ReconcilePremiumQueue
<1>2. CASE d.queue[q].state = "active"
  <2> DEFINE row == PremiumReconciled(d, q, d.item[q])
             rows == [d.item EXCEPT ![q] = row]
  <2>1. \A x \in QueueIds : ReconciledRow(d, x, d.item[x])
    BY DEF Good, Databases, ReconciledRow
  <2>2. ReconciledRow(d, q, row)
    BY <1>2, <2>1, PremiumReconciledRow
  <2>3. ReconcilePremiumQueue(d, q) = WriteRows(d, rows)
    BY <1>2 DEF ReconcilePremiumQueue
  <2> HIDE DEF row
  <2>4. /\ \A x \in QueueIds : ReconciledRow(d, x, rows[x])
        /\ rows = [x \in QueueIds |-> rows[x]]
    BY <2>1, <2>2 DEF Good, Databases
  <2> HIDE DEF rows
  <2> QED
    BY <2>3, <2>4, WriteRowsCounts
<1> QED
  BY <1>1, <1>2

LEMMA ReconcileActivityCounts ==
  ASSUME NEW d, NEW a \in Activities, Good(d), AllCounted(d)
  PROVE  AllCounted(ReconcileActivity(d, a))
<1> DEFINE Q == {q \in QueueIds : d.queue[q].state = "active"}
           Row(q) == IF q \in Q THEN PremiumReconciled(d, q, ActivityReconciled(d, q, a))
                     ELSE d.item[q]
           rows == [q \in QueueIds |-> Row(q)]
<1>1. \A q \in QueueIds : ReconciledRow(d, q, Row(q))
  <2> TAKE q \in QueueIds
  <2>1. d.item[q] \in [Activities -> ItemStates]
    BY DEF Good, Databases
  <2>2. CASE q \notin Q
    BY <2>1, <2>2 DEF ReconciledRow
  <2>3. CASE q \in Q
    <3>1. ReconciledRow(d, q, ActivityReconciled(d, q, a))
      BY <2>1, <2>3 DEF ActivityReconciled, ReconciledRow, IsExpired, IsInserted, IsMissing,
                        OpenToExpiry, ItemStates
    <3> QED
      BY <2>3, <3>1, PremiumReconciledRow
  <2> QED
    BY <2>2, <2>3
<1>2. /\ ReconcileActivity(d, a) = WriteRows(d, rows)
      /\ rows = [q \in QueueIds |-> rows[q]]
  BY DEF ReconcileActivity, ReconcileQueues
<1> HIDE DEF Row
<1>3. \A q \in QueueIds : ReconciledRow(d, q, rows[q])
  BY <1>1
<1> HIDE DEF rows
<1> QED
  BY <1>2, <1>3, WriteRowsCounts

LEMMA CreateNormalQueueCounts ==
  ASSUME NEW d, NEW sc \in Scopes, NEW g \in Groups, Good(d), FreshQueues(d) # {},
         AllCounted(d)
  PROVE  AllCounted(CreateNormalQueue(d, sc, g))
<1>1. "normal" \in QueueModes /\ None \in QueueIds \cup {None}
  BY DEF QueueModes
<1> QED
  BY <1>1, EligibleAreActivities, InsertQueueCounts DEF CreateNormalQueue

LEMMA RefreshActiveQueueCounts ==
  ASSUME NEW d, NEW sc \in Scopes, NEW g \in Groups, Good(d), FreshQueues(d) # {},
         AllCounted(d), ActiveQueues(d, sc, g) # {}
  PROVE  AllCounted(RefreshActiveQueue(d, sc, g))
<1> DEFINE q == Some(ActiveQueues(d, sc, g))
           x == ExpireInvalidItems(d, q)
           p == IF d.queue[q].mode = "normal" THEN ReconcilePremiumQueue(x, q) ELSE x
           f == FinalizeQueueIfFinished(p, q)
<1>1. /\ Good(f) /\ AllCounted(f)
      /\ FreshQueues(f) # {} \/ ActiveQueues(f, sc, g) # {}
  <2>1. q \in QueueIds /\ d.queue[q].state = "active"
        /\ d.queue[q].scope = sc /\ d.queue[q].group = g
    BY SomeIsMember DEF ActiveQueues
  <2> HIDE DEF q
  <2>2. Good(x) /\ SameQueues(d, x) /\ AllCounted(x)
    BY <2>1, ExpireInvalidItemsKeepsGood, ExpireInvalidItemsCounts
  <2> HIDE DEF x
  <2>3. Good(p) /\ SameQueues(x, p) /\ AllCounted(p)
    BY <2>1, <2>2, ReconcilePremiumQueueKeepsGood, ReconcilePremiumQueueCounts
    DEF Reconciles, SameQueues
  <2> HIDE DEF p
  <2>4. /\ p.queue[q].state = "active" /\ p.queue[q].scope = sc /\ p.queue[q].group = g
        /\ FreshQueues(p) # {} /\ OthersCounted(p, q)
    BY <2>1, <2>2, <2>3 DEF SameQueues, FreshQueues, AllCounted, OthersCounted
  <2>5. Good(f) /\ FinishedAt(p, f, q) /\ AllCounted(f)
    BY <2>1, <2>3, <2>4, FinalizeKeepsGood, FinalizeCounts
  <2> HIDE DEF f
  <2> QED
    BY <2>4, <2>5 DEF FinishedAt
<1>2. RefreshActiveQueue(d, sc, g) =
        IF ActiveQueues(f, sc, g) # {} THEN f ELSE CreateNormalQueue(f, sc, g)
  BY DEF RefreshActiveQueue
<1> HIDE DEF f
<1> QED
  BY <1>1, <1>2, CreateNormalQueueCounts

LEMMA CompleteScheduleCounts ==
  ASSUME NEW d, NEW s \in ScheduleIds, Good(d), AllCounted(d), d.schedule[s].state # "none",
         FreshQueues(d) # {}, day \in Days
  PROVE  AllCounted(CompleteSchedule(d, s))
<1> DEFINE e == CompleteSchedule(d, s)
           q == d.schedule[s].queue
           f == EndExecution(d, s)
           g == EndWithItem(d, s)
<1>0. d \in Databases /\ d.schedule[s].state \in {"open", "completed"}
  BY DEF Good, Databases, ScheduleRows
<1>1. CASE d.schedule[s].state = "completed"
  <2>1. e = RecordCompletion(d, s)
    BY <1>1 DEF CompleteSchedule
  <2> HIDE DEF e
  <2>2. e.item = d.item /\ e.queue = d.queue
    BY <1>0, <2>1, RecordCompletionFrame
  <2> QED
    BY <2>2, SameItemsKeepCounted DEF e
<1>2. CASE d.schedule[s].state = "open" /\ q = None
  <2>1. e = f
    BY <1>2 DEF CompleteSchedule, CompleteOpen
  <2> HIDE DEF e, f
  <2>2. f.item = d.item /\ f.queue = d.queue
    BY <1>0, EndExecutionFrame DEF EndsAt, f
  <2> QED
    BY <2>1, <2>2, SameItemsKeepCounted DEF e
<1>3. CASE d.schedule[s].state = "open" /\ q # None
  <2>1. /\ Good(g) /\ EndsAt(d, g, s) /\ q \in QueueIds /\ d.queue[q].state = "active"
        /\ \A x \in QueueIds : x # q => g.item[x] = d.item[x]
    BY <1>3, EndWithItemKeepsGood
  <2>2. e = FinalizeQueueIfFinished(g, q)
    BY <1>3 DEF CompleteSchedule, CompleteOpen
  <2> HIDE DEF g, q
  <2>3. FreshQueues(g) # {} /\ g.queue[q].state = "active" /\ g.queue = d.queue
    BY <2>1 DEF FreshQueues, EndsAt
  <2>4. OthersCounted(g, q)
    BY <2>1, <2>3, CountsFollowKeepsCounted DEF AllCounted, OthersCounted, CountsFollow
  <2> QED
    BY <2>1, <2>2, <2>3, <2>4, FinalizeCounts
<1> QED
  BY <1>0, <1>1, <1>2, <1>3

LEMMA CompleteOneOfCounts ==
  ASSUME NEW d, NEW S, AllOpen(d, S), Good(d), AllCounted(d), FreshQueues(d) # {},
         day \in Days
  PROVE  AllCounted(CompleteOneOf(d, S))
<1>1. CASE S = {}
  BY <1>1 DEF CompleteOneOf
<1>2. CASE S # {}
  <2>1. Some(S) \in ScheduleIds /\ d.schedule[Some(S)].state = "open"
    BY <1>2, SomeIsMember DEF AllOpen, IsOpen
  <2>2. CompleteOneOf(d, S) = CompleteSchedule(d, Some(S))
    BY <1>2 DEF CompleteOneOf
  <2> QED
    BY <2>1, <2>2, CompleteScheduleCounts
<1> QED
  BY <1>1, <1>2

LEMMA StartActivityCounts ==
  ASSUME NEW d, NEW r \in CheckedStarts, Good(d), AllCounted(d), day \in Days,
         FreshQueues(d) # {}, FreshSchedules(d) # {},
         ItemIsAccepted(d, r), InsertIsAllowed(d, r)
  PROVE  AllCounted(StartActivity(d, r))
<1> DEFINE e == CompleteOneOf(d, r.found)
           h == StartActivity(d, r)
<1>1. /\ r.queue \in QueueIds /\ r.activity \in Activities /\ r.scope \in Scopes
      /\ AllOpen(d, r.found)
  BY OverdueAreOpen DEF CheckedStarts, InsertIsAllowed, FoundIsLocked
<1>2. d.item[r.queue][r.activity] \in OpenToExpiry /\ d.queue[r.queue].state = "active"
  BY DEF ItemIsAccepted
<1>3. /\ Good(e) /\ AllCounted(e) /\ e.item[r.queue][r.activity] \in OpenToExpiry
      /\ \A t \in ScheduleIds : e.schedule[t].state = "none" <=> d.schedule[t].state = "none"
  BY <1>1, <1>2, CompleteOneOfKeepsGood, CompleteOneOfCounts
<1>4. h = InsertSchedule(ItemStarted(e, r), r.scope, r.queue, r.activity, r.row.category)
  BY DEF StartActivity, ItemStarted
<1> HIDE DEF e, h
<1>5. e \in Databases /\ FreshSchedules(e) # {}
  BY <1>3 DEF Good, FreshSchedules
<1>6. StartsItemAt(e, h, r)
  BY <1>4, <1>5, StartItemFrame
<1>7. \A q \in QueueIds : CountsFollow(e, h, q)
  BY <1>3, <1>6 DEF StartsItemAt, StartsAt, CountsFollow, OpenToExpiry, ConsumedStates
<1> QED
  BY <1>3, <1>7, CountsFollowKeepsCounted DEF AllCounted, h

LEMMA StartPremiumCounts ==
  ASSUME NEW d, NEW r \in PremiumStarts, Good(d), AllCounted(d), day \in Days,
         FreshQueues(d) # {}, FreshSchedules(d) # {}, InsertIsAllowed(d, r)
  PROVE  AllCounted(StartPremium(d, r))
<1> DEFINE e == CompleteOneOf(d, r.found)
           sc == r.scope
           a == r.activity
           c == d.activity[a].category
           h == StartPremium(d, r)
<1>0. sc \in Scopes /\ a \in Activities /\ AllOpen(d, r.found)
  BY OverdueAreOpen DEF PremiumStarts, InsertIsAllowed, FoundIsLocked
<1>1. /\ Good(e) /\ AllCounted(e)
      /\ \A t \in ScheduleIds : e.schedule[t].state = "none" <=> d.schedule[t].state = "none"
  BY <1>0, CompleteOneOfKeepsGood, CompleteOneOfCounts
<1>2. h = InsertSchedule(e, sc, None, a, c)
  BY DEF StartPremium
<1>3. c \in Categories
  BY <1>0 DEF Good, Databases, ActivityRows
<1> HIDE DEF e, c, h, sc, a
<1>4. e \in Databases /\ FreshSchedules(e) # {} /\ None \in QueueIds \cup {None}
  BY <1>1 DEF Good, FreshSchedules
<1>5. /\ h \in Databases /\ h.item = e.item
      /\ \E n \in ScheduleIds : StartsAt(e, h, n, sc, None, a, c)
  BY <1>0, <1>2, <1>3, <1>4, InsertScheduleFrame
<1> QED
  BY <1>1, <1>5, SameItemsKeepCounted DEF StartsAt, h

LEMMA SkipItemCounts ==
  ASSUME NEW d, NEW q \in QueueIds, NEW a \in Activities, Good(d), AllCounted(d),
         d.item[q][a] \in OpenToExpiry, FreshQueues(d) # {}
  PROVE  AllCounted(SkipItem(d, q, a))
<1> DEFINE f == Skipped(d, q, a)
<1>1. Good(f) /\ SkipsAt(d, f, q, a) /\ d.queue[q].state = "active"
  BY SkippedKeepsGood
<1>2. SkipItem(d, q, a) = FinalizeQueueIfFinished(f, q)
  BY DEF SkipItem, Skipped
<1> HIDE DEF f
<1>3. f.queue[q].state = "active" /\ FreshQueues(f) # {}
  BY <1>1 DEF SkipsAt, FreshQueues
<1>4. OthersCounted(f, q)
  BY <1>1, CountsFollowKeepsCounted DEF SkipsAt, AllCounted, OthersCounted, CountsFollow
<1> QED
  BY <1>1, <1>2, <1>3, <1>4, FinalizeCounts

LEMMA RecreateCounts ==
  ASSUME NEW d, NEW sc \in Scopes, NEW g \in Groups, Good(d), AllCounted(d),
         OpenIn(d, sc) = {}, FreshQueues(d) # {},
         NEW q \in ActiveQueues(d, sc, g)
  PROVE  AllCounted(RecreateActiveQueue(d, q))
<1> DEFINE c == Cancelled(d, q)
           S == RecreationCandidates(d, q)
<1>1. q \in QueueIds /\ d.queue[q].state = "active"
      /\ d.queue[q].scope = sc /\ d.queue[q].group = g
  BY DEF ActiveQueues
<1>2. RecreateActiveQueue(d, q) = InsertQueue(c, sc, g, "normal", None, S)
  BY <1>1 DEF RecreateActiveQueue, Cancelled, CancelledRow
<1>3. Good(c) /\ CancelsAt(d, c, q)
  BY CancelledKeepsGood
<1> HIDE DEF c
<1>4. \A x \in QueueIds : CountsFollow(d, c, x)
  BY <1>1, <1>3 DEF CancelsAt, CancelledRow, CountsFollow, OpenToExpiry, ConsumedStates
<1>5. AllCounted(c) /\ FreshQueues(c) # {}
  BY <1>1, <1>3, <1>4, CountsFollowKeepsCounted DEF CancelsAt, AllCounted, FreshQueues
<1>6. S \subseteq Activities /\ "normal" \in QueueModes /\ None \in QueueIds \cup {None}
      /\ sc \in Scopes /\ g \in Groups
  BY EligibleAreActivities DEF RecreationCandidates, RequeuedSkips, QueueModes
<1> HIDE DEF S
<1> QED
  BY <1>2, <1>3, <1>5, <1>6, InsertQueueCounts

LEMMA PresentOneCounts ==
  ASSUME NEW d, NEW sc, NEW g, Good(d), AllCounted(d), PresentOne(d, sc, g)
  PROVE  AllCounted(db')
<1> DEFINE choices == Presentable(d, ActiveQueues(d, sc, g))
<1>2. \/ db' = d
      \/ \E i \in choices : db' = [d EXCEPT !.item[i[1]][i[2]] = "presented"]
  BY DEF PresentOne
<1>3. CASE db' = d
  BY <1>3
<1>4. ASSUME NEW i \in choices, db' = [d EXCEPT !.item[i[1]][i[2]] = "presented"]
      PROVE  AllCounted(db')
  <2> DEFINE q == i[1]
             a == i[2]
  <2>1. q \in ActiveQueues(d, sc, g) /\ a \in Activities /\ d.item[q][a] = "pending"
    BY DEF Presentable
  <2>2. /\ q \in QueueIds /\ d.queue[q].state = "active"
        /\ d.item[q][a] \in NoExecution /\ "presented" \in NoExecution
    BY <2>1 DEF ActiveQueues, NoExecution, ItemStates
  <2>3. MovesItem(d, db', q, a, "presented")
    BY <1>4, <2>1, <2>2, MoveItemKeepsGood
  <2> HIDE DEF q, a
  <2>4. \A x \in QueueIds : CountsFollow(d, db', x)
    BY <2>1, <2>3 DEF MovesItem, CountsFollow, ConsumedStates
  <2> QED
    BY <2>4, CountsFollowKeepsCounted DEF AllCounted
<1> QED
  BY <1>2, <1>3, <1>4

LEMMA PresentNextCounts ==
  ASSUME NEW sc \in Scopes, NEW g \in Groups, Good(db), AllCounted(db), PresentNext(sc, g)
  PROVE  AllCounted(db')
<1> DEFINE d == RefreshActiveQueue(db, sc, g)
<1>1. Good(d) /\ AllCounted(d) /\ PresentOne(d, sc, g)
  BY RefreshActiveQueueKeepsGood, RefreshActiveQueueCounts DEF PresentNext, HasRoom
<1> QED
  BY <1>1, PresentOneCounts

LEMMA CreateQueueCounts ==
  ASSUME NEW w \in Workers, Good(db), AllCounted(db), request[w] \in Creations, CreateQueue(w)
  PROVE  AllCounted(db')
<1> DEFINE r == request[w]
           e == InsertQueue(db, r.scope, r.group, "normal", None, r.candidates)
<1>1. /\ r.scope \in Scopes /\ r.group \in Groups /\ r.candidates \subseteq Activities
      /\ "normal" \in QueueModes /\ None \in QueueIds \cup {None}
  BY DEF Creations, QueueModes
<1>2. /\ FreshQueues(db) # {} /\ ActiveQueues(db, r.scope, r.group) = {}
      /\ PresentOne(e, r.scope, r.group)
  BY DEF CreateQueue, HasRoom, IndexAllowsQueue
<1>3. Good(e) /\ AllCounted(e)
  BY <1>1, <1>2, InsertQueueKeepsGood, InsertQueueCounts
<1> QED
  BY <1>2, <1>3, PresentOneCounts

LEMMA EditActivityCounts ==
  ASSUME NEW a \in Activities, NEW row \in ActivityRows, Good(db), AllCounted(db),
         EditActivity(a, row)
  PROVE  AllCounted(db')
<1> DEFINE e == [db EXCEPT !.activity[a] = row]
<1>1. db \in Databases
  BY DEF Good
<1>2. e \in Databases /\ e.queue = db.queue /\ e.item = db.item /\ e.schedule = db.schedule
  BY <1>1 DEF Databases
<1>3. db' = ReconcileActivity(e, a)
  BY DEF EditActivity
<1> HIDE DEF e
<1>4. Good(e) /\ AllCounted(e)
  BY <1>2, OnlyItemsKeepsGood, SameItemsKeepCounted DEF OnlyItems, SameQueues
<1> QED
  BY <1>3, <1>4, ReconcileActivityCounts

-----------------------------------------------------------------------------
(* The second inductive invariant: what the reviews, the facts and the      *)
(* counters need beside the first.  A step also says which execution it     *)
(* starts, if any, and when it cannot leave a foreign item.                 *)
SecondInv == IInv /\ Sound(db) /\ AllCounted(db)

(* The steps that leave no foreign item in an active queue: a start writes  *)
(* back an unchanged activity, a queue is created from candidates that      *)
(* still belong to its group, and no category moves.                        *)
CommitsCurrentCopy ==
  \A w \in Workers :
    StartCommits(w) => request[w].row = db.activity[request[w].activity]
CandidatesBelong ==
  \A w \in Workers : CreateQueue(w) =>
    \A a \in request[w].candidates : BelongsToQueue(db.activity[a], request[w].group)
LeavesItemsAtHome ==
  CommitsCurrentCopy /\ CandidatesBelong /\ UNCHANGED categoryGroup

StartsRequested ==
  \E w \in Workers :
    LET r == request[w]
    IN /\ r \in CheckedStarts /\ r.kind = "insert" /\ ItemIsAccepted(db, r)
       /\ OneStart(db, db', r.queue, r.activity, r.row.category)
       /\ db'.activity = [db.activity EXCEPT ![r.activity] = r.row]
StartsPremium ==
  \E a \in Activities :
    /\ OneStart(db, db', None, a, db.activity[a].category)
    /\ db'.activity = db.activity
StepStarts == NoStart(db, db') \/ StartsRequested \/ StartsPremium \/ edits' > 0

Stepped ==
  /\ Sound(db') /\ AllCounted(db')
  /\ Follows(db, db')
  /\ StepStarts
  /\ CommitsCurrentCopy /\ CandidatesBelong /\ NoForeignItemIn(db) => NoForeignItemIn(db')

LEMMA KeptIsStepped ==
  ASSUME Kept(db, db'), AllCounted(db')
  PROVE  Stepped
BY DEF Kept, Stepped, StepStarts

LEMMA NextSteps == SecondInv /\ [Next]_vars => Stepped
<1> SUFFICES ASSUME SecondInv, [Next]_vars PROVE Stepped
  OBVIOUS
<1>0. /\ Good(db) /\ Sound(db) /\ AllCounted(db) /\ db \in Databases
      /\ day \in Days /\ edits \in 0 .. MaxEdits
      /\ request \in [Workers -> Requests]
  BY DEF SecondInv, IInv, TypeOK
<1>1. ASSUME db' = db PROVE Stepped
  <2>1. Kept(db, db')
    BY <1>0, <1>1, KeptReflexive
  <2>2. AllCounted(db')
    BY <1>0, <1>1
  <2> QED
    BY <2>1, <2>2, KeptIsStepped
<1>2. ASSUME NEW sc \in Scopes, NEW g \in Groups, PresentNext(sc, g) PROVE Stepped
  BY <1>0, <1>2, PresentNextKept, PresentNextCounts, KeptIsStepped
<1>3. ASSUME NEW sc \in Scopes, NEW g \in Groups, Recreate(sc, g) PROVE Stepped
  <2>1. PICK q \in ActiveQueues(db, sc, g) : db' = RecreateActiveQueue(db, q)
    BY <1>3 DEF Recreate
  <2>2. OpenIn(db, sc) = {} /\ FreshQueues(db) # {}
    BY <1>3 DEF Recreate, HasRoom
  <2>3. Kept(db, db') /\ AllCounted(db')
    BY <1>0, <2>1, <2>2, RecreateKept, RecreateCounts
  <2> QED
    BY <2>3, KeptIsStepped
<1>4. ASSUME NEW w \in Workers, NEW sc \in Scopes, NEW q \in QueueIds, NEW a \in Activities,
             RequestStart(w, sc, q, a)
      PROVE  Stepped
  BY <1>1, <1>4 DEF RequestStart
<1>5. ASSUME NEW w \in Workers, StartCommits(w) PROVE Stepped
  <2> DEFINE r == request[w]
  <2>1. /\ r \in CheckedStarts /\ r.kind = "insert"
        /\ FreshQueues(db) # {} /\ FreshSchedules(db) # {}
        /\ ItemIsAccepted(db, r) /\ InsertIsAllowed(db, r) /\ db' = StartActivity(db, r)
    BY <1>0, <1>5, KindOfRequest DEF StartCommits, HasScheduleRoom, HasRoom
  <2>2. CommitsCurrentCopy => r.row = db.activity[r.activity]
    BY <1>5 DEF CommitsCurrentCopy
  <2> HIDE DEF r
  <2>3. /\ Sound(db') /\ Follows(db, db')
        /\ OneStart(db, db', r.queue, r.activity, r.row.category)
        /\ db'.activity = [db.activity EXCEPT ![r.activity] = r.row]
        /\ NoForeignItemIn(db) /\ r.row = db.activity[r.activity] => NoForeignItemIn(db')
    BY <1>0, <2>1, StartActivityKept
  <2>4. AllCounted(db')
    BY <1>0, <2>1, StartActivityCounts
  <2>5. StartsRequested
    BY <2>1, <2>3 DEF StartsRequested, r
  <2> QED
    BY <2>2, <2>3, <2>4, <2>5 DEF Stepped, StepStarts
<1>6. ASSUME NEW w \in Workers,
             \/ StartConflicts(w) \/ FindOpen(w) \/ ReadCandidates(w) \/ CreationFails(w)
      PROVE  Stepped
  BY <1>1, <1>6 DEF StartConflicts, FindOpen, ReadCandidates, CreationFails
<1>7. ASSUME NEW w \in Workers, PremiumCommits(w) PROVE Stepped
  <2> DEFINE r == request[w]
  <2>1. /\ r \in PremiumStarts /\ FreshQueues(db) # {} /\ FreshSchedules(db) # {}
        /\ InsertIsAllowed(db, r) /\ db' = StartPremium(db, r)
    BY <1>0, <1>7, KindOfRequest DEF PremiumCommits, HasScheduleRoom, HasRoom
  <2> HIDE DEF r
  <2>2. /\ Sound(db') /\ Follows(db, db')
        /\ OneStart(db, db', None, r.activity, db.activity[r.activity].category)
        /\ db'.activity = db.activity
        /\ NoForeignItemIn(db) => NoForeignItemIn(db')
    BY <1>0, <2>1, StartPremiumKept
  <2>3. AllCounted(db')
    BY <1>0, <2>1, StartPremiumCounts
  <2>4. r.activity \in Activities
    BY <2>1 DEF PremiumStarts
  <2> QED
    BY <2>2, <2>3, <2>4 DEF Stepped, StepStarts, StartsPremium
<1>16. ASSUME NEW w \in Workers, CreateQueue(w) PROVE Stepped
  <2>1. request[w] \in Creations
    BY <1>0, <1>16, KindOfRequest DEF CreateQueue
  <2>2. /\ Sound(db') /\ Follows(db, db') /\ NoStart(db, db')
        /\ /\ NoForeignItemIn(db)
           /\ \A a \in request[w].candidates :
                BelongsToQueue(db.activity[a], request[w].group)
           => NoForeignItemIn(db')
    BY <1>0, <1>16, <2>1, CreateQueueKept
  <2>3. AllCounted(db')
    BY <1>0, <1>16, <2>1, CreateQueueCounts
  <2>4. CandidatesBelong => \A a \in request[w].candidates :
                              BelongsToQueue(db.activity[a], request[w].group)
    BY <1>16 DEF CandidatesBelong
  <2> QED
    BY <2>2, <2>3, <2>4 DEF Stepped, StepStarts
<1>17. ASSUME NEW w \in Workers, NEW sc \in Scopes, NEW g \in Groups, LookUp(w, sc, g)
       PROVE  Stepped
  BY <1>1, <1>17 DEF LookUp
<1>18. ASSUME NEW w \in Workers, NEW sc \in Scopes, NEW a \in Activities,
              PremiumFindsOpen(w, sc, a)
       PROVE  Stepped
  BY <1>1, <1>18 DEF PremiumFindsOpen
<1>19. ASSUME NEW c \in Moved, NEW g \in Groups, MoveCategory(c, g) PROVE Stepped
  BY <1>1, <1>19 DEF MoveCategory
<1>8. ASSUME NEW q \in QueueIds, NEW a \in Activities, Skip(q, a) PROVE Stepped
  <2>1. /\ FreshQueues(db) # {} /\ db.queue[q].mode # "skipped_review"
        /\ db.item[q][a] \in OpenToExpiry /\ db' = SkipItem(db, q, a)
    BY <1>8 DEF Skip, HasRoom
  <2> QED
    BY <1>0, <2>1, SkipItemKept, SkipItemCounts, KeptIsStepped
<1>9. ASSUME NEW s \in ScheduleIds, Complete(s) PROVE Stepped
  <2>1. /\ FreshQueues(db) # {} /\ db.schedule[s].state # "none"
        /\ db' = CompleteSchedule(db, s)
    BY <1>9 DEF Complete, HasRoom
  <2> QED
    BY <1>0, <2>1, CompleteScheduleKept, CompleteScheduleCounts, KeptIsStepped
<1>10. ASSUME NEW s \in ScheduleIds, FallDue(s) PROVE Stepped
  <2>1. db'.queue = db.queue /\ db'.item = db.item
    BY <1>0, <1>10 DEF FallDue, Databases
  <2>2. AllCounted(db')
    BY <1>0, <2>1, SameItemsKeepCounted
  <2> QED
    BY <1>0, <1>10, <2>2, FallDueKept, KeptIsStepped
<1>11. ASSUME NEW sc \in Scopes, Poll(sc) PROVE Stepped
  <2> DEFINE S == OverdueIn(db, sc)
  <2>1. FreshQueues(db) # {} /\ db' = CompleteOneOf(db, S) /\ AllOpen(db, S)
    BY <1>11, OverdueAreOpen DEF Poll, HasRoom, ReconcileOpen
  <2> HIDE DEF S
  <2> QED
    BY <1>0, <2>1, CompleteOneOfKept, CompleteOneOfCounts, KeptIsStepped
<1>12. ASSUME NEW a \in Activities, NEW row \in EditedTo[a], EditActivity(a, row) PROVE Stepped
  <2>0. row \in ActivityRows
    BY CatalogAssumption DEF ActivityRows
  <2>1. Sound(db') /\ Follows(db, db') /\ NoForeignItemIn(db')
    BY <1>0, <1>12, <2>0, EditActivityKept
  <2>2. AllCounted(db')
    BY <1>0, <1>12, <2>0, EditActivityCounts
  <2>3. edits' > 0
    BY <1>0, <1>12, BoundsAssumption DEF EditActivity
  <2> QED
    BY <2>1, <2>2, <2>3 DEF Stepped, StepStarts
<1>13. ASSUME NEW q \in QueueIds, ReconcileJob(q) PROVE Stepped
  <2>1. db' = ReconcilePremiumQueue(db, q)
    BY <1>13 DEF ReconcileJob
  <2> QED
    BY <1>0, <2>1, ReconcilePremiumQueueKept, ReconcilePremiumQueueCounts, KeptIsStepped
<1>14. CASE NewDay
  BY <1>1, <1>14 DEF NewDay
<1>15. CASE UNCHANGED vars
  BY <1>1, <1>15 DEF vars
<1> QED
  BY <1>2, <1>3, <1>4, <1>5, <1>6, <1>7, <1>8, <1>9, <1>10, <1>11, <1>12, <1>13,
     <1>14, <1>15, <1>16, <1>17, <1>18, <1>19 DEF Next

LEMMA OnlyEditsEdit ==
  ASSUME [Next]_vars
  PROVE  \/ edits' = edits
         \/ \E a \in Activities : \E row \in EditedTo[a] : EditActivity(a, row)
BY DEF Next, vars, PresentNext, Recreate, LookUp, ReadCandidates, CreateQueue, CreationFails,
       RequestStart, FindOpen, StartCommits, PremiumFindsOpen, PremiumCommits, StartConflicts,
       Skip, Complete, FallDue, Poll, MoveCategory, ReconcileJob, NewDay

LEMMA InitIsSound == Init => Sound(db) /\ AllCounted(db) /\ NoForeignItemIn(db)
<1> SUFFICES ASSUME Init PROVE Sound(db) /\ AllCounted(db) /\ NoForeignItemIn(db)
  OBVIOUS
<1>1. /\ \A q \in QueueIds, a \in Activities : db.item[q][a] = "absent"
      /\ \A q \in QueueIds : /\ db.queue[q].state = "none" /\ db.queue[q].mode = "normal"
                             /\ db.queue[q].source = None
                             /\ db.queue[q].consumed = 0 /\ db.queue[q].size = 0
      /\ \A s \in ScheduleIds : db.schedule[s].state = "none" /\ db.completion[s] = None
      /\ db.skips = {}
  BY DEF Init, BlankQueue, BlankSchedule
<1>2. FreshQueuesAreBlank(db) /\ OnePresentedIn(db) /\ ReviewRepeatsSkipsIn(db)
  BY <1>1 DEF FreshQueuesAreBlank, OnePresentedIn, ReviewRepeatsSkipsIn
<1>3. CompletionsMatch(db) /\ SkipsMatch(db)
  BY <1>1 DEF CompletionsMatch, SkipsMatch
<1>4. Sound(db)
  BY <1>2, <1>3, FactsInTwoParts DEF Sound
<1>5. \A q \in QueueIds : Consumed(db, q) = {} /\ Members(db, q) = {}
  BY <1>1 DEF Consumed, ConsumedStates, Members
<1>6. AllCounted(db)
  BY <1>1, <1>5, FS_EmptySet DEF AllCounted, Counted
<1>7. NoForeignItemIn(db)
  BY <1>1 DEF NoForeignItemIn
<1> QED
  BY <1>4, <1>6, <1>7

LEMMA NextKeepsSecondInv == SecondInv /\ [Next]_vars => SecondInv'
<1> SUFFICES ASSUME SecondInv, [Next]_vars PROVE SecondInv'
  OBVIOUS
<1>1. IInv'
  BY NextKeepsIInv DEF SecondInv
<1>2. Sound(db') /\ AllCounted(db')
  BY NextSteps DEF Stepped
<1> QED
  BY <1>1, <1>2 DEF SecondInv

LEMMA SecondInvIsInvariant == Spec => []SecondInv
<1>1. Init => SecondInv
  BY InitGood, InitIsSound DEF IInv, SecondInv
<1> QED
  BY <1>1, NextKeepsSecondInv, PTL DEF Spec

(* A review happens once, after its queue closed, and repeats only what was *)
(* skipped there.                                                           *)
THEOREM ReviewsRepeatSkips == Spec => []ReviewRepeatsSkips
<1>1. SecondInv => ReviewRepeatsSkips
  BY DEF SecondInv, Sound, ReviewRepeatsSkips
<1> QED
  BY <1>1, SecondInvIsInvariant, PTL

(* The facts the weekly goals count from are those of the completed         *)
(* executions and of the skipped items, no more and no fewer.               *)
THEOREM FactsAreExact == Spec => []FactsMatch
<1>1. SecondInv => FactsMatch
  BY DEF SecondInv, Sound, FactsMatch
<1> QED
  BY <1>1, SecondInvIsInvariant, PTL

(* The stored position of every queue agrees with its items.                *)
THEOREM PositionsMatch == Spec => []PositionMatches
<1>1. SecondInv => PositionMatches
  <2> SUFFICES ASSUME SecondInv, NEW q \in QueueIds
               PROVE  /\ Counted(db, q)
                      /\ Cardinality({a \in Activities : db.item[q][a] = "presented"}) <= 1
    BY DEF PositionMatches, Counted
  <2> DEFINE S == {a \in Activities : db.item[q][a] = "presented"}
  <2>1. Counted(db, q)
    BY DEF SecondInv, AllCounted
  <2>2. \A a, b \in S : a = b
    BY DEF SecondInv, Sound, OnePresentedIn
  <2>3. CASE S = {}
    BY <2>1, <2>3, FS_EmptySet
  <2>4. CASE S # {}
    <3>1. PICK a \in S : TRUE
      BY <2>4
    <3>2. S = {a}
      BY <2>2, <3>1
    <3> HIDE DEF S
    <3>3. Cardinality(S) = 1
      BY <3>2, FS_Singleton
    <3> QED
      BY <2>1, <3>3 DEF S
  <2> QED
    BY <2>3, <2>4
<1> QED
  BY <1>1, SecondInvIsInvariant, PTL

(* What is settled stays settled, in every transaction of every service.    *)
THEOREM HistoryStaysFinal == Spec => HistoryIsFinal
<1> DEFINE Final ==
      /\ \A q \in QueueIds : db.queue[q].state \in {"closed", "cancelled"} =>
           db'.queue[q].state = db.queue[q].state
      /\ \A q \in QueueIds, a \in Activities :
           db.item[q][a] \in {"completed", "skipped", "expired"} =>
             db'.item[q][a] = db.item[q][a]
      /\ \A s \in ScheduleIds : db.schedule[s].state = "completed" =>
           db'.schedule[s] = db.schedule[s]
      /\ \A s \in ScheduleIds : db.completion[s] # None =>
           db'.completion[s] = db.completion[s]
      /\ db.skips \subseteq db'.skips
<1>1. SecondInv /\ [Next]_vars => Final
  <2> SUFFICES ASSUME SecondInv, [Next]_vars PROVE Final
    OBVIOUS
  <2>1. QueuesFollow(db, db') /\ ItemsFollow(db, db') /\ ExecutionsFollow(db, db')
        /\ db.skips \subseteq db'.skips
    BY NextSteps DEF Stepped, Follows
  <2> QED
    BY <2>1 DEF QueuesFollow, ItemsFollow, ExecutionsFollow
<1>2. SecondInv /\ [Next]_vars => [Final]_vars
  BY <1>1
<1>3. Spec => [][Final]_vars
  <2> HIDE DEF Final
  <2> QED
    BY <1>2, SecondInvIsInvariant, PTL DEF Spec
<1> QED
  BY <1>3 DEF HistoryIsFinal

(* An edit leaves every active queue without a pending or presented item of *)
(* another group, whatever was in the queues before it.                     *)
THEOREM EditsSanitiseQueues == Spec => EditsLeaveNoForeignItem
<1> DEFINE Sanitised == edits' # edits => NoForeignItemIn(db)'
<1>1. SecondInv /\ [Next]_vars => [Sanitised]_vars
  <2> SUFFICES ASSUME SecondInv, [Next]_vars, edits' # edits
               PROVE  NoForeignItemIn(db)'
    OBVIOUS
  <2>0. PICK a \in Activities : \E row \in EditedTo[a] : EditActivity(a, row)
    BY OnlyEditsEdit
  <2>1. PICK row \in EditedTo[a] : EditActivity(a, row)
    BY <2>0
  <2>2. Good(db) /\ Sound(db) /\ row \in ActivityRows
    BY CatalogAssumption DEF SecondInv, IInv, ActivityRows
  <2>3. NoForeignItemIn(db') /\ categoryGroup' = categoryGroup
    BY <2>1, <2>2, EditActivityKept DEF EditActivity
  <2> QED
    BY <2>3 DEF NoForeignItemIn, BelongsToQueue
<1> HIDE DEF Sanitised
<1>2. Spec => [][Sanitised]_vars
  BY <1>1, SecondInvIsInvariant, PTL DEF Spec
<1> QED
  BY <1>2 DEF EditsLeaveNoForeignItem, Sanitised

(* A foreign item has one of three origins: a start that writes back a copy *)
(* of the activity read before an edit, a queue created from candidates     *)
(* read before one, or a category that moved.                               *)
THEOREM ForeignItemsHaveThreeOrigins ==
  Spec /\ [][LeavesItemsAtHome]_vars => []NoForeignItemIn(db)
<1>1. Init => NoForeignItemIn(db)
  BY InitIsSound
<1>2. SecondInv /\ NoForeignItemIn(db) /\ [Next]_vars /\ [LeavesItemsAtHome]_vars
        => NoForeignItemIn(db)'
  <2> SUFFICES ASSUME SecondInv, NoForeignItemIn(db), [Next]_vars, [LeavesItemsAtHome]_vars
               PROVE  NoForeignItemIn(db)'
    OBVIOUS
  <2>1. CASE LeavesItemsAtHome
    <3>1. NoForeignItemIn(db') /\ categoryGroup' = categoryGroup
      BY <2>1, NextSteps DEF Stepped, LeavesItemsAtHome
    <3> QED
      BY <3>1 DEF NoForeignItemIn, BelongsToQueue
  <2>2. CASE UNCHANGED vars
    BY <2>2 DEF NoForeignItemIn, BelongsToQueue, vars
  <2> QED
    BY <2>1, <2>2
<1> QED
  BY <1>1, <1>2, SecondInvIsInvariant, PTL DEF Spec

-----------------------------------------------------------------------------
(* The daily limit of a category, while no activity is edited: everything   *)
(* that names the category of an activity then names its first one.         *)

OfCategory(d, n, c) ==
  {s \in ScheduleIds : /\ FromQueue(d, s)
                       /\ d.schedule[s].start = n
                       /\ d.schedule[s].category = c}

FirstCategories ==
  /\ \A a \in Activities : db.activity[a].category = InitialCategory[a]
  /\ \A s \in ScheduleIds : db.schedule[s].state # "none" =>
       db.schedule[s].category = InitialCategory[db.schedule[s].activity]
  /\ \A w \in Workers : request[w].kind \in {"start", "insert"} =>
       request[w].row.category = InitialCategory[request[w].activity]

WithinLimits(d) ==
  \A c \in Categories, n \in Days :
    Cardinality(OfCategory(d, n, c)) <= MaxDailyExecutions[c]

LimitInv == SecondInv /\ (edits = 0 => FirstCategories /\ WithinLimits(db))

LEMMA ScheduleIdsAreFinite ==
  ASSUME NEW S, S \subseteq ScheduleIds
  PROVE  IsFiniteSet(S) /\ Cardinality(S) \in Nat
<1>1. IsFiniteSet(ScheduleIds)
  BY BoundsAssumption, FS_Interval DEF ScheduleIds
<1> QED
  BY <1>1, FS_Subset, FS_CardinalityType

LEMMA SmallerSets ==
  ASSUME NEW S, NEW T, S \subseteq ScheduleIds, T \subseteq S
  PROVE  Cardinality(T) <= Cardinality(S)
BY ScheduleIdsAreFinite, FS_Subset

LEMMA OneMore ==
  ASSUME NEW S, NEW T, NEW m \in ScheduleIds, S \subseteq ScheduleIds,
         T \subseteq S \cup {m}
  PROVE  Cardinality(T) <= Cardinality(S) + 1
<1> DEFINE U == S \cup {m}
<1>1. IsFiniteSet(S) /\ Cardinality(S) \in Nat
  BY ScheduleIdsAreFinite
<1>2. Cardinality(U) = Cardinality(S) \/ Cardinality(U) = Cardinality(S) + 1
  BY <1>1, FS_AddElement
<1>3. U \subseteq ScheduleIds /\ T \subseteq U
  OBVIOUS
<1> HIDE DEF U
<1>4. T \subseteq ScheduleIds
  BY <1>3
<1>5. Cardinality(T) <= Cardinality(U) /\ Cardinality(T) \in Nat /\ Cardinality(U) \in Nat
  BY <1>3, <1>4, SmallerSets, ScheduleIdsAreFinite
<1> QED
  BY <1>1, <1>2, <1>5

(* The count of started_count is the count the limit is about.              *)
LEMMA CountsTheSame ==
  ASSUME SecondInv, FirstCategories, NEW c
  PROVE  CategoryStartedCount(db, c) = Cardinality(OfCategory(db, day, c))
<1>1. db \in Databases
  BY DEF SecondInv, IInv, TypeOK
<1>2. \A s \in StartedToday(db) : CurrentCategory(db, s) = db.schedule[s].category
  BY <1>1 DEF FirstCategories, CurrentCategory, StartedToday, FromQueue, Databases, ScheduleRows
<1>3. {s \in StartedToday(db) : CurrentCategory(db, s) = c} = OfCategory(db, day, c)
  BY <1>2 DEF OfCategory, StartedToday
<1> QED
  BY <1>3 DEF CategoryStartedCount

(* What starts no execution from a queue keeps the limits.                  *)
LEMMA SameStartsKeepLimits ==
  ASSUME NEW d, NEW e, WithinLimits(d),
         \A c \in Categories, n \in Days : OfCategory(e, n, c) \subseteq OfCategory(d, n, c)
  PROVE  WithinLimits(e)
<1> SUFFICES ASSUME NEW c \in Categories, NEW n \in Days
             PROVE  Cardinality(OfCategory(e, n, c)) <= MaxDailyExecutions[c]
  BY DEF WithinLimits
<1> DEFINE S == OfCategory(d, n, c)
           T == OfCategory(e, n, c)
<1>1. T \subseteq S /\ S \subseteq ScheduleIds /\ T \subseteq ScheduleIds
  BY DEF OfCategory
<1>2. Cardinality(S) <= MaxDailyExecutions[c]
  BY DEF WithinLimits
<1> HIDE DEF S, T
<1>3. Cardinality(S) \in Nat /\ Cardinality(T) \in Nat
  BY <1>1, ScheduleIdsAreFinite
<1>4. Cardinality(T) <= Cardinality(S)
  BY <1>1, SmallerSets
<1>5. MaxDailyExecutions[c] \in Nat
  BY CatalogAssumption
<1> QED
  BY <1>2, <1>3, <1>4, <1>5 DEF T

(* One start below the limit keeps it.                                      *)
LEMMA OneStartKeepsLimits ==
  ASSUME NEW d, NEW e, WithinLimits(d), NEW m \in ScheduleIds, NEW k,
         Cardinality(OfCategory(d, day, k)) < MaxDailyExecutions[k],
         \A c \in Categories, n \in Days :
           /\ OfCategory(e, n, c) \subseteq OfCategory(d, n, c) \cup {m}
           /\ c # k \/ n # day => OfCategory(e, n, c) \subseteq OfCategory(d, n, c)
  PROVE  WithinLimits(e)
<1> SUFFICES ASSUME NEW c \in Categories, NEW n \in Days
             PROVE  Cardinality(OfCategory(e, n, c)) <= MaxDailyExecutions[c]
  BY DEF WithinLimits
<1> DEFINE S == OfCategory(d, n, c)
           T == OfCategory(e, n, c)
<1>1. S \subseteq ScheduleIds /\ T \subseteq ScheduleIds
  BY DEF OfCategory
<1>2. T \subseteq S \cup {m} /\ (c # k \/ n # day => T \subseteq S)
  OBVIOUS
<1>3. Cardinality(S) <= MaxDailyExecutions[c]
  BY DEF WithinLimits
<1>4. c = k /\ n = day => Cardinality(S) < MaxDailyExecutions[c]
  OBVIOUS
<1> HIDE DEF S, T
<1>5. Cardinality(S) \in Nat /\ Cardinality(T) \in Nat
  BY <1>1, ScheduleIdsAreFinite
<1>6. Cardinality(T) <= Cardinality(S) + 1
  BY <1>1, <1>2, OneMore
<1>7. c # k \/ n # day => Cardinality(T) <= Cardinality(S)
  BY <1>1, <1>2, SmallerSets
<1>8. MaxDailyExecutions[c] \in Nat
  BY CatalogAssumption
<1> QED
  BY <1>3, <1>4, <1>5, <1>6, <1>7, <1>8 DEF T

(* Only a start carries a copy of an activity, from its first step on.      *)
LEMMA OnlyStartsAsk ==
  ASSUME [Next]_vars
  PROVE  \/ UNCHANGED request
         \/ \E w \in Workers : \E r : /\ request' = [request EXCEPT ![w] = r]
                                     /\ r.kind \notin {"start", "insert"}
         \/ \E w \in Workers, sc \in Scopes, q \in QueueIds, a \in Activities :
              RequestStart(w, sc, q, a)
         \/ \E w \in Workers : FindOpen(w)
<1> DEFINE Asks == \E w \in Workers : \E r : /\ request' = [request EXCEPT ![w] = r]
                                            /\ r.kind \notin {"start", "insert"}
<1>0. ASSUME NEW w \in Workers, NEW r, request' = [request EXCEPT ![w] = r],
             r.kind \notin {"start", "insert"}
      PROVE  Asks
  BY <1>0
<1> HIDE DEF Asks
<1>1. ASSUME NEW w \in Workers, Ends(w) PROVE Asks
  <2>1. NoRequest.kind \notin {"start", "insert"}
    BY DEF NoRequest
  <2> QED
    BY <1>0, <1>1, <2>1 DEF Ends
<1>2. ASSUME NEW w \in Workers, NEW sc \in Scopes, NEW g \in Groups, LookUp(w, sc, g)
      PROVE  Asks
  <2> DEFINE r == [kind |-> "lookup", scope |-> sc, group |-> g]
  <2>1. request' = [request EXCEPT ![w] = r] /\ r.kind \notin {"start", "insert"}
    BY <1>2 DEF LookUp, Accepts
  <2> HIDE DEF r
  <2> QED
    BY <1>0, <2>1
<1>3. ASSUME NEW w \in Workers, NEW sc \in Scopes, NEW a \in Activities,
             PremiumFindsOpen(w, sc, a)
      PROVE  Asks
  <2> DEFINE r == [kind |-> "premium", scope |-> sc, activity |-> a, found |-> OpenIn(db, sc)]
  <2>1. request' = [request EXCEPT ![w] = r] /\ r.kind \notin {"start", "insert"}
    BY <1>3 DEF PremiumFindsOpen, Accepts
  <2> HIDE DEF r
  <2> QED
    BY <1>0, <2>1
<1>4. ASSUME NEW w \in Workers, ReadCandidates(w) PROVE Asks
  <2> DEFINE S == EligibleActivities(db, request[w].group)
             r == [kind |-> "create", scope |-> request[w].scope,
                   group |-> request[w].group, candidates |-> S]
  <2>1. Ends(w) \/ (request' = [request EXCEPT ![w] = r] /\ r.kind \notin {"start", "insert"})
    BY <1>4 DEF ReadCandidates, Continues
  <2> HIDE DEF r
  <2> QED
    BY <1>0, <1>1, <2>1
<1>5. ASSUME NEW w \in Workers,
             \/ CreateQueue(w) \/ CreationFails(w) \/ StartCommits(w) \/ PremiumCommits(w)
             \/ StartConflicts(w)
      PROVE  Asks
  BY <1>1, <1>5 DEF CreateQueue, CreationFails, StartCommits, PremiumCommits, StartConflicts
<1> HIDE DEF Asks
<1>6. \/ UNCHANGED request \/ Asks
      \/ \E w \in Workers, sc \in Scopes, q \in QueueIds, a \in Activities :
           RequestStart(w, sc, q, a)
      \/ \E w \in Workers : FindOpen(w)
  BY <1>2, <1>3, <1>4, <1>5
  DEF Next, vars, PresentNext, Recreate, Skip, Complete, FallDue, Poll, EditActivity,
      MoveCategory, ReconcileJob, NewDay
<1> QED
  BY <1>6 DEF Asks

LEMMA NextKeepsLimitInv == LimitInv /\ [Next]_vars => LimitInv'
<1> SUFFICES ASSUME LimitInv, [Next]_vars PROVE LimitInv'
  OBVIOUS
<1>0. /\ SecondInv /\ SecondInv' /\ db \in Databases /\ edits \in 0 .. MaxEdits
      /\ day \in Days
      /\ request \in [Workers -> Requests]
      /\ edits' = 0 => edits = 0
  <2>1. SecondInv /\ SecondInv'
    BY NextKeepsSecondInv DEF LimitInv
  <2>2. db \in Databases /\ edits \in 0 .. MaxEdits /\ day \in Days
        /\ request \in [Workers -> Requests]
    BY <2>1 DEF SecondInv, IInv, TypeOK
  <2>3. edits' = edits \/ edits' = edits + 1
    BY OnlyEditsEdit DEF EditActivity
  <2> QED
    BY <2>1, <2>2, <2>3, BoundsAssumption
<1>1. SUFFICES ASSUME edits' = 0, edits = 0, FirstCategories, WithinLimits(db)
               PROVE  FirstCategories' /\ WithinLimits(db')
  BY <1>0 DEF LimitInv
<1>2. \/ NoStart(db, db') \/ StartsRequested \/ StartsPremium
  BY <1>0, <1>1, NextSteps DEF Stepped, StepStarts
<1>3. \A w \in Workers : request'[w].kind \in {"start", "insert"} =>
        request'[w].row.category = InitialCategory[request'[w].activity]
  <2> DEFINE Ok(r) == r.kind \in {"start", "insert"} =>
                        r.row.category = InitialCategory[r.activity]
  <2>1. \A w \in Workers : Ok(request[w])
    BY <1>1 DEF FirstCategories
  <2>2. CASE UNCHANGED request
    BY <2>1, <2>2
  <2>3. ASSUME NEW w \in Workers, NEW r, request' = [request EXCEPT ![w] = r],
               r.kind \notin {"start", "insert"}
        PROVE  \A v \in Workers : Ok(request'[v])
    BY <1>0, <2>1, <2>3
  <2>4. ASSUME NEW w \in Workers, NEW sc \in Scopes, NEW q \in QueueIds,
               NEW a \in Activities, RequestStart(w, sc, q, a)
        PROVE  \A v \in Workers : Ok(request'[v])
    <3>1. PICK r : /\ r.activity = a /\ r.row = db.activity[a]
                   /\ request' = [request EXCEPT ![w] = r]
      BY <2>4 DEF RequestStart, Accepts
    <3>2. Ok(r)
      BY <1>1, <3>1 DEF FirstCategories
    <3> HIDE DEF Ok
    <3> QED
      BY <1>0, <2>1, <3>1, <3>2
  <2>5. ASSUME NEW w \in Workers, FindOpen(w)
        PROVE  \A v \in Workers : Ok(request'[v])
    <3>1. PICK r : /\ r.activity = request[w].activity /\ r.row = request[w].row
                   /\ request' = [request EXCEPT ![w] = r]
      BY <2>5 DEF FindOpen, Continues
    <3>2. Ok(r)
      BY <2>1, <2>5, <3>1 DEF FindOpen
    <3> HIDE DEF Ok
    <3> QED
      BY <1>0, <2>1, <3>1, <3>2
  <2>6. \/ UNCHANGED request
        \/ \E w \in Workers : \E r : /\ request' = [request EXCEPT ![w] = r]
                                    /\ r.kind \notin {"start", "insert"}
        \/ \E w \in Workers, sc \in Scopes, q \in QueueIds, a \in Activities :
             RequestStart(w, sc, q, a)
        \/ \E w \in Workers : FindOpen(w)
    BY OnlyStartsAsk
  <2> HIDE DEF Ok
  <2>7. \A v \in Workers : Ok(request'[v])
    BY <2>1, <2>2, <2>3, <2>4, <2>5, <2>6
  <2> QED
    BY <2>7 DEF Ok
<1>4. ASSUME NoStart(db, db') PROVE FirstCategories' /\ WithinLimits(db')
  <2>1. FirstCategories'
    BY <1>1, <1>3, <1>4 DEF FirstCategories, NoStart
  <2>2. \A c \in Categories, n \in Days : OfCategory(db', n, c) \subseteq OfCategory(db, n, c)
    BY <1>4 DEF NoStart, OfCategory, FromQueue
  <2> QED
    BY <1>1, <2>1, <2>2, SameStartsKeepLimits
<1>5. ASSUME StartsPremium PROVE FirstCategories' /\ WithinLimits(db')
  <2>1. PICK a \in Activities : OneStart(db, db', None, a, db.activity[a].category)
    BY <1>5 DEF StartsPremium
  <2>2. db'.activity = db.activity
    BY <1>5 DEF StartsPremium
  <2>3. FirstCategories'
    BY <1>1, <1>3, <2>1, <2>2 DEF FirstCategories, OneStart
  <2>4. \A c \in Categories, n \in Days : OfCategory(db', n, c) \subseteq OfCategory(db, n, c)
    BY <2>1 DEF OneStart, OfCategory, FromQueue
  <2> QED
    BY <1>1, <2>3, <2>4, SameStartsKeepLimits
<1>6. ASSUME StartsRequested PROVE FirstCategories' /\ WithinLimits(db')
  <2>1. PICK w \in Workers :
          LET r == request[w]
          IN /\ r \in CheckedStarts /\ r.kind = "insert" /\ ItemIsAccepted(db, r)
             /\ OneStart(db, db', r.queue, r.activity, r.row.category)
             /\ db'.activity = [db.activity EXCEPT ![r.activity] = r.row]
    BY <1>6 DEF StartsRequested
  <2> DEFINE r == request[w]
             k == r.row.category
             a == r.activity
  <2>2. a \in Activities /\ k \in Categories /\ MaxDailyExecutions[k] \in Nat
    BY <2>1, CatalogAssumption DEF CheckedStarts, ActivityRows
  <2>3. k = InitialCategory[a]
    BY <1>1, <2>1 DEF FirstCategories
  <2>4. FirstCategories'
    BY <1>0, <1>1, <1>3, <2>1, <2>2, <2>3 DEF FirstCategories, OneStart, Databases
  <2>5. Cardinality(OfCategory(db, day, k)) < MaxDailyExecutions[k]
    <3> DEFINE S == OfCategory(db, day, k)
    <3>1. ~(CategoryStartedCount(db, k) >= MaxDailyExecutions[k])
      BY <2>1 DEF ItemIsAccepted, CategoryExhausted
    <3>2. CategoryStartedCount(db, k) = Cardinality(S)
      BY <1>0, <1>1, CountsTheSame
    <3>3. Cardinality(S) \in Nat
      BY ScheduleIdsAreFinite DEF OfCategory
    <3> HIDE DEF S, k
    <3> QED
      BY <2>2, <3>1, <3>2, <3>3 DEF S
  <2>6. OneStart(db, db', r.queue, a, k)
    BY <2>1
  <2> HIDE DEF k, a, r
  <2>7. PICK m \in ScheduleIds :
          /\ db'.schedule[m].category = k /\ db'.schedule[m].start = day
          /\ \A t \in ScheduleIds \ {m} :
               /\ db'.schedule[t].state = "none" <=> db.schedule[t].state = "none"
               /\ db'.schedule[t].queue = db.schedule[t].queue
               /\ db'.schedule[t].category = db.schedule[t].category
               /\ db'.schedule[t].start = db.schedule[t].start
    BY <2>6 DEF OneStart
  <2>8. \A c \in Categories, n \in Days :
          /\ OfCategory(db', n, c) \subseteq OfCategory(db, n, c) \cup {m}
          /\ c # k \/ n # day => OfCategory(db', n, c) \subseteq OfCategory(db, n, c)
    BY <2>7 DEF OfCategory, FromQueue
  <2>9. WithinLimits(db')
    BY <1>1, <2>5, <2>8, OneStartKeepsLimits
  <2> QED
    BY <2>4, <2>9
<1> QED
  BY <1>2, <1>4, <1>5, <1>6

(* The queue starts of a day never exceed the limit of their category, over *)
(* all scopes and request threads, while no activity is edited.             *)
THEOREM CategoryLimitHolds == Spec => []CategoryLimit
<1>1. Init => LimitInv
  <2> SUFFICES ASSUME Init PROVE LimitInv
    OBVIOUS
  <2>1. SecondInv
    BY InitGood, InitIsSound DEF IInv, SecondInv
  <2>2. /\ \A s \in ScheduleIds : db.schedule[s].state = "none"
        /\ \A a \in Activities : db.activity[a].category = InitialCategory[a]
        /\ \A w \in Workers : request[w] = NoRequest
    BY DEF Init, BlankSchedule
  <2>3. FirstCategories
    BY <2>2 DEF FirstCategories, NoRequest
  <2>4. ASSUME NEW c \in Categories, NEW n \in Days
        PROVE  Cardinality(OfCategory(db, n, c)) <= MaxDailyExecutions[c]
    <3>1. OfCategory(db, n, c) = {}
      BY <2>2 DEF OfCategory, FromQueue
    <3>2. MaxDailyExecutions[c] \in Nat
      BY CatalogAssumption
    <3> QED
      BY <3>1, <3>2, FS_EmptySet
  <2> QED
    BY <2>1, <2>3, <2>4 DEF LimitInv, WithinLimits
<1>2. LimitInv => CategoryLimit
  BY DEF LimitInv, WithinLimits, OfCategory, CategoryLimit
<1> QED
  BY <1>1, <1>2, NextKeepsLimitInv, PTL DEF Spec

=============================================================================
