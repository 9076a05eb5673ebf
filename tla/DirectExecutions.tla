-------------------------- MODULE DirectExecutions --------------------------
(***************************************************************************)
(* Direct executions of one scope: premium periods and retro games started *)
(* or continued outside the queues, with the idempotency keys that make a  *)
(* retry safe.                                                             *)
(*                                                                         *)
(* The other modules take a service as one step.  Here a request is the    *)
(* sequence of statements of its transaction under READ COMMITTED: every   *)
(* statement sees what is committed when it runs, a row lock or a unique   *)
(* index makes it wait for another transaction, and nothing a transaction  *)
(* writes is seen before it commits.                                       *)
(*                                                                         *)
(* start_premium and start_retro take the same steps; a context is a       *)
(* period or a game, and its lock stands for the rows select_related locks *)
(* with it, from the activity up to the group.  Abstracted: what else a    *)
(* payload holds (a duration stands for it) and the facts a completion     *)
(* records.  Requests of other scopes would only hold context locks.       *)
(***************************************************************************)
EXTENDS Integers, Sequences, FiniteSets

CONSTANTS
  Requests,    \* HTTP requests, each handled once by some server thread
  Keys,        \* values of request_id
  Contexts,    \* premium periods and retro games
  Durations,
  MaxRows,     \* bound on the executions of the instance
  MaxChanges,  \* bound on the contexts closed and executions deleted
  Unset        \* an empty column

ASSUME DirectBounds == MaxRows \in Nat \ {0} /\ MaxChanges \in Nat

VARIABLES
  rows,      \* Schedule: one record for every execution ever committed
  records,   \* ExecutionIdempotency: by key, or Unset
  closed,    \* contexts ended or deactivated
  overdue,   \* executions whose expected end is past
  planned,   \* whether the scope has a RoutinePlan row
  tx,        \* the transaction of every request
  owner      \* row locks

vars == <<rows, records, closed, overdue, planned, tx, owner>>

-----------------------------------------------------------------------------
Ids    == 1 .. MaxRows
None   == 0
IdsOrNone == Ids \cup {None}

Plan       == <<"plan", 0>>
Context(c) == <<"context", c>>
Row(e)     == <<"row", e>>
Locks == {Plan} \cup {Context(c) : c \in Contexts} \cup {Row(e) : e \in Ids}

Payloads == [context : Contexts, duration : Durations, from : IdsOrNone]
Execs    == [payload : Payloads, key : Keys,
             state : {"running", "completed", "deleted"}, version : {1, 2}]
Uses     == [payload : Payloads, execution : Ids]
Told     == [key : Keys, payload : Payloads, execution : Ids]

Refusals == {"mismatch", "gone", "inactive", "stale", "other payload",
             "active", "conflict", "not found", "error"}
Outcomes == {"none", "ok"} \cup Refusals
Steps == {"unsent", "plan", "lookup", "context", "predecessor", "active",
          "overdue", "completing", "insert", "fallback", "record", "done"}

Transactions ==
  [pc : Steps, kind : {"start", "complete"}, key : Keys \cup {Unset},
   payload : Payloads \cup {Unset}, expected : 0 .. 2,
   seen : IdsOrNone, completed : IdsOrNone, inserted : BOOLEAN,
   outcome : Outcomes, reply : IdsOrNone]

ASSUME UnsetIsNoValue ==
  Unset \notin Requests \cup Keys \cup Payloads \cup Uses \cup Told

Blank == [pc |-> "unsent", kind |-> "start", key |-> Unset, payload |-> Unset,
          expected |-> 0, seen |-> None, completed |-> None,
          inserted |-> FALSE, outcome |-> "none", reply |-> None]

Present(e) == e \in DOMAIN rows /\ rows[e].state # "deleted"
Running(e) == e \in DOMAIN rows /\ rows[e].state = "running"
Open == {e \in DOMAIN rows : Running(e)}
(* The key was used with this payload, for an execution that is still there.*)
HasExecution(r) ==
  LET record == records[tx[r].key] IN
  /\ record # Unset
  /\ record.payload = tx[r].payload
  /\ Present(record.execution)
Successors(e) == {s \in DOMAIN rows : Present(s) /\ rows[s].payload.from = e}

At(r, pc)     == tx[r].pc = pc
GoTo(r, pc)   == tx' = [tx EXCEPT ![r].pc = pc]
Available(r, lock) == owner[lock] \in {Unset, r}
Take(r, lock) == owner' = [owner EXCEPT ![lock] = r]

(* The end of a transaction; a refusal rolls everything back.               *)
Ends(r, outcome, e) ==
  /\ tx' = [tx EXCEPT ![r] = [@ EXCEPT !.pc = "done", !.outcome = outcome,
                              !.reply = e, !.seen = None, !.completed = None,
                              !.inserted = FALSE]]
  /\ owner' = [l \in Locks |-> IF owner[l] = r THEN Unset ELSE owner[l]]
Answers(r, e) == Ends(r, "ok", e)
Replays(r, e) == Ends(r, "ok", e) /\ UNCHANGED <<rows, records, closed, overdue, planned>>
Refuses(r, code) ==
  Ends(r, code, None) /\ UNCHANGED <<rows, records, closed, overdue, planned>>

(* complete_schedule changes an execution once; a second call finds it done. *)
Completed(e) == [rows EXCEPT ![e].state = "completed", ![e].version = @ + 1]
\* Variant for a mutant: every completion counts a version.
FinishAgain(e) == Completed(e)
Finish(e) == IF Running(e) THEN Completed(e) ELSE rows

-----------------------------------------------------------------------------
(* A request arrives.  A continuation takes its context and the version the *)
(* client knows from the predecessor, read before the transaction.          *)

StartDirect(r, k, c, d) ==
  /\ At(r, "unsent")
  /\ tx' = [tx EXCEPT ![r].pc = "plan", ![r].key = k,
              ![r].payload = [context |-> c, duration |-> d, from |-> None]]
  /\ UNCHANGED <<rows, records, closed, overdue, planned, owner>>

Continue(r, k, e, d) ==
  /\ At(r, "unsent")
  /\ Present(e)
  /\ tx' = [tx EXCEPT ![r].pc = "plan", ![r].key = k,
              ![r].payload = [context |-> rows[e].payload.context,
                              duration |-> d, from |-> e],
              ![r].expected = rows[e].version]
  /\ UNCHANGED <<rows, records, closed, overdue, planned, owner>>

(* A complete of the client, or a read that finds an overdue execution.     *)
CompleteOrRead(r, e) ==
  /\ At(r, "unsent")
  /\ Running(e)
  /\ tx' = [tx EXCEPT ![r].pc = "overdue", ![r].kind = "complete", ![r].seen = e]
  /\ UNCHANGED <<rows, records, closed, overdue, planned, owner>>

-----------------------------------------------------------------------------
(* start_premium and start_retro.                                           *)

\* Variant for a mutant: the plan is read without a lock.
ReadPlan(r) ==
  /\ At(r, "plan")
  /\ GoTo(r, "lookup")
  /\ UNCHANGED <<rows, records, closed, overdue, planned, owner>>
LockPlan(r) ==
  /\ At(r, "plan")
  /\ IF planned THEN owner[Plan] = Unset /\ Take(r, Plan)
                ELSE UNCHANGED owner
  /\ GoTo(r, "lookup")
  /\ UNCHANGED <<rows, records, closed, overdue, planned>>

FindRecord(r) ==
  LET record == records[tx[r].key] IN
  /\ At(r, "lookup")
  /\ \/ /\ record = Unset
        /\ GoTo(r, "context")
        /\ UNCHANGED <<rows, records, closed, overdue, planned, owner>>
     \/ record # Unset /\ record.payload # tx[r].payload /\ Refuses(r, "mismatch")
     \/ HasExecution(r) /\ Replays(r, record.execution)
     \/ /\ record # Unset /\ record.payload = tx[r].payload
        /\ ~Present(record.execution)
        /\ Refuses(r, "gone")

\* Variant for a mutant: the period or game is read without a lock.
ReadContext(r) ==
  LET c == tx[r].payload.context IN
  /\ At(r, "context")
  /\ \/ c \in closed /\ Refuses(r, "inactive")
     \/ /\ c \notin closed
        /\ GoTo(r, IF tx[r].payload.from = None THEN "active" ELSE "predecessor")
        /\ UNCHANGED <<rows, records, closed, overdue, planned, owner>>
LockContext(r) ==
  LET c == tx[r].payload.context IN
  /\ At(r, "context")
  /\ Available(r, Context(c))
  /\ \/ /\ c \in closed
        /\ Refuses(r, "inactive")
     \/ /\ c \notin closed
        /\ Take(r, Context(c))
        /\ GoTo(r, IF tx[r].payload.from = None THEN "active" ELSE "predecessor")
        /\ UNCHANGED <<rows, records, closed, overdue, planned>>

(* The predecessor is locked and checked; a continuation that exists        *)
(* already is the answer, and is recorded under the new key as well.        *)
Follows(r, e) == rows[e].state = "completed" /\ rows[e].version = tx[r].expected

Recorded(r, e) == [records EXCEPT ![tx[r].key] =
                     [payload |-> tx[r].payload, execution |-> e]]

Adopt(r, s) ==
  LET same == rows[s].payload.duration = tx[r].payload.duration
      used == records[tx[r].key] # Unset IN
  \/ ~same /\ Refuses(r, "other payload")
  \/ same /\ used /\ Refuses(r, "error")
  \/ /\ same /\ ~used
     /\ Answers(r, s)
     /\ records' = Recorded(r, s)
     /\ UNCHANGED <<rows, closed, overdue, planned>>

CheckPredecessor(r) ==
  LET e == tx[r].payload.from IN
  /\ At(r, "predecessor")
  /\ Available(r, Row(e))
  /\ \/ ~Present(e) /\ Refuses(r, "not found")
     \/ Present(e) /\ ~Follows(r, e) /\ Refuses(r, "stale")
     \/ /\ Present(e) /\ Follows(r, e)
        /\ Successors(e) = {}
        /\ Take(r, Row(e))
        /\ GoTo(r, "active")
        /\ UNCHANGED <<rows, records, closed, overdue, planned>>
     \/ /\ Present(e) /\ Follows(r, e)
        /\ \E s \in Successors(e) : Adopt(r, s)

(* get_active_schedule: an overdue execution is completed on the way.       *)
ReadActive(r) ==
  /\ At(r, "active")
  /\ \/ /\ Open = {}
        /\ GoTo(r, "insert")
        /\ UNCHANGED <<rows, records, closed, overdue, planned, owner>>
     \/ \E e \in Open \ overdue : Refuses(r, "active")
     \/ \E e \in Open \cap overdue :
          /\ tx' = [tx EXCEPT ![r].pc = "overdue", ![r].seen = e]
          /\ UNCHANGED <<rows, records, closed, overdue, planned, owner>>

(* complete_schedule locks the execution and then its activity.             *)
LockExecution(r) ==
  LET e == tx[r].seen IN
  /\ At(r, "overdue")
  /\ Available(r, Row(e))
  /\ \/ ~Present(e) /\ Refuses(r, "not found")
     \/ /\ Present(e)
        /\ Take(r, Row(e))
        /\ GoTo(r, "completing")
        /\ UNCHANGED <<rows, records, closed, overdue, planned>>

CompleteSchedule(r) ==
  LET e == tx[r].seen
      c == rows[e].payload.context IN
  /\ At(r, "completing")
  /\ Available(r, Context(c))
  /\ \/ /\ tx[r].kind = "complete"
        /\ Answers(r, e)
        /\ rows' = Finish(e)
        /\ UNCHANGED <<records, closed, overdue, planned>>
     \/ /\ tx[r].kind = "start"
        /\ Take(r, Context(c))
        /\ tx' = [tx EXCEPT ![r].pc = "insert",
                            ![r].completed = IF Running(e) THEN e ELSE None]
        /\ UNCHANGED <<rows, records, closed, overdue, planned>>

(* The insert waits for transactions that wrote the same index entries and  *)
(* have not ended: unique_open_schedule_per_scope and continued_from.       *)
Undecided(r) ==
  {q \in Requests \ {r} : tx[q].inserted \/ tx[q].completed # None}
Duplicates(r) ==
  (Open \ {tx[r].completed})
    \cup IF tx[r].payload.from = None THEN {} ELSE Successors(tx[r].payload.from)

Insert(r) ==
  /\ At(r, "insert")
  /\ Undecided(r) = {}
  /\ \/ /\ Duplicates(r) = {}
        /\ Len(rows) < MaxRows
        /\ tx' = [tx EXCEPT ![r].pc = "record", ![r].inserted = TRUE]
     \/ /\ Duplicates(r) # {}
        /\ GoTo(r, "fallback")
  /\ UNCHANGED <<rows, records, closed, overdue, planned, owner>>

(* except IntegrityError, after the savepoint.                              *)
Fallback(r) ==
  LET open == Open \ {tx[r].completed}
      next == IF tx[r].payload.from = None THEN {} ELSE Successors(tx[r].payload.from)
  IN
  /\ At(r, "fallback")
  /\ \/ HasExecution(r) /\ Replays(r, records[tx[r].key].execution)
     \/ ~HasExecution(r) /\ open # {} /\ Refuses(r, "active")
     \/ /\ ~HasExecution(r) /\ open = {}
        /\ \/ \E s \in next : Replays(r, s)
           \/ next = {} /\ Refuses(r, "conflict")

NewExecution(r) == [payload |-> tx[r].payload, key |-> tx[r].key,
                    state |-> "running", version |-> 1]
Settled(r) == IF tx[r].completed = None THEN rows ELSE Completed(tx[r].completed)

(* History, progress and the idempotency record, and the commit.  A key     *)
(* used meanwhile breaks the transaction: the handler that would answer     *)
(* with its execution can no longer query.                                  *)
CommitStart(r) ==
  /\ At(r, "record")
  /\ \/ records[tx[r].key] # Unset /\ Refuses(r, "error")
     \/ /\ records[tx[r].key] = Unset
        /\ rows' = Append(Settled(r), NewExecution(r))
        /\ records' = Recorded(r, Len(rows) + 1)
        /\ Answers(r, Len(rows) + 1)
        /\ UNCHANGED <<closed, overdue, planned>>

-----------------------------------------------------------------------------
(* Around the requests.                                                     *)

(* The database ends one of two transactions that wait for each other.      *)
Wanted(r) ==
  {l \in Locks :
     \/ At(r, "plan") /\ planned /\ l = Plan
     \/ At(r, "context")     /\ l = Context(tx[r].payload.context)
     \/ At(r, "predecessor") /\ l = Row(tx[r].payload.from)
     \/ At(r, "overdue")     /\ l = Row(tx[r].seen)
     \/ At(r, "completing")  /\ l = Context(rows[tx[r].seen].payload.context)}
WaitsFor(r, q) ==
  /\ q # r
  /\ \/ \E l \in Wanted(r) : owner[l] = q
     \/ At(r, "insert") /\ q \in Undecided(r)
DeadlockVictim(r) ==
  /\ \E q \in Requests : WaitsFor(r, q) /\ WaitsFor(q, r)
  /\ Refuses(r, "error")

Elapse(e) ==
  /\ Running(e) /\ e \notin overdue
  /\ overdue' = overdue \cup {e}
  /\ UNCHANGED <<rows, records, closed, planned, tx, owner>>

(* The end of a period, or a game made inactive: an update of a locked row. *)
Deleted == {e \in DOMAIN rows : rows[e].state = "deleted"}
CanChange == Cardinality(closed) + Cardinality(Deleted) < MaxChanges

CloseContext(c) ==
  /\ CanChange
  /\ c \notin closed
  /\ owner[Context(c)] = Unset
  /\ closed' = closed \cup {c}
  /\ UNCHANGED <<rows, records, overdue, planned, tx, owner>>

(* The admin deletes an execution nothing continues; its record stays.      *)
DeleteExecution(e) ==
  /\ CanChange
  /\ Present(e)
  /\ Successors(e) = {}
  /\ owner[Row(e)] = Unset
  /\ rows' = [rows EXCEPT ![e].state = "deleted"]
  /\ UNCHANGED <<records, closed, overdue, planned, tx, owner>>

Finished ==
  /\ \A r \in Requests : At(r, "done")
  /\ UNCHANGED vars

-----------------------------------------------------------------------------
(* An earlier execution, completed and recorded under its key.              *)
Earlier == [payload : [context : Contexts, duration : Durations, from : {None}],
            key : Keys, state : {"completed"}, version : {2}]

Init ==
  /\ \/ rows = <<>> /\ records = [k \in Keys |-> Unset]
     \/ \E e \in Earlier :
          /\ rows = <<e>>
          /\ records = [k \in Keys |-> IF k # e.key THEN Unset
                                       ELSE [payload |-> e.payload, execution |-> 1]]
  /\ planned \in BOOLEAN
  /\ closed = {} /\ overdue = {}
  /\ tx = [r \in Requests |-> Blank]
  /\ owner = [l \in Locks |-> Unset]

Arrive(r) ==
  \/ \E k \in Keys, c \in Contexts, d \in Durations : StartDirect(r, k, c, d)
  \/ \E k \in Keys, e \in DOMAIN rows, d \in Durations : Continue(r, k, e, d)
  \/ \E e \in DOMAIN rows : CompleteOrRead(r, e)

Proceed(r) ==
  \/ LockPlan(r)
  \/ FindRecord(r)
  \/ LockContext(r)
  \/ CheckPredecessor(r)
  \/ ReadActive(r)
  \/ LockExecution(r)
  \/ CompleteSchedule(r)
  \/ Insert(r)
  \/ Fallback(r)
  \/ CommitStart(r)
  \/ DeadlockVictim(r)

Next ==
  \/ \E r \in Requests : Arrive(r) \/ Proceed(r)
  \/ \E e \in DOMAIN rows : Elapse(e)
  \/ \E c \in Contexts : CloseContext(c)
  \/ \E e \in DOMAIN rows : DeleteExecution(e)
  \/ Finished

Spec == Init /\ [][Next]_vars

-----------------------------------------------------------------------------
TypeOK ==
  /\ rows \in Seq(Execs) /\ Len(rows) <= MaxRows
  /\ records \in [Keys -> Uses \cup {Unset}]
  /\ closed \subseteq Contexts
  /\ overdue \subseteq Ids
  /\ planned \in BOOLEAN
  /\ tx \in [Requests -> Transactions]
  /\ owner \in [Locks -> Requests \cup {Unset}]

(* A scope has one open execution at most, although a start looks for an     *)
(* open one long before it inserts and other contexts are not locked.       *)
OneOpenExecution == \A e, f \in Open : e = f

(* A key starts one execution at most, also when retries looked the key up  *)
(* at the same time, and when the execution was deleted since.              *)
KeyStartsOnce == \A e, f \in DOMAIN rows : rows[e].key = rows[f].key => e = f

Started(r) == tx[r].kind = "start" /\ tx[r].outcome = "ok"

(* Whatever path a request took to its answer, its key is recorded with its *)
(* payload and that execution, so any later retry gives the same answer.    *)
RepliesAreRecorded ==
  \A r \in Requests : Started(r) =>
    records[tx[r].key] = [payload |-> tx[r].payload, execution |-> tx[r].reply]

(* The execution that is answered is one of the context, duration and       *)
(* predecessor asked for, also when another request started it.             *)
ReplyIsWhatWasAsked ==
  \A r \in Requests : Started(r) => rows[tx[r].reply].payload = tx[r].payload

(* An execution is never committed in a period that has ended or for a game *)
(* made inactive since the start checked it.                                *)
NoStartAfterEnd ==
  [][\A e \in DOMAIN rows' \ DOMAIN rows :
       rows'[e].payload.context \notin closed]_vars

(* A request is never refused when its key is recorded with the same        *)
(* payload and the execution is still there (SPEC-014, Execucao e           *)
(* idempotencia).  The lock of the plan, taken before the key is looked up, *)
(* makes it true of the scopes that have a plan.                            *)
Refused(r) ==
  /\ tx[r].kind = "start"
  /\ tx[r].outcome = "none" /\ tx'[r].outcome \in Refusals

RetryFindsItsExecution ==
  [][\A r \in Requests : Refused(r) => ~HasExecution(r)]_vars

PlannedRetryFindsItsExecution ==
  [][planned => \A r \in Requests : Refused(r) => ~HasExecution(r)]_vars

-----------------------------------------------------------------------------
(* All the statements, locks and retries amount to the service of           *)
(* ExecutionService: what was recorded and answered, without the            *)
(* transactions that are still under way.                                   *)
Executions ==
  [e \in DOMAIN rows |-> [payload |-> rows[e].payload, key |-> rows[e].key,
                          state |-> rows[e].state]]
Replies ==
  [r \in Requests |->
     IF Started(r) THEN [key |-> tx[r].key, payload |-> tx[r].payload,
                         execution |-> tx[r].reply]
                   ELSE Unset]

Service == INSTANCE ExecutionService
  WITH executions <- Executions, answers <- records, replies <- Replies,
       due <- overdue

(* A start never leaves two executions open nor cuts off one that is not    *)
(* due, never begins in a context that has ended nor continues twice, and   *)
(* every answer is the one its key stands for: what premium_execution.py    *)
(* and retro_execution.py do step by step can be told as single steps.      *)
ImplementsService == Service!Spec
=============================================================================
