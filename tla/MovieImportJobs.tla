--------------------------- MODULE MovieImportJobs ---------------------------
(***************************************************************************)
(* The durable queue of movie imports: the admin uploads a CSV, a worker   *)
(* process previews it, the admin confirms it, a worker imports it.        *)
(*                                                                         *)
(* A worker takes a job in three transactions: it reads the oldest queued  *)
(* one, claims it with an update that repeats the status it read, and then *)
(* imports and writes the result at once.  Between any two of them other   *)
(* workers run, requests are served and the process may die.               *)
(*                                                                         *)
(* Abstracted: the file (an import is clean or has errors, and a preview   *)
(* does not tell which) and the report.                                    *)
(***************************************************************************)
EXTENDS Integers, FiniteSets

CONSTANTS
  Users, Superusers,   \* staff of the admin
  Workers,             \* process_movie_imports processes
  MaxJobs, MaxStops, MaxChanges   \* bounds of the instance

JobIds == 1 .. MaxJobs   \* in the order of created_at
None   == 0

ASSUME ImportBounds ==
  MaxJobs \in Nat /\ MaxStops \in Nat /\ MaxChanges \in Nat
ASSUME ImportUsers == Superusers \subseteq Users /\ Users # {}

VARIABLES
  job,       \* MovieImportJob rows
  applied,   \* how many times the file of a job was saved in the catalogue
  worker,    \* where each process is in process_next
  allowed,   \* the users for whom can_import holds
  stops,     \* processes killed so far
  changes    \* permissions granted or revoked so far

vars == <<job, applied, worker, allowed, stops, changes>>

-----------------------------------------------------------------------------
Queued     == {"queued_preview", "queued_import"}
InProgress == {"previewing", "importing"}
Settled    == {"ready", "done", "failed"}
Statuses   == {"none"} \cup Queued \cup InProgress \cup Settled

JobRows == [status : Statuses, owner : Users]
WorkerStates ==
  [phase : {"stopped", "idle", "picked", "claimed", "checked", "failing"},
   job : JobIds \cup {None}, read : Queued \cup {"none"}]

Idle    == [phase |-> "idle", job |-> None, read |-> "none"]
Stopped == [phase |-> "stopped", job |-> None, read |-> "none"]

\* Variant for a mutant: only confirmed jobs are looked for.
WaitingImport == {j \in JobIds : job[j].status = "queued_import"}
Waiting == {j \in JobIds : job[j].status \in Queued}
Fresh   == {j \in JobIds : job[j].status = "none"}

(* The status a claim writes, from the one that was read.                   *)
\* Variant for a mutant: a status that is not one of the choices.
RunningAlways(read) == "processing"
Running(read) == IF read = "queued_preview" THEN "previewing" ELSE "importing"

HasClaim(w) == worker[w].phase \in {"claimed", "checked"}
Moves(w, phase) == worker' = [worker EXCEPT ![w].phase = phase]

(* filter(pk=job.pk, status=expected).update(status=status)                 *)
\* Variant for a mutant: the update does not repeat the status.
UpdateAlways(j, expected, status) == [job EXCEPT ![j].status = status]
Update(j, expected, status) ==
  IF job[j].status = expected THEN [job EXCEPT ![j].status = status] ELSE job

-----------------------------------------------------------------------------
(* Requests of the admin.                                                   *)

EnqueuePreview(u, j) ==
  /\ u \in allowed
  /\ j \in Fresh
  /\ job' = [job EXCEPT ![j] = [status |-> "queued_preview", owner |-> u]]
  /\ UNCHANGED <<applied, worker, allowed, stops, changes>>

(* Any number of clicks, of the owner or of a superuser.                    *)
Confirmable(j) == job[j].status = "ready"
Confirm(u, j) ==
  /\ u \in allowed
  /\ u = job[j].owner \/ u \in Superusers
  /\ Confirmable(j)
  /\ job' = [job EXCEPT ![j].status = "queued_import"]
  /\ UNCHANGED <<applied, worker, allowed, stops, changes>>

ChangePermission(u) ==
  /\ changes < MaxChanges
  /\ allowed' = IF u \in allowed THEN allowed \ {u} ELSE allowed \cup {u}
  /\ changes' = changes + 1
  /\ UNCHANGED <<job, applied, worker, stops>>

-----------------------------------------------------------------------------
(* process_next.                                                            *)

Pick(w) ==
  /\ worker[w].phase = "idle"
  /\ \E j \in Waiting :
       /\ \A k \in Waiting : j <= k
       /\ worker' = [worker EXCEPT ![w] =
            [phase |-> "picked", job |-> j, read |-> job[j].status]]
  /\ UNCHANGED <<job, applied, allowed, stops, changes>>

(* The update that claims, or finds that another worker was faster.         *)
\* Variant for a mutant: the claim does not repeat the status that was read.
ClaimedAny(w) == TRUE
Claimed(w) == job[worker[w].job].status = worker[w].read
Claim(w) ==
  LET j == worker[w].job
  IN /\ worker[w].phase = "picked"
     /\ IF Claimed(w)
        THEN /\ job' = [job EXCEPT ![j].status = Running(worker[w].read)]
             /\ Moves(w, "claimed")
        ELSE job' = job /\ worker' = [worker EXCEPT ![w] = Idle]
     /\ UNCHANGED <<applied, allowed, stops, changes>>

(* The transaction asks for the permissions again ...                       *)
CheckPermission(w) ==
  /\ worker[w].phase = "claimed"
  /\ Moves(w, IF job[worker[w].job].owner \in allowed THEN "checked" ELSE "failing")
  /\ UNCHANGED <<job, applied, allowed, stops, changes>>

(* ... and commits the import with its result.  The rows are saved only by  *)
(* an import without errors.  The commit may succeed and its answer be lost.*)
Result(read, clean) ==
  IF ~clean THEN "failed" ELSE IF read = "queued_preview" THEN "ready" ELSE "done"
Saves(read, clean) == clean /\ read = "queued_import"
Commit(w) ==
  LET j == worker[w].job
      read == worker[w].read
  IN /\ worker[w].phase = "checked"
     /\ \E clean \in BOOLEAN, answered \in BOOLEAN :
          /\ job' = Update(j, Running(read), Result(read, clean))
          /\ applied' = IF Saves(read, clean) THEN [applied EXCEPT ![j] = @ + 1]
                        ELSE applied
          /\ worker' = IF answered THEN [worker EXCEPT ![w] = Idle]
                       ELSE [worker EXCEPT ![w].phase = "failing"]
     /\ UNCHANGED <<allowed, stops, changes>>

(* An exception rolls the transaction back.                                 *)
Raise(w) ==
  /\ worker[w].phase = "checked"
  /\ Moves(w, "failing")
  /\ UNCHANGED <<job, applied, allowed, stops, changes>>

Fail(w) ==
  /\ worker[w].phase = "failing"
  /\ job' = Update(worker[w].job, Running(worker[w].read), "failed")
  /\ worker' = [worker EXCEPT ![w] = Idle]
  /\ UNCHANGED <<applied, allowed, stops, changes>>

-----------------------------------------------------------------------------
(* Processes.  A job whose worker was stopped stays in progress until an    *)
(* operator, with every worker stopped, marks it as failed.                 *)

Stop(w) ==
  /\ stops < MaxStops
  /\ worker[w].phase # "stopped"
  /\ worker' = [worker EXCEPT ![w] = Stopped]
  /\ stops' = stops + 1
  /\ UNCHANGED <<job, applied, allowed, changes>>

Restart(w) ==
  /\ worker[w].phase = "stopped"
  /\ worker' = [worker EXCEPT ![w] = Idle]
  /\ UNCHANGED <<job, applied, allowed, stops, changes>>

RecoverInterrupted ==
  /\ \A w \in Workers : worker[w].phase = "stopped"
  /\ \E j \in JobIds : job[j].status \in InProgress
  /\ job' = [j \in JobIds |-> IF job[j].status \in InProgress
                               THEN [job[j] EXCEPT !.status = "failed"] ELSE job[j]]
  /\ UNCHANGED <<applied, worker, allowed, stops, changes>>

-----------------------------------------------------------------------------
Init ==
  /\ job = [j \in JobIds |-> [status |-> "none", owner |-> CHOOSE u \in Users : TRUE]]
  /\ applied = [j \in JobIds |-> 0]
  /\ worker = [w \in Workers |-> Idle]
  /\ allowed = Users
  /\ stops = 0
  /\ changes = 0

ProcessNext(w) ==
  Pick(w) \/ Claim(w) \/ CheckPermission(w) \/ Commit(w) \/ Raise(w) \/ Fail(w)

Next ==
  \/ \E u \in Users, j \in JobIds : EnqueuePreview(u, j) \/ Confirm(u, j)
  \/ \E u \in Users : ChangePermission(u)
  \/ \E w \in Workers : ProcessNext(w) \/ Stop(w) \/ Restart(w)
  \/ RecoverInterrupted

(* A worker is a loop around process_next, and its container is restarted   *)
(* when it dies; nobody has to upload, confirm or recover.                  *)
Fairness ==
  \A w \in Workers : WF_vars(ProcessNext(w)) /\ WF_vars(Restart(w))

Spec     == Init /\ [][Next]_vars
FairSpec == Spec /\ Fairness

-----------------------------------------------------------------------------
(* Properties.                                                              *)

(* Every row, process and counter has its type.                             *)
TypeOK ==
  /\ job \in [JobIds -> JobRows]
  /\ applied \in [JobIds -> Nat]
  /\ worker \in [Workers -> WorkerStates]
  /\ allowed \subseteq Users
  /\ stops \in 0 .. MaxStops
  /\ changes \in 0 .. MaxChanges

(* A file is saved once when its job is done, and a job that failed, was    *)
(* interrupted or waits has saved nothing, through lost answers, repeated   *)
(* confirmations, stopped workers and recoveries.                           *)
AppliedOnceDone ==
  \A j \in JobIds : applied[j] = IF job[j].status = "done" THEN 1 ELSE 0

(* A job is in the hands of one live worker at most, and while it is its    *)
(* status says so.                                                          *)
ClaimedOnce ==
  /\ \A w \in Workers : HasClaim(w) =>
       job[worker[w].job].status = Running(worker[w].read)
  /\ \A w, v \in Workers :
       HasClaim(w) /\ HasClaim(v) /\ worker[w].job = worker[v].job => w = v

(* A job only follows the documented order, and its result is final: what   *)
(* was confirmed has been previewed, and what is done or failed stays so.   *)
Path ==
  {<<"none", "queued_preview">>, <<"queued_preview", "previewing">>,
   <<"previewing", "ready">>, <<"ready", "queued_import">>,
   <<"queued_import", "importing">>, <<"importing", "done">>,
   <<"previewing", "failed">>, <<"importing", "failed">>}
DocumentedPath ==
  [][\A j \in JobIds :
       \/ job'[j].status = job[j].status
       \/ <<job[j].status, job'[j].status>> \in Path]_vars

(* A queued job is processed, unless the worker that claimed it is stopped. *)
Interrupted(j) ==
  /\ job[j].status \in InProgress
  /\ stops > 0
  /\ ~\E w \in Workers : worker[w].job = j
QueuedIsProcessed ==
  \A j \in JobIds :
    job[j].status \in Queued ~> (job[j].status \in Settled \/ Interrupted(j))

=============================================================================
