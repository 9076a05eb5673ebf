------------------------ MODULE MovieImportJobs_proofs ------------------------
(***************************************************************************)
(* Proofs about MovieImportJobs, for any users, workers and bounds: a file *)
(* is saved exactly when its job is done, one worker at most holds a job,  *)
(* and a job never leaves the documented path.                             *)
(***************************************************************************)
EXTENDS MovieImportJobs, TLAPS

Busy(w) == worker[w].phase \notin {"idle", "stopped"}

(* A worker past its claim, perhaps with an answer it never got.            *)
Past(w)  == worker[w].phase \in {"claimed", "checked", "failing"}
Holds(w) == Past(w) /\ job[worker[w].job].status = Running(worker[w].read)

(* What a job can have become since a status of it was claimed.             *)
After(read) ==
  IF read = "queued_preview"
  THEN {"previewing", "ready", "queued_import", "importing", "done", "failed"}
  ELSE {"importing", "done", "failed"}

(* The inductive invariant.  A worker that lost the answer of its commit    *)
(* will still try to mark the job as failed: the job has moved on for good, *)
(* so the status the update repeats is never that of a newer claim.         *)
BusyHasJob ==
  \A w \in Workers : Busy(w) => worker[w].job \in JobIds /\ worker[w].read \in Queued
ClaimsShow  == \A w \in Workers : HasClaim(w) => Holds(w)
OneHolder   ==
  \A w, v \in Workers :
    Holds(w) /\ Holds(v) /\ worker[w].job = worker[v].job => w = v
NeverBefore ==
  \A w \in Workers : Past(w) => job[worker[w].job].status \in After(worker[w].read)
Claims == BusyHasJob /\ ClaimsShow /\ OneHolder /\ NeverBefore
IInv   == TypeOK /\ Claims /\ AppliedOnceDone

-----------------------------------------------------------------------------
LEMMA InitInv == Init => IInv
<1> SUFFICES ASSUME Init PROVE IInv
  OBVIOUS
<1> PICK u \in Users : (CHOOSE x \in Users : TRUE) = u
  BY ImportUsers
<1>1. TypeOK
  BY ImportBounds DEF Init, TypeOK, JobRows, WorkerStates, Idle, Statuses
<1>2. Claims
  BY DEF Init, Claims, BusyHasJob, ClaimsShow, OneHolder, NeverBefore, Busy, Past,
         Holds, HasClaim, Idle
<1>3. AppliedOnceDone
  BY DEF Init, AppliedOnceDone
<1> QED  BY <1>1, <1>2, <1>3 DEF IInv

(* Every step keeps the types.                                              *)
LEMMA NextTypes == IInv /\ [Next]_vars => TypeOK'
<1> SUFFICES ASSUME IInv, [Next]_vars PROVE TypeOK'
  OBVIOUS
<1> USE DEF IInv, TypeOK, JobRows, WorkerStates, Statuses, Queued, InProgress, Settled
<1>1. ASSUME NEW u \in Users, NEW j \in JobIds, EnqueuePreview(u, j) PROVE TypeOK'
  BY <1>1 DEF EnqueuePreview
<1>2. ASSUME NEW u \in Users, NEW j \in JobIds, Confirm(u, j) PROVE TypeOK'
  BY <1>2 DEF Confirm
<1>3. ASSUME NEW u \in Users, ChangePermission(u) PROVE TypeOK'
  BY <1>3, ImportBounds DEF ChangePermission
<1>4. ASSUME NEW w \in Workers, Pick(w) PROVE TypeOK'
  BY <1>4 DEF Pick, Waiting
<1>5. ASSUME NEW w \in Workers, Claim(w) PROVE TypeOK'
  <2>1. worker[w].job \in JobIds /\ worker[w].read \in Queued
    BY <1>5 DEF Claim, Claims, BusyHasJob, Busy
  <2>2. job' \in [JobIds -> JobRows]
    BY <1>5, <2>1 DEF Claim, Running
  <2>3. worker' \in [Workers -> WorkerStates]
    BY <1>5 DEF Claim, Moves, Idle
  <2> QED  BY <1>5, <2>2, <2>3 DEF Claim
<1>6. ASSUME NEW w \in Workers, CheckPermission(w) PROVE TypeOK'
  BY <1>6 DEF CheckPermission, Moves
<1>7. ASSUME NEW w \in Workers, Commit(w) PROVE TypeOK'
  <2>1. worker[w].job \in JobIds
    BY <1>7 DEF Commit, Claims, BusyHasJob, Busy
  <2>2. PICK clean \in BOOLEAN, answered \in BOOLEAN :
          /\ job' = Update(worker[w].job, Running(worker[w].read),
                           Result(worker[w].read, clean))
          /\ applied' = IF Saves(worker[w].read, clean)
                        THEN [applied EXCEPT ![worker[w].job] = @ + 1] ELSE applied
          /\ worker' = IF answered THEN [worker EXCEPT ![w] = Idle]
                       ELSE [worker EXCEPT ![w].phase = "failing"]
    BY <1>7 DEF Commit
  <2>3. job' \in [JobIds -> JobRows]
    BY <2>1, <2>2 DEF Update, Result
  <2>4. applied' \in [JobIds -> Nat]
    BY <2>1, <2>2
  <2>5. worker' \in [Workers -> WorkerStates]
    BY <2>2 DEF Idle
  <2> QED  BY <1>7, <2>3, <2>4, <2>5 DEF Commit
<1>8. ASSUME NEW w \in Workers, Raise(w) PROVE TypeOK'
  BY <1>8 DEF Raise, Moves
<1>9. ASSUME NEW w \in Workers, Fail(w) PROVE TypeOK'
  BY <1>9 DEF Fail, Update, Idle, Claims, BusyHasJob, Busy
<1>10. ASSUME NEW w \in Workers, Stop(w) PROVE TypeOK'
  BY <1>10, ImportBounds DEF Stop, Stopped
<1>11. ASSUME NEW w \in Workers, Restart(w) PROVE TypeOK'
  BY <1>11 DEF Restart, Idle
<1>12. ASSUME RecoverInterrupted PROVE TypeOK'
  BY <1>12 DEF RecoverInterrupted
<1>13. ASSUME UNCHANGED vars PROVE TypeOK'
  BY <1>13 DEF vars
<1> QED
  BY <1>1, <1>2, <1>3, <1>4, <1>5, <1>6, <1>7, <1>8, <1>9, <1>10, <1>11, <1>12, <1>13
     DEF Next, ProcessNext

(* The claims and the number of saves, step by step.                        *)
LEMMA NextClaims == IInv /\ [Next]_vars => Claims' /\ AppliedOnceDone'
<1> SUFFICES ASSUME IInv, [Next]_vars PROVE Claims' /\ AppliedOnceDone'
  OBVIOUS
<1> USE DEF IInv, TypeOK, JobRows, WorkerStates
<1> DEFINE Kept == Claims' /\ AppliedOnceDone'
<1>1. ASSUME NEW u \in Users, NEW j \in JobIds, EnqueuePreview(u, j) PROVE Kept
  <2>1. \A w \in Workers : Past(w) => worker[w].job # j
    BY <1>1 DEF EnqueuePreview, Fresh, Claims, NeverBefore, After
  <2>2. Claims'
    BY <1>1, <2>1 DEF EnqueuePreview, Claims, BusyHasJob, ClaimsShow, OneHolder,
                      NeverBefore, Busy, Past, Holds, HasClaim
  <2>3. AppliedOnceDone'
    BY <1>1 DEF EnqueuePreview, Fresh, AppliedOnceDone
  <2> QED  BY <2>2, <2>3
<1>2. ASSUME NEW u \in Users, NEW j \in JobIds, Confirm(u, j) PROVE Kept
  <2>1. \A w \in Workers : ~(Holds(w) /\ worker[w].job = j)
    BY <1>2 DEF Confirm, Confirmable, Holds, Running
  <2>2. \A w \in Workers : Past(w) /\ worker[w].job = j =>
          worker[w].read = "queued_preview"
    BY <1>2 DEF Confirm, Confirmable, Claims, NeverBefore, After, BusyHasJob, Busy,
                Past, Queued
  <2>3. \A w \in Workers : Holds(w)' <=> Holds(w)
    BY <1>2, <2>1 DEF Confirm, Past, Holds, Running, Claims, BusyHasJob, Busy
  <2>4. NeverBefore'
    BY <1>2, <2>2 DEF Confirm, Claims, NeverBefore, Past, After, BusyHasJob, Busy
  <2>5. Claims'
    BY <1>2, <2>3, <2>4 DEF Confirm, Claims, BusyHasJob, ClaimsShow, OneHolder, Busy,
                            HasClaim
  <2>6. AppliedOnceDone'
    BY <1>2 DEF Confirm, Confirmable, AppliedOnceDone
  <2> QED  BY <2>5, <2>6
<1>3. ASSUME UNCHANGED <<job, applied, worker>> PROVE Kept
  BY <1>3 DEF Claims, BusyHasJob, ClaimsShow, OneHolder, NeverBefore, Busy, Past,
              Holds, HasClaim, AppliedOnceDone
<1>4. ASSUME NEW w \in Workers, Pick(w) PROVE Kept
  <2>1. Claims'
    BY <1>4 DEF Pick, Waiting, Claims, BusyHasJob, ClaimsShow, OneHolder, NeverBefore,
                Busy, Past, Holds, HasClaim
  <2>2. AppliedOnceDone'
    BY <1>4 DEF Pick, AppliedOnceDone
  <2> QED  BY <2>1, <2>2
<1>5. ASSUME NEW w \in Workers, Claim(w) PROVE Kept
  <2> DEFINE j == worker[w].job
             read == worker[w].read
  <2>1. j \in JobIds /\ read \in Queued
    BY <1>5 DEF Claim, Claims, BusyHasJob, Busy
  <2>2. CASE ~Claimed(w)
    <3>1. job' = job /\ applied' = applied /\ worker' = [worker EXCEPT ![w] = Idle]
      BY <1>5, <2>2 DEF Claim
    <3>2. Claims'
      BY <3>1 DEF Idle, Claims, BusyHasJob, ClaimsShow, OneHolder, NeverBefore, Busy,
                  Past, Holds, HasClaim
    <3> QED  BY <3>1, <3>2 DEF AppliedOnceDone
  <2>3. CASE Claimed(w)
    <3>1. /\ job' = [job EXCEPT ![j].status = Running(read)]
          /\ worker' = [worker EXCEPT ![w].phase = "claimed"]
          /\ applied' = applied
      BY <1>5, <2>3 DEF Claim, Moves
    <3>2. job[j].status = read
      BY <2>3 DEF Claimed
    <3>3. \A v \in Workers : Past(v) /\ worker[v].job = j =>
            worker[v].read = "queued_preview" /\ read = "queued_import"
      BY <2>1, <3>2 DEF Claims, NeverBefore, After, BusyHasJob, Busy, Past, Queued
    <3>4. ~Past(w)
      BY <1>5 DEF Claim, Past
    <3>5. \A v \in Workers : v # w => (Holds(v)' <=> Holds(v))
      BY <2>1, <3>1, <3>2, <3>3 DEF Past, Holds, Running
    <3>6. \A v \in Workers : Holds(v) => worker[v].job # j
      BY <2>1, <3>2, <3>3 DEF Holds, Running
    <3>7. Holds(w)'
      BY <2>1, <3>1 DEF Past, Holds
    <3>8. BusyHasJob'
      BY <2>1, <3>1 DEF Claims, BusyHasJob, Busy
    <3>9. ClaimsShow'
      BY <3>1, <3>5, <3>7 DEF Claims, ClaimsShow, HasClaim
    <3>10. OneHolder'
      BY <3>1, <3>5, <3>6 DEF Claims, OneHolder
    <3>11. NeverBefore'
      BY <2>1, <3>1, <3>3 DEF Claims, NeverBefore, Past, After, Running, Queued
    <3>12. AppliedOnceDone'
      BY <2>1, <3>1, <3>2 DEF AppliedOnceDone, Queued, Running
    <3> QED  BY <3>8, <3>9, <3>10, <3>11, <3>12 DEF Claims
  <2> QED  BY <2>2, <2>3
<1>6. ASSUME NEW w \in Workers, CheckPermission(w) \/ Raise(w) PROVE Kept
  <2>1. /\ job' = job /\ applied' = applied
        /\ Past(w) /\ HasClaim(w)
        /\ \/ worker' = [worker EXCEPT ![w].phase = "checked"]
           \/ worker' = [worker EXCEPT ![w].phase = "failing"]
    BY <1>6 DEF CheckPermission, Raise, Moves, Past, HasClaim
  <2>2. \A v \in Workers : (Holds(v)' <=> Holds(v)) /\ (Past(v)' <=> Past(v))
    BY <2>1 DEF Past, Holds
  <2>3. Claims'
    BY <2>1, <2>2 DEF Claims, BusyHasJob, ClaimsShow, OneHolder, NeverBefore, Busy,
                      Past, HasClaim
  <2> QED  BY <2>1, <2>3 DEF AppliedOnceDone
<1>7. ASSUME NEW w \in Workers, Commit(w) PROVE Kept
  <2> DEFINE j == worker[w].job
             read == worker[w].read
  <2>1. /\ j \in JobIds /\ read \in Queued
        /\ job[j].status = Running(read)
        /\ Past(w) /\ Holds(w)
    BY <1>7 DEF Commit, Claims, BusyHasJob, Busy, ClaimsShow, HasClaim, Holds, Past
  <2>2. PICK clean \in BOOLEAN, answered \in BOOLEAN :
          /\ job' = Update(j, Running(read), Result(read, clean))
          /\ applied' = IF Saves(read, clean)
                        THEN [applied EXCEPT ![j] = @ + 1] ELSE applied
          /\ worker' = IF answered THEN [worker EXCEPT ![w] = Idle]
                       ELSE [worker EXCEPT ![w].phase = "failing"]
    BY <1>7 DEF Commit
  <2>3. job' = [job EXCEPT ![j].status = Result(read, clean)]
    BY <2>1, <2>2 DEF Update
  <2>4. /\ Result(read, clean) \in {"ready", "done", "failed"}
        /\ Result(read, clean) \in After(read)
        /\ Result(read, clean) = "done" <=> Saves(read, clean)
    BY <2>1 DEF Result, Saves, After, Queued
  <2>5. \A v \in Workers : v # w =>
          /\ worker'[v] = worker[v]
          /\ Holds(v) => worker[v].job # j
    BY <2>1, <2>2 DEF Claims, OneHolder
  <2>6. ~Holds(w)' /\ ~HasClaim(w)'
    BY <2>1, <2>2, <2>3, <2>4 DEF Holds, Past, HasClaim, Running, Idle
  <2>7. \A v \in Workers : v # w => (Holds(v)' <=> Holds(v))
    BY <2>1, <2>3, <2>4, <2>5 DEF Holds, Past, Running
  <2>8. BusyHasJob'
    BY <2>1, <2>2 DEF Claims, BusyHasJob, Busy, Idle
  <2>9. ClaimsShow'
    BY <2>5, <2>6, <2>7 DEF Claims, ClaimsShow, HasClaim
  <2>10. OneHolder'
    BY <2>5, <2>6, <2>7 DEF Claims, OneHolder
  <2>11. NeverBefore'
    <3> SUFFICES ASSUME NEW v \in Workers, Past(v)'
                 PROVE  job'[worker'[v].job].status \in After(worker'[v].read)
      BY DEF NeverBefore
    <3>1. CASE v = w
      BY <3>1, <2>1, <2>2, <2>3, <2>4 DEF Past, Idle
    <3>2. CASE v # w
      <4>1. Past(v) /\ worker'[v] = worker[v]
        BY <2>5, <3>2 DEF Past
      <4>2. /\ worker[v].job \in JobIds /\ worker[v].read \in Queued
            /\ job[worker[v].job].status \in After(worker[v].read)
        BY <4>1 DEF Claims, NeverBefore, BusyHasJob, Busy, Past
      <4>3. CASE worker[v].job # j
        BY <2>1, <2>3, <4>1, <4>2, <4>3
      <4>4. CASE worker[v].job = j
        <5>1. worker[v].read = "queued_preview" \/ read = "queued_import"
          BY <2>1, <4>2, <4>4 DEF After, Running, Queued
        <5>2. After(read) \subseteq After(worker[v].read)
          BY <2>1, <4>2, <5>1 DEF After, Queued
        <5> QED  BY <2>1, <2>3, <2>4, <4>1, <4>4, <5>2
      <4> QED  BY <4>3, <4>4
    <3> QED  BY <3>1, <3>2
  <2>12. AppliedOnceDone'
    BY <2>1, <2>2, <2>3, <2>4 DEF AppliedOnceDone, Running
  <2> QED  BY <2>8, <2>9, <2>10, <2>11, <2>12 DEF Claims
<1>8. ASSUME NEW w \in Workers, Fail(w) PROVE Kept
  <2> DEFINE j == worker[w].job
             read == worker[w].read
  <2>1. /\ j \in JobIds /\ read \in Queued /\ Past(w)
        /\ job' = Update(j, Running(read), "failed")
        /\ worker' = [worker EXCEPT ![w] = Idle]
        /\ applied' = applied
    BY <1>8 DEF Fail, Claims, BusyHasJob, Busy, Past
  <2>2. ~Past(w)' /\ ~HasClaim(w)' /\ ~Busy(w)'
    BY <2>1 DEF Past, HasClaim, Busy, Idle
  <2>3. CASE ~Holds(w)
    <3>1. job' = job
      BY <2>1, <2>3 DEF Holds, Update
    <3> QED
      BY <2>1, <2>2, <3>1 DEF Claims, BusyHasJob, ClaimsShow, OneHolder, NeverBefore,
                              Busy, Past, Holds, HasClaim, AppliedOnceDone
  <2>4. CASE Holds(w)
    <3>1. job' = [job EXCEPT ![j].status = "failed"]
      BY <2>1, <2>4 DEF Holds, Update
    <3>2. \A v \in Workers : v # w =>
            worker'[v] = worker[v] /\ (Holds(v) => worker[v].job # j)
      BY <2>1, <2>4 DEF Claims, OneHolder
    <3>3. \A v \in Workers : v # w => (Holds(v)' <=> Holds(v))
      <4> SUFFICES ASSUME NEW v \in Workers, v # w PROVE Holds(v)' <=> Holds(v)
        OBVIOUS
      <4>1. Past(v)' <=> Past(v)
        BY <3>2 DEF Past
      <4>2. CASE Past(v) /\ worker[v].job = j
        BY <2>1, <3>1, <3>2, <4>2 DEF Holds, Running
      <4>3. CASE Past(v) /\ worker[v].job # j
        <5>1. worker[v].job \in JobIds
          BY <4>3 DEF Claims, BusyHasJob, Busy, Past
        <5>2. job'[worker[v].job] = job[worker[v].job]
          BY <2>1, <3>1, <4>3, <5>1
        <5> QED  BY <3>2, <4>1, <5>2 DEF Holds
      <4> QED  BY <4>1, <4>2, <4>3 DEF Holds
    <3>4. BusyHasJob' /\ ClaimsShow' /\ OneHolder'
      BY <2>1, <2>2, <3>2, <3>3 DEF Claims, BusyHasJob, ClaimsShow, OneHolder, Busy,
                                    HasClaim, Holds
    <3>5. NeverBefore'
      <4> SUFFICES ASSUME NEW v \in Workers, Past(v)'
                   PROVE  job'[worker'[v].job].status \in After(worker'[v].read)
        BY DEF NeverBefore
      <4>1. Past(v) /\ worker'[v] = worker[v]
        BY <2>2, <3>2 DEF Past
      <4>2. /\ worker[v].job \in JobIds
            /\ job[worker[v].job].status \in After(worker[v].read)
        BY <4>1 DEF Claims, NeverBefore, BusyHasJob, Busy, Past
      <4>3. job'[worker[v].job].status \in {job[worker[v].job].status, "failed"}
        BY <2>1, <3>1, <4>2
      <4> QED  BY <4>1, <4>2, <4>3 DEF After
    <3>6. AppliedOnceDone'
      BY <2>1, <2>4, <3>1 DEF AppliedOnceDone, Holds, Running
    <3> QED  BY <3>4, <3>5, <3>6 DEF Claims
  <2> QED  BY <2>3, <2>4
<1>9. ASSUME NEW w \in Workers, Stop(w) \/ Restart(w) PROVE Kept
  <2>1. /\ job' = job /\ applied' = applied
        /\ \/ worker' = [worker EXCEPT ![w] = Idle]
           \/ worker' = [worker EXCEPT ![w] = Stopped]
    BY <1>9 DEF Stop, Restart
  <2>2. Claims'
    <3>1. ~Past(w)' /\ ~HasClaim(w)' /\ ~Busy(w)'
      BY <2>1 DEF Idle, Stopped, Past, HasClaim, Busy
    <3>2. \A v \in Workers : v # w => worker'[v] = worker[v]
      BY <2>1
    <3>3. \A v \in Workers : v # w =>
            /\ Past(v)' <=> Past(v)
            /\ Holds(v)' <=> Holds(v)
      BY <2>1, <3>2 DEF Past, Holds
    <3>4. BusyHasJob' /\ ClaimsShow' /\ NeverBefore'
      BY <2>1, <3>1, <3>2, <3>3 DEF Claims, BusyHasJob, ClaimsShow, NeverBefore, Busy,
                                    HasClaim
    <3>5. OneHolder'
      BY <3>1, <3>2, <3>3 DEF Claims, OneHolder, Holds
    <3> QED  BY <3>4, <3>5 DEF Claims
  <2> QED  BY <2>1, <2>2 DEF AppliedOnceDone
<1>10. ASSUME RecoverInterrupted PROVE Kept
  <2>1. \A w \in Workers : ~Past(w)' /\ ~HasClaim(w)' /\ ~Busy(w)'
    BY <1>10 DEF RecoverInterrupted, Past, HasClaim, Busy
  <2>2. Claims'
    BY <2>1 DEF Claims, BusyHasJob, ClaimsShow, OneHolder, NeverBefore, Holds
  <2>3. AppliedOnceDone'
    BY <1>10 DEF RecoverInterrupted, AppliedOnceDone, InProgress
  <2> QED  BY <2>2, <2>3
<1> HIDE DEF Kept
<1>11. Kept
  BY <1>1, <1>2, <1>3, <1>4, <1>5, <1>6, <1>7, <1>8, <1>9, <1>10
     DEF Next, ProcessNext, ChangePermission, vars
<1> QED  BY <1>11 DEF Kept

LEMMA Invariance == Spec => []IInv
<1>1. IInv /\ [Next]_vars => IInv'
  BY NextTypes, NextClaims DEF IInv
<1> QED  BY InitInv, <1>1, PTL DEF Spec

-----------------------------------------------------------------------------
(* Every row, process and counter has its type.                             *)
THEOREM ImportTypes == Spec => []TypeOK
  BY Invariance, PTL DEF IInv

(* A file is saved once when its job is done, and not at all otherwise.     *)
THEOREM SavedOnceWhenDone == Spec => []AppliedOnceDone
  BY Invariance, PTL DEF IInv

(* One live worker at most has a job in its hands.                          *)
THEOREM OneWorkerPerJob == Spec => []ClaimedOnce
<1>1. IInv => ClaimedOnce
  BY DEF IInv, Claims, ClaimsShow, OneHolder, ClaimedOnce, Holds
<1> QED  BY <1>1, Invariance, PTL

(* A job never leaves the documented path, whoever moves it.                *)
THEOREM JobsFollowThePath == Spec => DocumentedPath
<1> DEFINE Follows == \A j \in JobIds :
                        \/ job'[j].status = job[j].status
                        \/ <<job[j].status, job'[j].status>> \in Path
<1>1. ASSUME IInv, [Next]_vars PROVE Follows
  <2> USE <1>1 DEF IInv, TypeOK
  <2>1. ASSUME NEW u \in Users, NEW j \in JobIds,
               EnqueuePreview(u, j) \/ Confirm(u, j)
        PROVE  Follows
    BY <2>1 DEF EnqueuePreview, Fresh, Confirm, Confirmable, Path, JobRows
  <2>2. ASSUME NEW w \in Workers, Claim(w) PROVE Follows
    <3>1. worker[w].job \in JobIds /\ worker[w].read \in Queued
      BY <2>2 DEF Claim, Claims, BusyHasJob, Busy
    <3> QED  BY <2>2, <3>1 DEF Claim, Claimed, Running, Queued, Path, JobRows
  <2>3. ASSUME NEW w \in Workers, NEW status \in {"ready", "done", "failed"},
               worker[w].job \in JobIds, worker[w].read \in Queued,
               status = "ready" => worker[w].read = "queued_preview",
               status = "done" => worker[w].read = "queued_import",
               job' = Update(worker[w].job, Running(worker[w].read), status)
        PROVE  Follows
    BY <2>3 DEF Update, Running, Queued, Path, JobRows
  <2>4. ASSUME NEW w \in Workers, Commit(w) PROVE Follows
    <3>1. worker[w].job \in JobIds /\ worker[w].read \in Queued
      BY <2>4 DEF Commit, Claims, BusyHasJob, Busy
    <3>2. PICK clean \in BOOLEAN :
            job' = Update(worker[w].job, Running(worker[w].read),
                          Result(worker[w].read, clean))
      BY <2>4 DEF Commit
    <3> HIDE DEF Follows
    <3> QED  BY <2>3, <3>1, <3>2 DEF Result, Queued
  <2>5. ASSUME NEW w \in Workers, Fail(w) PROVE Follows
    <3>1. worker[w].job \in JobIds /\ worker[w].read \in Queued
      BY <2>5 DEF Fail, Claims, BusyHasJob, Busy
    <3> HIDE DEF Follows
    <3> QED  BY <2>3, <2>5, <3>1 DEF Fail
  <2>6. ASSUME RecoverInterrupted PROVE Follows
    BY <2>6 DEF RecoverInterrupted, InProgress, Path, JobRows
  <2>7. ASSUME job' = job PROVE Follows
    BY <2>7
  <2> HIDE DEF Follows
  <2> QED
    BY <2>1, <2>2, <2>4, <2>5, <2>6, <2>7
       DEF Next, ProcessNext, ChangePermission, Pick, CheckPermission, Raise, Stop,
           Restart, vars
<1>2. IInv /\ [Next]_vars => [Follows]_vars
  BY <1>1
<1> QED  BY <1>2, Invariance, PTL DEF Spec, DocumentedPath

=============================================================================
