----------------------------- MODULE WeeklyGoals -----------------------------
(***************************************************************************)
(* The weekly goals of one scope and their edits.  A goal keeps one        *)
(* revision per week it was edited in; in any week the latest revision     *)
(* that is not later holds.                                                *)
(*                                                                         *)
(* The views capture the week of a request before its transaction, so a    *)
(* request may commit in a later week than the one it edits, after         *)
(* requests that started later.                                            *)
(*                                                                         *)
(* Abstracted: scopes (every query filters by one), dates (a week is       *)
(* WeekLength ticks) and the flag of a goal for all groups, which no edit  *)
(* reads (WeeklyProgress has it).                                          *)
(***************************************************************************)
EXTENDS Integers, Sequences, FiniteSets, FiniteSetsExt

CONSTANTS
  Metrics, Groups, Categories,
  GoalKeys,      \* the pairs of a metric and a destination that are asked for
  Targets,
  Clients,
  WeekLength,
  MaxTime, MaxVersion,   \* bounds of the instance
  None           \* no row, no value

ASSUME GoalBounds == MaxTime \in Nat /\ MaxVersion \in Nat \ {0}
ASSUME WeekAssumption == WeekLength \in Nat \ {0}
ASSUME KeysAssumption == GoalKeys \subseteq Metrics \X (Groups \cup Categories)
ASSUME NoneAssumption ==
  None \notin Targets /\ None \notin BOOLEAN /\ None \notin [target : Targets, active : BOOLEAN]

VARIABLES
  now,
  goal,           \* WeeklyGoal rows with their WeeklyGoalRevision rows
  request,        \* what each client has going on
  edits           \* history: the changes made to each goal, oldest first

vars == <<now, goal, request, edits>>

-----------------------------------------------------------------------------
Weeks   == 0 .. MaxTime
Holding == [target : Targets, active : BOOLEAN]

current_week(time) == time \div WeekLength

GoalRows ==
  [version : 0 .. MaxVersion, revisions : [Weeks -> Holding \cup {None}]]
NoGoal ==
  [version |-> 0, revisions |-> [w \in Weeks |-> None]]

Exists(k) == goal[k].version > 0

(* The weeks of the revisions that hold in week w or held before it.        *)
RevisedBy(k, w) == {v \in Weeks : v <= w /\ goal[k].revisions[v] # None}

goals_for_week(k, w) == goal[k].revisions[Max(RevisedBy(k, w))]

(* The changes of a PATCH: at least one of the two fields.                  *)
Changes ==
  [target : Targets \cup {None}, active : BOOLEAN \cup {None}]
    \ {[target |-> None, active |-> None]}

(* data.get(field, previous.field)                                          *)
Replace(change, previous) ==
  [target |-> IF change.target = None THEN previous.target ELSE change.target,
   active |-> IF change.active = None THEN previous.active ELSE change.active]

Requests ==
  [step : {"create"}, key : GoalKeys, week : Weeks, target : Targets]
    \cup [step : {"edit"}, key : GoalKeys, week : Weeks,
          expected_version : 1 .. MaxVersion, change : Changes]
    \cup [step : {"read"}, key : GoalKeys, version : 1 .. MaxVersion]
    \cup {[step |-> "idle"]}
Idle == [step |-> "idle"]

Set(c, r) == request' = [request EXCEPT ![c] = r]

(* A revision of week w is written and the version moves.                   *)
\* Variant for a mutant: the revision that holds is overwritten in place.
WriteInPlace(k, w, holding) ==
  [goal[k] EXCEPT !.version = @ + 1,
                  !.revisions[IF RevisedBy(k, w) = {} THEN w ELSE Max(RevisedBy(k, w))]
                    = holding]
Write(k, w, holding) ==
  [goal[k] EXCEPT !.version = @ + 1, !.revisions[w] = holding]

Save(k, w, change, row) ==
  /\ goal' = [goal EXCEPT ![k] = row]
  /\ edits' = [edits EXCEPT ![k] = Append(@, [week |-> w, change |-> change])]

-----------------------------------------------------------------------------
(* Requests.                                                                *)

(* POST: the week is read first.                                            *)
AskCreate(c, k, t) ==
  /\ request[c] = Idle
  /\ Set(c, [step |-> "create", key |-> k, week |-> current_week(now),
             target |-> t])
  /\ UNCHANGED <<now, goal, edits>>

(* The unique constraint leaves one goal per metric and destination; the    *)
(* others get goal_already_exists.                                          *)
create_goal(c) ==
  LET r == request[c]
      initial == [target |-> r.target, active |-> TRUE]
  IN /\ r.step = "create"
     /\ IF Exists(r.key) THEN UNCHANGED <<goal, edits>>
          ELSE Save(r.key, r.week, initial, Write(r.key, r.week, initial))
     /\ Set(c, Idle)
     /\ UNCHANGED now

(* A client learns the version it will name in its edit, in an instance     *)
(* with room for one more.                                                  *)
Retrieve(c, k) ==
  /\ request[c] = Idle
  /\ Exists(k) /\ goal[k].version < MaxVersion
  /\ RevisedBy(k, current_week(now)) # {}
  /\ Set(c, [step |-> "read", key |-> k, version |-> goal[k].version])
  /\ UNCHANGED <<now, goal, edits>>

AskUpdate(c, change) ==
  /\ request[c].step = "read"
  /\ Set(c, [step |-> "edit", key |-> request[c].key, week |-> current_week(now),
             expected_version |-> request[c].version, change |-> change])
  /\ UNCHANGED <<now, goal, edits>>

Stale(r) == goal[r.key].version # r.expected_version

(* PATCH, under the lock of the goal: goal_version_conflict, or a revision  *)
(* of the captured week.  invalid_goal is refused too.                      *)
update_goal(c) ==
  LET r == request[c]
      holding == Replace(r.change, goals_for_week(r.key, r.week))
  IN /\ r.step = "edit"
     /\ IF Stale(r) \/ RevisedBy(r.key, r.week) = {}
          THEN UNCHANGED <<goal, edits>>
          ELSE Save(r.key, r.week, r.change, Write(r.key, r.week, holding))
     /\ Set(c, Idle)
     /\ UNCHANGED now

Tick ==
  /\ now < MaxTime
  /\ now' = now + 1
  /\ UNCHANGED <<goal, request, edits>>

-----------------------------------------------------------------------------
Init ==
  /\ now = 0
  /\ goal = [k \in GoalKeys |-> NoGoal]
  /\ request = [c \in Clients |-> Idle]
  /\ edits = [k \in GoalKeys |-> <<>>]

Next ==
  \/ Tick
  \/ \E c \in Clients, k \in GoalKeys, t \in Targets : AskCreate(c, k, t)
  \/ \E c \in Clients : create_goal(c)
  \/ \E c \in Clients, k \in GoalKeys : Retrieve(c, k)
  \/ \E c \in Clients, change \in Changes : AskUpdate(c, change)
  \/ \E c \in Clients : update_goal(c)

Spec == Init /\ [][Next]_vars

-----------------------------------------------------------------------------
(* Properties.                                                              *)

TypeOK ==
  /\ now \in 0 .. MaxTime
  /\ goal \in [GoalKeys -> GoalRows]
  /\ request \in [Clients -> Requests]
  /\ \A k \in GoalKeys : Len(edits[k]) = goal[k].version

(* In any week each field of a goal is what the last edit said that set it, *)
(* among the edits of that week or an earlier one: an edit reaches its own  *)
(* week and the later ones and leaves the earlier ones and the fields it    *)
(* does not name alone, and no request that captured its week earlier and   *)
(* commits later undoes it (weekly_goals.py:64-81).                         *)
Sets(k, w, field) ==
  {i \in DOMAIN edits[k] : edits[k][i].week <= w /\ edits[k][i].change[field] # None}
LastSet(k, w, field) == edits[k][Max(Sets(k, w, field))].change[field]

EditsSayWhatHolds ==
  \A k \in GoalKeys, w \in Weeks :
    (\E i \in DOMAIN edits[k] : edits[k][i].week <= w) =>
      goals_for_week(k, w)
        = [target |-> LastSet(k, w, "target"), active |-> LastSet(k, w, "active")]

=============================================================================
