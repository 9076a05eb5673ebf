-------------------------- MODULE MCWeeklyProgress --------------------------
(* An instance of WeeklyProgress for TLC: a goal of each kind.              *)
EXTENDS WeeklyProgress, TLC

CONSTANTS todos, work, c1

Goal(metric, destination, all) ==
  [metric |-> metric, destination |-> destination, is_all_groups |-> all]

SomeGoals == {Goal("minutes", todos, TRUE), Goal("minutes", work, FALSE),
              Goal("sessions", c1, FALSE)}
=============================================================================
