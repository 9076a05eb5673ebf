---------------------------- MODULE MCWeeklyGoals ----------------------------
(* An instance of WeeklyGoals for TLC: one goal, edited by clients that may *)
(* be interchanged.                                                         *)
EXTENDS WeeklyGoals, TLC

CONSTANT work

OneGoal  == {<<"minutes", work>>}
Symmetry == Permutations(Clients)
=============================================================================
