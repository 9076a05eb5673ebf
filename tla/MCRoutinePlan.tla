---------------------------- MODULE MCRoutinePlan ----------------------------
(* Instances of RoutinePlan for TLC: weeks of two days of two slots.        *)
EXTENDS RoutinePlan, TLC

CONSTANTS b1, b2

At(start, end) == [shift |-> 0, start |-> start, end |-> end]
On(weekday, start, end) == [weekday |-> weekday, at |-> At(start, end)]

\* A morning, and a night that reaches into the next day's morning.
Nightly == b1 :> On(1, 0, 1) @@ b2 :> On(1, 1, 3)
\* Two mornings, the second of which the night of the other week reaches into.
Mornings == b1 :> On(0, 0, 1) @@ b2 :> On(1, 0, 1)
\* A week that overlaps with itself.
Broken == b1 :> On(0, 0, 1) @@ b2 :> On(1, 1, 3)

SomeWeeks == {Nightly, Mornings, Broken}
Moves == {[shift |-> -1, start |-> 1, end |-> 2], [shift |-> 0, start |-> 0, end |-> 1],
          [shift |-> 1, start |-> 0, end |-> 3]}
=============================================================================
