-------------------------- MODULE MCActivityQueues --------------------------
(* Instances of ActivityQueues for TLC.  Model values come from the .cfg;   *)
(* the functions over them are built here.                                  *)
EXTENDS ActivityQueues, TLC

CONSTANTS key, anonymous, todos, work, c1, c2, a1, a2, w1, w2

\* The groups of the categories, as first saved.
OneGroup == [c \in Categories |-> todos]
GroupOf  == c1 :> todos @@ c2 :> work

\* The limits of the categories and of the groups.
Generous     == [c \in Categories |-> 2]
Tight        == c1 :> 1 @@ c2 :> 2
NoLimit      == [g \in Groups |-> 0]
TodosLimited == [g \in Groups |-> 3]

\* The activities.
Lengths        == [a \in Activities |-> IF a = a1 THEN 1 ELSE 2]
OwnCategory    == [a \in Activities |-> IF a = a1 THEN c1 ELSE c2]
NotEdited      == [a \in Activities |-> {}]
OneEditEach    == a1 :> {[active |-> FALSE, category |-> c1]}
                    @@ a2 :> {[active |-> TRUE, category |-> c1]}
ToTheOther     == a1 :> {[active |-> TRUE, category |-> c2]} @@ a2 :> {}

\* The days an activity has a premium period on.
PremiumByTurns  == [n \in Days |-> IF n = 1 THEN {a2} ELSE {a1}]
OnlyPremium     == [n \in Days |-> Activities]

\* The workers are interchangeable.
WorkerSymmetry == Permutations(Workers)
=============================================================================
