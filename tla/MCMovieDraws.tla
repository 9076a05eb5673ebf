---------------------------- MODULE MCMovieDraws ----------------------------
(* Instances of MovieDraws for TLC: which movies are in which collection,   *)
(* the capacity of the tiers and the requests that may be interchanged.     *)
EXTENDS MovieDraws, TLC

AllEntries == Collections \X Movies

(* One movie is in both collections, the other one in a single collection.  *)
SharedMovie ==
  {e \in AllEntries : e[2] = CHOOSE m \in Movies : TRUE}
    \cup {e \in AllEntries : e[1] = CHOOSE c \in Collections : TRUE}

\* Nothing was seen yet, or all of it was.
NotSeen    == [m \in Movies |-> [status |-> "unwatched", version |-> 0]]
AllWatched == [m \in Movies |-> [status |-> "watched", version |-> 1]]
NewOrSeen  == {NotSeen, AllWatched}
OnlySeen   == {AllWatched}

OnePlace == [t \in Tiers |-> 1]

Interchangeable == Permutations(RequestIds) \cup Permutations(Clients)

=============================================================================
