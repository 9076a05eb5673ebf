------------------------- MODULE MCDirectExecutions -------------------------
(* DirectExecutions for TLC.  Requests, keys, contexts and durations are    *)
(* only compared, so every permutation of them is a symmetry.               *)
EXTENDS DirectExecutions, TLC

Symmetry == UNION {Permutations(S) : S \in {Requests, Keys, Contexts, Durations}}
=============================================================================
