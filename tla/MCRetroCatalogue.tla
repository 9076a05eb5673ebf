-------------------------- MODULE MCRetroCatalogue --------------------------
(* Instances of RetroCatalogue for TLC: editions of a small catalogue.      *)
EXTENDS RetroCatalogue, TLC

CONSTANTS fourth, fifth, snes, n64, one, two, g1, g2, plain, edited

Entry(generation, order, slug, name, games) ==
  [generation |-> generation, order |-> order, slug |-> slug, name |-> name, games |-> games]

\* Two platforms of one generation.
Base == <<Entry(fourth, 1, snes, one, g1 :> plain), Entry(fourth, 1, n64, two, g2 :> plain)>>
\* The second one is in a generation of its own, with its game changed.
Split == <<Entry(fourth, 1, snes, one, g1 :> plain), Entry(fifth, 2, n64, two, g2 :> edited)>>
\* The generation is renamed and a game is dropped.
Renamed == <<Entry(fifth, 1, snes, one, g2 :> plain)>>
\* The names of the two platforms are exchanged.
Swapped == <<Entry(fourth, 1, snes, two, g1 :> plain), Entry(fourth, 1, n64, one, g2 :> plain)>>
\* A name goes over to the other platform, in two generations.
Reused == <<Entry(fifth, 2, snes, one, g1 :> plain), Entry(fourth, 1, n64, one, g2 :> plain)>>
\* Two generations with one name.
Twice == <<Entry(fourth, 2, snes, one, g1 :> plain), Entry(fourth, 1, n64, two, g2 :> plain)>>
\* A game listed twice, and a generation that is listed twice.
Broken == <<Entry(fourth, 1, snes, one, g1 :> plain), Entry(fourth, 1, n64, two, g1 :> plain)>>
Reopened == <<Entry(fourth, 1, snes, one, g1 :> plain), Entry(fifth, 1, n64, two, g2 :> plain)>>

Symmetry == Permutations(Clients)

Editions == {Base, Split, Renamed, Swapped, Reused, Twice, Broken, Reopened}
=============================================================================
