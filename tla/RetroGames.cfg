CONSTANTS
  fourth = fourth
  fifth = fifth
  snes = snes
  n64 = n64
  one = one
  two = two
  g1 = g1
  g2 = g2
  plain = plain
  edited = edited
  Generations = {fourth, fifth}
  Orders = {1, 2}
  Slugs = {snes, n64}
  Names = {one, two}
  Keys = {g1, g2}
  Details = {plain, edited}
  Catalogues <- Editions
  Played = {g1}
  Clients = {k1, k2}
  MaxEdits = 1
  MaxVersion = 3
  None = None
SPECIFICATION Spec
SYMMETRY Symmetry
INVARIANTS TypeOK ReimportRewritesSharedNames PlanTellsTheImport ListsPartition
PROPERTY ReplacedWasRead
