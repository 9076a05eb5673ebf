SPECIFICATION Spec
CONSTANTS
  Collections = {c1}
  Movies = {m1, m2}
  Tiers = {"S"}
  RequestIds = {r1, r2, r3}
  Clients = {k1}
  Operations = {"progress", "tiers"}
  Editions = {"remove", "add"}
  MaxDraws = 1
  MaxEdits = 2
  InitialEntries <- AllEntries
  InitialProgress <- OnlySeen
  TierLimit <- OnePlace
SYMMETRY Interchangeable
INVARIANT TierLimits
CHECK_DEADLOCK FALSE
