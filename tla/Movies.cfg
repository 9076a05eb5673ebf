SPECIFICATION Spec
CONSTANTS
  Collections = {c1, c2}
  Movies = {m1, m2}
  Tiers = {"S"}
  RequestIds = {r1, r2}
  Clients = {k1, k2}
  Operations = {"draw", "dismiss", "accept", "progress", "tiers"}
  Editions = {"collection", "movie", "remove", "add"}
  MaxDraws = 2
  MaxEdits = 1
  InitialEntries <- SharedMovie
  InitialProgress <- NewOrSeen
  TierLimit <- OnePlace
SYMMETRY Interchangeable
INVARIANTS TypeOK ReservationsMatch ReservedIsUnwatched RatedIsWatched TierLimits
PROPERTIES NoLostUpdate LedgerIsFinal
CHECK_DEADLOCK FALSE
