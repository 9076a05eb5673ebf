SPECIFICATION Spec
CONSTANTS
  Requests = {r1, r2, r3}
  Keys = {k1, k2, k3}
  Contexts = {period, game}
  Durations = {short, long}
  MaxRows = 4
  MaxChanges = 1
  Unset = Unset
SYMMETRY Symmetry
INVARIANTS TypeOK
PROPERTIES ImplementsService PlannedRetryFindsItsExecution
