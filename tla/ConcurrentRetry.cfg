SPECIFICATION Spec
CONSTANTS
  Requests = {r1, r2}
  Keys = {k1, k2}
  Contexts = {period, game}
  Durations = {short}
  MaxRows = 3
  MaxChanges = 1
  Unset = Unset
SYMMETRY Symmetry
PROPERTY RetryFindsItsExecution
