CONSTANTS
  key = key
  anonymous = anonymous
  todos = todos
  work = work
  c1 = c1
  c2 = c2
  a1 = a1
  a2 = a2
  w1 = w1
  w2 = w2
  Scopes = {key, anonymous}
  Anonymous = anonymous
  Groups = {todos}
  DefaultGroup = todos
  Categories = {c1, c2}
  Activities = {a1}
  Workers = {w1, w2}
  InitialGroup <- OneGroup
  Moved = {}
  EditedTo <- NotEdited
  MaxDailyExecutions <- Tight
  MaxDailyMinutes <- NoLimit
  Duration <- Lengths
  InitialCategory <- OwnCategory
  PremiumOn <- OnlyPremium
  MaxQueues = 3
  MaxSchedules = 2
  MaxDay = 1
  MaxEdits = 0
SPECIFICATION Spec
SYMMETRY WorkerSymmetry
INVARIANTS OneOpenExecution OneActiveQueue CategoryLimit FactsMatch ItemsMatchExecutions
