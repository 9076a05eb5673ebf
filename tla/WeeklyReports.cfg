CONSTANTS
  todos = todos
  work = work
  c1 = c1
  Groups = {todos, work}
  Categories = {c1}
  Goals <- SomeGoals
  WeekLength = 2
  MaxTime = 3
  None = None
  MaxSchedules = 2
  Lengths = {1}
  BatchSize = 1
  MaxRuns = 1
SPECIFICATION Spec
INVARIANTS TypeOK BackfillLeavesNoGap
PROPERTIES TotalsMatchExecutions ProgressOnlyGrows
