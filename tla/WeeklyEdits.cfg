CONSTANTS
  work = work
  Metrics = {"minutes"}
  Groups = {work}
  Categories = {}
  GoalKeys <- OneGoal
  Targets = {1, 2}
  Clients = {k1, k2}
  WeekLength = 1
  MaxTime = 2
  MaxVersion = 3
  None = None
SPECIFICATION Spec
SYMMETRY Symmetry
INVARIANT EditsSayWhatHolds
