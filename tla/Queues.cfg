CONSTANTS
  key = key
  anonymous = anonymous
  todos = todos
  work = work
  c1 = c1
  c2 = c2
  a1 = a1
  a2 = a2
  w1 = w1
  w2 = w2
  Scopes = {key}
  Anonymous = anonymous
  Groups = {todos, work}
  DefaultGroup = todos
  Categories = {c1, c2}
  Activities = {a1, a2}
  Workers = {w1}
  InitialGroup <- GroupOf
  Moved = {c2}
  EditedTo <- OneEditEach
  MaxDailyExecutions <- Generous
  MaxDailyMinutes <- TodosLimited
  Duration <- Lengths
  InitialCategory <- OwnCategory
  PremiumOn <- PremiumByTurns
  MaxQueues = 3
  MaxSchedules = 1
  MaxDay = 2
  MaxEdits = 1
SPECIFICATION FairSpec
INVARIANTS TypeOK InactiveQueuesDrained ReviewRepeatsSkips PositionMatches NextRepairsQueue
PROPERTIES HistoryIsFinal  OverdueIsCompleted
