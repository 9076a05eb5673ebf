CONSTANTS
  key = key
  anonymous = anonymous
  todos = todos
  work = work
  c1 = c1
  c2 = c2
  a1 = a1
  a2 = a2
  w1 = w1
  w2 = w2
  Scopes = {key}
  Anonymous = anonymous
  Groups = {todos, work}
  DefaultGroup = todos
  Categories = {c1, c2}
  Activities = {a1, a2}
  Workers = {w1}
  InitialGroup <- GroupOf
  Moved = {}
  EditedTo <- ToTheOther
  MaxDailyExecutions <- Generous
  MaxDailyMinutes <- NoLimit
  Duration <- Lengths
  InitialCategory <- OwnCategory
  PremiumOn <- PremiumByTurns
  MaxQueues = 3
  MaxSchedules = 1
  MaxDay = 1
  MaxEdits = 1
SPECIFICATION Spec
PROPERTY ItemsStayAtHome
