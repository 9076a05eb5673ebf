CONSTANTS
  b1 = b1
  b2 = b2
  Blocks = {b1, b2}
  WeekLength = 2
  Slots = 2
  Weeks <- SomeWeeks
  Template <- Nightly
  Replacements <- Moves
  None = None
  Cancelled = Cancelled
  MaxDay = 5
  LastToday = 3
  MaxVersion = 4
SPECIFICATION Spec
INVARIANTS TypeOK AgendaReadable
PROPERTY PastIsKept
CHECK_DEADLOCK FALSE
