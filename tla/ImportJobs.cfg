SPECIFICATION FairSpec
CONSTANTS
  Users = {"ana", "bia"}
  Superusers = {"bia"}
  Workers = {"w1", "w2"}
  MaxJobs = 2
  MaxStops = 2
  MaxChanges = 1
INVARIANTS TypeOK AppliedOnceDone ClaimedOnce
PROPERTIES QueuedIsProcessed
CHECK_DEADLOCK FALSE
