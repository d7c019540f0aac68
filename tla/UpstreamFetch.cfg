CONSTANTS
  r1 = r1
  r2 = r2
  Revision = {r1, r2}
  Fetcher = {f1, f2, f3}
  NotSha = notsha
  None = none
  Locks <- MCLocks
  MaxEdits = 2
  MaxRemovals = 1
SPECIFICATION FairSpec
INVARIANTS OwnTree SourceIsReviewed
PROPERTIES RunsEnd
CHECK_DEADLOCK FALSE
