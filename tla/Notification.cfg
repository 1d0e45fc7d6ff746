\* A request to one user, two reminder runs, two mishaps.
SPECIFICATION FairNoticeSpec
CONSTANTS
  User = {u1}
  Reminder = {m1, m2}
  MaxTries = 2
  MaxMishaps = 2
INVARIANTS NotificationInv CountAgainstNotices
PROPERTIES EnqueuedIsStored
CHECK_DEADLOCK FALSE
