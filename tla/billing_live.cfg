SPECIFICATION FairSpec
CONSTANTS
  Requests = {r1}
  Sweeper = Sweeper
  TrialDays = 0
  PeriodDays = 1
  RetryDays <- Retry2
  RowLock = TRUE
  Kinds <- AllKinds
  CrashPoints <- NotSent
  LostReplies = FALSE
  MaxDay = 0
  Overnight = TRUE
  MaxCharges = 2
PROPERTIES PaidIsCredited
