SPECIFICATION Spec
CONSTANTS
  Requests = {r1}
  Sweeper = Sweeper
  TrialDays = 1
  PeriodDays = 1
  RetryDays <- Retry2
  RowLock = TRUE
  Kinds <- PayHookAdmin
  CrashPoints <- NotSent
  LostReplies = FALSE
  MaxDay = 1
  Overnight = FALSE
  MaxCharges = 1
PROPERTIES SuspensionBlocks
