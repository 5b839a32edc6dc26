SPECIFICATION Spec
CONSTANTS
  Requests = {r1, r2}
  Sweeper = Sweeper
  TrialDays = 1
  PeriodDays = 1
  RetryDays <- Retry2
  RowLock = TRUE
  Kinds <- NoAdmin
  CrashPoints <- AnyPoint
  LostReplies = TRUE
  MaxDay = 1
  Overnight = TRUE
  MaxCharges = 2
SYMMETRY RequestSymmetry
INVARIANTS TypeOK OneOpenCharge SettledAsGateway
PROPERTIES ImplementsLifecycle
