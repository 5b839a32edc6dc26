SPECIFICATION Spec
CONSTANTS
  Requests = {r1, r2}
  Sweeper = Sweeper
  TrialDays = 1
  PeriodDays = 1
  RetryDays <- Retry2
  RowLock = FALSE
  Kinds <- PayAndHook
  CrashPoints <- AnyPoint
  LostReplies = FALSE
  MaxDay = 4
  Overnight = FALSE
  MaxCharges = 3
SYMMETRY RequestSymmetry
INVARIANTS OneOpenCharge PeriodsDisjoint StrikesMatchDeclines
PROPERTIES PaymentNeverShortens OnlyPaymentLiftsSuspension
