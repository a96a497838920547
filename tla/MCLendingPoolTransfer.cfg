SPECIFICATION MCSpec
CONSTANTS
  Investors = {i1, i2}
  Borrowers = {b1}
  Loans = {l1}
  Deposits = {2}
  Withdrawals = {2}
  Transfers = {1}
  Fees = {1}
  Principals = {2}
  Payments = {2}
  Recoveries = {1}
  Seizures = {0}
  InterestRateBps = 5000
  ApplicationFeeBps = 0
  FeeSwitchBps = 5000
  KeeperRewardBps = 5000
  KeeperRewardCap = 1
  DailyPenaltyBps = 5000
  FeeLowBps = 0
  FeeMediumBps = 5000
  FeeHighBps = 5000
  InvestorCap = 2
  TrancheCap = 2
  MaxBorrowerExposure = 2
  QuoteWindow = 0
  LedgersPerMonth = 1
  LedgersPerDay = 1
  GracePeriod = 0
  OverdueLedgers = 1
  MissedThreshold = 3
  DurationMonths = 2
  CompoundPeriod = 3
  InterestScale = 2
  CompoundPow <- MCCompoundPow
  MaxLedger = 2
  MaxBalance = 3
  MaxFees = 1
  MaxUnbacked = 0
  MaxAccrued = 2
  MaxInterest = 1
  MaxDeposited = 4
  None = None
  Pools = {"given"}
PROPERTIES
  TransferKeepsYield
SYMMETRY MCSymmetry
CHECK_DEADLOCK FALSE
