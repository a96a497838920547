\* The components checked by themselves, one at a time.
SPECIFICATION Spec
CONSTANTS
  Pair = {n1, n2}
  Triple = {m1, m2, m3}
  Routes = {"apply", "approve"}
  Audited = 3
  AuditEnd = 2
  LedgerEvents <- Events
  PageLength = 2
  IndexFailures = 1
  RpcNodes = 3
  RpcFailures = 1
  LegalHolds = {"hold"}
  LastDay = 1
  Served = {"request", "probe"}
  Probed = {"probe"}
  Queued = {"job"}
  Runs = {"run"}
  Promises = {"promise"}
  HookTries = 2
  HookStreak = 2
  HookAge = 1
  HookEnd = 1
  HookFaults = 1
  Rulings = {"first", "second"}
  FeeAmount = 2
  FeeMisses = 3
  Invested = {2}
  HarvestPeriod = 1
  GrowthScale = 2
  Growth <- GrowthTable
  RecoveryDelay = 1
  VaultEnd = 2
  AssetBound = 5
  Saved = {2}
  GoalTerms <- EscrowTerms
  Foreign = {"ethereum"}
  Bridged = {2}
  DailyCaps = {0, 2, 3}
  RaiseDelays = {1}
  CapWindow = 2
  OperationBound = 2
  TickBound = 2
  PoolTokens = {1, 2}
  Staked = {1, 2}
  Rewarded = {2}
  RateUnit = 10
  StakedBound = 3
  SharesBound = 4
  ApprovalBps = 6000
  ProposalBound = 1
  QueueBound = 2
  Watches = {"check"}
  IdleTimeout = 2
  IdleWarning = 1
  IdleBound = 3
  Treasuries = {"treasury"}
  KeyWeight = 1
  Delays = {0, 1}
  Proposed = {"p"}
  Bundled = {"none", "rates", "twice"}
  Repeated = {"twice"}
  Lifetime = 1
  LastSequence = 3
INVARIANTS
  TypeOK
  TamperEvident
  IndexedFaithfully
  DecisionsOnRecord
  OneEffectPerKey
  StreakIsTrue
  DrainedBeforeClosed
  LateFeesReconcile
  StakesRedeemable
  OneVoiceEach
  SavingsBacked
  MintedWithinCap
  EveryNodeHadItsTurn
  ErasedOnlyWhenFree
  SessionHangsTogether
  OutcomeShownIsReal
PROPERTIES
  SharePriceNeverFalls
  ExecutedAsAgreed
CHECK_DEADLOCK FALSE
