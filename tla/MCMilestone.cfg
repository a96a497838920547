SPECIFICATION Spec
CONSTANTS
  p1 = p1
  s1 = s1
  l1 = l1
  contractor = contractor
  borrower = borrower
  a1 = a1
  a2 = a2
  None = None
  Admin = a1
  Proposals <- MCProposals
  MilestoneIds <- MCMilestoneIds
  Loans <- MCLoans
  Addresses <- MCAddresses
  BorrowerOf <- MCBorrowerOf
  ApproverLists <- MCApproverLists
  ArbitratorLists <- MCArbitratorLists
  ApprovalThresholds <- MCApprovalThresholds
  ArbitrationThresholds <- MCArbitrationThresholds
  Amounts <- MCAmounts
  Delays <- MCDelays
  Windows <- MCWindows
  BonusRates <- MCBonusRates
  DefaultDelay = 1
  DefaultDeadline = 1
  MaxLedger = 2
  MaxBonusPool = 1
INVARIANTS
  PaidOnlyByQuorum
  BooksAgree
  DisputeConsistent
  BonusEarned
PROPERTIES
  DisputesAreFinal
CHECK_DEADLOCK FALSE
