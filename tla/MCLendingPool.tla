---------------------------- MODULE MCLendingPool ----------------------------
(***************************************************************************)
(* LendingPool for TLC.  A behaviour is one of two pools: the one a        *)
(* configuration gives, or one in which investors withdraw, transfer and   *)
(* compound while nothing accrues.  Interest, quotes and application fees  *)
(* together with withdrawals and transfers have too many states.           *)
(***************************************************************************)
EXTENDS LendingPool, TLC

CONSTANT Pools   \* which of them are checked: a subset of {"given", "capital"}

VARIABLE which   \* the pool of this behaviour

\* One compounding period adds half of the debt.
MCCompoundPow == [periods \in 0..MaxLedger |-> 2 + periods]

MCSymmetry == Permutations(Investors) \cup Permutations(Borrowers)

\* The investors' pool: no period is long enough to accrue, no fee is asked for an
\* application, a quote is good for one ledger.
Capital == INSTANCE LendingPool WITH
             Withdrawals <- {2}, Transfers <- {1}, Fees <- {1}, Payments <- {2},
             Seizures <- {0}, ApplicationFeeBps <- 0, QuoteWindow <- 0,
             CompoundPeriod <- 3, MaxUnbacked <- 0, MaxAccrued <- 1

MCInit == Init /\ which \in Pools

MCNext ==
  /\ \/ which = "given" /\ Next
     \/ which = "capital" /\ Capital!Next
  /\ UNCHANGED which

MCSpec == MCInit /\ [][MCNext]_<<vars, which>>
=============================================================================
