------------------------------ MODULE LendingPool ------------------------------
(***************************************************************************)
(* The lending pool contract, contracts/lending-pool/src/lib.rs: the       *)
(* investors' capital in two tranches, the loans made from it, and the     *)
(* totals by which the contract keeps its books.                           *)
(*                                                                         *)
(* A contract call is one transaction: one action, whose guard is the      *)
(* conjunction of the checks; a call that is refused, or whose token       *)
(* transfer out of the contract is not covered, is a stuttering step.      *)
(* Time is the ledger sequence.                                            *)
(*                                                                         *)
(* The configuration is what the admin has set.  Checks that only refuse   *)
(* calls (pause, whitelists, cooldowns, lockups, per-day and per-call      *)
(* limits, the number of a borrower's loans) are left out: the model has   *)
(* the behaviours of every setting of them.  So are counters that nothing  *)
(* reads, and what goes from a caller to the treasury.                     *)
(***************************************************************************)
EXTENDS Integers, FiniteSets, Sums

CONSTANTS
  Investors, Borrowers, Loans,
  Deposits, Withdrawals, Transfers, Fees,   \* amounts investors may pass
  Principals, Payments, Recoveries,         \* amounts of a loan's operations
  Seizures,             \* what the escrow's seize_collateral may return
  InterestRateBps,      \* rate of a loan
  ApplicationFeeBps, FeeSwitchBps, KeeperRewardBps, KeeperRewardCap,
  DailyPenaltyBps,
  FeeLowBps, FeeMediumBps, FeeHighBps,   \* withdrawal fee by utilization
  InvestorCap, TrancheCap,      \* deposit caps, 0 for none
  MaxBorrowerExposure,          \* 0 for none
  QuoteWindow,                  \* payoff_quote_window_ledgers
  LedgersPerMonth, LedgersPerDay, GracePeriod, OverdueLedgers,
  MissedThreshold, DurationMonths,
  CompoundPeriod, InterestScale,
  CompoundPow,          \* compound_pow(factor, periods), by periods
  MaxLedger,            \* bound on time
  MaxBalance,           \* bound on the tokens the pool is given
  MaxFees,              \* bound on the withdrawal fees taken
  MaxUnbacked,          \* bound on the disputed amounts credited
  MaxAccrued,           \* bound on an investor's banked yield
  MaxInterest,          \* bound on the interest at which fees still come in
  MaxDeposited,         \* bound on the positions at which yield is compounded
  None                  \* no borrower

BPS_SCALE == 10000
UTILIZATION_LOW_THRESHOLD_BPS == 5000
UTILIZATION_HIGH_THRESHOLD_BPS == 8000

ASSUME PoolAssumption ==
  /\ IsFiniteSet(Investors) /\ IsFiniteSet(Loans)
  /\ None \notin Borrowers
  /\ Deposits \cup Withdrawals \cup Transfers \cup Fees \subseteq Int
  /\ Principals \cup Payments \cup Recoveries \subseteq Int
  /\ Seizures \subseteq Nat
  /\ InterestRateBps \in Nat
  /\ {ApplicationFeeBps, FeeSwitchBps, KeeperRewardBps, FeeLowBps, FeeMediumBps,
      FeeHighBps} \subseteq 0..BPS_SCALE
  /\ {KeeperRewardCap, DailyPenaltyBps, InvestorCap, TrancheCap, MaxBorrowerExposure,
      QuoteWindow, GracePeriod, MissedThreshold} \subseteq Nat
  /\ {LedgersPerMonth, LedgersPerDay, OverdueLedgers, DurationMonths, CompoundPeriod,
      InterestScale} \subseteq Nat \ {0}
  /\ {MaxLedger, MaxBalance, MaxFees, MaxUnbacked, MaxAccrued, MaxInterest,
      MaxDeposited} \subseteq Nat
  /\ CompoundPow \in [0..MaxLedger -> Nat]
  /\ \A periods \in 0..MaxLedger : CompoundPow[periods] >= InterestScale

VARIABLES
  now,        \* env.ledger().sequence()
  pool,       \* the contract's token balance and its totals
  tranches,   \* TrancheInfo and DebtTotalSupply
  investors,  \* InvestorRecord, yield mode and DebtBalance
  loans,      \* LoanRecord, schedule, PayoffQuote, ApplicationFee, assumption
  exposure,   \* BorrowerExposure
  \* History:
  book,       \* application fees held, losses written off liquidity, and
              \* disputed amounts credited to it
  late        \* disbursed to a loan while a payoff quote is stored for it

vars == <<now, pool, tranches, investors, loans, exposure, book, late>>

Tranches == {"Senior", "Junior"}
Modes == {"Claim", "Compound"}
LoanStatus == {"None", "Requested", "Approved", "Repaid", "Cancelled", "Defaulted",
               "Rejected"}

Pool ==
  [balance: Nat, liquidity: Int, commitments: Int, deposited: Int, interest: Nat,
   fees: Nat, loss: Nat]

TrancheInfo == [deposited: Int, absorbed: Int, supply: Int]

InvestorRecord ==
  [deposited: Nat, claimed: Int, accrued: Nat, tranche: Tranches, mode: Modes,
   shares: [Tranches -> Int]]

LoanRecord ==
  [status: LoanStatus, borrower: Borrowers \cup {None}, principal: Nat,
   disbursed: Nat, repaid: Int, debt: Int, last: Nat,
   monthly: Nat, next_due: Nat, missed: Nat,
   quote: Int, expires: Nat, fee: Nat, assumption: Borrowers \cup {None}]

\* read_loan of a loan that does not exist.
NoLoan ==
  [status |-> "None", borrower |-> None, principal |-> 0, disbursed |-> 0,
   repaid |-> 0, debt |-> 0, last |-> 0, monthly |-> 0, next_due |-> 0,
   missed |-> 0, quote |-> 0, expires |-> 0, fee |-> 0, assumption |-> None]

Init ==
  /\ now = 0
  /\ pool = [balance |-> 0, liquidity |-> 0, commitments |-> 0, deposited |-> 0,
             interest |-> 0, fees |-> 0, loss |-> 0]
  /\ tranches = [t \in Tranches |-> [deposited |-> 0, absorbed |-> 0, supply |-> 0]]
  /\ investors = [i \in Investors |->
       [deposited |-> 0, claimed |-> 0, accrued |-> 0, tranche |-> "Senior",
        mode |-> "Claim", shares |-> [t \in Tranches |-> 0]]]
  /\ loans = [l \in Loans |-> NoLoan]
  /\ exposure = [b \in Borrowers |-> 0]
  /\ book = [escrowed |-> 0, written_off |-> 0, unbacked |-> 0]
  /\ late = [l \in Loans |-> 0]

-----------------------------------------------------------------------------
(* Helpers.                                                                *)

Least(a, b) == IF a < b THEN a ELSE b
Greatest(a, b) == IF a > b THEN a ELSE b

\* The share of an amount that a rate in basis points gives.
Bps(amount, bps) == (amount * bps) \div BPS_SCALE

\* Rust's division of a natural number, which truncates.
Quotient(a, b) == IF b > 0 THEN a \div b ELSE -(a \div (-b))

set_investor(i, record) == investors' = [investors EXCEPT ![i] = record]
set_loan(l, loan) == loans' = [loans EXCEPT ![l] = loan]

Undisbursed(loan) == loan.principal - loan.disbursed

\* Interest is what has been repaid beyond the principal.
InterestPaid(loan, amount) ==
  IF loan.repaid + amount > loan.principal
    THEN loan.repaid + amount - Greatest(loan.repaid, loan.principal)
    ELSE 0

\* The debt grows by whole compounding periods only, and an accrual drops what
\* is left of the last one.
accrue_interest(loan) ==
  LET periods == (now - loan.last) \div CompoundPeriod
  IN  CASE now <= loan.last \/ loan.debt <= 0 -> [loan EXCEPT !.last = now]
        [] now > loan.last /\ loan.debt > 0 /\ periods = 0 -> loan
        [] OTHER -> [loan EXCEPT
             !.debt = (@ * CompoundPow[periods]) \div InterestScale, !.last = now]

check_borrower_exposure(b, principal) ==
  MaxBorrowerExposure > 0 => exposure[b] + principal <= MaxBorrowerExposure

check_deposit_caps(t, position, amount) ==
  /\ InvestorCap > 0 => position + amount <= InvestorCap
  /\ TrancheCap > 0 => tranches[t].deposited + amount <= TrancheCap

calculate_utilization ==
  IF pool.deposited <= 0 THEN 0
  ELSE Least(BPS_SCALE,
         Quotient((pool.commitments + Greatest(0, pool.deposited - pool.liquidity))
                    * BPS_SCALE, pool.deposited))

calculate_withdrawal_fee_bps ==
  CASE calculate_utilization >= UTILIZATION_HIGH_THRESHOLD_BPS -> FeeHighBps
    [] calculate_utilization \in
         UTILIZATION_LOW_THRESHOLD_BPS .. UTILIZATION_HIGH_THRESHOLD_BPS - 1 -> FeeMediumBps
    [] calculate_utilization < UTILIZATION_LOW_THRESHOLD_BPS -> FeeLowBps

\* The part of all interest that a position has earned, for a given total.
YieldShare(position, total) ==
  IF total = 0 \/ position <= 0 THEN 0 ELSE Quotient(position * pool.interest, total)
current_yield_share(position) == YieldShare(position, pool.deposited)

fresh_yield(i) ==
  Greatest(0, current_yield_share(investors[i].deposited) - investors[i].claimed)

calculate_pending_yield(i) == investors[i].accrued + fresh_yield(i)

\* What is pending, the banked part included, is banked.
settle_accrued_yield(i) ==
  [investors[i] EXCEPT !.accrued = @ + Greatest(0, calculate_pending_yield(i)),
                       !.claimed = current_yield_share(investors[i].deposited)]

bank_fresh_yield(i) ==
  [investors[i] EXCEPT !.accrued = @ + fresh_yield(i),
                       !.claimed = current_yield_share(investors[i].deposited)]

-----------------------------------------------------------------------------
(* Investors.                                                              *)

\* A position in tranche t grows by amount, in all the totals that count it.
Grow(t, amount) ==
  tranches' = [tranches EXCEPT ![t].deposited = @ + amount, ![t].supply = @ + amount]

deposit_with_cap(i, amount, t) ==
  /\ amount > 0
  /\ investors[i].deposited = 0 \/ investors[i].tranche = t
  /\ check_deposit_caps(t, investors[i].deposited, amount)
  /\ pool.balance + amount <= MaxBalance
  /\ set_investor(i, [investors[i] EXCEPT !.deposited = @ + amount, !.tranche = t,
                                          !.shares[t] = @ + amount])
  /\ Grow(t, amount)
  /\ pool' = [pool EXCEPT !.balance = @ + amount, !.liquidity = @ + amount,
                          !.deposited = @ + amount]
  /\ UNCHANGED <<now, loans, exposure, book, late>>

\* The fee leaves with the rest of the amount, but stays in the liquidity.
\* Whether it is waived depends on how long the position has been held, which
\* the model does not keep: is_fee_waived may say either.
withdraw(i, amount, waived) ==
  LET t == investors[i].tranche
      fee == IF waived THEN 0 ELSE Bps(amount, calculate_withdrawal_fee_bps)
  IN  /\ amount > 0
      /\ investors[i].deposited >= amount
      /\ pool.liquidity - pool.commitments >= amount
      /\ amount - fee > 0
      /\ investors[i].shares[t] >= amount
      /\ pool.balance >= amount
      /\ pool.fees + fee <= MaxFees
      /\ set_investor(i, [investors[i] EXCEPT !.deposited = @ - amount,
                                              !.shares[t] = @ - amount])
      /\ Grow(t, -amount)
      /\ pool' = [pool EXCEPT !.balance = @ - amount, !.liquidity = @ - (amount - fee),
                              !.deposited = @ - amount, !.fees = @ + fee]
      /\ UNCHANGED <<now, loans, exposure, book, late>>

\* Mutant: from = to is not refused.
transfer_to_self(from, to, t, amount) ==
  LET seller == settle_accrued_yield(from)
      buyer == settle_accrued_yield(to)
  IN  /\ amount > 0
      /\ investors[from].shares[t] >= amount
      /\ investors[from].tranche = t
      /\ investors[from].deposited >= amount
      /\ investors[to].deposited = 0 \/ investors[to].tranche = t
      /\ seller.accrued <= MaxAccrued /\ buyer.accrued <= MaxAccrued
      /\ investors' = [investors EXCEPT
           ![from] = [seller EXCEPT !.deposited = @ - amount, !.shares[t] = @ - amount],
           ![to] = [buyer EXCEPT !.tranche = t, !.deposited = @ + amount,
                                 !.shares[t] = @ + amount]]
      /\ UNCHANGED <<now, pool, tranches, loans, exposure, book, late>>

transfer_debt_shares(from, to, t, amount) ==
  LET seller == settle_accrued_yield(from)
      buyer == IF investors[to].deposited = 0 THEN [investors[to] EXCEPT !.tranche = t]
                                              ELSE settle_accrued_yield(to)
  IN  /\ amount > 0 /\ from # to
      /\ investors[from].shares[t] >= amount
      /\ investors[from].tranche = t
      /\ investors[from].deposited >= amount
      /\ investors[to].deposited = 0 \/ investors[to].tranche = t
      /\ seller.accrued <= MaxAccrued /\ buyer.accrued <= MaxAccrued
      /\ investors' = [investors EXCEPT
           ![from] = [seller EXCEPT
             !.deposited = @ - amount, !.shares[t] = @ - amount,
             !.claimed = current_yield_share(seller.deposited - amount)],
           ![to] = [buyer EXCEPT
             !.deposited = @ + amount, !.shares[t] = @ + amount,
             !.claimed = current_yield_share(buyer.deposited + amount)]]
      /\ UNCHANGED <<now, pool, tranches, loans, exposure, book, late>>

claim_yield(i) ==
  LET compounding == investors[i].mode = "Compound"
      pending == IF compounding THEN investors[i].accrued ELSE calculate_pending_yield(i)
  IN  /\ investors[i].deposited # 0 \/ investors[i].claimed # 0
      /\ pending > 0
      /\ pool.balance >= pending
      /\ set_investor(i, [investors[i] EXCEPT
           !.accrued = @ - Least(pending, @),
           !.claimed = IF compounding THEN @ ELSE current_yield_share(investors[i].deposited)])
      /\ pool' = [pool EXCEPT !.balance = @ - pending, !.liquidity = @ - pending]
      /\ UNCHANGED <<now, tranches, loans, exposure, book, late>>

\* Mutant: the position grows and no debt token is minted for it.
compound_without_minting(i, mode) ==
  LET amount == fresh_yield(i)
  IN  /\ pool.deposited + amount <= MaxDeposited
      /\ set_investor(i, [investors[i] EXCEPT
           !.mode = mode, !.deposited = @ + amount,
           !.claimed = YieldShare(investors[i].deposited + amount, pool.deposited + amount)])
      /\ Grow(investors[i].tranche, amount)
      /\ pool' = [pool EXCEPT !.deposited = @ + amount]

\* The yield earned since the checkpoint becomes principal; no token moves.
compound_fresh_yield(i, mode) ==
  LET t == investors[i].tranche
      amount == fresh_yield(i)
  IN  /\ pool.deposited + amount <= MaxDeposited
      /\ set_investor(i,
           IF amount = 0 THEN [investors[i] EXCEPT !.mode = mode]
           ELSE [investors[i] EXCEPT
             !.mode = mode, !.deposited = @ + amount, !.shares[t] = @ + amount,
             !.claimed = YieldShare(investors[i].deposited + amount, pool.deposited + amount)])
      /\ Grow(t, amount)
      /\ pool' = [pool EXCEPT !.deposited = @ + amount]

set_yield_mode(i, mode) ==
  /\ investors[i].deposited # 0
  /\ investors[i].mode # mode
  /\ \/ /\ mode = "Compound"
        /\ bank_fresh_yield(i).accrued <= MaxAccrued
        /\ set_investor(i, [bank_fresh_yield(i) EXCEPT !.mode = mode])
        /\ UNCHANGED <<tranches, pool>>
     \/ /\ mode = "Claim"
        /\ compound_fresh_yield(i, mode)
  /\ UNCHANGED <<now, loans, exposure, book, late>>

compound_yield(i) ==
  /\ investors[i].mode = "Compound"
  /\ investors[i].deposited # 0
  /\ fresh_yield(i) > 0
  /\ compound_fresh_yield(i, "Compound")
  /\ UNCHANGED <<now, loans, exposure, book, late>>

\* Fees of other contracts, shared out as interest.
deposit_fees(amount) ==
  /\ amount > 0
  /\ pool.balance + amount <= MaxBalance
  /\ pool.interest + amount <= MaxInterest
  /\ pool' = [pool EXCEPT !.balance = @ + amount, !.liquidity = @ + amount,
                          !.interest = @ + amount]
  /\ UNCHANGED <<now, tranches, investors, loans, exposure, book, late>>

-----------------------------------------------------------------------------
(* Loan applications.                                                      *)

do_request_loan(b, l, principal) ==
  LET fee == Bps(principal, ApplicationFeeBps)
  IN  /\ principal > 0
      /\ loans[l].status = "None"
      /\ check_borrower_exposure(b, principal)
      /\ set_loan(l, [NoLoan EXCEPT !.status = "Requested", !.borrower = b,
                        !.principal = principal, !.last = now, !.fee = fee])
      /\ pool' = [pool EXCEPT !.balance = @ + fee]
      /\ book' = [book EXCEPT !.escrowed = @ + fee]
      /\ UNCHANGED <<now, tranches, investors, exposure, late>>

\* The escrowed fee leaves the pool: to the treasury (retain_application_fee) or
\* back to the borrower (refund_application_fee).
SettleApplicationFee(l) ==
  /\ pool.balance >= loans[l].fee
  /\ book' = [book EXCEPT !.escrowed = @ - loans[l].fee]

\* approve_loan, that is, without an interest-only period.
approve_loan(l) ==
  LET loan == loans[l]
      total_owed == loan.principal + Bps(loan.principal, InterestRateBps)
  IN  /\ loan.status = "Requested"
      /\ check_borrower_exposure(loan.borrower, loan.principal)
      /\ pool.liquidity - pool.commitments >= loan.principal
      /\ set_loan(l, [loan EXCEPT !.status = "Approved", !.fee = 0,
                        !.monthly = total_owed \div DurationMonths,
                        !.next_due = now + LedgersPerMonth])
      /\ pool' = [pool EXCEPT !.balance = @ - loan.fee,
                              !.commitments = @ + loan.principal]
      /\ exposure' = [exposure EXCEPT ![loan.borrower] = @ + loan.principal]
      /\ SettleApplicationFee(l)
      /\ UNCHANGED <<now, tranches, investors, late>>

\* reject_loan by the admin, cancel_loan by the borrower.
Decline(l, status) ==
  /\ loans[l].status = "Requested"
  /\ set_loan(l, [loans[l] EXCEPT !.status = status, !.fee = 0])
  /\ pool' = [pool EXCEPT !.balance = @ - loans[l].fee]
  /\ SettleApplicationFee(l)
  /\ UNCHANGED <<now, tranches, investors, exposure, late>>

reject_loan(l) == Decline(l, "Rejected")
cancel_loan(l) == Decline(l, "Cancelled")

-----------------------------------------------------------------------------
(* Paying out.                                                             *)

\* The gross amount leaves the pool, in up to three transfers.
disburse(l, amount) ==
  LET loan == accrue_interest(loans[l])
  IN  /\ amount > 0
      /\ loans[l].status = "Approved"
      /\ loan.disbursed + amount <= loan.principal
      /\ pool.liquidity >= amount
      /\ pool.balance >= amount
      /\ set_loan(l, [loan EXCEPT !.disbursed = @ + amount, !.debt = @ + amount])
      /\ pool' = [pool EXCEPT !.balance = @ - amount, !.liquidity = @ - amount,
                              !.commitments = @ - amount]
      /\ late' = IF loan.expires # 0 THEN [late EXCEPT ![l] = @ + amount] ELSE late
      /\ UNCHANGED <<now, tranches, investors, exposure, book>>

\* The milestone contract takes a disbursement back; no token comes with it,
\* and no interest is accrued first.
refund_milestone_dispute(l, amount) ==
  /\ amount > 0
  /\ loans[l].status = "Approved"
  /\ amount <= loans[l].disbursed
  /\ book.unbacked + amount <= MaxUnbacked
  /\ set_loan(l, [loans[l] EXCEPT !.disbursed = @ - amount, !.debt = @ - amount])
  /\ pool' = [pool EXCEPT !.liquidity = @ + amount, !.commitments = @ + amount]
  /\ book' = [book EXCEPT !.unbacked = @ + amount]
  /\ UNCHANGED <<now, tranches, investors, exposure, late>>

-----------------------------------------------------------------------------
(* Paying back.  Anyone may pay.                                           *)

GraceDeadline(loan) == loan.next_due + GracePeriod

LatePenalty(loan) ==
  Bps(loan.monthly,
      DailyPenaltyBps * ((now - GraceDeadline(loan)) \div LedgersPerDay + 1))

MissedPeriods(loan) == 1 + (now - loan.next_due) \div LedgersPerMonth

\* A payment after the grace period has to cover installment and penalty.
InstallmentAccepted(loan, amount) ==
  now > GraceDeadline(loan) => amount >= loan.monthly + LatePenalty(loan)

PayInstallment(loan, amount) ==
  IF now > GraceDeadline(loan)
    THEN [loan EXCEPT !.missed = @ + MissedPeriods(loan),
                      !.next_due = @ + (MissedPeriods(loan) + 1) * LedgersPerMonth]
    ELSE IF amount >= loan.monthly
      THEN [loan EXCEPT !.missed = 0, !.next_due = @ + LedgersPerMonth]
      ELSE loan

\* The protocol's cut of the interest that a payment is taken to contain.
ProtocolFee(loan, amount) ==
  LET interest == Bps(loan.principal, InterestRateBps)
  IN  Bps((interest * amount) \div (loan.principal + interest), FeeSwitchBps)

\* A loan without debt leaves the books: exposure, and what was still to be
\* disbursed.
Closed(loan) == [loan EXCEPT !.debt = 0, !.status = "Repaid", !.quote = 0,
                               !.expires = 0]
ReleaseExposure(loan) == exposure' = [exposure EXCEPT ![loan.borrower] = @ - loan.principal]

\* Mutant: a payoff before the last disbursement leaves the commitment.
settle_keeping_commitment(l, amount) ==
  LET loan == accrue_interest(loans[l])
  IN  /\ set_loan(l, Closed([loan EXCEPT !.repaid = @ + amount]))
      /\ ReleaseExposure(loan)
      /\ pool' = [pool EXCEPT !.balance = @ + amount, !.liquidity = @ + amount,
                    !.interest = @ + InterestPaid(loan, amount)]
      /\ UNCHANGED <<now, tranches, investors, book, late>>

\* The quoted amount settles the loan, whatever its debt is by now.
settle_quoted_payoff(l, amount) ==
  LET loan == accrue_interest(loans[l])
  IN  /\ set_loan(l, Closed([loan EXCEPT !.repaid = @ + amount]))
      /\ ReleaseExposure(loan)
      /\ pool' = [pool EXCEPT !.balance = @ + amount, !.liquidity = @ + amount,
                    !.interest = @ + InterestPaid(loan, amount),
                    !.commitments = @ - Undisbursed(loan)]
      /\ UNCHANGED <<now, tranches, investors, book, late>>

\* Mutant: a payment of less than the quote settles the loan.
LiveQuoteInPart(l, amount) == now <= loans[l].expires /\ amount <= loans[l].quote

LiveQuote(l, amount) == now <= loans[l].expires /\ amount = loans[l].quote

\* An expired quote is removed.
PruneQuote(loan) == IF now > loan.expires THEN [loan EXCEPT !.quote = 0, !.expires = 0] ELSE loan

repay(l, amount) ==
  LET accrued == accrue_interest(PruneQuote(loans[l]))
      paying == PayInstallment(accrued, amount)
      loan == [paying EXCEPT !.repaid = @ + amount, !.debt = @ - amount]
      fee == ProtocolFee(accrued, amount)
  IN  /\ amount > 0
      /\ loans[l].status = "Approved"
      /\ \/ /\ LiveQuote(l, amount)
            /\ settle_quoted_payoff(l, amount)
         \/ /\ ~LiveQuote(l, amount)
            /\ amount <= accrued.debt
            /\ InstallmentAccepted(accrued, amount)
            /\ \/ /\ loan.debt = 0
                  /\ set_loan(l, Closed(loan))
                  /\ ReleaseExposure(loan)
                  /\ pool' = [pool EXCEPT !.balance = @ + amount - fee,
                                !.liquidity = @ + amount - fee,
                                !.interest = @ + InterestPaid(accrued, amount),
                                !.commitments = @ - Undisbursed(loan)]
               \/ /\ loan.debt # 0
                  /\ set_loan(l, loan)
                  /\ UNCHANGED exposure
                  /\ pool' = [pool EXCEPT !.balance = @ + amount - fee,
                                !.liquidity = @ + amount - fee,
                                !.interest = @ + InterestPaid(accrued, amount)]
            /\ UNCHANGED <<now, tranches, investors, book, late>>

quote_payoff(l) ==
  LET loan == accrue_interest(loans[l])
  IN  /\ QuoteWindow # 0
      /\ loan.status = "Approved"
      /\ set_loan(l, [loan EXCEPT !.quote = loan.debt, !.expires = now + QuoteWindow])
      /\ late' = [late EXCEPT ![l] = 0]
      /\ UNCHANGED <<now, pool, tranches, investors, exposure, book>>

payoff_with_quote(l, amount) ==
  /\ amount > 0
  /\ loans[l].status = "Approved"
  /\ LiveQuote(l, amount)
  /\ settle_quoted_payoff(l, amount)

-----------------------------------------------------------------------------
(* Default and recovery.                                                   *)

is_loan_overdue(loan) ==
  \/ loan.missed >= MissedThreshold
  \/ now > loan.next_due /\ now - loan.next_due >= OverdueLedgers

compute_keeper_reward(seized) ==
  Least(Least(Bps(seized, KeeperRewardBps), KeeperRewardCap), seized)

\* Mutant: the senior tranche first.
AbsorbLossSeniorFirst(loss) ==
  LET senior == Least(loss, tranches["Senior"].deposited)
      junior == Least(loss - senior, tranches["Junior"].deposited)
  IN  tranches' = [tranches EXCEPT
        !["Junior"].deposited = @ - junior, !["Junior"].absorbed = @ + junior,
        !["Senior"].deposited = @ - senior, !["Senior"].absorbed = @ + senior]

\* The junior tranche takes the loss up to its capital, the senior tranche the
\* rest up to its own.
AbsorbLoss(loss) ==
  LET junior == Least(loss, tranches["Junior"].deposited)
      senior == Least(loss - junior, tranches["Senior"].deposited)
  IN  tranches' = [tranches EXCEPT
        !["Junior"].deposited = @ - junior, !["Junior"].absorbed = @ + junior,
        !["Senior"].deposited = @ - senior, !["Senior"].absorbed = @ + senior]

\* Mutant: what was seized is credited without the keeper's cut.
default_crediting_reward(l, seizure, keeper) ==
  LET loan == accrue_interest(loans[l])
      seized == seizure - (IF keeper THEN compute_keeper_reward(seizure) ELSE 0)
      loss == Greatest(0, loan.debt - seized)
  IN  /\ loan.status = "Approved"
      /\ is_loan_overdue(loan)
      /\ pool.balance + seizure <= MaxBalance
      /\ IF loss > 0 THEN AbsorbLoss(loss) ELSE UNCHANGED tranches
      /\ pool' = [pool EXCEPT
           !.balance = @ + seized, !.liquidity = @ + seizure - loss, !.loss = @ + loss,
           !.commitments = Greatest(0, @ - Undisbursed(loan))]
      /\ book' = [book EXCEPT !.written_off = @ + loss]
      /\ set_loan(l, [loan EXCEPT !.status = "Defaulted", !.repaid = @ + seized,
                                  !.debt = loan.debt - seized])
      /\ ReleaseExposure(loan)
      /\ UNCHANGED <<now, investors, late>>

\* mark_default by the admin, trigger_default by a keeper who is rewarded.
execute_default(l, seizure, keeper) ==
  LET loan == accrue_interest(loans[l])
      seized == seizure - (IF keeper THEN compute_keeper_reward(seizure) ELSE 0)
      net_loss == loan.debt - seized
      loss == Greatest(0, net_loss)
  IN  /\ loan.status = "Approved"
      /\ is_loan_overdue(loan)
      /\ pool.balance + seized <= MaxBalance
      /\ IF net_loss > 0 THEN AbsorbLoss(net_loss) ELSE UNCHANGED tranches
      /\ pool' = [pool EXCEPT
           !.balance = @ + seized, !.liquidity = @ + seized - loss, !.loss = @ + loss,
           !.commitments = IF Undisbursed(loan) > 0
                             THEN Greatest(0, @ - Undisbursed(loan)) ELSE @]
      /\ book' = [book EXCEPT !.written_off = @ + loss]
      /\ set_loan(l, [loan EXCEPT !.status = "Defaulted", !.repaid = @ + seized,
                                  !.debt = net_loss])
      /\ ReleaseExposure(loan)
      /\ UNCHANGED <<now, investors, late>>

\* Mutant: the senior tranche gets all of it, whatever it had lost.
recover_to_senior(l, recovered) ==
  LET reduction == Least(recovered, pool.loss)
  IN  /\ recovered > 0
      /\ loans[l].status = "Defaulted"
      /\ pool.balance + recovered <= MaxBalance
      /\ pool' = [pool EXCEPT !.balance = @ + recovered, !.liquidity = @ + recovered,
                              !.loss = @ - reduction]
      /\ tranches' = [tranches EXCEPT
           !["Senior"].deposited = @ + reduction, !["Senior"].absorbed = @ - reduction]
      /\ UNCHANGED <<now, investors, loans, exposure, book, late>>

\* Senior capital is restored first.
recover_default(l, recovered) ==
  LET reduction == Least(recovered, pool.loss)
      senior == Least(reduction, tranches["Senior"].absorbed)
      junior == Least(reduction - senior, tranches["Junior"].absorbed)
  IN  /\ recovered > 0
      /\ loans[l].status = "Defaulted"
      /\ pool.balance + recovered <= MaxBalance
      /\ pool' = [pool EXCEPT !.balance = @ + recovered, !.liquidity = @ + recovered,
                              !.loss = @ - reduction]
      /\ tranches' = [tranches EXCEPT
           !["Senior"].deposited = @ + senior, !["Senior"].absorbed = @ - senior,
           !["Junior"].deposited = @ + junior, !["Junior"].absorbed = @ - junior]
      /\ UNCHANGED <<now, investors, loans, exposure, book, late>>

-----------------------------------------------------------------------------
(* Assumption of a loan by another borrower.                               *)

request_loan_assumption(l, b) ==
  /\ loans[l].status = "Approved"
  /\ loans[l].assumption = None
  /\ set_loan(l, [loans[l] EXCEPT !.assumption = b])
  /\ UNCHANGED <<now, pool, tranches, investors, exposure, book, late>>

assume_loan(l, b) ==
  LET loan == loans[l]
      released == [exposure EXCEPT ![loan.borrower] = @ - loan.principal]
  IN  /\ loan.status = "Approved"
      /\ loan.assumption = b
      /\ exposure' = [released EXCEPT ![b] = @ + loan.principal]
      /\ set_loan(l, [loan EXCEPT !.borrower = b, !.assumption = None])
      /\ UNCHANGED <<now, pool, tranches, investors, book, late>>

cancel_loan_assumption(l) ==
  /\ loans[l].assumption # None
  /\ set_loan(l, [loans[l] EXCEPT !.assumption = None])
  /\ UNCHANGED <<now, pool, tranches, investors, exposure, book, late>>

-----------------------------------------------------------------------------
\* A ledger closes.
CloseLedger ==
  /\ now < MaxLedger
  /\ now' = now + 1
  /\ UNCHANGED <<pool, tranches, investors, loans, exposure, book, late>>

Invest(i) ==
  \/ \E n \in Deposits, t \in Tranches : deposit_with_cap(i, n, t)
  \/ \E n \in Withdrawals, waived \in BOOLEAN : withdraw(i, n, waived)
  \/ \E to \in Investors, t \in Tranches, n \in Transfers : transfer_debt_shares(i, to, t, n)
  \/ claim_yield(i)
  \/ \E mode \in Modes : set_yield_mode(i, mode)
  \/ compound_yield(i)

Apply(l) ==
  \/ \E b \in Borrowers, n \in Principals : do_request_loan(b, l, n)
  \/ approve_loan(l)
  \/ reject_loan(l)
  \/ cancel_loan(l)

Pay(l) ==
  \/ \E n \in Payments : disburse(l, n)
  \/ \E n \in Payments : refund_milestone_dispute(l, n)
  \/ \E n \in Payments : repay(l, n)
  \/ quote_payoff(l)
  \/ \E n \in Payments : payoff_with_quote(l, n)

Default(l) ==
  \/ \E n \in Seizures, keeper \in BOOLEAN : execute_default(l, n, keeper)
  \/ \E n \in Recoveries : recover_default(l, n)

Assume(l) ==
  \/ \E b \in Borrowers : request_loan_assumption(l, b)
  \/ \E b \in Borrowers : assume_loan(l, b)
  \/ cancel_loan_assumption(l)

Next ==
  \/ \E i \in Investors : Invest(i)
  \/ \E n \in Fees : deposit_fees(n)
  \/ \E l \in Loans : Apply(l) \/ Pay(l) \/ Default(l) \/ Assume(l)
  \/ CloseLedger

Spec == Init /\ [][Next]_vars

-----------------------------------------------------------------------------
(* Correctness.                                                            *)

\* Every storage entry has the shape of its Rust type.  The amounts that are
\* naturals never go negative: the token balance, positions, principals and
\* what has been disbursed, which also never exceeds the principal.
TypeOK ==
  /\ now \in Nat
  /\ pool \in Pool
  /\ tranches \in [Tranches -> TrancheInfo]
  /\ investors \in [Investors -> InvestorRecord]
  /\ loans \in [Loans -> LoanRecord]
  /\ \A l \in Loans : loans[l].disbursed <= loans[l].principal
  /\ exposure \in [Borrowers -> Int]
  /\ book \in [escrowed: Int, written_off: Nat, unbacked: Nat]
  /\ late \in [Loans -> Nat]

\* The contract's token balance is its TotalLiquidity, plus the application fees
\* it holds for borrowers and the losses written off although the tokens had
\* left before, minus the withdrawal fees it has paid out and the disputed
\* amounts it was never given back.  Nothing else ever parts the two.
BalanceAccounted ==
  pool.balance = pool.liquidity + book.escrowed + book.written_off
                   - pool.fees - book.unbacked

\* Debt tokens, positions, tranches and TotalDeposited tell the same story: an
\* investor's tokens are the position, in its own tranche; a tranche's capital
\* and the losses it has absorbed make up its supply; the supplies make up
\* TotalDeposited.
SharesReconcile ==
  /\ \A i \in Investors, t \in Tranches :
       investors[i].shares[t] =
         IF t = investors[i].tranche THEN investors[i].deposited ELSE 0
  /\ \A t \in Tranches : tranches[t].deposited + tranches[t].absorbed = tranches[t].supply
  /\ pool.deposited = tranches["Senior"].supply + tranches["Junior"].supply

Holdings(t) == [i \in Investors |-> investors[i].shares[t]]

\* Every token of a tranche's supply is some investor's.
SupplyIsHeld ==
  \A t \in Tranches : tranches[t].supply = SumOver(Holdings(t), Investors)

\* What an active loan may still draw, and what it counts for its borrower.
Committed(loan) == IF loan.status = "Approved" THEN Undisbursed(loan) ELSE 0
Exposed(loan, b) ==
  IF loan.status = "Approved" /\ loan.borrower = b THEN loan.principal ELSE 0

\* ActiveLoanCommitments, the borrowers' exposures and the fees in escrow are
\* the sums over the loans that they summarise, however a loan left the books.
LoanBookMatches ==
  /\ pool.commitments = SumOver([l \in Loans |-> Committed(loans[l])], Loans)
  /\ \A b \in Borrowers :
       exposure[b] = SumOver([l \in Loans |-> Exposed(loans[l], b)], Loans)
  /\ book.escrowed = SumOver([l \in Loans |-> loans[l].fee], Loans)

\* A loan is closed as repaid only when at least what was disbursed has come
\* back, except for what was disbursed after its payoff had been quoted.
PaidBeforeClosed ==
  \A l \in Loans : loans[l].status = "Repaid" =>
    loans[l].repaid + late[l] >= loans[l].disbursed

\* The tranches never absorb more than the losses on record, through any
\* sequence of defaults, withdrawals and recoveries.
LossesBooked ==
  /\ \A t \in Tranches : tranches[t].absorbed >= 0
  /\ tranches["Junior"].absorbed + tranches["Senior"].absorbed <= pool.loss

\* Losses reach the senior tranche only when junior capital is exhausted, and a
\* recovery reaches the junior tranche only when senior losses are made good.
WaterfallOrder ==
  [][/\ tranches'["Senior"].absorbed > tranches["Senior"].absorbed =>
          tranches'["Junior"].deposited <= 0
     /\ tranches'["Junior"].absorbed < tranches["Junior"].absorbed /\ pool'.loss < pool.loss =>
          tranches'["Senior"].absorbed = 0]_vars

\* What transfer_debt_shares says: "Accrued yield through the transfer ledger
\* remains claimable by the seller", no less and no more.
TransferKeepsYield ==
  [][\A i, j \in Investors : \A t \in Tranches, n \in Transfers :
       transfer_debt_shares(i, j, t, n) =>
         investors'[i].accrued = calculate_pending_yield(i)]_vars
=============================================================================
