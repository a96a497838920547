--------------------------- MODULE LendingPoolProofs ---------------------------
(***************************************************************************)
(* Theorems about LendingPool, for any finite sets of investors and loans, *)
(* and any borrowers, amounts, rates, fees and bounds.                     *)
(***************************************************************************)
EXTENDS LendingPool, Induction

-----------------------------------------------------------------------------
(* Arithmetic.                                                             *)

\* The constants, one by one.
LEMMA Constants ==
  /\ IsFiniteSet(Investors) /\ IsFiniteSet(Loans)
  /\ None \notin Borrowers
  /\ \A n \in Deposits \cup Withdrawals \cup Transfers \cup Fees : n \in Int
  /\ \A n \in Principals \cup Payments \cup Recoveries : n \in Int
  /\ \A n \in Seizures : n \in Nat
  /\ InterestRateBps \in Nat
  /\ ApplicationFeeBps \in 0..BPS_SCALE /\ FeeSwitchBps \in 0..BPS_SCALE
  /\ KeeperRewardBps \in 0..BPS_SCALE /\ FeeLowBps \in 0..BPS_SCALE
  /\ FeeMediumBps \in 0..BPS_SCALE /\ FeeHighBps \in 0..BPS_SCALE
  /\ KeeperRewardCap \in Nat /\ DailyPenaltyBps \in Nat /\ QuoteWindow \in Nat
  /\ GracePeriod \in Nat /\ MissedThreshold \in Nat
  /\ LedgersPerMonth \in Nat \ {0} /\ LedgersPerDay \in Nat \ {0}
  /\ DurationMonths \in Nat \ {0} /\ CompoundPeriod \in Nat \ {0}
  /\ InterestScale \in Nat \ {0}
  /\ MaxLedger \in Nat
  /\ \A periods \in 0..MaxLedger :
       CompoundPow[periods] \in Nat /\ CompoundPow[periods] >= InterestScale
BY PoolAssumption

\* Division by a positive number: the quotient is an integer, a natural number
\* of a natural number, and not above a bound that its multiple is not above.
LEMMA Division ==
  ASSUME NEW a \in Int, NEW b \in Nat \ {0}
  PROVE  /\ a \div b \in Int
         /\ a >= 0 => a \div b \in Nat /\ a \div b <= a
         /\ \A c \in Int : a <= c * b => a \div b <= c
<1>1. a \div b \in Int
  OBVIOUS
<1>2. b * (a \div b) <= a /\ a < b * (a \div b) + b
  OBVIOUS
<1>3. ASSUME a >= 0 PROVE a \div b \in Nat
  <2>1. SUFFICES ASSUME a \div b < 0 PROVE FALSE
    BY <1>1
  <2>2. b * (a \div b) + b <= 0
    BY <2>1, <1>1
  <2> QED
    BY <2>2, <1>2, <1>3, <1>1
<1>4. ASSUME a >= 0 PROVE a \div b <= a
  <2>1. a \div b <= b * (a \div b)
    BY <1>3, <1>4
  <2> QED
    BY <2>1, <1>2, <1>1
<1>5. ASSUME NEW c \in Int, a <= c * b PROVE a \div b <= c
  <2>1. SUFFICES ASSUME a \div b >= c + 1 PROVE FALSE
    BY <1>1
  <2>2. b * (a \div b) >= b * (c + 1)
    BY <2>1, <1>1
  <2>3. b * (c + 1) = c * b + b
    OBVIOUS
  <2> QED
    BY <2>2, <2>3, <1>2, <1>5, <1>1
<1> QED
  BY <1>1, <1>3, <1>4, <1>5

\* A share of an amount is a natural number and not above the amount.
LEMMA BpsType ==
  ASSUME NEW amount \in Nat, NEW bps \in Nat
  PROVE  Bps(amount, bps) \in Nat /\ (bps <= BPS_SCALE => Bps(amount, bps) <= amount)
<1>1. amount * bps \in Nat
  OBVIOUS
<1>2. ASSUME bps <= BPS_SCALE PROVE amount * bps <= amount * BPS_SCALE
  BY <1>2 DEF BPS_SCALE
<1> QED
  BY <1>1, <1>2, Division, BPS_SCALE \in Nat \ {0} DEF Bps, BPS_SCALE

\* The truncating division of the contract gives an integer.
LEMMA QuotientType ==
  ASSUME NEW a \in Int, NEW b \in Int, b # 0
  PROVE  Quotient(a, b) \in Int
<1>1. CASE b > 0
  BY <1>1, Division DEF Quotient
<1>2. CASE b < 0
  BY <1>2, Division, -b \in Nat \ {0} DEF Quotient
<1> QED
  BY <1>1, <1>2

\* The smaller and the larger of two amounts.
LEMMA LeastGreatest ==
  ASSUME NEW a \in Int, NEW b \in Int
  PROVE  /\ Least(a, b) \in {a, b} /\ Least(a, b) <= a /\ Least(a, b) <= b
         /\ Greatest(a, b) \in {a, b} /\ Greatest(a, b) >= a /\ Greatest(a, b) >= b
BY DEF Least, Greatest

-----------------------------------------------------------------------------
(* The operators of the model.                                             *)

\* An accrual touches debt and reference ledger only, and never lowers a debt.
LEMMA AccrueType ==
  ASSUME now \in 0..MaxLedger, NEW loan \in LoanRecord
  PROVE  \E d \in Int, k \in Nat :
           /\ accrue_interest(loan) = [loan EXCEPT !.debt = d, !.last = k]
           /\ d >= loan.debt
<1> DEFINE periods == (now - loan.last) \div CompoundPeriod
           grown == (loan.debt * CompoundPow[periods]) \div InterestScale
<1>0. loan.debt \in Int /\ loan.last \in Nat /\ now \in Nat
  BY DEF LoanRecord
<1>1. CASE now <= loan.last \/ loan.debt <= 0
  <2>1. accrue_interest(loan) = [loan EXCEPT !.last = now]
    BY <1>1, <1>0 DEF accrue_interest
  <2>2. [loan EXCEPT !.last = now] = [loan EXCEPT !.debt = loan.debt, !.last = now]
    BY DEF LoanRecord
  <2> USE <1>0
  <2> WITNESS loan.debt \in Int, now \in Nat
  <2> QED
    BY <2>1, <2>2, <1>0
<1>2. CASE now > loan.last /\ loan.debt > 0
  <2>1. periods \in Nat /\ periods <= now - loan.last
    BY <1>2, <1>0, Division, Constants
  <2>2. periods \in 0..MaxLedger
    BY <2>1, <1>0, Constants
  <2>3. CompoundPow[periods] \in Nat /\ CompoundPow[periods] >= InterestScale
    BY <2>2, Constants
  <2> HIDE DEF periods
  <2>4. loan.debt * CompoundPow[periods] >= loan.debt * InterestScale
    BY <2>3, <1>2, <1>0, Constants
  <2>5. grown \in Int
    BY <2>3, <1>0, Division, Constants
  <2>6. grown >= loan.debt
    <3> DEFINE x == loan.debt * CompoundPow[periods]
    <3>1. x \in Int /\ x >= loan.debt * InterestScale
      BY <2>4, <2>3, <1>0
    <3> HIDE DEF x
    <3>2. InterestScale * (x \div InterestScale) > x - InterestScale
      BY <3>1, Constants
    <3>3. x \div InterestScale \in Int
      BY <3>1, Division, Constants
    <3>4. SUFFICES ASSUME x \div InterestScale <= loan.debt - 1 PROVE FALSE
      BY <3>3, <1>0 DEF x
    <3>5. InterestScale * (x \div InterestScale) <= InterestScale * (loan.debt - 1)
      BY <3>4, <3>3, <1>0, Constants
    <3>6. InterestScale * (loan.debt - 1) = loan.debt * InterestScale - InterestScale
      BY <1>0, Constants
    <3> QED
      BY <3>1, <3>2, <3>3, <3>5, <3>6, <1>0, Constants
  <2>7. CASE periods = 0
    <3>1. accrue_interest(loan) = loan
      BY <2>7, <1>2, <1>0 DEF accrue_interest, periods
    <3>2. loan = [loan EXCEPT !.debt = loan.debt, !.last = loan.last]
      BY DEF LoanRecord
    <3> USE <1>0
    <3> WITNESS loan.debt \in Int, loan.last \in Nat
    <3> QED
      BY <3>1, <3>2, <1>0
  <2>8. CASE periods # 0
    <3>1. accrue_interest(loan) = [loan EXCEPT !.debt = grown, !.last = now]
      BY <2>8, <1>2, <1>0 DEF accrue_interest, periods
    <3> HIDE DEF grown
    <3> USE <1>0, <2>5
    <3> WITNESS grown \in Int, now \in Nat
    <3> QED
      BY <3>1, <2>6
  <2> QED
    BY <2>7, <2>8
<1>3. (now <= loan.last \/ loan.debt <= 0) \/ (now > loan.last /\ loan.debt > 0)
  BY <1>0
<1> QED
  BY <1>1, <1>2, <1>3

\* A position's share of the interest is an amount.
LEMMA YieldShareType ==
  ASSUME pool \in Pool, NEW position \in Int, NEW total \in Int
  PROVE  YieldShare(position, total) \in Int
<1>1. pool.interest \in Nat
  BY DEF Pool
<1>2. position * pool.interest \in Int
  BY <1>1
<1> QED
  BY <1>2, QuotientType DEF YieldShare

\* What an investor has earned, banked or not, is never negative.
LEMMA YieldTypes ==
  ASSUME pool \in Pool, investors \in [Investors -> InvestorRecord], NEW i \in Investors
  PROVE  /\ \A n \in Int : current_yield_share(n) \in Int
         /\ fresh_yield(i) \in Nat
         /\ calculate_pending_yield(i) \in Nat
<1>1. pool.deposited \in Int /\ investors[i].deposited \in Nat
      /\ investors[i].claimed \in Int /\ investors[i].accrued \in Nat
  BY DEF Pool, InvestorRecord
<1>2. \A n \in Int : current_yield_share(n) \in Int
  BY <1>1, YieldShareType DEF current_yield_share
<1>3. fresh_yield(i) \in Nat
  BY <1>1, <1>2, LeastGreatest DEF fresh_yield
<1> QED
  BY <1>1, <1>2, <1>3 DEF calculate_pending_yield

\* The withdrawal fee is one of the three rates.
LEMMA WithdrawalFeeType ==
  ASSUME pool \in Pool
  PROVE  calculate_withdrawal_fee_bps \in 0..BPS_SCALE
<1> DEFINE used == (pool.commitments + Greatest(0, pool.deposited - pool.liquidity))
                     * BPS_SCALE
<1>1. pool.deposited \in Int /\ pool.commitments \in Int /\ pool.liquidity \in Int
  BY DEF Pool
<1>2. used \in Int
  BY <1>1, LeastGreatest DEF BPS_SCALE
<1> HIDE DEF used
<1>3. calculate_utilization \in Int
  <2>1. CASE pool.deposited <= 0
    BY <2>1 DEF calculate_utilization
  <2>2. CASE pool.deposited > 0
    <3>1. Quotient(used, pool.deposited) \in Int
      BY <2>2, <1>1, <1>2, QuotientType
    <3>2. calculate_utilization = Least(BPS_SCALE, Quotient(used, pool.deposited))
      BY <2>2, <1>1 DEF calculate_utilization, used
    <3> QED
      BY <3>1, <3>2, LeastGreatest, BPS_SCALE \in Int DEF BPS_SCALE
  <2> QED
    BY <2>1, <2>2, <1>1
<1>4. calculate_withdrawal_fee_bps \in {FeeLowBps, FeeMediumBps, FeeHighBps}
  <2>1. CASE calculate_utilization >= UTILIZATION_HIGH_THRESHOLD_BPS
    BY <2>1, <1>3 DEF calculate_withdrawal_fee_bps, UTILIZATION_LOW_THRESHOLD_BPS,
                      UTILIZATION_HIGH_THRESHOLD_BPS
  <2>2. CASE calculate_utilization < UTILIZATION_LOW_THRESHOLD_BPS
    BY <2>2, <1>3 DEF calculate_withdrawal_fee_bps, UTILIZATION_LOW_THRESHOLD_BPS,
                      UTILIZATION_HIGH_THRESHOLD_BPS
  <2>3. CASE calculate_utilization \in
               UTILIZATION_LOW_THRESHOLD_BPS .. UTILIZATION_HIGH_THRESHOLD_BPS - 1
    BY <2>3, <1>3 DEF calculate_withdrawal_fee_bps, UTILIZATION_LOW_THRESHOLD_BPS,
                      UTILIZATION_HIGH_THRESHOLD_BPS
  <2> QED
    BY <2>1, <2>2, <2>3, <1>3 DEF UTILIZATION_LOW_THRESHOLD_BPS, UTILIZATION_HIGH_THRESHOLD_BPS
<1> QED
  BY <1>4, Constants

-----------------------------------------------------------------------------
(* The inductive invariant.                                                *)

LoansHavePrincipal ==
  \A l \in Loans : loans[l].status # "None" => loans[l].principal > 0

\* What a loan owes covers what has been disbursed and not come back, and so
\* does a quote, but for what was disbursed after it.
Covered(loan, extra) ==
  /\ loan.expires = 0 => loan.quote = 0
  /\ loan.status = "Requested" =>
       loan.disbursed = 0 /\ loan.repaid = 0 /\ loan.debt = 0 /\ loan.expires = 0
  /\ loan.status = "Approved" =>
       /\ loan.debt >= loan.disbursed - loan.repaid
       /\ loan.expires # 0 => loan.quote + extra >= loan.disbursed - loan.repaid
  /\ loan.status = "Repaid" => loan.repaid + extra >= loan.disbursed

PayoffCovered == \A l \in Loans : Covered(loans[l], late[l])

\* TypeOK needs the bound on time, which is the domain of CompoundPow, and the
\* positive principal, by which a repayment is divided.
IndInv ==
  /\ TypeOK
  /\ now <= MaxLedger
  /\ LoansHavePrincipal
  /\ PayoffCovered
  /\ BalanceAccounted
  /\ SharesReconcile

\* A pool that was just initialized satisfies the invariant.
LEMMA InitIndInv == Init => IndInv
<1> SUFFICES ASSUME Init PROVE IndInv
  OBVIOUS
<1>1. TypeOK
  <2>1. NoLoan \in LoanRecord /\ NoLoan.disbursed = 0 /\ NoLoan.principal = 0
    BY DEF NoLoan, LoanRecord, LoanStatus
  <2>2. loans \in [Loans -> LoanRecord]
        /\ \A l \in Loans : loans[l].disbursed <= loans[l].principal
    BY <2>1 DEF Init
  <2>3. pool \in Pool /\ tranches \in [Tranches -> TrancheInfo]
    BY DEF Init, Pool, TrancheInfo
  <2>4. investors \in [Investors -> InvestorRecord]
    BY DEF Init, InvestorRecord, Tranches, Modes
  <2> QED
    BY <2>2, <2>3, <2>4 DEF Init, TypeOK
<1>2. LoansHavePrincipal
  BY DEF Init, LoansHavePrincipal, NoLoan
<1>3. BalanceAccounted
  BY DEF Init, BalanceAccounted
<1>4. SharesReconcile
  BY DEF Init, SharesReconcile, Tranches
<1>5. PayoffCovered
  BY DEF Init, PayoffCovered, Covered, NoLoan
<1> QED
  BY <1>1, <1>2, <1>3, <1>4, <1>5, Constants DEF Init, IndInv

\* What every step starts from.
LEMMA Fields ==
  ASSUME TypeOK
  PROVE  /\ pool.balance \in Nat /\ pool.liquidity \in Int /\ pool.commitments \in Int
         /\ pool.deposited \in Int /\ pool.interest \in Nat /\ pool.fees \in Nat
         /\ pool.loss \in Nat
         /\ \A t \in Tranches : /\ tranches[t].deposited \in Int
                                /\ tranches[t].absorbed \in Int
                                /\ tranches[t].supply \in Int
         /\ \A i \in Investors : /\ investors[i].deposited \in Nat
                                 /\ investors[i].claimed \in Int
                                 /\ investors[i].accrued \in Nat
                                 /\ investors[i].tranche \in Tranches
                                 /\ investors[i].mode \in Modes
                                 /\ investors[i].shares \in [Tranches -> Int]
         /\ book.escrowed \in Int /\ book.written_off \in Nat /\ book.unbacked \in Nat
BY DEF TypeOK, Pool, TrancheInfo, InvestorRecord

-----------------------------------------------------------------------------
(* Steps of investors.                                                     *)

\* A position changes by an amount together with everything that counts it.
LEMMA GrowStep ==
  ASSUME TypeOK, NEW t \in Tranches, NEW amount \in Int, Grow(t, amount)
  PROVE  /\ tranches' \in [Tranches -> TrancheInfo]
         /\ \A u \in Tranches :
              /\ tranches'[u].absorbed = tranches[u].absorbed
              /\ tranches'[u].deposited = tranches[u].deposited + (IF u = t THEN amount ELSE 0)
              /\ tranches'[u].supply = tranches[u].supply + (IF u = t THEN amount ELSE 0)
<1> DEFINE a == tranches[t].deposited + amount
           b == tranches[t].supply + amount
           info == [tranches[t] EXCEPT !.deposited = a, !.supply = b]
<1>1. a \in Int /\ b \in Int
  BY Fields
<1>2. tranches' = [tranches EXCEPT ![t] = info]
  BY DEF Grow, TypeOK
<1>3. tranches \in [Tranches -> TrancheInfo]
  BY DEF TypeOK
<1>4. a = tranches[t].deposited + amount /\ b = tranches[t].supply + amount
  OBVIOUS
<1> HIDE DEF a, b
<1>5. info \in TrancheInfo /\ info.absorbed = tranches[t].absorbed
      /\ info.deposited = a /\ info.supply = b
  BY <1>1, <1>3 DEF TrancheInfo
<1> HIDE DEF info
<1>6. tranches' \in [Tranches -> TrancheInfo] /\ tranches'[t] = info
      /\ \A u \in Tranches : u # t => tranches'[u] = tranches[u]
  BY <1>2, <1>3, <1>5
<1> QED
  BY <1>4, <1>5, <1>6, Fields

\* One investor's position and shares in its tranche t change by an amount, with
\* tranche and total.
LEMMA PositionStep ==
  ASSUME TypeOK, SharesReconcile, NEW i \in Investors, NEW t \in Tranches,
         NEW amount \in Int, NEW record \in InvestorRecord,
         investors[i].deposited = 0 \/ investors[i].tranche = t,
         record.tranche = t,
         record.deposited = investors[i].deposited + amount,
         record.shares = [investors[i].shares EXCEPT ![t] = @ + amount],
         set_investor(i, record), Grow(t, amount),
         pool'.deposited = pool.deposited + amount
  PROVE  /\ investors' \in [Investors -> InvestorRecord]
         /\ tranches' \in [Tranches -> TrancheInfo]
         /\ SharesReconcile'
<1>1. investors' \in [Investors -> InvestorRecord]
  BY DEF set_investor, TypeOK
<1>2. ASSUME NEW j \in Investors, NEW u \in Tranches
      PROVE  investors'[j].shares[u] =
               IF u = investors'[j].tranche THEN investors'[j].deposited ELSE 0
  <2>1. CASE j # i
    BY <2>1, <1>2 DEF set_investor, TypeOK, SharesReconcile
  <2>2. CASE j = i
    <3>1. investors'[j] = record
      BY <2>2 DEF set_investor, TypeOK
    <3>2. /\ investors[i].shares[u] =
               IF u = investors[i].tranche THEN investors[i].deposited ELSE 0
          /\ investors[i].shares \in [Tranches -> Int]
          /\ investors[i].deposited \in Nat
      BY Fields DEF SharesReconcile
    <3>3. record.shares[u] = IF u = t THEN investors[i].shares[u] + amount
                                      ELSE investors[i].shares[u]
      BY <3>2
    <3> QED
      BY <3>1, <3>2, <3>3
  <2> QED
    BY <2>1, <2>2
<1>3. /\ tranches' \in [Tranches -> TrancheInfo]
      /\ \A u \in Tranches :
              /\ tranches'[u].absorbed = tranches[u].absorbed
              /\ tranches'[u].deposited = tranches[u].deposited + (IF u = t THEN amount ELSE 0)
              /\ tranches'[u].supply = tranches[u].supply + (IF u = t THEN amount ELSE 0)
  BY GrowStep
<1>4. \A u \in Tranches : tranches'[u].deposited + tranches'[u].absorbed = tranches'[u].supply
  BY <1>3, Fields DEF SharesReconcile
<1>5. pool'.deposited = tranches'["Senior"].supply + tranches'["Junior"].supply
  BY <1>3, Fields DEF SharesReconcile, Tranches
<1> QED
  BY <1>1, <1>2, <1>3, <1>4, <1>5 DEF SharesReconcile

\* deposit_with_cap: the position, its tranche and the totals grow together.
LEMMA DepositStep ==
  ASSUME IndInv, NEW i \in Investors, NEW amount \in Deposits, NEW t \in Tranches,
         deposit_with_cap(i, amount, t)
  PROVE  IndInv'
<1> DEFINE record == [investors[i] EXCEPT !.deposited = @ + amount, !.tranche = t,
                                          !.shares[t] = @ + amount]
<1>1. amount \in Nat /\ amount > 0
  BY Constants DEF deposit_with_cap
<1>2. record \in InvestorRecord /\ record.tranche = t
      /\ record.deposited = investors[i].deposited + amount
      /\ record.shares = [investors[i].shares EXCEPT ![t] = @ + amount]
  <2> DEFINE d == investors[i].deposited + amount
             s == [investors[i].shares EXCEPT ![t] = @ + amount]
  <2>1. investors[i] \in InvestorRecord /\ d \in Nat /\ s \in [Tranches -> Int]
    BY <1>1, Fields DEF IndInv, TypeOK
  <2>2. record = [investors[i] EXCEPT !.deposited = d, !.tranche = t, !.shares = s]
    OBVIOUS
  <2> HIDE DEF d, s, record
  <2>3. record \in InvestorRecord /\ record.tranche = t /\ record.deposited = d
        /\ record.shares = s
    BY <2>1, <2>2 DEF InvestorRecord
  <2> QED
    BY <2>3 DEF d, s
<1>3. set_investor(i, record) /\ Grow(t, amount)
      /\ (investors[i].deposited = 0 \/ investors[i].tranche = t)
  BY DEF deposit_with_cap
<1> HIDE DEF record
<1>4. /\ pool' \in Pool /\ pool'.deposited = pool.deposited + amount
      /\ pool'.balance = pool.balance + amount /\ pool'.liquidity = pool.liquidity + amount
      /\ pool'.fees = pool.fees
  <2> DEFINE b == pool.balance + amount
             q == pool.liquidity + amount
             d == pool.deposited + amount
  <2>1. b \in Nat /\ q \in Int /\ d \in Int
    BY <1>1, Fields DEF IndInv
  <2>2. pool' = [pool EXCEPT !.balance = b, !.liquidity = q, !.deposited = d]
    BY DEF deposit_with_cap
  <2> HIDE DEF b, q, d
  <2>3. pool' \in Pool /\ pool'.deposited = d /\ pool'.balance = b /\ pool'.liquidity = q
        /\ pool'.fees = pool.fees
    BY <2>1, <2>2 DEF IndInv, TypeOK, Pool
  <2> QED
    BY <2>3 DEF b, q, d
<1>5. /\ investors' \in [Investors -> InvestorRecord]
      /\ tranches' \in [Tranches -> TrancheInfo]
      /\ SharesReconcile'
  BY <1>1, <1>2, <1>3, <1>4, PositionStep DEF IndInv
<1>6. BalanceAccounted'
  BY <1>1, <1>4, Fields DEF IndInv, BalanceAccounted, deposit_with_cap
<1> QED
  BY <1>4, <1>5, <1>6 DEF IndInv, TypeOK, LoansHavePrincipal, PayoffCovered, deposit_with_cap

\* withdraw: the fee leaves the balance, stays in the liquidity, and is counted.
LEMMA WithdrawStep ==
  ASSUME IndInv, NEW i \in Investors, NEW amount \in Withdrawals, NEW waived \in BOOLEAN,
         withdraw(i, amount, waived)
  PROVE  IndInv'
<1> DEFINE t == investors[i].tranche
           fee == IF waived THEN 0 ELSE Bps(amount, calculate_withdrawal_fee_bps)
           record == [investors[i] EXCEPT !.deposited = @ - amount, !.shares[t] = @ - amount]
<1>1. amount \in Nat /\ amount > 0 /\ investors[i].deposited >= amount
      /\ pool.balance >= amount
  BY Constants DEF withdraw
<1>2. t \in Tranches
  BY Fields DEF IndInv
<1>3. fee \in Nat
  BY <1>1, WithdrawalFeeType, BpsType DEF IndInv, TypeOK
<1>4. /\ pool' = [pool EXCEPT !.balance = @ - amount, !.liquidity = @ - (amount - fee),
                              !.deposited = @ - amount, !.fees = @ + fee]
      /\ set_investor(i, record) /\ Grow(t, -amount)
  BY DEF withdraw
<1>5. record \in InvestorRecord /\ record.tranche = t
      /\ record.deposited = investors[i].deposited + (-amount)
      /\ record.shares = [investors[i].shares EXCEPT ![t] = @ + (-amount)]
  <2> DEFINE d == investors[i].deposited - amount
             s == [investors[i].shares EXCEPT ![t] = @ - amount]
  <2>1. investors[i] \in InvestorRecord /\ d \in Nat /\ s \in [Tranches -> Int]
    BY <1>1, <1>2, Fields DEF IndInv, TypeOK
  <2>4. d = investors[i].deposited + (-amount)
        /\ investors[i].shares[t] - amount = investors[i].shares[t] + (-amount)
    BY <1>1, <1>2, Fields DEF IndInv
  <2>5. s = [investors[i].shares EXCEPT ![t] = @ + (-amount)]
    BY <2>4
  <2>2. record = [investors[i] EXCEPT !.deposited = d, !.shares = s]
    OBVIOUS
  <2> HIDE DEF d, s, record
  <2>3. record \in InvestorRecord /\ record.tranche = t /\ record.deposited = d
        /\ record.shares = s
    BY <2>1, <2>2 DEF InvestorRecord
  <2> QED
    BY <2>3, <2>4, <2>5
<1> HIDE DEF record, fee
<1>6. /\ pool' \in Pool /\ pool'.deposited = pool.deposited + (-amount)
      /\ pool'.balance = pool.balance - amount
      /\ pool'.liquidity = pool.liquidity - (amount - fee)
      /\ pool'.fees = pool.fees + fee
  <2> DEFINE b == pool.balance - amount
             q == pool.liquidity - (amount - fee)
             d == pool.deposited - amount
             f == pool.fees + fee
  <2>1. b \in Nat /\ q \in Int /\ d \in Int /\ f \in Nat /\ d = pool.deposited + (-amount)
    BY <1>1, <1>3, Fields DEF IndInv
  <2>2. pool' = [pool EXCEPT !.balance = b, !.liquidity = q, !.deposited = d, !.fees = f]
    BY <1>4
  <2> HIDE DEF b, q, d, f
  <2>3. pool' \in Pool /\ pool'.deposited = d /\ pool'.balance = b /\ pool'.liquidity = q
        /\ pool'.fees = f
    BY <2>1, <2>2 DEF IndInv, TypeOK, Pool
  <2> QED
    BY <2>1, <2>3 DEF b, q, f
<1>7. /\ investors' \in [Investors -> InvestorRecord]
      /\ tranches' \in [Tranches -> TrancheInfo]
      /\ SharesReconcile'
  BY <1>1, <1>2, <1>4, <1>5, <1>6, PositionStep, -amount \in Int DEF IndInv
<1>8. BalanceAccounted'
  BY <1>1, <1>3, <1>6, Fields DEF IndInv, BalanceAccounted, withdraw
<1> QED
  BY <1>6, <1>7, <1>8 DEF IndInv, TypeOK, LoansHavePrincipal, PayoffCovered, withdraw

\* An investor's record changes in claims, banked yield or mode only.
LEMMA RecordStep ==
  ASSUME TypeOK, SharesReconcile, NEW i \in Investors, NEW record \in InvestorRecord,
         record.tranche = investors[i].tranche,
         record.deposited = investors[i].deposited,
         record.shares = investors[i].shares,
         set_investor(i, record), tranches' = tranches, pool'.deposited = pool.deposited
  PROVE  investors' \in [Investors -> InvestorRecord] /\ SharesReconcile'
<1>1. investors' \in [Investors -> InvestorRecord]
  BY DEF set_investor, TypeOK
<1>2. \A j \in Investors : /\ investors'[j].tranche = investors[j].tranche
                           /\ investors'[j].deposited = investors[j].deposited
                           /\ investors'[j].shares = investors[j].shares
  BY DEF set_investor, TypeOK
<1> QED
  BY <1>1, <1>2 DEF SharesReconcile

\* Banking yield, twice over or not, touches accrued and claimed only.
LEMMA SettleTypes ==
  ASSUME TypeOK, NEW i \in Investors
  PROVE  \A record \in {settle_accrued_yield(i), bank_fresh_yield(i)} :
           /\ record \in InvestorRecord
           /\ record.tranche = investors[i].tranche
           /\ record.deposited = investors[i].deposited
           /\ record.shares = investors[i].shares
<1> DEFINE a == investors[i].accrued + Greatest(0, calculate_pending_yield(i))
           b == investors[i].accrued + fresh_yield(i)
           c == current_yield_share(investors[i].deposited)
<1>1. pool \in Pool /\ investors[i] \in InvestorRecord
      /\ investors \in [Investors -> InvestorRecord]
  BY DEF TypeOK
<1>2. calculate_pending_yield(i) \in Nat /\ fresh_yield(i) \in Nat /\ c \in Int
  BY <1>1, YieldTypes, Fields
<1>3. Greatest(0, calculate_pending_yield(i)) \in Nat
  BY <1>2, LeastGreatest
<1>4. a \in Nat /\ b \in Nat
  BY <1>2, <1>3, Fields
<1>5. /\ settle_accrued_yield(i) = [investors[i] EXCEPT !.accrued = a, !.claimed = c]
      /\ bank_fresh_yield(i) = [investors[i] EXCEPT !.accrued = b, !.claimed = c]
  BY DEF settle_accrued_yield, bank_fresh_yield
<1> HIDE DEF a, b, c
<1>6. LET record == settle_accrued_yield(i)
      IN  /\ record \in InvestorRecord /\ record.tranche = investors[i].tranche
          /\ record.deposited = investors[i].deposited
          /\ record.shares = investors[i].shares
  BY <1>1, <1>2, <1>4, <1>5 DEF InvestorRecord
<1>7. LET record == bank_fresh_yield(i)
      IN  /\ record \in InvestorRecord /\ record.tranche = investors[i].tranche
          /\ record.deposited = investors[i].deposited
          /\ record.shares = investors[i].shares
  BY <1>1, <1>2, <1>4, <1>5 DEF InvestorRecord
<1> QED
  BY <1>6, <1>7

\* transfer_debt_shares: what one position loses the other gains, in one tranche.
LEMMA TransferStep ==
  ASSUME IndInv, NEW from \in Investors, NEW to \in Investors, NEW t \in Tranches,
         NEW amount \in Transfers, transfer_debt_shares(from, to, t, amount)
  PROVE  IndInv'
<1> DEFINE seller == settle_accrued_yield(from)
           buyer == IF investors[to].deposited = 0
                      THEN [investors[to] EXCEPT !.tranche = t]
                      ELSE settle_accrued_yield(to)
           ds == seller.deposited - amount
           db == buyer.deposited + amount
           ss == [seller.shares EXCEPT ![t] = @ - amount]
           sb == [buyer.shares EXCEPT ![t] = @ + amount]
           cs == current_yield_share(seller.deposited - amount)
           cb == current_yield_share(buyer.deposited + amount)
           sold == [seller EXCEPT !.deposited = ds, !.shares = ss, !.claimed = cs]
           bought == [buyer EXCEPT !.deposited = db, !.shares = sb, !.claimed = cb]
<1>0. TypeOK /\ SharesReconcile
  BY DEF IndInv
<1>1. /\ amount \in Nat /\ amount > 0 /\ from # to
      /\ investors[from].deposited >= amount /\ investors[from].tranche = t
      /\ investors[to].deposited = 0 \/ investors[to].tranche = t
  BY Constants DEF transfer_debt_shares
<1>2. investors' = [investors EXCEPT ![from] = sold, ![to] = bought]
  BY DEF transfer_debt_shares
<1>3. /\ seller \in InvestorRecord /\ seller.tranche = t
      /\ seller.deposited = investors[from].deposited
      /\ seller.shares = investors[from].shares
  BY <1>0, <1>1, SettleTypes
<1>4. /\ buyer \in InvestorRecord /\ buyer.tranche = t
      /\ buyer.deposited = investors[to].deposited
      /\ buyer.shares = investors[to].shares
  <2>1. CASE investors[to].deposited = 0
    <3>1. buyer = [investors[to] EXCEPT !.tranche = t]
      BY <2>1
    <3> HIDE DEF buyer
    <3> QED
      BY <3>1, <1>0 DEF TypeOK, InvestorRecord
  <2>2. CASE investors[to].deposited # 0
    <3>1. buyer = settle_accrued_yield(to)
      BY <2>2
    <3> HIDE DEF buyer
    <3> QED
      BY <3>1, <2>2, <1>0, <1>1, SettleTypes
  <2> QED
    BY <2>1, <2>2
<1> HIDE DEF seller, buyer
<1>5. /\ ds \in Nat /\ db \in Nat
      /\ ss \in [Tranches -> Int] /\ sb \in [Tranches -> Int]
  BY <1>0, <1>1, <1>3, <1>4, Fields
<1>6. cs \in Int /\ cb \in Int
  BY <1>0, <1>5, YieldTypes DEF TypeOK
<1>7. \A u \in Tranches : /\ ss[u] = IF u = t THEN ds ELSE 0
                          /\ sb[u] = IF u = t THEN db ELSE 0
  BY <1>0, <1>1, <1>3, <1>4, Fields DEF SharesReconcile
<1> HIDE DEF ds, db, ss, sb, cs, cb
<1>8. /\ sold \in InvestorRecord /\ sold.tranche = t /\ sold.deposited = ds
      /\ sold.shares = ss
      /\ bought \in InvestorRecord /\ bought.tranche = t /\ bought.deposited = db
      /\ bought.shares = sb
  BY <1>3, <1>4, <1>5, <1>6 DEF InvestorRecord
<1> HIDE DEF sold, bought
<1>9. /\ investors' \in [Investors -> InvestorRecord]
      /\ investors'[from] = sold /\ investors'[to] = bought
      /\ \A j \in Investors : j # from /\ j # to => investors'[j] = investors[j]
  BY <1>0, <1>1, <1>2, <1>8 DEF TypeOK
<1>10. SharesReconcile'
  <2>1. ASSUME NEW j \in Investors, NEW u \in Tranches
        PROVE  investors'[j].shares[u] =
                 IF u = investors'[j].tranche THEN investors'[j].deposited ELSE 0
    BY <2>1, <1>0, <1>7, <1>8, <1>9 DEF SharesReconcile
  <2>2. UNCHANGED <<pool, tranches>>
    BY DEF transfer_debt_shares
  <2> QED
    BY <2>1, <2>2, <1>0 DEF SharesReconcile
<1> QED
  BY <1>0, <1>9, <1>10 DEF IndInv, TypeOK, LoansHavePrincipal, PayoffCovered, BalanceAccounted,
                           transfer_debt_shares

\* claim_yield: tokens and liquidity go down by the same amount.
LEMMA ClaimStep ==
  ASSUME IndInv, NEW i \in Investors, claim_yield(i)
  PROVE  IndInv'
<1> DEFINE compounding == investors[i].mode = "Compound"
           pending == IF compounding THEN investors[i].accrued ELSE calculate_pending_yield(i)
           a == investors[i].accrued - Least(pending, investors[i].accrued)
           c == IF compounding THEN investors[i].claimed
                               ELSE current_yield_share(investors[i].deposited)
           record == [investors[i] EXCEPT !.accrued = a, !.claimed = c]
           b == pool.balance - pending
           q == pool.liquidity - pending
<1>0. TypeOK /\ SharesReconcile
  BY DEF IndInv
<1>1. set_investor(i, record) /\ pool' = [pool EXCEPT !.balance = b, !.liquidity = q]
  BY DEF claim_yield
<1>2. calculate_pending_yield(i) \in Nat
      /\ current_yield_share(investors[i].deposited) \in Int
  BY <1>0, YieldTypes, Fields DEF TypeOK
<1>3. pending \in Nat /\ c \in Int
  BY <1>0, <1>2, Fields
<1>4. pool.balance >= pending
  BY DEF claim_yield
<1> HIDE DEF pending, c
<1>5. a \in Nat
  BY <1>0, <1>3, Fields, LeastGreatest
<1>6. b \in Nat /\ q \in Int
  BY <1>0, <1>3, <1>4, Fields
<1> HIDE DEF a, b, q
<1>8. /\ record \in InvestorRecord /\ record.tranche = investors[i].tranche
      /\ record.deposited = investors[i].deposited /\ record.shares = investors[i].shares
  BY <1>0, <1>3, <1>5 DEF TypeOK, InvestorRecord
<1>9. pool' \in Pool /\ pool'.deposited = pool.deposited /\ pool'.fees = pool.fees
      /\ pool'.balance = b /\ pool'.liquidity = q
  BY <1>0, <1>1, <1>6 DEF TypeOK, Pool
<1>7. BalanceAccounted'
  <2>1. book' = book
    BY DEF claim_yield
  <2> QED
    BY <2>1, <1>0, <1>3, <1>9, Fields DEF IndInv, BalanceAccounted, b, q
<1> HIDE DEF record
<1>10. tranches' = tranches
  BY DEF claim_yield
<1>11. investors' \in [Investors -> InvestorRecord] /\ SharesReconcile'
  BY <1>0, <1>1, <1>8, <1>9, <1>10, RecordStep
<1> QED
  BY <1>0, <1>7, <1>9, <1>11 DEF IndInv, TypeOK, LoansHavePrincipal, PayoffCovered, claim_yield

\* compound_fresh_yield: a position grows by its yield, with shares and tranche.
LEMMA CompoundFreshStep ==
  ASSUME IndInv, NEW i \in Investors, NEW mode \in Modes, compound_fresh_yield(i, mode),
         UNCHANGED <<now, loans, exposure, book, late>>
  PROVE  IndInv'
<1> DEFINE t == investors[i].tranche
           amount == fresh_yield(i)
           d == investors[i].deposited + amount
           s == [investors[i].shares EXCEPT ![t] = @ + amount]
           n == pool.deposited + amount
           c == YieldShare(d, n)
           record == IF amount = 0
                       THEN [investors[i] EXCEPT !.mode = mode]
                       ELSE [investors[i] EXCEPT !.mode = mode, !.deposited = d,
                                                 !.shares = s, !.claimed = c]
<1>0. TypeOK /\ SharesReconcile
  BY DEF IndInv
<1>1. set_investor(i, record) /\ Grow(t, amount) /\ pool' = [pool EXCEPT !.deposited = n]
  BY DEF compound_fresh_yield
<1>2. amount \in Nat /\ t \in Tranches
  BY <1>0, YieldTypes, Fields DEF TypeOK
<1> HIDE DEF amount, t
<1>3. d \in Nat /\ s \in [Tranches -> Int] /\ n \in Int
  BY <1>0, <1>2, Fields
<1>5. d = investors[i].deposited + amount /\ s = [investors[i].shares EXCEPT ![t] = @ + amount]
      /\ n = pool.deposited + amount
  OBVIOUS
<1> HIDE DEF d, s, n
<1>4. c \in Int
  BY <1>0, <1>3, YieldShareType DEF TypeOK
<1> HIDE DEF c
<1>6. /\ record \in InvestorRecord /\ record.tranche = t /\ record.deposited = d
      /\ record.shares = s
  <2>0. investors[i] \in InvestorRecord /\ investors[i].tranche = t
    BY <1>0 DEF TypeOK, t
  <2>1. CASE amount = 0
    <3>1. record = [investors[i] EXCEPT !.mode = mode]
      BY <2>1
    <3>2. d = investors[i].deposited
      BY <2>1, <1>0, <1>5, Fields
    <3>3. s = investors[i].shares
      BY <2>1, <1>0, <1>2, <1>5, Fields
    <3> HIDE DEF record
    <3> QED
      BY <2>0, <3>1, <3>2, <3>3 DEF InvestorRecord
  <2>2. CASE amount # 0
    <3>1. record = [investors[i] EXCEPT !.mode = mode, !.deposited = d, !.shares = s,
                                        !.claimed = c]
      BY <2>2
    <3> HIDE DEF record
    <3> QED
      BY <2>0, <3>1, <1>3, <1>4 DEF InvestorRecord
  <2> QED
    BY <2>1, <2>2
<1> HIDE DEF record
<1>7. /\ pool' \in Pool /\ pool'.deposited = n /\ pool'.balance = pool.balance
      /\ pool'.liquidity = pool.liquidity /\ pool'.fees = pool.fees
  BY <1>0, <1>1, <1>3 DEF TypeOK, Pool
<1>8. /\ investors' \in [Investors -> InvestorRecord]
      /\ tranches' \in [Tranches -> TrancheInfo]
      /\ SharesReconcile'
  <2>1. investors[i].tranche = t
    BY DEF t
  <2> QED
    BY <2>1, <1>0, <1>1, <1>2, <1>5, <1>6, <1>7, PositionStep
<1>9. BalanceAccounted'
  BY <1>7 DEF IndInv, BalanceAccounted
<1> QED
  BY <1>0, <1>7, <1>8, <1>9 DEF IndInv, TypeOK, LoansHavePrincipal, PayoffCovered

\* set_yield_mode, in either direction.
LEMMA YieldModeStep ==
  ASSUME IndInv, NEW i \in Investors, NEW mode \in Modes, set_yield_mode(i, mode)
  PROVE  IndInv'
<1>0. TypeOK /\ SharesReconcile
  BY DEF IndInv
<1>1. UNCHANGED <<now, loans, exposure, book, late>>
  BY DEF set_yield_mode
<1>2. CASE compound_fresh_yield(i, mode)
  BY <1>1, <1>2, CompoundFreshStep
<1>3. CASE /\ set_investor(i, [bank_fresh_yield(i) EXCEPT !.mode = mode])
           /\ UNCHANGED <<tranches, pool>>
  <2> DEFINE record == [bank_fresh_yield(i) EXCEPT !.mode = mode]
  <2>1. /\ bank_fresh_yield(i) \in InvestorRecord
        /\ bank_fresh_yield(i).tranche = investors[i].tranche
        /\ bank_fresh_yield(i).deposited = investors[i].deposited
        /\ bank_fresh_yield(i).shares = investors[i].shares
    BY <1>0, SettleTypes
  <2>2. /\ record \in InvestorRecord /\ record.tranche = investors[i].tranche
        /\ record.deposited = investors[i].deposited /\ record.shares = investors[i].shares
    BY <2>1 DEF InvestorRecord
  <2>3. set_investor(i, record)
    BY <1>3
  <2> HIDE DEF record
  <2>4. investors' \in [Investors -> InvestorRecord] /\ SharesReconcile'
    BY <1>0, <1>3, <2>2, <2>3, RecordStep
  <2> QED
    BY <1>0, <1>1, <1>3, <2>4 DEF IndInv, TypeOK, LoansHavePrincipal, PayoffCovered, BalanceAccounted
<1> QED
  BY <1>2, <1>3 DEF set_yield_mode

\* compound_yield is a compounding that keeps the mode.
LEMMA CompoundStep ==
  ASSUME IndInv, NEW i \in Investors, compound_yield(i)
  PROVE  IndInv'
BY CompoundFreshStep, "Compound" \in Modes DEF compound_yield, Modes

\* deposit_fees: tokens, liquidity and interest grow together.
LEMMA DepositFeesStep ==
  ASSUME IndInv, NEW amount \in Fees, deposit_fees(amount)
  PROVE  IndInv'
<1> DEFINE b == pool.balance + amount
           q == pool.liquidity + amount
           n == pool.interest + amount
<1>0. TypeOK /\ SharesReconcile
  BY DEF IndInv
<1>1. amount \in Nat
  BY Constants DEF deposit_fees
<1>2. b \in Nat /\ q \in Int /\ n \in Nat
  BY <1>0, <1>1, Fields
<1>3. pool' = [pool EXCEPT !.balance = b, !.liquidity = q, !.interest = n]
  BY DEF deposit_fees
<1> HIDE DEF b, q, n
<1>4. /\ pool' \in Pool /\ pool'.balance = b /\ pool'.liquidity = q
      /\ pool'.deposited = pool.deposited /\ pool'.fees = pool.fees
  BY <1>0, <1>2, <1>3 DEF TypeOK, Pool
<1>5. BalanceAccounted'
  BY <1>0, <1>1, <1>4, Fields DEF IndInv, BalanceAccounted, deposit_fees, b, q
<1>6. SharesReconcile'
  BY <1>0, <1>4 DEF SharesReconcile, deposit_fees
<1> QED
  BY <1>0, <1>4, <1>5, <1>6 DEF IndInv, TypeOK, LoansHavePrincipal, PayoffCovered, deposit_fees

-----------------------------------------------------------------------------
(* Steps of loans.                                                         *)

\* The amounts of a loan.
LEMMA LoanFields ==
  ASSUME NEW loan \in LoanRecord
  PROVE  /\ loan.principal \in Nat /\ loan.disbursed \in Nat /\ loan.repaid \in Int
         /\ loan.debt \in Int /\ loan.last \in Nat /\ loan.monthly \in Nat
         /\ loan.next_due \in Nat /\ loan.missed \in Nat /\ loan.quote \in Int
         /\ loan.expires \in Nat /\ loan.fee \in Nat
         /\ loan.borrower \in Borrowers \cup {None}
         /\ loan.assumption \in Borrowers \cup {None} /\ loan.status \in LoanStatus
BY DEF LoanRecord

\* One loan changes, and perhaps what was disbursed to it after a quote.
LEMMA LoanStep ==
  ASSUME IndInv, NEW l \in Loans, NEW loan \in LoanRecord, NEW extra \in Nat,
         loan.disbursed <= loan.principal,
         loan.status # "None" => loan.principal > 0,
         Covered(loan, extra),
         set_loan(l, loan),
         late' \in [Loans -> Nat], late'[l] = extra,
         \A k \in Loans : k # l => late'[k] = late[k]
  PROVE  /\ loans' \in [Loans -> LoanRecord]
         /\ \A k \in Loans : loans'[k].disbursed <= loans'[k].principal
         /\ LoansHavePrincipal'
         /\ PayoffCovered'
<1>1. /\ loans' \in [Loans -> LoanRecord] /\ loans'[l] = loan
      /\ \A k \in Loans : k # l => loans'[k] = loans[k]
  BY DEF IndInv, TypeOK, set_loan
<1>2. \A k \in Loans : loans'[k].disbursed <= loans'[k].principal
  BY <1>1 DEF IndInv, TypeOK
<1>3. LoansHavePrincipal'
  BY <1>1 DEF IndInv, LoansHavePrincipal
<1>4. ASSUME NEW k \in Loans PROVE Covered(loans'[k], late'[k])
  BY <1>1, <1>4, Zenon DEF IndInv, PayoffCovered
<1> QED
  BY <1>1, <1>2, <1>3, <1>4 DEF PayoffCovered

\* The books of the pool in a step that leaves positions and tranches alone.
LEMMA BooksStep ==
  ASSUME IndInv, pool' \in Pool, pool'.deposited = pool.deposited,
         UNCHANGED <<tranches, investors>>
  PROVE  SharesReconcile'
BY DEF IndInv, SharesReconcile

\* do_request_loan: the application fee is held apart from the liquidity.
LEMMA RequestStep ==
  ASSUME IndInv, NEW b \in Borrowers, NEW l \in Loans, NEW principal \in Principals,
         do_request_loan(b, l, principal)
  PROVE  IndInv'
<1> DEFINE fee == Bps(principal, ApplicationFeeBps)
           loan == [NoLoan EXCEPT !.status = "Requested", !.borrower = b,
                                  !.principal = principal, !.last = now, !.fee = fee]
           bal == pool.balance + fee
           esc == book.escrowed + fee
<1>0. TypeOK /\ now \in Nat
  BY DEF IndInv, TypeOK
<1>1. principal \in Nat /\ principal > 0
  BY Constants DEF do_request_loan
<1>2. fee \in Nat
  BY <1>1, BpsType, Constants
<1>3. /\ set_loan(l, loan) /\ pool' = [pool EXCEPT !.balance = bal]
      /\ book' = [book EXCEPT !.escrowed = esc]
      /\ UNCHANGED <<now, tranches, investors, exposure, late>>
  BY DEF do_request_loan
<1> HIDE DEF fee
<1>4. bal \in Nat /\ esc \in Int
  BY <1>0, <1>2, Fields
<1> HIDE DEF bal, esc
<1>5. /\ loan \in LoanRecord /\ loan.status = "Requested" /\ loan.disbursed = 0
      /\ loan.repaid = 0 /\ loan.debt = 0 /\ loan.expires = 0 /\ loan.quote = 0
      /\ loan.principal = principal
  <2>1. /\ NoLoan \in LoanRecord /\ NoLoan.disbursed = 0 /\ NoLoan.repaid = 0
        /\ NoLoan.debt = 0 /\ NoLoan.expires = 0 /\ NoLoan.quote = 0
    BY DEF LoanRecord, NoLoan, LoanStatus
  <2> QED
    BY <2>1, <1>0, <1>1, <1>2 DEF LoanRecord, LoanStatus
<1> HIDE DEF loan
<1>6. /\ loans' \in [Loans -> LoanRecord]
      /\ \A k \in Loans : loans'[k].disbursed <= loans'[k].principal
      /\ LoansHavePrincipal' /\ PayoffCovered'
  <2>1. Covered(loan, late[l]) /\ late[l] \in Nat /\ loan.disbursed <= loan.principal
    BY <1>0, <1>1, <1>5 DEF Covered, TypeOK
  <2> QED
    BY <2>1, <1>0, <1>1, <1>3, <1>5, LoanStep DEF TypeOK
<1>7. /\ pool' \in Pool /\ pool'.balance = bal /\ pool'.liquidity = pool.liquidity
      /\ pool'.deposited = pool.deposited /\ pool'.fees = pool.fees
  BY <1>0, <1>3, <1>4 DEF TypeOK, Pool
<1>8. /\ book' \in [escrowed: Int, written_off: Nat, unbacked: Nat]
      /\ book'.escrowed = esc /\ book'.written_off = book.written_off
      /\ book'.unbacked = book.unbacked
  BY <1>0, <1>3, <1>4 DEF TypeOK
<1>9. BalanceAccounted'
  BY <1>0, <1>2, <1>7, <1>8, Fields DEF IndInv, BalanceAccounted, bal, esc
<1>10. SharesReconcile'
  BY <1>3, <1>7, BooksStep
<1> QED
  BY <1>0, <1>3, <1>6, <1>7, <1>8, <1>9, <1>10 DEF IndInv, TypeOK

\* A change of a borrower's exposure leaves the exposures well-formed.
LEMMA ExposureType ==
  ASSUME TypeOK, NEW b \in Borrowers \cup {None}, NEW n \in Int,
         \/ exposure' = [exposure EXCEPT ![b] = @ + n]
         \/ exposure' = [exposure EXCEPT ![b] = @ - n]
  PROVE  exposure' \in [Borrowers -> Int]
<1>2. CASE b \in Borrowers
  <2>1. exposure[b] + n \in Int /\ exposure[b] - n \in Int
    BY <1>2 DEF TypeOK
  <2> QED
    BY <2>1 DEF TypeOK
<1>3. CASE b = None
  <2>1. exposure' = exposure
    BY <1>3, Constants DEF TypeOK
  <2> QED
    BY <2>1 DEF TypeOK
<1> QED
  BY <1>2, <1>3

\* approve_loan: the held fee leaves, and the principal is committed.
LEMMA ApproveStep ==
  ASSUME IndInv, NEW l \in Loans, approve_loan(l)
  PROVE  IndInv'
<1> DEFINE old == loans[l]
           m == (old.principal + Bps(old.principal, InterestRateBps)) \div DurationMonths
           due == now + LedgersPerMonth
           loan == [old EXCEPT !.status = "Approved", !.fee = 0, !.monthly = m,
                               !.next_due = due]
           bal == pool.balance - old.fee
           com == pool.commitments + old.principal
           esc == book.escrowed - old.fee
<1>0. TypeOK /\ now \in Nat /\ old \in LoanRecord /\ Covered(old, late[l])
      /\ old.disbursed <= old.principal /\ late[l] \in Nat
  BY DEF IndInv, TypeOK, PayoffCovered
<1>1. /\ old.status = "Requested" /\ set_loan(l, loan)
      /\ pool' = [pool EXCEPT !.balance = bal, !.commitments = com]
      /\ book' = [book EXCEPT !.escrowed = esc]
      /\ exposure' = [exposure EXCEPT ![old.borrower] = @ + old.principal]
      /\ pool.balance >= old.fee
      /\ UNCHANGED <<now, tranches, investors, late>>
  BY DEF approve_loan, SettleApplicationFee
<1>2. old.principal > 0
  BY <1>1 DEF IndInv, LoansHavePrincipal
<1> HIDE DEF old
<1>3. m \in Nat
  <2>1. Bps(old.principal, InterestRateBps) \in Nat
    BY <1>0, LoanFields, BpsType, Constants
  <2>2. old.principal + Bps(old.principal, InterestRateBps) \in Nat
    BY <2>1, <1>0, LoanFields
  <2> QED
    BY <2>2, Division, Constants
<1>4. bal \in Nat /\ com \in Int /\ esc \in Int /\ due \in Nat
  BY <1>0, <1>1, LoanFields, Fields, Constants
<1>5. exposure' \in [Borrowers -> Int]
  <2>1. old.borrower \in Borrowers \cup {None} /\ old.principal \in Int
    BY <1>0, LoanFields
  <2> QED
    BY <2>1, <1>0, <1>1, ExposureType, Zenon
<1> HIDE DEF m, due, com
<1>6. /\ loan \in LoanRecord /\ loan.status = "Approved" /\ loan.disbursed = old.disbursed
      /\ loan.repaid = old.repaid /\ loan.debt = old.debt /\ loan.expires = old.expires
      /\ loan.quote = old.quote /\ loan.principal = old.principal
  BY <1>0, <1>3, <1>4 DEF LoanRecord, LoanStatus
<1> HIDE DEF loan
<1>7. Covered(loan, late[l])
  BY <1>0, <1>1, <1>6 DEF Covered
<1>8. /\ loans' \in [Loans -> LoanRecord]
      /\ \A k \in Loans : loans'[k].disbursed <= loans'[k].principal
      /\ LoansHavePrincipal' /\ PayoffCovered'
  BY <1>0, <1>1, <1>2, <1>6, <1>7, LoanStep DEF TypeOK
<1>9. /\ pool' \in Pool /\ pool'.balance = bal /\ pool'.liquidity = pool.liquidity
      /\ pool'.deposited = pool.deposited /\ pool'.fees = pool.fees
  <2> HIDE DEF bal
  <2> QED
    BY <1>0, <1>1, <1>4 DEF TypeOK, Pool
<1>10. /\ book' \in [escrowed: Int, written_off: Nat, unbacked: Nat]
       /\ book'.escrowed = esc /\ book'.written_off = book.written_off
       /\ book'.unbacked = book.unbacked
  <2> HIDE DEF esc
  <2> QED
    BY <1>0, <1>1, <1>4 DEF TypeOK
<1>11. BalanceAccounted'
  BY <1>0, <1>9, <1>10, Fields, LoanFields DEF IndInv, BalanceAccounted
<1>12. SharesReconcile'
  BY <1>1, <1>9, BooksStep
<1> QED
  BY <1>0, <1>1, <1>5, <1>8, <1>9, <1>10, <1>11, <1>12 DEF IndInv, TypeOK

\* reject_loan and cancel_loan: the held fee goes back.
LEMMA DeclineStep ==
  ASSUME IndInv, NEW l \in Loans, NEW status \in {"Rejected", "Cancelled"},
         Decline(l, status)
  PROVE  IndInv'
<1> DEFINE old == loans[l]
           loan == [old EXCEPT !.status = status, !.fee = 0]
           bal == pool.balance - old.fee
           esc == book.escrowed - old.fee
<1>0. TypeOK /\ now \in Nat /\ old \in LoanRecord /\ Covered(old, late[l])
      /\ old.disbursed <= old.principal /\ late[l] \in Nat
  BY DEF IndInv, TypeOK, PayoffCovered
<1>1. /\ old.status = "Requested" /\ set_loan(l, loan)
      /\ pool' = [pool EXCEPT !.balance = bal]
      /\ book' = [book EXCEPT !.escrowed = esc]
      /\ pool.balance >= old.fee
      /\ UNCHANGED <<now, tranches, investors, exposure, late>>
  BY DEF Decline, SettleApplicationFee
<1>2. old.principal > 0
  BY <1>1 DEF IndInv, LoansHavePrincipal
<1> HIDE DEF old
<1>4. bal \in Nat /\ esc \in Int
  BY <1>0, <1>1, LoanFields, Fields
<1>6. /\ loan \in LoanRecord /\ loan.status = status /\ loan.disbursed = old.disbursed
      /\ loan.expires = old.expires
      /\ loan.quote = old.quote /\ loan.principal = old.principal
  BY <1>0 DEF LoanRecord, LoanStatus
<1> HIDE DEF loan
<1>7. Covered(loan, late[l])
  BY <1>0, <1>1, <1>6 DEF Covered
<1>8. /\ loans' \in [Loans -> LoanRecord]
      /\ \A k \in Loans : loans'[k].disbursed <= loans'[k].principal
      /\ LoansHavePrincipal' /\ PayoffCovered'
  BY <1>0, <1>1, <1>2, <1>6, <1>7, LoanStep DEF TypeOK
<1>9. /\ pool' \in Pool /\ pool'.balance = bal /\ pool'.liquidity = pool.liquidity
      /\ pool'.deposited = pool.deposited /\ pool'.fees = pool.fees
  <2> HIDE DEF bal
  <2> QED
    BY <1>0, <1>1, <1>4 DEF TypeOK, Pool
<1>10. /\ book' \in [escrowed: Int, written_off: Nat, unbacked: Nat]
       /\ book'.escrowed = esc /\ book'.written_off = book.written_off
       /\ book'.unbacked = book.unbacked
  <2> HIDE DEF esc
  <2> QED
    BY <1>0, <1>1, <1>4 DEF TypeOK
<1>11. BalanceAccounted'
  BY <1>0, <1>9, <1>10, Fields, LoanFields DEF IndInv, BalanceAccounted
<1>12. SharesReconcile'
  BY <1>1, <1>9, BooksStep
<1> QED
  BY <1>0, <1>1, <1>8, <1>9, <1>10, <1>11, <1>12 DEF IndInv, TypeOK

\* accrue_interest leaves all but debt and reference ledger as they are.
LEMMA AccrueFields ==
  ASSUME now \in 0..MaxLedger, NEW old \in LoanRecord
  PROVE  LET loan == accrue_interest(old)
         IN  /\ loan \in LoanRecord /\ loan.debt >= old.debt
             /\ loan.status = old.status /\ loan.borrower = old.borrower
             /\ loan.principal = old.principal /\ loan.disbursed = old.disbursed
             /\ loan.repaid = old.repaid /\ loan.quote = old.quote
             /\ loan.expires = old.expires /\ loan.fee = old.fee
<1> PICK d \in Int, k \in Nat :
      /\ accrue_interest(old) = [old EXCEPT !.debt = d, !.last = k]
      /\ d >= old.debt
  BY AccrueType
<1> QED
  BY DEF LoanRecord

\* disburse: debt and disbursed amount grow together; a quote is overtaken by it.
LEMMA DisburseStep ==
  ASSUME IndInv, NEW l \in Loans, NEW amount \in Payments, disburse(l, amount)
  PROVE  IndInv'
<1> DEFINE acc == accrue_interest(loans[l])
           dis == acc.disbursed + amount
           deb == acc.debt + amount
           loan == [acc EXCEPT !.disbursed = dis, !.debt = deb]
           bal == pool.balance - amount
           liq == pool.liquidity - amount
           com == pool.commitments - amount
           extra == IF acc.expires # 0 THEN late[l] + amount ELSE late[l]
<1>0. TypeOK /\ now \in 0..MaxLedger /\ loans[l] \in LoanRecord /\ Covered(loans[l], late[l])
      /\ late[l] \in Nat
  BY Constants DEF IndInv, TypeOK, PayoffCovered
<1>1. /\ amount > 0 /\ loans[l].status = "Approved" /\ dis <= acc.principal
      /\ pool.balance >= amount
      /\ set_loan(l, loan)
      /\ pool' = [pool EXCEPT !.balance = bal, !.liquidity = liq, !.commitments = com]
      /\ late' = IF acc.expires # 0 THEN [late EXCEPT ![l] = @ + amount] ELSE late
      /\ UNCHANGED <<now, tranches, investors, exposure, book>>
  BY DEF disburse
<1>2. amount \in Nat /\ loans[l].principal > 0
  BY <1>1, Constants DEF IndInv, LoansHavePrincipal
<1>3. /\ acc \in LoanRecord /\ acc.debt >= loans[l].debt /\ acc.status = loans[l].status
      /\ acc.principal = loans[l].principal /\ acc.disbursed = loans[l].disbursed
      /\ acc.repaid = loans[l].repaid /\ acc.quote = loans[l].quote
      /\ acc.expires = loans[l].expires
  BY <1>0, AccrueFields
<1> HIDE DEF acc
<1>4. bal \in Nat /\ liq \in Int /\ com \in Int /\ dis \in Nat /\ deb \in Int /\ extra \in Nat
  BY <1>0, <1>1, <1>2, <1>3, LoanFields, Fields
<1>5. late' \in [Loans -> Nat] /\ late'[l] = extra
      /\ \A k \in Loans : k # l => late'[k] = late[k]
  BY <1>0, <1>1, <1>2 DEF TypeOK
<1>6. dis = acc.disbursed + amount /\ deb = acc.debt + amount
      /\ (acc.expires # 0 => extra = late[l] + amount)
  OBVIOUS
<1> HIDE DEF dis, deb, liq, bal, com, extra
<1>7. /\ loan \in LoanRecord /\ loan.status = acc.status /\ loan.disbursed = dis
      /\ loan.debt = deb /\ loan.principal = acc.principal
      /\ loan.repaid = acc.repaid /\ loan.quote = acc.quote /\ loan.expires = acc.expires
  BY <1>3, <1>4 DEF LoanRecord
<1> HIDE DEF loan
<1>8. Covered(loan, extra)
  BY <1>0, <1>1, <1>2, <1>3, <1>4, <1>6, <1>7, LoanFields DEF Covered
<1>9. /\ loans' \in [Loans -> LoanRecord]
      /\ \A k \in Loans : loans'[k].disbursed <= loans'[k].principal
      /\ LoansHavePrincipal' /\ PayoffCovered'
  BY <1>1, <1>2, <1>3, <1>4, <1>5, <1>7, <1>8, LoanStep
<1>10. /\ pool' \in Pool /\ pool'.balance = bal /\ pool'.liquidity = liq
       /\ pool'.deposited = pool.deposited /\ pool'.fees = pool.fees
  BY <1>0, <1>1, <1>4 DEF TypeOK, Pool
<1>11. BalanceAccounted'
  BY <1>0, <1>1, <1>2, <1>10, Fields DEF IndInv, BalanceAccounted, bal, liq
<1>12. SharesReconcile'
  BY <1>1, <1>10, BooksStep
<1> QED
  BY <1>0, <1>1, <1>5, <1>9, <1>10, <1>11, <1>12 DEF IndInv, TypeOK

\* refund_milestone_dispute: liquidity grows by an amount no token backs.
LEMMA RefundStep ==
  ASSUME IndInv, NEW l \in Loans, NEW amount \in Payments,
         refund_milestone_dispute(l, amount)
  PROVE  IndInv'
<1> DEFINE old == loans[l]
           dis == old.disbursed - amount
           deb == old.debt - amount
           loan == [old EXCEPT !.disbursed = dis, !.debt = deb]
           liq == pool.liquidity + amount
           com == pool.commitments + amount
           unb == book.unbacked + amount
<1>0. TypeOK /\ old \in LoanRecord /\ Covered(old, late[l]) /\ late[l] \in Nat
      /\ old.disbursed <= old.principal
  BY DEF IndInv, TypeOK, PayoffCovered
<1>1. /\ amount > 0 /\ old.status = "Approved" /\ amount <= old.disbursed
      /\ set_loan(l, loan)
      /\ pool' = [pool EXCEPT !.liquidity = liq, !.commitments = com]
      /\ book' = [book EXCEPT !.unbacked = unb]
      /\ UNCHANGED <<now, tranches, investors, exposure, late>>
  BY DEF refund_milestone_dispute
<1>2. amount \in Nat /\ old.principal > 0
  BY <1>1, Constants DEF IndInv, LoansHavePrincipal
<1> HIDE DEF old
<1>3. liq \in Int /\ com \in Int /\ unb \in Nat /\ dis \in Nat /\ deb \in Int
      /\ dis <= old.principal
  BY <1>0, <1>1, <1>2, LoanFields, Fields
<1>4. dis = old.disbursed - amount /\ deb = old.debt - amount
  OBVIOUS
<1> HIDE DEF dis, deb, liq, com, unb
<1>5. /\ loan \in LoanRecord /\ loan.status = old.status /\ loan.disbursed = dis
      /\ loan.debt = deb /\ loan.principal = old.principal
      /\ loan.repaid = old.repaid /\ loan.quote = old.quote /\ loan.expires = old.expires
  BY <1>0, <1>3 DEF LoanRecord
<1> HIDE DEF loan
<1>6. Covered(loan, late[l])
  BY <1>0, <1>1, <1>2, <1>3, <1>4, <1>5, LoanFields DEF Covered
<1>7. /\ loans' \in [Loans -> LoanRecord]
      /\ \A k \in Loans : loans'[k].disbursed <= loans'[k].principal
      /\ LoansHavePrincipal' /\ PayoffCovered'
  BY <1>0, <1>1, <1>2, <1>3, <1>5, <1>6, LoanStep DEF TypeOK
<1>8. /\ pool' \in Pool /\ pool'.balance = pool.balance /\ pool'.liquidity = liq
      /\ pool'.deposited = pool.deposited /\ pool'.fees = pool.fees
  BY <1>0, <1>1, <1>3 DEF TypeOK, Pool
<1>9. /\ book' \in [escrowed: Int, written_off: Nat, unbacked: Nat]
      /\ book'.escrowed = book.escrowed /\ book'.written_off = book.written_off
      /\ book'.unbacked = unb
  BY <1>0, <1>1, <1>3 DEF TypeOK
<1>10. BalanceAccounted'
  BY <1>0, <1>2, <1>8, <1>9, Fields DEF IndInv, BalanceAccounted, liq, unb
<1>11. SharesReconcile'
  BY <1>1, <1>8, BooksStep
<1> QED
  BY <1>0, <1>1, <1>7, <1>8, <1>9, <1>10, <1>11 DEF IndInv, TypeOK

\* The cut of a payment is between nothing and the payment.
LEMMA ProtocolFeeType ==
  ASSUME NEW loan \in LoanRecord, loan.principal > 0, NEW amount \in Nat
  PROVE  ProtocolFee(loan, amount) \in 0..amount
<1> DEFINE interest == Bps(loan.principal, InterestRateBps)
           owed == loan.principal + interest
           part == (interest * amount) \div owed
<1>1. interest \in Nat
  BY LoanFields, BpsType, Constants
<1>2. ProtocolFee(loan, amount) = Bps(part, FeeSwitchBps)
  BY DEF ProtocolFee
<1> HIDE DEF interest
<1>3. owed \in Nat \ {0} /\ interest <= owed
  BY <1>1, LoanFields
<1> HIDE DEF owed
<1>4. interest * amount \in Nat /\ interest * amount <= amount * owed
  BY <1>1, <1>3
<1>5. part \in Nat /\ part <= amount
  BY <1>3, <1>4, Division
<1> HIDE DEF part
<1>6. FeeSwitchBps \in Nat /\ FeeSwitchBps <= BPS_SCALE
  BY Constants DEF BPS_SCALE
<1>7. Bps(part, FeeSwitchBps) \in Nat /\ Bps(part, FeeSwitchBps) <= part
  BY <1>5, <1>6, BpsType
<1> QED
  BY <1>2, <1>5, <1>7

\* The interest in a payment is never negative.
LEMMA InterestPaidType ==
  ASSUME NEW loan \in LoanRecord, NEW amount \in Nat
  PROVE  InterestPaid(loan, amount) \in Nat
BY LoanFields, LeastGreatest DEF InterestPaid

\* A payment, in tokens and liquidity alike, net of a fee.
LEMMA PaymentStep ==
  ASSUME IndInv, NEW net \in Nat, NEW interest \in Nat, NEW com \in Int,
         pool' = [pool EXCEPT !.balance = @ + net, !.liquidity = @ + net,
                              !.interest = @ + interest, !.commitments = com],
         UNCHANGED <<tranches, investors, book>>
  PROVE  pool' \in Pool /\ BalanceAccounted' /\ SharesReconcile'
<1> DEFINE bal == pool.balance + net
           liq == pool.liquidity + net
           int == pool.interest + interest
<1>0. TypeOK
  BY DEF IndInv
<1>1. bal \in Nat /\ liq \in Int /\ int \in Nat
  BY <1>0, Fields
<1>2. pool' = [pool EXCEPT !.balance = bal, !.liquidity = liq, !.interest = int,
                           !.commitments = com]
  OBVIOUS
<1> HIDE DEF bal, liq, int
<1>3. /\ pool' \in Pool /\ pool'.balance = bal /\ pool'.liquidity = liq
      /\ pool'.deposited = pool.deposited /\ pool'.fees = pool.fees
  BY <1>0, <1>1, <1>2 DEF TypeOK, Pool
<1>4. BalanceAccounted'
  BY <1>0, <1>3, Fields DEF IndInv, BalanceAccounted, bal, liq
<1>5. SharesReconcile'
  BY <1>3, BooksStep
<1> QED
  BY <1>3, <1>4, <1>5

\* Closing a loan changes status, debt and quote, and the exposure.
LEMMA ClosedFields ==
  ASSUME NEW old \in LoanRecord
  PROVE  LET loan == Closed(old)
         IN  /\ loan \in LoanRecord /\ loan.status = "Repaid" /\ loan.quote = 0
             /\ loan.expires = 0 /\ loan.principal = old.principal
             /\ loan.disbursed = old.disbursed /\ loan.repaid = old.repaid
             /\ loan.borrower = old.borrower /\ loan.fee = old.fee
<1> DEFINE d == 0
           q == 0
           e == 0
<1>1. Closed(old) = [old EXCEPT !.debt = d, !.status = "Repaid", !.quote = q,
                                !.expires = e]
  BY DEF Closed
<1>2. d \in Int /\ q \in Int /\ e \in Nat
  OBVIOUS
<1>3. /\ Closed(old) \in LoanRecord /\ Closed(old).status = "Repaid"
      /\ Closed(old).quote = q /\ Closed(old).expires = e
      /\ Closed(old).principal = old.principal
      /\ Closed(old).disbursed = old.disbursed /\ Closed(old).repaid = old.repaid
      /\ Closed(old).borrower = old.borrower /\ Closed(old).fee = old.fee
  <2> HIDE DEF d, q, e
  <2> QED
    BY <1>1, <1>2 DEF LoanRecord, LoanStatus
<1> QED
  BY <1>3

\* Releasing a loan's exposure leaves the exposures well-formed.
LEMMA ReleaseType ==
  ASSUME TypeOK, NEW loan \in LoanRecord, ReleaseExposure(loan)
  PROVE  exposure' \in [Borrowers -> Int]
<1>1. loan.borrower \in Borrowers \cup {None} /\ loan.principal \in Int
  BY LoanFields
<1> QED
  BY <1>1, ExposureType, Zenon DEF ReleaseExposure

\* A live quote that is paid in full settles the loan: quote and late
\* disbursements together are at least what has not come back.
LEMMA SettleStep ==
  ASSUME IndInv, NEW l \in Loans, NEW amount \in Nat, amount > 0,
         loans[l].status = "Approved", LiveQuote(l, amount),
         settle_quoted_payoff(l, amount)
  PROVE  IndInv'
<1> DEFINE acc == accrue_interest(loans[l])
           rep == acc.repaid + amount
           paid == [acc EXCEPT !.repaid = rep]
           loan == Closed(paid)
           com == pool.commitments - Undisbursed(acc)
           interest == InterestPaid(acc, amount)
<1>0. TypeOK /\ now \in 0..MaxLedger /\ loans[l] \in LoanRecord /\ Covered(loans[l], late[l])
      /\ late[l] \in Nat /\ loans[l].principal > 0
      /\ loans[l].disbursed <= loans[l].principal
  BY Constants DEF IndInv, TypeOK, PayoffCovered, LoansHavePrincipal
<1>1. /\ set_loan(l, loan) /\ ReleaseExposure(acc)
      /\ pool' = [pool EXCEPT !.balance = @ + amount, !.liquidity = @ + amount,
                              !.interest = @ + interest, !.commitments = com]
      /\ UNCHANGED <<now, tranches, investors, book, late>>
  BY DEF settle_quoted_payoff
<1>2. /\ acc \in LoanRecord /\ acc.status = loans[l].status
      /\ acc.principal = loans[l].principal /\ acc.disbursed = loans[l].disbursed
      /\ acc.repaid = loans[l].repaid /\ acc.quote = loans[l].quote
      /\ acc.expires = loans[l].expires
  BY <1>0, AccrueFields
<1> HIDE DEF acc
<1>3. rep \in Int /\ com \in Int /\ interest \in Nat
  BY <1>0, <1>2, LoanFields, Fields, InterestPaidType DEF Undisbursed
<1>4. rep = acc.repaid + amount
  OBVIOUS
<1> HIDE DEF rep, com, interest
<1>5. /\ paid \in LoanRecord /\ paid.repaid = rep /\ paid.disbursed = acc.disbursed
      /\ paid.principal = acc.principal
  BY <1>2, <1>3 DEF LoanRecord
<1> HIDE DEF paid
<1>6. /\ loan \in LoanRecord /\ loan.status = "Repaid" /\ loan.quote = 0
      /\ loan.repaid = rep /\ loan.disbursed = acc.disbursed
      /\ loan.principal = acc.principal
  BY <1>5, ClosedFields
<1> HIDE DEF loan
<1>7. loans[l].quote = amount /\ loans[l].expires # 0
  BY <1>0 DEF LiveQuote, Covered
<1>8. Covered(loan, late[l])
  BY <1>0, <1>2, <1>4, <1>6, <1>7, LoanFields DEF Covered
<1>9. /\ loans' \in [Loans -> LoanRecord]
      /\ \A k \in Loans : loans'[k].disbursed <= loans'[k].principal
      /\ LoansHavePrincipal' /\ PayoffCovered'
  BY <1>0, <1>1, <1>2, <1>6, <1>8, LoanStep DEF TypeOK
<1>10. pool' \in Pool /\ BalanceAccounted' /\ SharesReconcile'
  BY <1>1, <1>3, PaymentStep
<1>11. exposure' \in [Borrowers -> Int]
  BY <1>0, <1>1, <1>2, ReleaseType
<1> QED
  BY <1>0, <1>1, <1>9, <1>10, <1>11 DEF IndInv, TypeOK

\* PruneQuote touches the quote only, and removes it together with its expiry.
LEMMA PruneFields ==
  ASSUME NEW old \in LoanRecord
  PROVE  LET loan == PruneQuote(old)
         IN  /\ loan \in LoanRecord /\ loan.status = old.status
             /\ loan.debt = old.debt /\ loan.principal = old.principal
             /\ loan.disbursed = old.disbursed /\ loan.repaid = old.repaid
             /\ loan.borrower = old.borrower /\ loan.fee = old.fee
             /\ \/ loan.quote = 0 /\ loan.expires = 0
                \/ loan.quote = old.quote /\ loan.expires = old.expires
<1> DEFINE q == 0
           e == 0
<1>0. q \in Int /\ e \in Nat
  OBVIOUS
<1>1. CASE now > old.expires
  <2>1. PruneQuote(old) = [old EXCEPT !.quote = q, !.expires = e]
    BY <1>1 DEF PruneQuote
  <2>2. LET loan == PruneQuote(old)
        IN  /\ loan \in LoanRecord /\ loan.status = old.status
            /\ loan.debt = old.debt /\ loan.principal = old.principal
            /\ loan.disbursed = old.disbursed /\ loan.repaid = old.repaid
            /\ loan.borrower = old.borrower /\ loan.fee = old.fee
            /\ loan.quote = q /\ loan.expires = e
    <3> HIDE DEF q, e
    <3> QED
      BY <1>0, <2>1 DEF LoanRecord
  <2> QED
    BY <2>2
<1>2. CASE ~(now > old.expires)
  BY <1>2 DEF PruneQuote
<1> QED
  BY <1>1, <1>2

\* An installment touches the schedule only.
LEMMA InstallmentFields ==
  ASSUME now \in Nat, NEW old \in LoanRecord, NEW amount \in Nat
  PROVE  LET loan == PayInstallment(old, amount)
         IN  /\ loan \in LoanRecord /\ loan.status = old.status
             /\ loan.debt = old.debt /\ loan.principal = old.principal
             /\ loan.disbursed = old.disbursed /\ loan.repaid = old.repaid
             /\ loan.borrower = old.borrower /\ loan.fee = old.fee
             /\ loan.quote = old.quote /\ loan.expires = old.expires
<1> DEFINE mis == old.missed + MissedPeriods(old)
           due == old.next_due + (MissedPeriods(old) + 1) * LedgersPerMonth
           soon == old.next_due + LedgersPerMonth
           zero == 0
<1>0. soon \in Nat /\ zero \in Nat
  BY LoanFields, Constants
<1>1. CASE now > GraceDeadline(old)
  <2>1. now - old.next_due \in Nat
    <3>1. old.next_due \in Nat /\ GracePeriod \in Nat
      BY LoanFields, Constants
    <3> QED
      BY <3>1, <1>1 DEF GraceDeadline
  <2>2. MissedPeriods(old) \in Nat
    BY <2>1, Division, Constants DEF MissedPeriods
  <2>3. mis \in Nat /\ due \in Nat
    BY <2>2, LoanFields, Constants
  <2>4. PayInstallment(old, amount) = [old EXCEPT !.missed = mis, !.next_due = due]
    BY <1>1 DEF PayInstallment
  <2> HIDE DEF mis, due
  <2> QED
    BY <2>3, <2>4 DEF LoanRecord
<1>2. CASE ~(now > GraceDeadline(old)) /\ amount >= old.monthly
  <2>1. PayInstallment(old, amount) = [old EXCEPT !.missed = zero, !.next_due = soon]
    BY <1>2 DEF PayInstallment
  <2> HIDE DEF soon, zero
  <2> QED
    BY <1>0, <2>1 DEF LoanRecord
<1>3. CASE ~(now > GraceDeadline(old)) /\ ~(amount >= old.monthly)
  <2>1. PayInstallment(old, amount) = old
    BY <1>3 DEF PayInstallment
  <2> QED
    BY <2>1
<1> QED
  BY <1>1, <1>2, <1>3

\* A payment without a live quote: it reduces the debt by what it adds to the
\* amount repaid, so the two never cover less than has been disbursed.
LEMMA RepayStep ==
  ASSUME IndInv, NEW l \in Loans, NEW amount \in Payments, repay(l, amount)
  PROVE  IndInv'
<1> DEFINE pruned == PruneQuote(loans[l])
           acc == accrue_interest(pruned)
           paying == PayInstallment(acc, amount)
           rep == paying.repaid + amount
           deb == paying.debt - amount
           loan == [paying EXCEPT !.repaid = rep, !.debt = deb]
           fee == ProtocolFee(acc, amount)
           net == amount - fee
           interest == InterestPaid(acc, amount)
           com == pool.commitments - Undisbursed(loan)
<1>0. TypeOK /\ now \in 0..MaxLedger /\ now \in Nat /\ loans[l] \in LoanRecord
      /\ Covered(loans[l], late[l])
      /\ late[l] \in Nat /\ loans[l].disbursed <= loans[l].principal
  BY Constants DEF IndInv, TypeOK, PayoffCovered
<1>1. amount \in Nat /\ amount > 0 /\ loans[l].status = "Approved"
  BY Constants DEF repay
<1>2. loans[l].principal > 0
  BY <1>1 DEF IndInv, LoansHavePrincipal
<1>3. CASE LiveQuote(l, amount) /\ settle_quoted_payoff(l, amount)
  BY <1>1, <1>3, SettleStep
<1>4. CASE /\ ~LiveQuote(l, amount)
           /\ amount <= acc.debt
           /\ InstallmentAccepted(acc, amount)
           /\ \/ /\ loan.debt = 0
                 /\ set_loan(l, Closed(loan))
                 /\ ReleaseExposure(loan)
                 /\ pool' = [pool EXCEPT !.balance = @ + amount - fee,
                               !.liquidity = @ + amount - fee,
                               !.interest = @ + interest, !.commitments = com]
              \/ /\ loan.debt # 0
                 /\ set_loan(l, loan)
                 /\ UNCHANGED exposure
                 /\ pool' = [pool EXCEPT !.balance = @ + amount - fee,
                               !.liquidity = @ + amount - fee, !.interest = @ + interest]
           /\ UNCHANGED <<now, tranches, investors, book, late>>
  <2>1. /\ pruned \in LoanRecord /\ pruned.status = "Approved"
        /\ pruned.debt = loans[l].debt /\ pruned.principal = loans[l].principal
        /\ pruned.disbursed = loans[l].disbursed /\ pruned.repaid = loans[l].repaid
        /\ \/ pruned.quote = 0 /\ pruned.expires = 0
           \/ pruned.quote = loans[l].quote /\ pruned.expires = loans[l].expires
    BY <1>0, <1>1, PruneFields
  <2> HIDE DEF pruned
  <2>2. /\ acc \in LoanRecord /\ acc.debt >= pruned.debt /\ acc.status = pruned.status
        /\ acc.principal = pruned.principal /\ acc.disbursed = pruned.disbursed
        /\ acc.repaid = pruned.repaid /\ acc.quote = pruned.quote
        /\ acc.expires = pruned.expires
    BY <1>0, <2>1, AccrueFields
  <2> HIDE DEF acc
  <2>3. /\ paying \in LoanRecord /\ paying.status = acc.status
        /\ paying.debt = acc.debt /\ paying.principal = acc.principal
        /\ paying.disbursed = acc.disbursed /\ paying.repaid = acc.repaid
        /\ paying.quote = acc.quote /\ paying.expires = acc.expires
    BY <1>0, <1>1, <2>2, InstallmentFields
  <2> HIDE DEF paying
  <2>4. rep \in Int /\ deb \in Int /\ rep = paying.repaid + amount
        /\ deb = paying.debt - amount
    BY <1>1, <2>3, LoanFields
  <2> HIDE DEF rep, deb
  <2>5. /\ loan \in LoanRecord /\ loan.status = "Approved" /\ loan.debt = deb
        /\ loan.repaid = rep /\ loan.principal = loans[l].principal
        /\ loan.disbursed = loans[l].disbursed
        /\ loan.quote = pruned.quote /\ loan.expires = pruned.expires
    BY <2>1, <2>2, <2>3, <2>4 DEF LoanRecord
  <2> HIDE DEF loan
  <2>6. fee \in 0..amount
    BY <1>1, <1>2, <2>1, <2>2, ProtocolFeeType
  <2>7. interest \in Nat /\ com \in Int
    BY <1>0, <1>1, <2>2, <2>5, InterestPaidType, LoanFields, Fields DEF Undisbursed
  <2> HIDE DEF fee, interest, com
  <2>8. net \in Nat /\ pool.balance + amount - fee = pool.balance + net
        /\ pool.liquidity + amount - fee = pool.liquidity + net
    BY <1>0, <1>1, <2>6, Fields
  <2>9. Covered(loan, late[l]) /\ (loan.debt = 0 => loan.repaid >= loan.disbursed)
    <3>1. acc.debt >= loans[l].disbursed - loans[l].repaid
      BY <1>0, <1>1, <2>1, <2>2, LoanFields DEF Covered
    <3>2. deb = acc.debt - amount /\ rep = loans[l].repaid + amount
      BY <2>1, <2>2, <2>3, <2>4
    <3>3. deb >= loans[l].disbursed - rep
      BY <3>1, <3>2, <1>0, <1>1, <2>2, LoanFields
    <3> QED
      BY <3>2, <3>3, <1>0, <1>1, <2>1, <2>5, LoanFields DEF Covered
  <2> HIDE DEF net
  <2>10. CASE /\ loan.debt = 0
              /\ set_loan(l, Closed(loan))
              /\ ReleaseExposure(loan)
              /\ pool' = [pool EXCEPT !.balance = @ + amount - fee,
                            !.liquidity = @ + amount - fee,
                            !.interest = @ + interest, !.commitments = com]
    <3> DEFINE end == Closed(loan)
    <3>1. /\ end \in LoanRecord /\ end.status = "Repaid" /\ end.quote = 0
          /\ end.repaid = loan.repaid /\ end.disbursed = loan.disbursed
          /\ end.principal = loan.principal /\ set_loan(l, end)
      BY <2>5, <2>10, ClosedFields
    <3> HIDE DEF end
    <3>2. Covered(end, late[l])
      BY <3>1, <2>5, <2>9, <2>10, <1>0, LoanFields DEF Covered
    <3>3. /\ loans' \in [Loans -> LoanRecord]
          /\ \A k \in Loans : loans'[k].disbursed <= loans'[k].principal
          /\ LoansHavePrincipal' /\ PayoffCovered'
      BY <3>1, <3>2, <2>5, <1>0, <1>2, <1>4, LoanStep DEF TypeOK
    <3>4. pool' = [pool EXCEPT !.balance = @ + net, !.liquidity = @ + net,
                               !.interest = @ + interest, !.commitments = com]
      BY <2>8, <2>10
    <3>5. pool' \in Pool /\ BalanceAccounted' /\ SharesReconcile'
      BY <3>4, <2>7, <2>8, <1>4, PaymentStep
    <3>6. exposure' \in [Borrowers -> Int]
      BY <1>0, <2>5, <2>10, ReleaseType
    <3> QED
      BY <1>0, <1>4, <3>3, <3>5, <3>6 DEF IndInv, TypeOK
  <2>11. CASE /\ loan.debt # 0
              /\ set_loan(l, loan)
              /\ UNCHANGED exposure
              /\ pool' = [pool EXCEPT !.balance = @ + amount - fee,
                            !.liquidity = @ + amount - fee, !.interest = @ + interest]
    <3>1. /\ loans' \in [Loans -> LoanRecord]
          /\ \A k \in Loans : loans'[k].disbursed <= loans'[k].principal
          /\ LoansHavePrincipal' /\ PayoffCovered'
      BY <2>5, <2>9, <2>11, <1>0, <1>2, <1>4, LoanStep DEF TypeOK
    <3>2. pool' = [pool EXCEPT !.balance = @ + net, !.liquidity = @ + net,
                               !.interest = @ + interest,
                               !.commitments = pool.commitments]
      BY <2>8, <2>11, <1>0 DEF TypeOK, Pool
    <3>3. pool.commitments \in Int
      BY <1>0, Fields
    <3>4. pool' \in Pool /\ BalanceAccounted' /\ SharesReconcile'
      BY <3>2, <3>3, <2>7, <2>8, <1>4, PaymentStep
    <3> QED
      BY <1>0, <1>4, <2>11, <3>1, <3>4 DEF IndInv, TypeOK
  <2> QED
    BY <1>4, <2>10, <2>11
<1> QED
  BY <1>3, <1>4 DEF repay

\* A quote is the debt, which covers what has been disbursed so far.
LEMMA QuoteStep ==
  ASSUME IndInv, NEW l \in Loans, quote_payoff(l)
  PROVE  IndInv'
<1> DEFINE acc == accrue_interest(loans[l])
           q == acc.debt
           e == now + QuoteWindow
           loan == [acc EXCEPT !.quote = q, !.expires = e]
<1>0. TypeOK /\ now \in 0..MaxLedger /\ loans[l] \in LoanRecord /\ Covered(loans[l], late[l])
      /\ loans[l].disbursed <= loans[l].principal
  BY Constants DEF IndInv, TypeOK, PayoffCovered
<1>1. /\ QuoteWindow # 0 /\ acc.status = "Approved" /\ set_loan(l, loan)
      /\ late' = [late EXCEPT ![l] = 0]
      /\ UNCHANGED <<now, pool, tranches, investors, exposure, book>>
  BY DEF quote_payoff
<1>2. /\ acc \in LoanRecord /\ acc.debt >= loans[l].debt /\ acc.status = loans[l].status
      /\ acc.principal = loans[l].principal /\ acc.disbursed = loans[l].disbursed
      /\ acc.repaid = loans[l].repaid
  BY <1>0, AccrueFields
<1>3. loans[l].principal > 0
  BY <1>1, <1>2 DEF IndInv, LoansHavePrincipal
<1> HIDE DEF acc
<1>4. q \in Int /\ q = acc.debt /\ e \in Nat /\ e # 0
  BY <1>0, <1>1, <1>2, LoanFields, Constants
<1> HIDE DEF q, e
<1>5. /\ loan \in LoanRecord /\ loan.status = "Approved" /\ loan.debt = acc.debt
      /\ loan.principal = acc.principal /\ loan.disbursed = acc.disbursed
      /\ loan.repaid = acc.repaid /\ loan.quote = q /\ loan.expires = e
  BY <1>1, <1>2, <1>4 DEF LoanRecord
<1> HIDE DEF loan
<1>6. Covered(loan, 0)
  BY <1>0, <1>1, <1>2, <1>4, <1>5, LoanFields DEF Covered
<1>7. late' \in [Loans -> Nat] /\ late'[l] = 0
      /\ \A k \in Loans : k # l => late'[k] = late[k]
  BY <1>0, <1>1 DEF TypeOK
<1>8. /\ loans' \in [Loans -> LoanRecord]
      /\ \A k \in Loans : loans'[k].disbursed <= loans'[k].principal
      /\ LoansHavePrincipal' /\ PayoffCovered'
  BY <1>0, <1>1, <1>2, <1>3, <1>5, <1>6, <1>7, 0 \in Nat, LoanStep
<1>9. BalanceAccounted' /\ SharesReconcile'
  BY <1>1 DEF IndInv, BalanceAccounted, SharesReconcile
<1> QED
  BY <1>0, <1>1, <1>7, <1>8, <1>9 DEF IndInv, TypeOK

-----------------------------------------------------------------------------
(* Default, recovery and assumption.                                       *)

\* A loss moves capital of a tranche to what the tranche has absorbed, so that
\* the two still make up the supply.
LEMMA AbsorbStep ==
  ASSUME TypeOK, NEW s \in Int, NEW j \in Int,
         tranches' = [tranches EXCEPT
           !["Junior"].deposited = @ - j, !["Junior"].absorbed = @ + j,
           !["Senior"].deposited = @ - s, !["Senior"].absorbed = @ + s]
  PROVE  /\ tranches' \in [Tranches -> TrancheInfo]
         /\ \A t \in Tranches :
              /\ tranches'[t].supply = tranches[t].supply
              /\ tranches'[t].deposited + tranches'[t].absorbed =
                   tranches[t].deposited + tranches[t].absorbed
         /\ tranches'["Junior"].deposited = tranches["Junior"].deposited - j
         /\ tranches'["Junior"].absorbed = tranches["Junior"].absorbed + j
         /\ tranches'["Senior"].absorbed = tranches["Senior"].absorbed + s
<1> DEFINE dj == tranches["Junior"].deposited - j
           aj == tranches["Junior"].absorbed + j
           ds == tranches["Senior"].deposited - s
           as == tranches["Senior"].absorbed + s
           junior == [tranches["Junior"] EXCEPT !.deposited = dj, !.absorbed = aj]
           senior == [tranches["Senior"] EXCEPT !.deposited = ds, !.absorbed = as]
<1>0. tranches \in [Tranches -> TrancheInfo] /\ "Junior" \in Tranches /\ "Senior" \in Tranches
  BY DEF TypeOK, Tranches
<1>1. dj \in Int /\ aj \in Int /\ ds \in Int /\ as \in Int
  BY <1>0, Fields
<1>2. /\ dj + aj = tranches["Junior"].deposited + tranches["Junior"].absorbed
      /\ ds + as = tranches["Senior"].deposited + tranches["Senior"].absorbed
  BY <1>0, Fields
<1>3. /\ dj = tranches["Junior"].deposited - j /\ aj = tranches["Junior"].absorbed + j
      /\ as = tranches["Senior"].absorbed + s
  OBVIOUS
<1>4. tranches' = [tranches EXCEPT !["Junior"] = junior, !["Senior"] = senior]
  BY <1>0
<1> HIDE DEF dj, aj, ds, as
<1>5. junior \in TrancheInfo /\ junior.deposited = dj /\ junior.absorbed = aj
      /\ junior.supply = tranches["Junior"].supply
  BY <1>0, <1>1 DEF TrancheInfo
<1>6. senior \in TrancheInfo /\ senior.deposited = ds /\ senior.absorbed = as
      /\ senior.supply = tranches["Senior"].supply
  BY <1>0, <1>1 DEF TrancheInfo
<1> HIDE DEF junior, senior
<1>7. tranches' \in [Tranches -> TrancheInfo] /\ tranches'["Junior"] = junior
      /\ tranches'["Senior"] = senior
  <2>1. tranches'["Junior"] = junior /\ tranches'["Senior"] = senior
    BY <1>0, <1>4
  <2>2. tranches' = [t \in Tranches |-> IF t = "Senior" THEN senior ELSE junior]
    BY <1>0, <1>4 DEF Tranches
  <2> QED
    BY <2>1, <2>2, <1>5, <1>6
<1> QED
  BY <1>2, <1>5, <1>6, <1>7, <1>3 DEF Tranches

\* What a keeper is paid is part of what was seized.
LEMMA RewardType ==
  ASSUME NEW seized \in Nat
  PROVE  compute_keeper_reward(seized) \in 0..seized
<1>0. KeeperRewardBps \in Nat
  BY Constants DEF BPS_SCALE
<1>1. Bps(seized, KeeperRewardBps) \in Nat
  BY <1>0, BpsType
<1>2. KeeperRewardCap \in Nat
  BY Constants
<1> DEFINE capped == Least(Bps(seized, KeeperRewardBps), KeeperRewardCap)
<1>3. capped \in Nat
  BY <1>1, <1>2, LeastGreatest
<1> HIDE DEF capped
<1>4. Least(capped, seized) \in 0..seized
  BY <1>3, LeastGreatest
<1> QED
  BY <1>4 DEF compute_keeper_reward, capped

\* A default books the loss in liquidity and in the history alike.
LEMMA DefaultStep ==
  ASSUME IndInv, NEW l \in Loans, NEW seizure \in Seizures, NEW keeper \in BOOLEAN,
         execute_default(l, seizure, keeper)
  PROVE  IndInv'
<1> DEFINE acc == accrue_interest(loans[l])
           cut == IF keeper THEN compute_keeper_reward(seizure) ELSE 0
           seized == seizure - cut
           net == acc.debt - seized
           lost == Greatest(0, net)
           rep == acc.repaid + seized
           loan == [acc EXCEPT !.status = "Defaulted", !.repaid = rep, !.debt = net]
           bal == pool.balance + seized
           liq == pool.liquidity + seized - lost
           tot == pool.loss + lost
           com == IF Undisbursed(acc) > 0
                    THEN Greatest(0, pool.commitments - Undisbursed(acc))
                    ELSE pool.commitments
           wri == book.written_off + lost
           junior == Least(net, tranches["Junior"].deposited)
           senior == Least(net - junior, tranches["Senior"].deposited)
<1>0. TypeOK /\ now \in 0..MaxLedger /\ loans[l] \in LoanRecord /\ Covered(loans[l], late[l])
      /\ late[l] \in Nat /\ loans[l].disbursed <= loans[l].principal
  BY Constants DEF IndInv, TypeOK, PayoffCovered
<1>1. /\ acc.status = "Approved" /\ set_loan(l, loan) /\ ReleaseExposure(acc)
      /\ pool' = [pool EXCEPT !.balance = bal, !.liquidity = liq, !.loss = tot,
                              !.commitments = com]
      /\ book' = [book EXCEPT !.written_off = wri]
      /\ IF net > 0 THEN AbsorbLoss(net) ELSE UNCHANGED tranches
      /\ UNCHANGED <<now, investors, late>>
  BY DEF execute_default
<1>2. /\ acc \in LoanRecord /\ acc.status = loans[l].status
      /\ acc.principal = loans[l].principal /\ acc.disbursed = loans[l].disbursed
      /\ acc.quote = loans[l].quote /\ acc.expires = loans[l].expires
  BY <1>0, AccrueFields
<1>3. loans[l].principal > 0
  BY <1>1, <1>2 DEF IndInv, LoansHavePrincipal
<1> HIDE DEF acc
<1>4. seized \in Nat
  <2>1. seizure \in Nat
    BY Constants
  <2>2. cut \in 0..seizure
    BY <2>1, RewardType
  <2> HIDE DEF cut
  <2> QED
    BY <2>1, <2>2
<1> HIDE DEF seized
<1>5. net \in Int /\ rep \in Int
  BY <1>2, <1>4, LoanFields
<1> HIDE DEF net, rep
<1>6. lost \in Nat
  BY <1>5, LeastGreatest
<1> HIDE DEF lost
<1>7. bal \in Nat /\ liq \in Int /\ tot \in Nat /\ wri \in Nat
  BY <1>0, <1>4, <1>6, Fields
<1>8. com \in Int
  BY <1>0, <1>2, Fields, LoanFields, LeastGreatest DEF Undisbursed
<1> HIDE DEF com, bal, liq, tot, wri
<1>9. /\ loan \in LoanRecord /\ loan.status = "Defaulted" /\ loan.disbursed = acc.disbursed
      /\ loan.principal = acc.principal /\ loan.quote = acc.quote
      /\ loan.expires = acc.expires
  BY <1>2, <1>5 DEF LoanRecord, LoanStatus
<1> HIDE DEF loan
<1>10. Covered(loan, late[l])
  BY <1>0, <1>2, <1>9 DEF Covered
<1>11. /\ loans' \in [Loans -> LoanRecord]
       /\ \A k \in Loans : loans'[k].disbursed <= loans'[k].principal
       /\ LoansHavePrincipal' /\ PayoffCovered'
  BY <1>0, <1>1, <1>2, <1>3, <1>9, <1>10, LoanStep DEF TypeOK
<1>12. /\ pool' \in Pool /\ pool'.balance = bal /\ pool'.liquidity = liq
       /\ pool'.deposited = pool.deposited /\ pool'.fees = pool.fees
  BY <1>0, <1>1, <1>7, <1>8 DEF TypeOK, Pool
<1>13. /\ book' \in [escrowed: Int, written_off: Nat, unbacked: Nat]
       /\ book'.escrowed = book.escrowed /\ book'.written_off = wri
       /\ book'.unbacked = book.unbacked
  BY <1>0, <1>1, <1>7 DEF TypeOK
<1>14. BalanceAccounted'
  BY <1>0, <1>4, <1>6, <1>12, <1>13, Fields DEF IndInv, BalanceAccounted, bal, liq, wri
<1>15. /\ tranches' \in [Tranches -> TrancheInfo]
       /\ \A t \in Tranches :
            /\ tranches'[t].supply = tranches[t].supply
            /\ tranches'[t].deposited + tranches'[t].absorbed =
                 tranches[t].deposited + tranches[t].absorbed
  <2>1. CASE net > 0
    <3>1. tranches["Junior"].deposited \in Int /\ tranches["Senior"].deposited \in Int
      BY <1>0, Fields DEF Tranches
    <3>2. junior \in Int
      BY <3>1, <1>5, LeastGreatest
    <3>3. tranches' = [tranches EXCEPT
            !["Junior"].deposited = @ - junior, !["Junior"].absorbed = @ + junior,
            !["Senior"].deposited = @ - senior, !["Senior"].absorbed = @ + senior]
      BY <1>1, <2>1 DEF AbsorbLoss
    <3> HIDE DEF junior
    <3>4. senior \in Int
      BY <3>1, <3>2, <1>5, LeastGreatest
    <3> HIDE DEF senior
    <3> QED
      BY <3>2, <3>3, <3>4, <1>0, AbsorbStep, Zenon
  <2>2. CASE ~(net > 0)
    BY <1>0, <1>1, <2>2 DEF TypeOK
  <2> QED
    BY <2>1, <2>2
<1>16. SharesReconcile'
  BY <1>1, <1>12, <1>15 DEF IndInv, SharesReconcile, Tranches
<1>17. exposure' \in [Borrowers -> Int]
  BY <1>0, <1>1, <1>2, ReleaseType
<1> QED
  BY <1>0, <1>1, <1>11, <1>12, <1>13, <1>14, <1>15, <1>16, <1>17 DEF IndInv, TypeOK

\* A recovery moves absorbed losses back to capital, and never takes off more
\* than is on record.
LEMMA RecoverStep ==
  ASSUME IndInv, NEW l \in Loans, NEW recovered \in Recoveries,
         recover_default(l, recovered)
  PROVE  IndInv'
<1> DEFINE reduction == Least(recovered, pool.loss)
           senior == Least(reduction, tranches["Senior"].absorbed)
           junior == Least(reduction - senior, tranches["Junior"].absorbed)
           s == -senior
           j == -junior
           bal == pool.balance + recovered
           liq == pool.liquidity + recovered
           tot == pool.loss - reduction
<1>0. TypeOK /\ "Senior" \in Tranches /\ "Junior" \in Tranches
  BY DEF IndInv, Tranches
<1>1. /\ recovered > 0
      /\ pool' = [pool EXCEPT !.balance = bal, !.liquidity = liq, !.loss = tot]
      /\ tranches' = [tranches EXCEPT
           !["Senior"].deposited = @ + senior, !["Senior"].absorbed = @ - senior,
           !["Junior"].deposited = @ + junior, !["Junior"].absorbed = @ - junior]
      /\ UNCHANGED <<now, investors, loans, exposure, book, late>>
  BY DEF recover_default
<1>2. recovered \in Nat /\ pool.loss \in Nat
  BY <1>0, <1>1, Constants, Fields
<1>3. reduction \in Nat /\ reduction <= pool.loss
  BY <1>2, LeastGreatest
<1> HIDE DEF reduction
<1>4. senior \in Int
  BY <1>0, <1>3, Fields, LeastGreatest
<1> HIDE DEF senior
<1>5. junior \in Int
  BY <1>0, <1>3, <1>4, Fields, LeastGreatest
<1> HIDE DEF junior
<1>6. bal \in Nat /\ liq \in Int /\ tot \in Nat
  BY <1>0, <1>2, <1>3, Fields
<1>7. /\ tranches["Senior"].deposited + senior = tranches["Senior"].deposited - s
      /\ tranches["Senior"].absorbed - senior = tranches["Senior"].absorbed + s
      /\ tranches["Junior"].deposited + junior = tranches["Junior"].deposited - j
      /\ tranches["Junior"].absorbed - junior = tranches["Junior"].absorbed + j
      /\ s \in Int /\ j \in Int
  BY <1>0, <1>4, <1>5, Fields
<1> HIDE DEF s, j
<1>8. tranches' = [tranches EXCEPT
        !["Junior"].deposited = @ - j, !["Junior"].absorbed = @ + j,
        !["Senior"].deposited = @ - s, !["Senior"].absorbed = @ + s]
  <2> DEFINE js == [tranches["Junior"] EXCEPT
                      !.deposited = tranches["Junior"].deposited - j,
                      !.absorbed = tranches["Junior"].absorbed + j]
             ss == [tranches["Senior"] EXCEPT
                      !.deposited = tranches["Senior"].deposited - s,
                      !.absorbed = tranches["Senior"].absorbed + s]
  <2>1. tranches' = [tranches EXCEPT !["Senior"] = ss, !["Junior"] = js]
    BY <1>0, <1>1, <1>7 DEF TypeOK
  <2>2. [tranches EXCEPT !["Senior"] = ss, !["Junior"] = js] =
          [tranches EXCEPT !["Junior"] = js, !["Senior"] = ss]
    <3> HIDE DEF js, ss
    <3> QED
      OBVIOUS
  <2> QED
    BY <2>1, <2>2, <1>0 DEF TypeOK
<1>9. /\ tranches' \in [Tranches -> TrancheInfo]
      /\ \A t \in Tranches :
           /\ tranches'[t].supply = tranches[t].supply
           /\ tranches'[t].deposited + tranches'[t].absorbed =
                tranches[t].deposited + tranches[t].absorbed
  BY <1>0, <1>7, <1>8, AbsorbStep, Zenon
<1> HIDE DEF bal, liq, tot
<1>10. /\ pool' \in Pool /\ pool'.balance = bal /\ pool'.liquidity = liq
       /\ pool'.deposited = pool.deposited /\ pool'.fees = pool.fees
  BY <1>0, <1>1, <1>6 DEF TypeOK, Pool
<1>11. BalanceAccounted'
  BY <1>0, <1>1, <1>2, <1>10, Fields DEF IndInv, BalanceAccounted, bal, liq
<1>12. SharesReconcile'
  BY <1>1, <1>9, <1>10 DEF IndInv, SharesReconcile, Tranches
<1> QED
  BY <1>1, <1>9, <1>10, <1>11, <1>12 DEF IndInv, TypeOK, LoansHavePrincipal, PayoffCovered

\* A change of borrower or of the requested one leaves the books alone.
LEMMA BorrowerStep ==
  ASSUME IndInv, NEW l \in Loans, NEW b \in Borrowers \cup {None},
         NEW a \in Borrowers \cup {None},
         set_loan(l, [loans[l] EXCEPT !.borrower = b, !.assumption = a]),
         exposure' \in [Borrowers -> Int],
         UNCHANGED <<now, pool, tranches, investors, book, late>>
  PROVE  IndInv'
<1> DEFINE loan == [loans[l] EXCEPT !.borrower = b, !.assumption = a]
<1>0. TypeOK /\ loans[l] \in LoanRecord /\ Covered(loans[l], late[l]) /\ late[l] \in Nat
      /\ loans[l].disbursed <= loans[l].principal
      /\ (loans[l].status # "None" => loans[l].principal > 0)
  BY DEF IndInv, TypeOK, PayoffCovered, LoansHavePrincipal
<1>1. set_loan(l, loan)
  OBVIOUS
<1>2. /\ loan \in LoanRecord /\ loan.status = loans[l].status
      /\ loan.principal = loans[l].principal /\ loan.disbursed = loans[l].disbursed
      /\ loan.repaid = loans[l].repaid /\ loan.debt = loans[l].debt
      /\ loan.quote = loans[l].quote /\ loan.expires = loans[l].expires
  BY <1>0 DEF LoanRecord
<1> HIDE DEF loan
<1>3. Covered(loan, late[l])
  BY <1>0, <1>2 DEF Covered
<1>4. /\ loans' \in [Loans -> LoanRecord]
      /\ \A k \in Loans : loans'[k].disbursed <= loans'[k].principal
      /\ LoansHavePrincipal' /\ PayoffCovered'
  BY <1>0, <1>1, <1>2, <1>3, LoanStep DEF TypeOK
<1>5. BalanceAccounted' /\ SharesReconcile'
  BY DEF IndInv, BalanceAccounted, SharesReconcile
<1> QED
  BY <1>0, <1>4, <1>5 DEF IndInv, TypeOK

\* Requesting, granting and cancelling an assumption.
LEMMA AssumeStep ==
  ASSUME IndInv, NEW l \in Loans, Assume(l)
  PROVE  IndInv'
<1>0. TypeOK /\ loans[l] \in LoanRecord /\ exposure \in [Borrowers -> Int]
      /\ loans[l].borrower \in Borrowers \cup {None} /\ loans[l].principal \in Int
  BY LoanFields DEF IndInv, TypeOK
<1>1. ASSUME NEW b \in Borrowers, request_loan_assumption(l, b) PROVE IndInv'
  <2>1. [loans[l] EXCEPT !.assumption = b] =
          [loans[l] EXCEPT !.borrower = loans[l].borrower, !.assumption = b]
    BY <1>0 DEF LoanRecord
  <2> QED
    BY <2>1, <1>0, <1>1, BorrowerStep, Zenon DEF request_loan_assumption
<1>2. ASSUME NEW b \in Borrowers, assume_loan(l, b) PROVE IndInv'
  <2> DEFINE released == [exposure EXCEPT ![loans[l].borrower] = @ - loans[l].principal]
  <2>0. loans[l].borrower \in Borrowers =>
          exposure[loans[l].borrower] - loans[l].principal \in Int
    BY <1>0
  <2>1. released \in [Borrowers -> Int]
    BY <1>0, <2>0
  <2>2. exposure' = [released EXCEPT ![b] = @ + loans[l].principal]
        /\ set_loan(l, [loans[l] EXCEPT !.borrower = b, !.assumption = None])
        /\ UNCHANGED <<now, pool, tranches, investors, book, late>>
    BY <1>2 DEF assume_loan
  <2> HIDE DEF released
  <2>3. exposure' \in [Borrowers -> Int]
    <3>1. released[b] + loans[l].principal \in Int
      BY <1>0, <2>1
    <3> QED
      BY <2>1, <2>2, <3>1
  <2> QED
    BY <2>2, <2>3, BorrowerStep, Zenon
<1>3. ASSUME cancel_loan_assumption(l) PROVE IndInv'
  <2>1. [loans[l] EXCEPT !.assumption = None] =
          [loans[l] EXCEPT !.borrower = loans[l].borrower, !.assumption = None]
    BY <1>0 DEF LoanRecord
  <2> QED
    BY <2>1, <1>0, <1>3, BorrowerStep, Zenon DEF cancel_loan_assumption
<1> QED
  BY <1>1, <1>2, <1>3 DEF Assume

-----------------------------------------------------------------------------
(* Every step.                                                             *)

\* The invariant is inductive.
LEMMA NextIndInv == IndInv /\ [Next]_vars => IndInv'
<1> SUFFICES ASSUME IndInv, [Next]_vars PROVE IndInv'
  OBVIOUS
<1>1. ASSUME NEW i \in Investors, Invest(i) PROVE IndInv'
  BY <1>1, DepositStep, WithdrawStep, TransferStep, ClaimStep, YieldModeStep, CompoundStep
     DEF Invest
<1>2. ASSUME NEW n \in Fees, deposit_fees(n) PROVE IndInv'
  BY <1>2, DepositFeesStep
<1>3. ASSUME NEW l \in Loans, Apply(l) PROVE IndInv'
  BY <1>3, RequestStep, ApproveStep, DeclineStep DEF Apply, reject_loan, cancel_loan
<1>4. ASSUME NEW l \in Loans, Pay(l) PROVE IndInv'
  <2>1. ASSUME NEW n \in Payments, payoff_with_quote(l, n) PROVE IndInv'
    <3>1. n \in Nat /\ n > 0
      BY <2>1, Constants DEF payoff_with_quote
    <3> QED
      BY <2>1, <3>1, SettleStep DEF payoff_with_quote
  <2> QED
    BY <1>4, <2>1, DisburseStep, RefundStep, RepayStep, QuoteStep DEF Pay
<1>5. ASSUME NEW l \in Loans, Default(l) PROVE IndInv'
  BY <1>5, DefaultStep, RecoverStep DEF Default
<1>6. ASSUME NEW l \in Loans, Assume(l) PROVE IndInv'
  BY <1>6, AssumeStep
<1>7. CASE CloseLedger
  BY <1>7, Constants DEF CloseLedger, IndInv, TypeOK, LoansHavePrincipal, PayoffCovered,
                         BalanceAccounted, SharesReconcile
<1>8. CASE UNCHANGED vars
  BY <1>8 DEF vars, IndInv, TypeOK, LoansHavePrincipal, PayoffCovered, BalanceAccounted,
              SharesReconcile
<1> QED
  BY <1>1, <1>2, <1>3, <1>4, <1>5, <1>6, <1>7, <1>8 DEF Next

-----------------------------------------------------------------------------
(* The loan book: the totals kept of the loans are the sums over them.     *)

\* The fee of an application is held until it is decided on, and no longer.
FeesWithRequests == \A l \in Loans : loans[l].status # "Requested" => loans[l].fee = 0

LoanBook == LoanBookMatches /\ FeesWithRequests

\* What the books count of a loan is an amount.
LEMMA CountedTypes ==
  ASSUME NEW loan \in LoanRecord, NEW b
  PROVE  Committed(loan) \in Int /\ Exposed(loan, b) \in Nat /\ loan.fee \in Nat
BY LoanFields DEF Committed, Exposed, Undisbursed

\* A pool that was just initialized has no loans to count.
LEMMA InitLoanBook == Init => LoanBook
<1> SUFFICES ASSUME Init PROVE LoanBook
  OBVIOUS
<1>1. \A l \in Loans : loans[l] = NoLoan
  BY DEF Init
<1>2. /\ SumOver([l \in Loans |-> Committed(loans[l])], Loans) = 0
      /\ \A b \in Borrowers : SumOver([l \in Loans |-> Exposed(loans[l], b)], Loans) = 0
      /\ SumOver([l \in Loans |-> loans[l].fee], Loans) = 0
  <2>1. \A l \in Loans : [k \in Loans |-> Committed(loans[k])][l] = 0
    BY <1>1 DEF NoLoan, Committed
  <2>2. \A b \in Borrowers : \A l \in Loans : [k \in Loans |-> Exposed(loans[k], b)][l] = 0
    BY <1>1 DEF NoLoan, Exposed
  <2>3. \A l \in Loans : [k \in Loans |-> loans[k].fee][l] = 0
    BY <1>1 DEF NoLoan
  <2> QED
    BY <2>1, <2>2, <2>3, Constants, SumZero
<1>3. FeesWithRequests
  BY <1>1 DEF FeesWithRequests, NoLoan
<1> QED
  BY <1>2, <1>3 DEF Init, LoanBook, LoanBookMatches

\* One loan changes, and the totals by as much as what they count of it.
LEMMA LoanBookStep ==
  ASSUME TypeOK, LoanBook, NEW l \in Loans, NEW loan \in LoanRecord, set_loan(l, loan),
         loan.status # "Requested" => loan.fee = 0,
         pool'.commitments = pool.commitments - Committed(loans[l]) + Committed(loan),
         \A b \in Borrowers : exposure'[b] = exposure[b] - Exposed(loans[l], b)
                                                         + Exposed(loan, b),
         book'.escrowed = book.escrowed - loans[l].fee + loan.fee
  PROVE  LoanBook'
<1>1. /\ loans \in [Loans -> LoanRecord] /\ loans' \in [Loans -> LoanRecord]
      /\ loans'[l] = loan /\ \A k \in Loans : k # l => loans'[k] = loans[k]
  BY DEF TypeOK, set_loan
<1>2. pool'.commitments = SumOver([k \in Loans |-> Committed(loans'[k])], Loans)
  <2> DEFINE f == [k \in Loans |-> Committed(loans[k])]
             e == [k \in Loans |-> Committed(loans'[k])]
  <2>1. \A k \in Loans : f[k] \in Int /\ e[k] \in Int
    BY <1>1, CountedTypes
  <2>2. \A k \in Loans : k # l => e[k] = f[k]
    BY <1>1
  <2>3. f[l] = Committed(loans[l]) /\ e[l] = Committed(loan)
    BY <1>1
  <2>4. pool.commitments = SumOver(f, Loans)
    BY DEF LoanBook, LoanBookMatches
  <2> HIDE DEF f, e
  <2>5. SumOver(e, Loans) = SumOver(f, Loans) - f[l] + e[l]
    BY <2>1, <2>2, Constants, SumUpdate
  <2> QED
    BY <2>3, <2>4, <2>5 DEF e
<1>3. ASSUME NEW b \in Borrowers
      PROVE  exposure'[b] = SumOver([k \in Loans |-> Exposed(loans'[k], b)], Loans)
  <2> DEFINE f == [k \in Loans |-> Exposed(loans[k], b)]
             e == [k \in Loans |-> Exposed(loans'[k], b)]
  <2>1. \A k \in Loans : f[k] \in Int /\ e[k] \in Int
    BY <1>1, CountedTypes
  <2>2. \A k \in Loans : k # l => e[k] = f[k]
    BY <1>1
  <2>3. f[l] = Exposed(loans[l], b) /\ e[l] = Exposed(loan, b)
    BY <1>1
  <2>4. exposure[b] = SumOver(f, Loans)
    BY DEF LoanBook, LoanBookMatches
  <2> HIDE DEF f, e
  <2>5. SumOver(e, Loans) = SumOver(f, Loans) - f[l] + e[l]
    BY <2>1, <2>2, Constants, SumUpdate
  <2> QED
    BY <2>3, <2>4, <2>5 DEF e
<1>4. book'.escrowed = SumOver([k \in Loans |-> loans'[k].fee], Loans)
  <2> DEFINE f == [k \in Loans |-> loans[k].fee]
             e == [k \in Loans |-> loans'[k].fee]
  <2>1. \A k \in Loans : f[k] \in Int /\ e[k] \in Int
    BY <1>1, CountedTypes
  <2>2. \A k \in Loans : k # l => e[k] = f[k]
    BY <1>1
  <2>3. f[l] = loans[l].fee /\ e[l] = loan.fee
    BY <1>1
  <2>4. book.escrowed = SumOver(f, Loans)
    BY DEF LoanBook, LoanBookMatches
  <2> HIDE DEF f, e
  <2>5. SumOver(e, Loans) = SumOver(f, Loans) - f[l] + e[l]
    BY <2>1, <2>2, Constants, SumUpdate
  <2> QED
    BY <2>3, <2>4, <2>5 DEF e
<1>5. FeesWithRequests'
  BY <1>1 DEF LoanBook, FeesWithRequests
<1> QED
  BY <1>2, <1>3, <1>4, <1>5 DEF LoanBook, LoanBookMatches

\* Steps that move none of what the books count.
LEMMA LoanBookUnmoved ==
  ASSUME LoanBook, UNCHANGED <<loans, exposure>>,
         pool'.commitments = pool.commitments, book'.escrowed = book.escrowed
  PROVE  LoanBook'
BY DEF LoanBook, LoanBookMatches, FeesWithRequests, Committed, Exposed, Undisbursed

\* What the books count is left as it is.
SameCount(loan, old) ==
  /\ loan.status = old.status /\ loan.borrower = old.borrower
  /\ loan.principal = old.principal /\ loan.disbursed = old.disbursed
  /\ loan.fee = old.fee

LEMMA LoanBookKept ==
  ASSUME TypeOK, LoanBook, NEW l \in Loans, NEW loan \in LoanRecord, set_loan(l, loan),
         SameCount(loan, loans[l]), exposure' = exposure,
         pool'.commitments = pool.commitments, book'.escrowed = book.escrowed
  PROVE  LoanBook'
<1>1. loans[l] \in LoanRecord /\ pool.commitments \in Int /\ book.escrowed \in Int
      /\ exposure \in [Borrowers -> Int]
  BY Fields DEF TypeOK
<1>2. /\ Committed(loan) = Committed(loans[l]) /\ loan.fee = loans[l].fee
      /\ \A b : Exposed(loan, b) = Exposed(loans[l], b)
      /\ loan.status = loans[l].status
  BY DEF SameCount, Committed, Exposed, Undisbursed
<1>3. /\ Committed(loan) \in Int /\ loan.fee \in Int
      /\ \A b : Exposed(loan, b) \in Int
  BY CountedTypes
<1>4. loan.status # "Requested" => loan.fee = 0
  BY <1>2 DEF LoanBook, FeesWithRequests
<1>5. pool'.commitments = pool.commitments - Committed(loans[l]) + Committed(loan)
  BY <1>1, <1>2, <1>3
<1>6. \A b \in Borrowers :
        exposure'[b] = exposure[b] - Exposed(loans[l], b) + Exposed(loan, b)
  BY <1>1, <1>2, <1>3
<1>7. book'.escrowed = book.escrowed - loans[l].fee + loan.fee
  BY <1>1, <1>2, <1>3
<1> QED
  BY <1>4, <1>5, <1>6, <1>7, LoanBookStep

\* An active loan ends, and takes with it its exposure and what it may still draw.
LEMMA LoanBookClosed ==
  ASSUME TypeOK, LoanBook, NEW l \in Loans, NEW loan \in LoanRecord, set_loan(l, loan),
         loans[l].status = "Approved", loan.status \in {"Repaid", "Defaulted"},
         loan.fee = loans[l].fee, NEW acc, ReleaseExposure(acc),
         acc.borrower = loans[l].borrower, acc.principal = loans[l].principal,
         pool'.commitments = pool.commitments - Undisbursed(loans[l]),
         book'.escrowed = book.escrowed
  PROVE  LoanBook'
<1>1. loans[l] \in LoanRecord /\ pool.commitments \in Int /\ book.escrowed \in Int
      /\ exposure \in [Borrowers -> Int] /\ loans[l].principal \in Int
  BY Fields, LoanFields DEF TypeOK
<1>2. /\ Committed(loan) = 0 /\ Committed(loans[l]) = Undisbursed(loans[l])
      /\ \A b : Exposed(loan, b) = 0
      /\ \A b : Exposed(loans[l], b) = IF loans[l].borrower = b THEN loans[l].principal ELSE 0
  BY DEF Committed, Exposed
<1>3. Undisbursed(loans[l]) \in Int
  BY <1>1, LoanFields DEF Undisbursed
<1>4. loan.fee = 0 /\ loans[l].fee = 0
  BY DEF LoanBook, FeesWithRequests
<1>5. pool'.commitments = pool.commitments - Committed(loans[l]) + Committed(loan)
  BY <1>1, <1>2, <1>3
<1>6. ASSUME NEW b \in Borrowers
      PROVE  exposure'[b] = exposure[b] - Exposed(loans[l], b) + Exposed(loan, b)
  <2>1. exposure' = [exposure EXCEPT ![loans[l].borrower] = @ - loans[l].principal]
    BY DEF ReleaseExposure
  <2> QED
    BY <2>1, <1>1, <1>2
<1>7. book'.escrowed = book.escrowed - loans[l].fee + loan.fee
  BY <1>1, <1>4
<1> QED
  BY <1>4, <1>5, <1>6, <1>7, LoanBookStep

\* do_request_loan: the fee is counted from the start, principal and exposure not yet.
LEMMA RequestBook ==
  ASSUME IndInv, LoanBook, NEW b \in Borrowers, NEW l \in Loans, NEW principal \in Principals,
         do_request_loan(b, l, principal)
  PROVE  LoanBook'
<1> DEFINE fee == Bps(principal, ApplicationFeeBps)
           loan == [NoLoan EXCEPT !.status = "Requested", !.borrower = b,
                                  !.principal = principal, !.last = now, !.fee = fee]
           esc == book.escrowed + fee
<1>0. TypeOK /\ now \in Nat /\ loans[l] \in LoanRecord /\ loans[l].status = "None"
      /\ exposure \in [Borrowers -> Int]
  BY DEF IndInv, TypeOK, do_request_loan
<1>1. principal \in Nat /\ principal > 0
  BY Constants DEF do_request_loan
<1>2. fee \in Nat
  BY <1>1, BpsType, Constants
<1>3. /\ set_loan(l, loan) /\ pool' = [pool EXCEPT !.balance = @ + fee]
      /\ book' = [book EXCEPT !.escrowed = esc] /\ exposure' = exposure
  BY DEF do_request_loan
<1> HIDE DEF fee
<1>4. loan \in LoanRecord /\ loan.status = "Requested" /\ loan.fee = fee
  <2>1. NoLoan \in LoanRecord
    BY DEF LoanRecord, NoLoan, LoanStatus
  <2> QED
    BY <2>1, <1>0, <1>1, <1>2 DEF LoanRecord, LoanStatus
<1> HIDE DEF loan
<1>5. pool'.commitments = pool.commitments /\ pool.commitments \in Int
  BY <1>0, <1>3, Fields DEF TypeOK, Pool
<1>6. book'.escrowed = book.escrowed + fee /\ book.escrowed \in Int
  BY <1>0, <1>3, Fields DEF TypeOK
<1>7. loans[l].fee = 0
  BY <1>0 DEF LoanBook, FeesWithRequests
<1>8. /\ Committed(loan) = 0 /\ Committed(loans[l]) = 0
      /\ \A c : Exposed(loan, c) = 0 /\ Exposed(loans[l], c) = 0
  BY <1>0, <1>4 DEF Committed, Exposed
<1>9. \A c \in Borrowers :
        exposure'[c] = exposure[c] - Exposed(loans[l], c) + Exposed(loan, c)
  BY <1>0, <1>3, <1>8
<1>10. pool'.commitments = pool.commitments - Committed(loans[l]) + Committed(loan)
  BY <1>5, <1>8
<1>11. book'.escrowed = book.escrowed - loans[l].fee + loan.fee
  BY <1>2, <1>4, <1>6, <1>7
<1> QED
  BY <1>0, <1>3, <1>4, <1>9, <1>10, <1>11, LoanBookStep

\* approve_loan: the fee is counted no more, the principal is committed and exposed.
LEMMA ApproveBook ==
  ASSUME IndInv, IndInv', LoanBook, NEW l \in Loans, approve_loan(l)
  PROVE  LoanBook'
<1> DEFINE old == loans[l]
           m == (old.principal + Bps(old.principal, InterestRateBps)) \div DurationMonths
           due == now + LedgersPerMonth
           loan == [old EXCEPT !.status = "Approved", !.fee = 0, !.monthly = m,
                               !.next_due = due]
           esc == book.escrowed - old.fee
           com == pool.commitments + old.principal
<1>0. TypeOK /\ old \in LoanRecord /\ exposure \in [Borrowers -> Int]
      /\ loans' \in [Loans -> LoanRecord] /\ loans \in [Loans -> LoanRecord]
      /\ old.principal \in Nat /\ old.fee \in Nat
  BY LoanFields DEF IndInv, TypeOK
<1>1. /\ old.status = "Requested" /\ set_loan(l, loan)
      /\ pool' = [pool EXCEPT !.balance = @ - old.fee, !.commitments = com]
      /\ book' = [book EXCEPT !.escrowed = esc]
      /\ exposure' = [exposure EXCEPT ![old.borrower] = @ + old.principal]
  BY DEF approve_loan, SettleApplicationFee
<1>2. old.disbursed = 0
  BY <1>1 DEF IndInv, PayoffCovered, Covered
<1>3. loans'[l] = loan
  BY <1>0, <1>1 DEF set_loan
<1> HIDE DEF old, m, due
<1>4. /\ loan \in LoanRecord /\ loan.status = "Approved" /\ loan.fee = 0
      /\ loan.principal = old.principal /\ loan.disbursed = old.disbursed
      /\ loan.borrower = old.borrower
  <2>1. loan \in LoanRecord
    BY <1>0, <1>3
  <2> QED
    BY <2>1, <1>0 DEF LoanRecord
<1> HIDE DEF loan
<1>5. pool'.commitments = pool.commitments + old.principal /\ pool.commitments \in Int
  BY <1>0, <1>1, Fields DEF TypeOK, Pool
<1>6. book'.escrowed = book.escrowed - old.fee /\ book.escrowed \in Int
  BY <1>0, <1>1, Fields DEF TypeOK
<1>7. /\ Committed(old) = 0 /\ Committed(loan) = old.principal
      /\ \A c : Exposed(old, c) = 0
      /\ \A c : Exposed(loan, c) = IF old.borrower = c THEN old.principal ELSE 0
  BY <1>0, <1>1, <1>2, <1>4 DEF Committed, Exposed, Undisbursed
<1>8. \A c \in Borrowers : exposure'[c] = exposure[c] - Exposed(old, c) + Exposed(loan, c)
  BY <1>0, <1>1, <1>7
<1>9. pool'.commitments = pool.commitments - Committed(old) + Committed(loan)
  BY <1>0, <1>5, <1>7
<1>10. book'.escrowed = book.escrowed - old.fee + loan.fee
  BY <1>0, <1>4, <1>6
<1> QED
  BY <1>0, <1>1, <1>4, <1>8, <1>9, <1>10, LoanBookStep DEF old

\* reject_loan and cancel_loan: the fee is counted no more.
LEMMA DeclineBook ==
  ASSUME IndInv, LoanBook, NEW l \in Loans, NEW status \in {"Rejected", "Cancelled"},
         Decline(l, status)
  PROVE  LoanBook'
<1> DEFINE old == loans[l]
           loan == [old EXCEPT !.status = status, !.fee = 0]
           esc == book.escrowed - old.fee
<1>0. TypeOK /\ old \in LoanRecord /\ exposure \in [Borrowers -> Int] /\ old.fee \in Nat
  BY LoanFields DEF IndInv, TypeOK
<1>1. /\ old.status = "Requested" /\ set_loan(l, loan)
      /\ pool' = [pool EXCEPT !.balance = @ - old.fee]
      /\ book' = [book EXCEPT !.escrowed = esc] /\ exposure' = exposure
  BY DEF Decline, SettleApplicationFee
<1> HIDE DEF old
<1>2. loan \in LoanRecord /\ loan.status = status /\ loan.fee = 0
  BY <1>0 DEF LoanRecord, LoanStatus
<1> HIDE DEF loan
<1>3. pool'.commitments = pool.commitments /\ pool.commitments \in Int
  BY <1>0, <1>1, Fields DEF TypeOK, Pool
<1>4. book'.escrowed = book.escrowed - old.fee /\ book.escrowed \in Int
  BY <1>0, <1>1, Fields DEF TypeOK
<1>5. /\ Committed(loan) = 0 /\ Committed(old) = 0
      /\ \A c : Exposed(loan, c) = 0 /\ Exposed(old, c) = 0
  BY <1>1, <1>2 DEF Committed, Exposed
<1>6. \A c \in Borrowers : exposure'[c] = exposure[c] - Exposed(old, c) + Exposed(loan, c)
  BY <1>0, <1>1, <1>5
<1>7. pool'.commitments = pool.commitments - Committed(old) + Committed(loan)
  BY <1>3, <1>5
<1>8. book'.escrowed = book.escrowed - old.fee + loan.fee
  BY <1>0, <1>2, <1>4
<1> QED
  BY <1>0, <1>1, <1>2, <1>6, <1>7, <1>8, LoanBookStep DEF old

\* disburse and refund_milestone_dispute: what has been disbursed is committed no
\* more, and the other way round.
LEMMA DrawnBook ==
  ASSUME TypeOK, LoanBook, NEW l \in Loans, NEW loan \in LoanRecord, NEW n \in Int,
         set_loan(l, loan), loans[l].status = "Approved", loan.status = "Approved",
         loan.borrower = loans[l].borrower, loan.principal = loans[l].principal,
         loan.disbursed = loans[l].disbursed + n, loan.fee = loans[l].fee,
         pool'.commitments = pool.commitments - n, exposure' = exposure,
         book'.escrowed = book.escrowed
  PROVE  LoanBook'
<1>1. loans[l] \in LoanRecord /\ pool.commitments \in Int /\ book.escrowed \in Int
      /\ exposure \in [Borrowers -> Int]
  BY Fields DEF TypeOK
<1>2. loans[l].principal \in Nat /\ loans[l].disbursed \in Nat
  BY <1>1, LoanFields
<1>3. /\ Committed(loan) = Committed(loans[l]) - n /\ Committed(loans[l]) \in Int
      /\ \A b : Exposed(loan, b) = Exposed(loans[l], b) /\ Exposed(loans[l], b) \in Int
  BY <1>2 DEF Committed, Exposed, Undisbursed
<1>4. loan.fee = 0 /\ loans[l].fee = 0
  BY DEF LoanBook, FeesWithRequests
<1>5. pool'.commitments = pool.commitments - Committed(loans[l]) + Committed(loan)
  BY <1>1, <1>3
<1>6. \A b \in Borrowers :
        exposure'[b] = exposure[b] - Exposed(loans[l], b) + Exposed(loan, b)
  BY <1>1, <1>3
<1>7. book'.escrowed = book.escrowed - loans[l].fee + loan.fee
  BY <1>1, <1>4
<1> QED
  BY <1>4, <1>5, <1>6, <1>7, LoanBookStep

LEMMA DisburseBook ==
  ASSUME IndInv, LoanBook, NEW l \in Loans, NEW amount \in Payments, disburse(l, amount)
  PROVE  LoanBook'
<1> DEFINE acc == accrue_interest(loans[l])
           dis == acc.disbursed + amount
           deb == acc.debt + amount
           loan == [acc EXCEPT !.disbursed = dis, !.debt = deb]
           com == pool.commitments - amount
<1>0. TypeOK /\ now \in 0..MaxLedger /\ loans[l] \in LoanRecord
  BY Constants DEF IndInv, TypeOK
<1>1. /\ amount \in Nat /\ loans[l].status = "Approved"
      /\ set_loan(l, loan) /\ exposure' = exposure /\ book' = book
      /\ pool' = [pool EXCEPT !.balance = @ - amount, !.liquidity = @ - amount,
                              !.commitments = com]
  BY Constants DEF disburse
<1>2. /\ acc \in LoanRecord /\ acc.status = loans[l].status
      /\ acc.borrower = loans[l].borrower /\ acc.principal = loans[l].principal
      /\ acc.disbursed = loans[l].disbursed /\ acc.fee = loans[l].fee
  BY <1>0, AccrueFields
<1> HIDE DEF acc
<1>3. dis \in Nat /\ deb \in Int /\ dis = loans[l].disbursed + amount
  BY <1>1, <1>2, LoanFields
<1> HIDE DEF dis, deb
<1>4. /\ loan \in LoanRecord /\ loan.status = acc.status /\ loan.disbursed = dis
      /\ loan.principal = acc.principal /\ loan.borrower = acc.borrower
      /\ loan.fee = acc.fee
  BY <1>2, <1>3 DEF LoanRecord
<1> HIDE DEF loan
<1>5. pool'.commitments = pool.commitments - amount
  BY <1>0, <1>1 DEF TypeOK, Pool
<1>6. book'.escrowed = book.escrowed /\ amount \in Int
  BY <1>1
<1> QED
  BY <1>0, <1>1, <1>2, <1>3, <1>4, <1>5, <1>6, DrawnBook

LEMMA RefundBook ==
  ASSUME IndInv, LoanBook, NEW l \in Loans, NEW amount \in Payments,
         refund_milestone_dispute(l, amount)
  PROVE  LoanBook'
<1> DEFINE old == loans[l]
           dis == old.disbursed - amount
           deb == old.debt - amount
           loan == [old EXCEPT !.disbursed = dis, !.debt = deb]
           com == pool.commitments + amount
           unb == book.unbacked + amount
<1>0. TypeOK /\ old \in LoanRecord
  BY DEF IndInv, TypeOK
<1>1. /\ amount \in Nat /\ old.status = "Approved" /\ amount <= old.disbursed
      /\ set_loan(l, loan) /\ exposure' = exposure
      /\ pool' = [pool EXCEPT !.liquidity = @ + amount, !.commitments = com]
      /\ book' = [book EXCEPT !.unbacked = unb]
  BY Constants DEF refund_milestone_dispute
<1> HIDE DEF old
<1>2. dis \in Nat /\ deb \in Int /\ dis = old.disbursed + (-amount) /\ -amount \in Int
  BY <1>0, <1>1, LoanFields
<1> HIDE DEF dis, deb, unb
<1>3. /\ loan \in LoanRecord /\ loan.status = old.status /\ loan.disbursed = dis
      /\ loan.principal = old.principal /\ loan.borrower = old.borrower
      /\ loan.fee = old.fee
  BY <1>0, <1>2 DEF LoanRecord
<1> HIDE DEF loan
<1>4. pool'.commitments = pool.commitments - (-amount)
  BY <1>0, <1>1, Fields DEF TypeOK, Pool
<1>5. book'.escrowed = book.escrowed
  BY <1>0, <1>1 DEF TypeOK
<1> QED
  BY <1>0, <1>1, <1>2, <1>3, <1>4, <1>5, DrawnBook DEF old

\* settle_quoted_payoff releases what the loan may still draw and its exposure.
LEMMA SettleBook ==
  ASSUME IndInv, LoanBook, NEW l \in Loans, NEW amount \in Nat,
         loans[l].status = "Approved", settle_quoted_payoff(l, amount)
  PROVE  LoanBook'
<1> DEFINE acc == accrue_interest(loans[l])
           rep == acc.repaid + amount
           paid == [acc EXCEPT !.repaid = rep]
           loan == Closed(paid)
           com == pool.commitments - Undisbursed(acc)
<1>0. TypeOK /\ now \in 0..MaxLedger /\ loans[l] \in LoanRecord
  BY Constants DEF IndInv, TypeOK
<1>1. /\ set_loan(l, loan) /\ ReleaseExposure(acc) /\ book' = book
      /\ pool' = [pool EXCEPT !.balance = @ + amount, !.liquidity = @ + amount,
                              !.interest = @ + InterestPaid(acc, amount),
                              !.commitments = com]
  BY DEF settle_quoted_payoff
<1>2. /\ acc \in LoanRecord /\ acc.borrower = loans[l].borrower
      /\ acc.principal = loans[l].principal
      /\ acc.disbursed = loans[l].disbursed /\ acc.fee = loans[l].fee
  BY <1>0, AccrueFields
<1>3. Undisbursed(acc) = Undisbursed(loans[l])
  BY <1>2 DEF Undisbursed
<1> HIDE DEF acc
<1>4. rep \in Int
  BY <1>2, LoanFields
<1> HIDE DEF rep
<1>5. paid \in LoanRecord /\ paid.fee = acc.fee
  BY <1>2, <1>4 DEF LoanRecord
<1> HIDE DEF paid
<1>6. loan \in LoanRecord /\ loan.status = "Repaid" /\ loan.fee = acc.fee
  BY <1>5, ClosedFields
<1> HIDE DEF loan
<1>7. pool'.commitments = pool.commitments - Undisbursed(loans[l])
  BY <1>0, <1>1, <1>3 DEF TypeOK, Pool
<1> QED
  BY <1>0, <1>1, <1>2, <1>6, <1>7, LoanBookClosed

\* repay: a loan without debt is closed, another stays on the books as it is.
LEMMA RepayBook ==
  ASSUME IndInv, LoanBook, NEW l \in Loans, NEW amount \in Payments, repay(l, amount)
  PROVE  LoanBook'
<1> DEFINE pruned == PruneQuote(loans[l])
           acc == accrue_interest(pruned)
           paying == PayInstallment(acc, amount)
           rep == paying.repaid + amount
           deb == paying.debt - amount
           loan == [paying EXCEPT !.repaid = rep, !.debt = deb]
           fee == ProtocolFee(acc, amount)
           interest == InterestPaid(acc, amount)
           com == pool.commitments - Undisbursed(loan)
<1>0. TypeOK /\ now \in 0..MaxLedger /\ now \in Nat /\ loans[l] \in LoanRecord
  BY Constants DEF IndInv, TypeOK
<1>1. amount \in Nat /\ loans[l].status = "Approved"
  BY Constants DEF repay
<1>2. CASE settle_quoted_payoff(l, amount)
  BY <1>1, <1>2, SettleBook
<1>3. CASE /\ \/ /\ loan.debt = 0
                 /\ set_loan(l, Closed(loan))
                 /\ ReleaseExposure(loan)
                 /\ pool' = [pool EXCEPT !.balance = @ + amount - fee,
                               !.liquidity = @ + amount - fee,
                               !.interest = @ + interest, !.commitments = com]
              \/ /\ loan.debt # 0
                 /\ set_loan(l, loan)
                 /\ UNCHANGED exposure
                 /\ pool' = [pool EXCEPT !.balance = @ + amount - fee,
                               !.liquidity = @ + amount - fee, !.interest = @ + interest]
           /\ book' = book
  <2>1. pruned \in LoanRecord /\ SameCount(pruned, loans[l])
    BY <1>0, PruneFields DEF SameCount
  <2> HIDE DEF pruned
  <2>2. acc \in LoanRecord /\ SameCount(acc, pruned)
    BY <1>0, <2>1, AccrueFields DEF SameCount
  <2> HIDE DEF acc
  <2>3. paying \in LoanRecord /\ SameCount(paying, acc)
    BY <1>0, <1>1, <2>2, InstallmentFields DEF SameCount
  <2> HIDE DEF paying, fee, interest
  <2>4. rep \in Int /\ deb \in Int
    BY <1>1, <2>3, LoanFields
  <2> HIDE DEF rep, deb
  <2>5. loan \in LoanRecord /\ SameCount(loan, paying)
    BY <2>3, <2>4 DEF LoanRecord, SameCount
  <2> HIDE DEF loan
  <2>6. SameCount(loan, loans[l])
    BY <2>1, <2>2, <2>3, <2>5 DEF SameCount
  <2>7. Undisbursed(loan) = Undisbursed(loans[l])
    BY <2>6 DEF SameCount, Undisbursed
  <2>8. CASE /\ set_loan(l, Closed(loan))
             /\ ReleaseExposure(loan)
             /\ pool' = [pool EXCEPT !.balance = @ + amount - fee,
                           !.liquidity = @ + amount - fee,
                           !.interest = @ + interest, !.commitments = com]
    <3>1. Closed(loan) \in LoanRecord /\ Closed(loan).status = "Repaid"
          /\ Closed(loan).fee = loan.fee
      BY <2>5, ClosedFields
    <3>2. pool'.commitments = pool.commitments - Undisbursed(loans[l])
      BY <1>0, <2>7, <2>8 DEF TypeOK, Pool
    <3> QED
      BY <1>0, <1>1, <1>3, <2>6, <2>8, <3>1, <3>2, LoanBookClosed DEF SameCount
  <2>9. CASE /\ set_loan(l, loan)
             /\ UNCHANGED exposure
             /\ pool' = [pool EXCEPT !.balance = @ + amount - fee,
                           !.liquidity = @ + amount - fee, !.interest = @ + interest]
    <3>1. pool'.commitments = pool.commitments
      BY <1>0, <2>9 DEF TypeOK, Pool
    <3> QED
      BY <1>0, <1>3, <2>5, <2>6, <2>9, <3>1, LoanBookKept
  <2> QED
    BY <1>3, <2>8, <2>9
<1> QED
  BY <1>2, <1>3 DEF repay

\* quote_payoff stores a quote, and accrues.
LEMMA QuoteBook ==
  ASSUME IndInv, IndInv', LoanBook, NEW l \in Loans, quote_payoff(l)
  PROVE  LoanBook'
<1> DEFINE acc == accrue_interest(loans[l])
           loan == [acc EXCEPT !.quote = acc.debt, !.expires = now + QuoteWindow]
<1>0. TypeOK /\ now \in 0..MaxLedger /\ loans[l] \in LoanRecord
      /\ loans' \in [Loans -> LoanRecord] /\ loans \in [Loans -> LoanRecord]
  BY Constants DEF IndInv, TypeOK
<1>1. set_loan(l, loan) /\ UNCHANGED <<pool, exposure, book>>
  BY DEF quote_payoff
<1>2. loans'[l] = loan
  BY <1>0, <1>1 DEF set_loan
<1>3. acc \in LoanRecord /\ SameCount(acc, loans[l])
  BY <1>0, AccrueFields DEF SameCount
<1> HIDE DEF acc
<1>4. SameCount(loan, acc)
  BY <1>3 DEF LoanRecord, SameCount
<1> HIDE DEF loan
<1>5. loan \in LoanRecord /\ SameCount(loan, loans[l])
  BY <1>0, <1>2, <1>3, <1>4 DEF SameCount
<1> QED
  BY <1>0, <1>1, <1>5, LoanBookKept

\* The commitments are not below what any one loan may still draw: where
\* execute_default stops them at zero, they would not have gone below it.
LEMMA CommitmentsCover ==
  ASSUME TypeOK, LoanBook, NEW l \in Loans, loans[l].status = "Approved"
  PROVE  Undisbursed(loans[l]) \in Nat /\ pool.commitments >= Undisbursed(loans[l])
<1> DEFINE f == [k \in Loans |-> Committed(loans[k])]
<1>1. ASSUME NEW k \in Loans PROVE f[k] \in Nat
  <2>1. loans[k] \in LoanRecord /\ loans[k].disbursed <= loans[k].principal
    BY DEF TypeOK
  <2> QED
    BY <2>1, LoanFields DEF Committed, Undisbursed
<1>2. f[l] = Undisbursed(loans[l])
  BY DEF Committed
<1>3. pool.commitments = SumOver(f, Loans)
  BY DEF LoanBook, LoanBookMatches
<1> HIDE DEF f
<1>4. f[l] <= SumOver(f, Loans)
  BY <1>1, Constants, SumBounds
<1> QED
  BY <1>1, <1>2, <1>3, <1>4

\* execute_default releases what the loan may still draw and its exposure.
LEMMA DefaultBook ==
  ASSUME IndInv, IndInv', LoanBook, NEW l \in Loans, NEW seizure \in Seizures,
         NEW keeper \in BOOLEAN, execute_default(l, seizure, keeper)
  PROVE  LoanBook'
<1> DEFINE acc == accrue_interest(loans[l])
           seized == seizure - (IF keeper THEN compute_keeper_reward(seizure) ELSE 0)
           net == acc.debt - seized
           lost == Greatest(0, net)
           loan == [acc EXCEPT !.status = "Defaulted", !.repaid = @ + seized, !.debt = net]
           com == IF Undisbursed(acc) > 0
                    THEN Greatest(0, pool.commitments - Undisbursed(acc))
                    ELSE pool.commitments
           wri == book.written_off + lost
<1>0. TypeOK /\ now \in 0..MaxLedger /\ loans[l] \in LoanRecord
      /\ loans' \in [Loans -> LoanRecord] /\ loans \in [Loans -> LoanRecord]
  BY Constants DEF IndInv, TypeOK
<1>1. /\ acc.status = "Approved" /\ set_loan(l, loan) /\ ReleaseExposure(acc)
      /\ pool' = [pool EXCEPT !.balance = @ + seized, !.liquidity = @ + seized - lost,
                              !.loss = @ + lost, !.commitments = com]
      /\ book' = [book EXCEPT !.written_off = wri]
  BY DEF execute_default
<1>2. loans'[l] = loan
  BY <1>0, <1>1 DEF set_loan
<1>3. acc \in LoanRecord /\ SameCount(acc, loans[l])
  BY <1>0, AccrueFields DEF SameCount
<1> HIDE DEF acc, seized, net, lost, wri
<1>4. loan.status = "Defaulted" /\ loan.fee = acc.fee
  BY <1>3 DEF LoanRecord
<1> HIDE DEF loan
<1>5. loan \in LoanRecord
  BY <1>0, <1>2
<1>6. loans[l].status = "Approved" /\ Undisbursed(acc) = Undisbursed(loans[l])
  BY <1>1, <1>3 DEF SameCount, Undisbursed
<1>7. com = pool.commitments - Undisbursed(loans[l])
  <2>1. Undisbursed(loans[l]) \in Nat /\ pool.commitments >= Undisbursed(loans[l])
        /\ pool.commitments \in Int
    BY <1>0, <1>6, CommitmentsCover, Fields
  <2> QED
    BY <1>6, <2>1 DEF Greatest
<1> HIDE DEF com
<1>8. pool'.commitments = com /\ book'.escrowed = book.escrowed
  BY <1>0, <1>1 DEF TypeOK, Pool
<1> QED
  BY <1>0, <1>1, <1>3, <1>4, <1>5, <1>6, <1>7, <1>8, LoanBookClosed DEF SameCount

\* An assumption that is asked for or called off moves nothing.
LEMMA AssumptionBook ==
  ASSUME TypeOK, LoanBook, NEW l \in Loans, NEW a \in Borrowers \cup {None},
         set_loan(l, [loans[l] EXCEPT !.assumption = a]),
         UNCHANGED <<pool, exposure, book>>
  PROVE  LoanBook'
<1> DEFINE loan == [loans[l] EXCEPT !.assumption = a]
<1>1. loan \in LoanRecord /\ SameCount(loan, loans[l]) /\ set_loan(l, loan)
  BY DEF TypeOK, LoanRecord, SameCount
<1> HIDE DEF loan
<1> QED
  BY <1>1, LoanBookKept

\* assume_loan moves the exposure from one borrower to the other.
LEMMA ExposureMoves ==
  ASSUME NEW old \in LoanRecord, NEW loan, NEW b \in Borrowers,
         exposure \in [Borrowers -> Int], pool.commitments \in Int,
         book.escrowed \in Int, old.status = "Approved",
         loan = [old EXCEPT !.borrower = b, !.assumption = None],
         exposure' = [[exposure EXCEPT ![old.borrower] = @ - old.principal]
                        EXCEPT ![b] = @ + old.principal],
         UNCHANGED <<pool, book>>
  PROVE  /\ loan \in LoanRecord
         /\ loan.fee = old.fee
         /\ pool'.commitments = pool.commitments - Committed(old) + Committed(loan)
         /\ \A c \in Borrowers : exposure'[c] = exposure[c] - Exposed(old, c)
                                                         + Exposed(loan, c)
         /\ book'.escrowed = book.escrowed - old.fee + loan.fee
<1> DEFINE released == [exposure EXCEPT ![old.borrower] = @ - old.principal]
<1>0. old.principal \in Nat /\ old.disbursed \in Nat /\ old.fee \in Nat
  BY LoanFields
<1>2. /\ loan \in LoanRecord /\ loan.status = old.status /\ loan.borrower = b
      /\ loan.principal = old.principal /\ loan.disbursed = old.disbursed
      /\ loan.fee = old.fee
  BY DEF LoanRecord
<1>3. /\ Committed(loan) = Committed(old) /\ Committed(old) \in Int
      /\ \A c : Exposed(old, c) = IF old.borrower = c THEN old.principal ELSE 0
      /\ \A c : Exposed(loan, c) = IF b = c THEN old.principal ELSE 0
  BY <1>0, <1>2 DEF Committed, Exposed, Undisbursed
<1>4. ASSUME NEW c \in Borrowers
      PROVE  exposure'[c] = exposure[c] - Exposed(old, c) + Exposed(loan, c)
  <2>1. released[c] = (IF old.borrower = c THEN exposure[c] - old.principal ELSE exposure[c])
        /\ released = [d \in Borrowers |-> released[d]]
    BY <1>0
  <2>2. exposure' = [released EXCEPT ![b] = @ + old.principal]
    OBVIOUS
  <2> HIDE DEF released
  <2>3. exposure'[c] = IF b = c THEN released[c] + old.principal ELSE released[c]
    BY <2>1, <2>2
  <2> QED
    BY <1>0, <1>3, <2>1, <2>3
<1>5. pool'.commitments = pool.commitments - Committed(old) + Committed(loan)
  BY <1>3
<1>6. book'.escrowed = book.escrowed - old.fee + loan.fee
  BY <1>0, <1>2
<1> QED
  BY <1>2, <1>4, <1>5, <1>6

LEMMA AssumeLoanBook ==
  ASSUME TypeOK, LoanBook, NEW l \in Loans, NEW b \in Borrowers, assume_loan(l, b)
  PROVE  LoanBook'
<1>0. /\ loans[l] \in LoanRecord /\ exposure \in [Borrowers -> Int]
      /\ pool.commitments \in Int /\ book.escrowed \in Int
  BY Fields DEF TypeOK
<1>1. PICK loan : loan = [loans[l] EXCEPT !.borrower = b, !.assumption = None]
  OBVIOUS
<1>2. /\ loans[l].status = "Approved" /\ set_loan(l, loan)
      /\ exposure' = [[exposure EXCEPT ![loans[l].borrower] = @ - loans[l].principal]
                        EXCEPT ![b] = @ + loans[l].principal]
      /\ UNCHANGED <<pool, book>>
  BY <1>1 DEF assume_loan
<1>3. loan \in LoanRecord /\ loan.fee = loans[l].fee /\ loans[l].fee = 0
  BY <1>0, <1>1, <1>2, ExposureMoves DEF LoanBook, FeesWithRequests
<1>4. pool'.commitments = pool.commitments - Committed(loans[l]) + Committed(loan)
  BY <1>0, <1>1, <1>2, ExposureMoves
<1>5. \A c \in Borrowers :
        exposure'[c] = exposure[c] - Exposed(loans[l], c) + Exposed(loan, c)
  BY <1>0, <1>1, <1>2, ExposureMoves
<1>6. book'.escrowed = book.escrowed - loans[l].fee + loan.fee
  BY <1>0, <1>1, <1>2, ExposureMoves
<1> QED
  BY <1>2, <1>3, <1>4, <1>5, <1>6, LoanBookStep

\* Investors, fees and recoveries move none of it.
LEMMA InvestBook ==
  ASSUME IndInv, LoanBook, NEW i \in Investors, Invest(i)
  PROVE  LoanBook'
<1>0. pool \in Pool
  BY DEF IndInv, TypeOK
<1>1. UNCHANGED <<loans, exposure, book>> /\ pool'.commitments = pool.commitments
  <2>1. ASSUME NEW n, NEW t, deposit_with_cap(i, n, t)
        PROVE  UNCHANGED <<loans, exposure, book>> /\ pool'.commitments = pool.commitments
    BY <1>0, <2>1 DEF deposit_with_cap, Pool
  <2>2. ASSUME NEW n, NEW waived, withdraw(i, n, waived)
        PROVE  UNCHANGED <<loans, exposure, book>> /\ pool'.commitments = pool.commitments
    BY <1>0, <2>2 DEF withdraw, Pool
  <2>3. ASSUME NEW to, NEW t, NEW n, transfer_debt_shares(i, to, t, n)
        PROVE  UNCHANGED <<loans, exposure, book>> /\ pool'.commitments = pool.commitments
    BY <2>3 DEF transfer_debt_shares
  <2>4. ASSUME claim_yield(i)
        PROVE  UNCHANGED <<loans, exposure, book>> /\ pool'.commitments = pool.commitments
    BY <1>0, <2>4 DEF claim_yield, Pool
  <2>5. ASSUME NEW mode, compound_fresh_yield(i, mode)
        PROVE  pool'.commitments = pool.commitments
    BY <1>0, <2>5 DEF compound_fresh_yield, Pool
  <2>6. ASSUME NEW mode, set_yield_mode(i, mode)
        PROVE  UNCHANGED <<loans, exposure, book>> /\ pool'.commitments = pool.commitments
    BY <2>5, <2>6 DEF set_yield_mode
  <2>7. ASSUME compound_yield(i)
        PROVE  UNCHANGED <<loans, exposure, book>> /\ pool'.commitments = pool.commitments
    BY <2>5, <2>7 DEF compound_yield
  <2> QED
    BY <2>1, <2>2, <2>3, <2>4, <2>6, <2>7 DEF Invest
<1> QED
  BY <1>1, LoanBookUnmoved

\* The totals follow the loans in every step.
LEMMA NextLoanBook == IndInv /\ IndInv' /\ LoanBook /\ [Next]_vars => LoanBook'
<1> SUFFICES ASSUME IndInv, IndInv', LoanBook, [Next]_vars PROVE LoanBook'
  OBVIOUS
<1>0. TypeOK /\ pool \in Pool
  BY DEF IndInv, TypeOK
<1>1. ASSUME NEW i \in Investors, Invest(i) PROVE LoanBook'
  BY <1>1, InvestBook
<1>2. ASSUME NEW n \in Fees, deposit_fees(n) PROVE LoanBook'
  <2>1. UNCHANGED <<loans, exposure, book>> /\ pool'.commitments = pool.commitments
    BY <1>0, <1>2 DEF deposit_fees, Pool
  <2> QED
    BY <2>1, LoanBookUnmoved
<1>3. ASSUME NEW l \in Loans, Apply(l) PROVE LoanBook'
  BY <1>3, RequestBook, ApproveBook, DeclineBook DEF Apply, reject_loan, cancel_loan
<1>4. ASSUME NEW l \in Loans, Pay(l) PROVE LoanBook'
  <2>1. ASSUME NEW n \in Payments, payoff_with_quote(l, n) PROVE LoanBook'
    <3>1. n \in Nat /\ loans[l].status = "Approved" /\ settle_quoted_payoff(l, n)
      BY <2>1, Constants DEF payoff_with_quote
    <3> QED
      BY <3>1, SettleBook
  <2> QED
    BY <1>4, <2>1, DisburseBook, RefundBook, RepayBook, QuoteBook DEF Pay
<1>5. ASSUME NEW l \in Loans, Default(l) PROVE LoanBook'
  <2>1. ASSUME NEW n \in Recoveries, recover_default(l, n) PROVE LoanBook'
    <3>1. UNCHANGED <<loans, exposure, book>> /\ pool'.commitments = pool.commitments
      BY <1>0, <2>1 DEF recover_default, Pool
    <3> QED
      BY <3>1, LoanBookUnmoved
  <2> QED
    BY <1>5, <2>1, DefaultBook DEF Default
<1>6. ASSUME NEW l \in Loans, Assume(l) PROVE LoanBook'
  <2>1. ASSUME NEW b \in Borrowers, request_loan_assumption(l, b) PROVE LoanBook'
    BY <1>0, <2>1, AssumptionBook, b \in Borrowers \cup {None} DEF request_loan_assumption
  <2>2. ASSUME cancel_loan_assumption(l) PROVE LoanBook'
    BY <1>0, <2>2, AssumptionBook, None \in Borrowers \cup {None} DEF cancel_loan_assumption
  <2> QED
    BY <1>0, <1>6, <2>1, <2>2, AssumeLoanBook DEF Assume
<1>7. CASE CloseLedger
  BY <1>7, LoanBookUnmoved DEF CloseLedger
<1>8. CASE UNCHANGED vars
  BY <1>8, LoanBookUnmoved DEF vars
<1> QED
  BY <1>1, <1>2, <1>3, <1>4, <1>5, <1>6, <1>7, <1>8 DEF Next

-----------------------------------------------------------------------------
(* The debt tokens: every token of a supply is some investor's.            *)

\* One investor's tokens of a tranche change by an amount, and so does the supply.
Moves(i, t, amount) ==
  /\ \A j \in Investors, u \in Tranches :
       investors'[j].shares[u] =
         investors[j].shares[u] + (IF j = i /\ u = t THEN amount ELSE 0)
  /\ \A u \in Tranches :
       tranches'[u].supply = tranches[u].supply + (IF u = t THEN amount ELSE 0)

\* No tokens are minted, burned or passed on.
TokensKept ==
  /\ \A j \in Investors : investors'[j].shares = investors[j].shares
  /\ \A u \in Tranches : tranches'[u].supply = tranches[u].supply

\* What the investors hold are amounts, before a step and after it.
LEMMA HoldingTypes ==
  ASSUME TypeOK, TypeOK', NEW t \in Tranches
  PROVE  /\ \A j \in Investors : /\ Holdings(t)[j] = investors[j].shares[t]
                                 /\ Holdings(t)'[j] = investors'[j].shares[t]
                                 /\ Holdings(t)[j] \in Int /\ Holdings(t)'[j] \in Int
         /\ tranches[t].supply \in Int
<1>1. investors \in [Investors -> InvestorRecord] /\ investors' \in [Investors -> InvestorRecord]
      /\ tranches \in [Tranches -> TrancheInfo]
  BY DEF TypeOK
<1>2. \A r \in InvestorRecord : r.shares[t] \in Int
  BY DEF InvestorRecord
<1>3. \A r \in TrancheInfo : r.supply \in Int
  BY DEF TrancheInfo
<1> QED
  BY <1>1, <1>2, <1>3 DEF Holdings

LEMMA InitSupply == Init => SupplyIsHeld
<1> SUFFICES ASSUME Init, NEW t \in Tranches
             PROVE  tranches[t].supply = SumOver(Holdings(t), Investors)
  BY DEF SupplyIsHeld
<1>1. \A i \in Investors : Holdings(t)[i] = 0
  BY DEF Init, Holdings
<1>2. SumOver(Holdings(t), Investors) = 0
  BY <1>1, Constants, SumZero
<1> QED
  BY <1>2 DEF Init

LEMMA SupplyKept ==
  ASSUME TypeOK, TypeOK', SupplyIsHeld, TokensKept
  PROVE  SupplyIsHeld'
<1> SUFFICES ASSUME NEW t \in Tranches
             PROVE  tranches'[t].supply = SumOver(Holdings(t)', Investors)
  BY DEF SupplyIsHeld
<1>1. Holdings(t)' = Holdings(t)
  BY DEF TokensKept, Holdings
<1> QED
  BY <1>1 DEF TokensKept, SupplyIsHeld

LEMMA SupplyMoved ==
  ASSUME TypeOK, TypeOK', SupplyIsHeld, NEW i \in Investors, NEW a \in Tranches,
         NEW amount \in Int, Moves(i, a, amount)
  PROVE  SupplyIsHeld'
<1> SUFFICES ASSUME NEW t \in Tranches
             PROVE  tranches'[t].supply = SumOver(Holdings(t)', Investors)
  BY DEF SupplyIsHeld
<1> DEFINE f == Holdings(t)
           e == Holdings(t)'
<1>1. \A j \in Investors : f[j] \in Int /\ e[j] \in Int
  BY HoldingTypes
<1>2. \A j \in Investors : j # i => e[j] = f[j]
  BY <1>1, HoldingTypes DEF Moves
<1>3. e[i] = f[i] + (IF t = a THEN amount ELSE 0)
  BY <1>1, HoldingTypes DEF Moves
<1>4. tranches[t].supply = SumOver(f, Investors) /\ tranches[t].supply \in Int
  BY HoldingTypes DEF SupplyIsHeld
<1>5. tranches'[t].supply = tranches[t].supply + (IF t = a THEN amount ELSE 0)
  BY DEF Moves
<1> HIDE DEF f, e
<1>6. SumOver(e, Investors) = SumOver(f, Investors) - f[i] + e[i]
  BY <1>1, <1>2, Constants, SumUpdate
<1> QED
  BY <1>1, <1>3, <1>4, <1>5, <1>6 DEF e

\* deposit_with_cap mints what the investor deposits.
LEMMA DepositSupply ==
  ASSUME IndInv, IndInv', SupplyIsHeld, NEW i \in Investors, NEW amount \in Deposits,
         NEW t \in Tranches, deposit_with_cap(i, amount, t)
  PROVE  SupplyIsHeld'
<1> DEFINE s == [investors[i].shares EXCEPT ![t] = @ + amount]
           record == [investors[i] EXCEPT !.deposited = @ + amount, !.tranche = t, !.shares = s]
<1>0. TypeOK /\ TypeOK' /\ amount \in Int /\ investors[i] \in InvestorRecord
  BY Constants DEF IndInv, TypeOK
<1>1. investors' = [investors EXCEPT ![i] = record] /\ Grow(t, amount)
  BY DEF deposit_with_cap, set_investor
<1>2. record.shares = s
  BY <1>0 DEF InvestorRecord
<1> HIDE DEF record
<1>3. /\ investors'[i].shares = s
      /\ \A j \in Investors : j # i => investors'[j] = investors[j]
  BY <1>0, <1>1, <1>2 DEF TypeOK
<1>4. Moves(i, t, amount)
  BY <1>0, <1>1, <1>3, GrowStep, Fields DEF Moves
<1> QED
  BY <1>0, <1>4, SupplyMoved

\* withdraw burns what the investor withdraws, the fee included.
LEMMA WithdrawSupply ==
  ASSUME IndInv, IndInv', SupplyIsHeld, NEW i \in Investors, NEW amount \in Withdrawals,
         NEW waived \in BOOLEAN, withdraw(i, amount, waived)
  PROVE  SupplyIsHeld'
<1> DEFINE t == investors[i].tranche
           s == [investors[i].shares EXCEPT ![t] = @ - amount]
           record == [investors[i] EXCEPT !.deposited = @ - amount, !.shares = s]
<1>0. TypeOK /\ TypeOK' /\ amount \in Int /\ -amount \in Int
      /\ investors[i] \in InvestorRecord /\ t \in Tranches
  BY Constants, Fields DEF IndInv, TypeOK
<1>1. investors' = [investors EXCEPT ![i] = record] /\ Grow(t, -amount)
  BY DEF withdraw, set_investor
<1>2. record.shares = s
  BY <1>0 DEF InvestorRecord
<1> HIDE DEF record, t
<1>3. /\ investors'[i].shares = s
      /\ \A j \in Investors : j # i => investors'[j] = investors[j]
  BY <1>0, <1>1, <1>2 DEF TypeOK
<1>4. Moves(i, t, -amount)
  BY <1>0, <1>1, <1>3, GrowStep, Fields DEF Moves
<1> QED
  BY <1>0, <1>4, SupplyMoved

\* compound_fresh_yield mints the yield that becomes principal, if there is any.
LEMMA CompoundSupply ==
  ASSUME IndInv, IndInv', SupplyIsHeld, NEW i \in Investors, NEW mode \in Modes,
         compound_fresh_yield(i, mode)
  PROVE  SupplyIsHeld'
<1> DEFINE t == investors[i].tranche
           amount == fresh_yield(i)
           s == [investors[i].shares EXCEPT ![t] = @ + amount]
           c == YieldShare(investors[i].deposited + amount, pool.deposited + amount)
           record == IF amount = 0
                       THEN [investors[i] EXCEPT !.mode = mode]
                       ELSE [investors[i] EXCEPT !.mode = mode, !.deposited = @ + amount,
                                                 !.shares = s, !.claimed = c]
<1>0. TypeOK /\ TypeOK' /\ investors[i] \in InvestorRecord /\ t \in Tranches
  BY Fields DEF IndInv, TypeOK
<1>1. investors' = [investors EXCEPT ![i] = record] /\ Grow(t, amount)
  BY DEF compound_fresh_yield, set_investor
<1>2. amount \in Nat
  BY <1>0, YieldTypes DEF TypeOK
<1> HIDE DEF amount, c, t
<1>3. record.shares = s
  <2>1. CASE amount = 0
    <3>1. record.shares = investors[i].shares
      BY <2>1, <1>0 DEF InvestorRecord
    <3>2. s = investors[i].shares
      BY <2>1, <1>0, Fields
    <3> QED
      BY <3>1, <3>2
  <2>2. CASE amount # 0
    BY <2>2, <1>0 DEF InvestorRecord
  <2> QED
    BY <2>1, <2>2
<1> HIDE DEF record
<1>4. /\ investors'[i].shares = s
      /\ \A j \in Investors : j # i => investors'[j] = investors[j]
  BY <1>0, <1>1, <1>3 DEF TypeOK
<1>5. Moves(i, t, amount)
  BY <1>0, <1>1, <1>2, <1>4, GrowStep, Fields DEF Moves
<1> QED
  BY <1>0, <1>2, <1>5, SupplyMoved

\* transfer_debt_shares: the tokens that leave one investor reach the other.
LEMMA TransferSupply ==
  ASSUME IndInv, IndInv', SupplyIsHeld, NEW from \in Investors, NEW to \in Investors,
         NEW t \in Tranches, NEW amount \in Transfers,
         transfer_debt_shares(from, to, t, amount)
  PROVE  SupplyIsHeld'
<1> DEFINE seller == settle_accrued_yield(from)
           buyer == IF investors[to].deposited = 0
                      THEN [investors[to] EXCEPT !.tranche = t]
                      ELSE settle_accrued_yield(to)
           ss == [seller.shares EXCEPT ![t] = @ - amount]
           sb == [buyer.shares EXCEPT ![t] = @ + amount]
           cs == current_yield_share(seller.deposited - amount)
           cb == current_yield_share(buyer.deposited + amount)
           sold == [seller EXCEPT !.deposited = @ - amount, !.shares = ss, !.claimed = cs]
           bought == [buyer EXCEPT !.deposited = @ + amount, !.shares = sb, !.claimed = cb]
<1>0. TypeOK /\ TypeOK' /\ amount \in Int /\ from # to
  BY Constants DEF IndInv, transfer_debt_shares
<1>1. investors' = [investors EXCEPT ![from] = sold, ![to] = bought] /\ UNCHANGED tranches
  BY DEF transfer_debt_shares
<1>2. seller \in InvestorRecord /\ seller.shares = investors[from].shares
  BY <1>0, SettleTypes
<1>3. buyer \in InvestorRecord /\ buyer.shares = investors[to].shares
  <2>1. CASE investors[to].deposited = 0
    <3>1. buyer = [investors[to] EXCEPT !.tranche = t]
      BY <2>1
    <3> HIDE DEF buyer
    <3> QED
      BY <3>1, <1>0 DEF TypeOK, InvestorRecord
  <2>2. CASE investors[to].deposited # 0
    <3>1. buyer = settle_accrued_yield(to)
      BY <2>2
    <3> HIDE DEF buyer
    <3> QED
      BY <3>1, <1>0, SettleTypes
  <2> QED
    BY <2>1, <2>2
<1> HIDE DEF seller, buyer, cs, cb
<1>4. sold.shares = ss /\ bought.shares = sb
  BY <1>2, <1>3 DEF InvestorRecord
<1> HIDE DEF sold, bought
<1>5. /\ investors'[from].shares = ss /\ investors'[to].shares = sb
      /\ \A j \in Investors : j # from /\ j # to => investors'[j] = investors[j]
  BY <1>0, <1>1, <1>4 DEF TypeOK
<1>6. ASSUME NEW u \in Tranches
      PROVE  tranches'[u].supply = SumOver(Holdings(u)', Investors)
  <2> DEFINE n == IF u = t THEN amount ELSE 0
             f == Holdings(u)
             g == [f EXCEPT ![from] = @ - n]
             e == Holdings(u)'
  <2>1. /\ \A j \in Investors : f[j] \in Int /\ e[j] \in Int
        /\ e[from] = f[from] - n /\ e[to] = f[to] + n
        /\ \A j \in Investors : j # from /\ j # to => e[j] = f[j]
    <3>1. \A j \in Investors : /\ f[j] = investors[j].shares[u] /\ e[j] = investors'[j].shares[u]
                               /\ f[j] \in Int /\ e[j] \in Int
      BY <1>0, HoldingTypes
    <3>2. /\ investors[from].shares \in [Tranches -> Int]
          /\ investors[to].shares \in [Tranches -> Int]
      BY <1>0, Fields
    <3>3. /\ ss[u] = investors[from].shares[u] - n
          /\ sb[u] = investors[to].shares[u] + n
      BY <3>2, <1>0, <1>2, <1>3
    <3> HIDE DEF ss, sb, n, f, e
    <3> QED
      BY <3>1, <3>3, <1>5
  <2>2. n \in Int /\ f = [j \in Investors |-> f[j]]
    BY <1>0 DEF Holdings
  <2>3. tranches'[u].supply = SumOver(f, Investors)
    BY <1>1 DEF SupplyIsHeld
  <2> HIDE DEF n, f, e
  <2>4. /\ \A j \in Investors : g[j] = IF j = from THEN f[j] - n ELSE f[j]
        /\ \A j \in Investors : g[j] \in Int
    BY <2>1, <2>2
  <2> HIDE DEF g
  <2>5. SumOver(g, Investors) = SumOver(f, Investors) - f[from] + g[from]
    <3>1. \A j \in Investors : j # from => g[j] = f[j]
      BY <2>4
    <3> QED
      BY <3>1, <2>1, <2>4, Constants, SumUpdate
  <2>6. SumOver(e, Investors) = SumOver(g, Investors) - g[to] + e[to]
    <3>1. \A j \in Investors : j # to => e[j] = g[j]
      BY <2>1, <2>4
    <3> QED
      BY <3>1, <2>1, <2>4, Constants, SumUpdate
  <2>7. SumOver(f, Investors) \in Int
    BY <2>3, <1>0, <1>1, HoldingTypes
  <2>8. SumOver(e, Investors) = SumOver(f, Investors)
    BY <2>1, <2>2, <2>4, <2>5, <2>6, <2>7, <1>0
  <2> QED
    BY <2>3, <2>8 DEF e
<1> QED
  BY <1>6 DEF SupplyIsHeld

\* An investor's record changes in claims, banked yield or mode only.
LEMMA RecordSupply ==
  ASSUME IndInv, IndInv', SupplyIsHeld, NEW i \in Investors, NEW record,
         record.shares = investors[i].shares, set_investor(i, record),
         tranches' = tranches
  PROVE  SupplyIsHeld'
<1>1. TypeOK /\ TypeOK'
  BY DEF IndInv
<1>2. TokensKept
  BY <1>1 DEF TokensKept, set_investor, TypeOK
<1> QED
  BY <1>1, <1>2, SupplyKept

\* claim_yield pays out and leaves the tokens alone.
LEMMA ClaimSupply ==
  ASSUME IndInv, IndInv', SupplyIsHeld, NEW i \in Investors, claim_yield(i)
  PROVE  SupplyIsHeld'
<1> DEFINE compounding == investors[i].mode = "Compound"
           pending == IF compounding THEN investors[i].accrued ELSE calculate_pending_yield(i)
           a == investors[i].accrued - Least(pending, investors[i].accrued)
           c == IF compounding THEN investors[i].claimed
                               ELSE current_yield_share(investors[i].deposited)
           record == [investors[i] EXCEPT !.accrued = a, !.claimed = c]
<1>1. set_investor(i, record) /\ tranches' = tranches
  BY DEF claim_yield
<1> HIDE DEF a, c
<1>2. record.shares = investors[i].shares
  BY DEF IndInv, TypeOK, InvestorRecord
<1> HIDE DEF record
<1> QED
  BY <1>1, <1>2, RecordSupply

\* set_yield_mode compounds in one direction and only banks in the other.
LEMMA YieldModeSupply ==
  ASSUME IndInv, IndInv', SupplyIsHeld, NEW i \in Investors, NEW mode \in Modes,
         set_yield_mode(i, mode)
  PROVE  SupplyIsHeld'
<1>1. CASE compound_fresh_yield(i, mode)
  BY <1>1, CompoundSupply
<1>2. CASE /\ set_investor(i, [bank_fresh_yield(i) EXCEPT !.mode = mode])
           /\ UNCHANGED <<tranches, pool>>
  <2> DEFINE record == [bank_fresh_yield(i) EXCEPT !.mode = mode]
  <2>1. bank_fresh_yield(i) \in InvestorRecord
        /\ bank_fresh_yield(i).shares = investors[i].shares
    BY SettleTypes DEF IndInv
  <2>2. record.shares = investors[i].shares
    BY <2>1 DEF InvestorRecord
  <2>3. set_investor(i, record) /\ tranches' = tranches
    BY <1>2
  <2> HIDE DEF record
  <2> QED
    BY <2>2, <2>3, RecordSupply
<1> QED
  BY <1>1, <1>2 DEF set_yield_mode

\* Capital and absorbed losses change, and supplies and positions do not.
LEMMA LossSupply ==
  ASSUME IndInv, IndInv', SupplyIsHeld, UNCHANGED investors,
         \A t \in Tranches : tranches'[t].supply = tranches[t].supply
  PROVE  SupplyIsHeld'
BY SupplyKept DEF IndInv, TokensKept

\* A loss is absorbed by the capital of the tranches, not by their supplies.
LEMMA DefaultSupply ==
  ASSUME IndInv, IndInv', SupplyIsHeld, NEW l, NEW seizure, NEW keeper,
         execute_default(l, seizure, keeper)
  PROVE  SupplyIsHeld'
<1>0. tranches \in [Tranches -> TrancheInfo] /\ "Junior" \in Tranches /\ "Senior" \in Tranches
  BY DEF IndInv, TypeOK, Tranches
<1>1. ASSUME NEW loss, AbsorbLoss(loss), NEW t \in Tranches
      PROVE  tranches'[t].supply = tranches[t].supply
  <2> DEFINE junior == Least(loss, tranches["Junior"].deposited)
             senior == Least(loss - junior, tranches["Senior"].deposited)
  <2>1. tranches' = [tranches EXCEPT
          !["Junior"].deposited = @ - junior, !["Junior"].absorbed = @ + junior,
          !["Senior"].deposited = @ - senior, !["Senior"].absorbed = @ + senior]
    BY <1>1 DEF AbsorbLoss
  <2> HIDE DEF junior, senior
  <2> QED
    BY <2>1, <1>0 DEF TrancheInfo, Tranches
<1>2. UNCHANGED investors /\ \A t \in Tranches : tranches'[t].supply = tranches[t].supply
  BY <1>1 DEF execute_default
<1> QED
  BY <1>2, LossSupply

\* So is a loss that is made good.
LEMMA RecoverSupply ==
  ASSUME IndInv, IndInv', SupplyIsHeld, NEW l, NEW recovered, recover_default(l, recovered)
  PROVE  SupplyIsHeld'
<1> DEFINE reduction == Least(recovered, pool.loss)
           senior == Least(reduction, tranches["Senior"].absorbed)
           junior == Least(reduction - senior, tranches["Junior"].absorbed)
<1>0. tranches \in [Tranches -> TrancheInfo] /\ "Junior" \in Tranches /\ "Senior" \in Tranches
  BY DEF IndInv, TypeOK, Tranches
<1>1. UNCHANGED investors /\ tranches' = [tranches EXCEPT
        !["Senior"].deposited = @ + senior, !["Senior"].absorbed = @ - senior,
        !["Junior"].deposited = @ + junior, !["Junior"].absorbed = @ - junior]
  BY DEF recover_default
<1> HIDE DEF senior, junior
<1>2. \A t \in Tranches : tranches'[t].supply = tranches[t].supply
  BY <1>0, <1>1 DEF TrancheInfo, Tranches
<1> QED
  BY <1>1, <1>2, LossSupply

\* Applying for a loan, paying it out and back, and assuming it are no matter
\* of the investors.
LEMMA LoanCalls ==
  ASSUME NEW l, Apply(l) \/ Pay(l) \/ Assume(l)
  PROVE  UNCHANGED <<investors, tranches>>
<1>1. CASE Apply(l)
  BY <1>1 DEF Apply, do_request_loan, approve_loan, reject_loan, cancel_loan, Decline
<1>2. CASE Pay(l)
  <2>1. ASSUME NEW n, settle_quoted_payoff(l, n)
        PROVE  UNCHANGED <<investors, tranches>>
    BY <2>1 DEF settle_quoted_payoff
  <2>2. ASSUME NEW n, repay(l, n)
        PROVE  UNCHANGED <<investors, tranches>>
    BY <2>1, <2>2 DEF repay
  <2> QED
    BY <1>2, <2>1, <2>2 DEF Pay, disburse, refund_milestone_dispute, quote_payoff,
                            payoff_with_quote
<1>3. CASE Assume(l)
  BY <1>3 DEF Assume, request_loan_assumption, assume_loan, cancel_loan_assumption
<1> QED
  BY <1>1, <1>2, <1>3

\* No step mints, burns or loses a token that is not counted.
LEMMA NextSupply == IndInv /\ IndInv' /\ SupplyIsHeld /\ [Next]_vars => SupplyIsHeld'
<1> SUFFICES ASSUME IndInv, IndInv', SupplyIsHeld, [Next]_vars PROVE SupplyIsHeld'
  OBVIOUS
<1>1. ASSUME NEW i \in Investors, Invest(i) PROVE SupplyIsHeld'
  <2>1. ASSUME compound_yield(i) PROVE SupplyIsHeld'
    BY <2>1, CompoundSupply, "Compound" \in Modes DEF compound_yield, Modes
  <2> QED
    BY <1>1, <2>1, DepositSupply, WithdrawSupply, TransferSupply, ClaimSupply,
       YieldModeSupply DEF Invest
<1>2. ASSUME UNCHANGED <<investors, tranches>> PROVE SupplyIsHeld'
  BY <1>2 DEF SupplyIsHeld, Holdings
<1>3. ASSUME NEW n \in Fees, deposit_fees(n) PROVE SupplyIsHeld'
  BY <1>2, <1>3 DEF deposit_fees
<1>4. ASSUME NEW l \in Loans, Apply(l) \/ Pay(l) \/ Assume(l) PROVE SupplyIsHeld'
  BY <1>2, <1>4, LoanCalls
<1>5. ASSUME NEW l \in Loans, Default(l) PROVE SupplyIsHeld'
  BY <1>5, DefaultSupply, RecoverSupply DEF Default
<1>6. CASE CloseLedger
  BY <1>2, <1>6 DEF CloseLedger
<1>7. CASE UNCHANGED vars
  BY <1>2, <1>7 DEF vars
<1> QED
  BY <1>1, <1>3, <1>4, <1>5, <1>6, <1>7 DEF Next

-----------------------------------------------------------------------------
(* Losses: what the tranches absorb, and in which order.                   *)

\* The history that says nothing of a loss says nothing of a tranche either.
LossesKept ==
  /\ \A t \in Tranches : tranches'[t].absorbed = tranches[t].absorbed
  /\ pool'.loss = pool.loss

\* What execute_default does to the tranches and to the losses on record.
LossTaken(net) ==
  LET junior == Least(net, tranches["Junior"].deposited)
      senior == Least(net - junior, tranches["Senior"].deposited)
  IN  /\ tranches'["Junior"].absorbed = tranches["Junior"].absorbed + junior
      /\ tranches'["Junior"].deposited = tranches["Junior"].deposited - junior
      /\ tranches'["Senior"].absorbed = tranches["Senior"].absorbed + senior
      /\ pool'.loss = pool.loss + net

\* And recover_default.
LossMadeGood(reduction) ==
  LET senior == Least(reduction, tranches["Senior"].absorbed)
      junior == Least(reduction - senior, tranches["Junior"].absorbed)
  IN  /\ tranches'["Senior"].absorbed = tranches["Senior"].absorbed - senior
      /\ tranches'["Junior"].absorbed = tranches["Junior"].absorbed - junior
      /\ pool'.loss = pool.loss - reduction
      /\ reduction <= pool.loss

\* A step of the pool books a loss, makes one good, or does neither.
LossStep ==
  \/ LossesKept
  \/ \E net \in Nat : LossTaken(net)
  \/ \E reduction \in Nat : LossMadeGood(reduction)

\* A recovery changes both tranches, in capital and in absorbed losses.
LEMMA BothTranches ==
  ASSUME TypeOK, NEW dj, NEW aj, NEW ds, NEW as,
         tranches' = [tranches EXCEPT
           !["Senior"].deposited = ds, !["Senior"].absorbed = as,
           !["Junior"].deposited = dj, !["Junior"].absorbed = aj]
  PROVE  /\ tranches'["Junior"].deposited = dj /\ tranches'["Junior"].absorbed = aj
         /\ tranches'["Senior"].deposited = ds /\ tranches'["Senior"].absorbed = as
<1> DEFINE junior == [tranches["Junior"] EXCEPT !.deposited = dj, !.absorbed = aj]
           senior == [tranches["Senior"] EXCEPT !.deposited = ds, !.absorbed = as]
<1>1. /\ tranches \in [Tranches -> TrancheInfo] /\ "Junior" \in Tranches /\ "Senior" \in Tranches
      /\ tranches["Junior"] \in TrancheInfo /\ tranches["Senior"] \in TrancheInfo
  BY DEF TypeOK, Tranches
<1>2. /\ junior.deposited = dj /\ junior.absorbed = aj
      /\ senior.deposited = ds /\ senior.absorbed = as
  BY <1>1 DEF TrancheInfo
<1>3. tranches' = [tranches EXCEPT !["Senior"] = senior, !["Junior"] = junior]
  BY <1>1
<1> HIDE DEF junior, senior
<1>4. tranches'["Junior"] = junior /\ tranches'["Senior"] = senior
  BY <1>1, <1>3
<1> QED
  BY <1>2, <1>4

LEMMA DefaultLoss ==
  ASSUME IndInv, NEW l \in Loans, NEW seizure \in Seizures, NEW keeper \in BOOLEAN,
         execute_default(l, seizure, keeper)
  PROVE  LossStep
<1> DEFINE acc == accrue_interest(loans[l])
           cut == IF keeper THEN compute_keeper_reward(seizure) ELSE 0
           seized == seizure - cut
           net == acc.debt - seized
           lost == Greatest(0, net)
           com == IF Undisbursed(acc) > 0
                    THEN Greatest(0, pool.commitments - Undisbursed(acc))
                    ELSE pool.commitments
           junior == Least(net, tranches["Junior"].deposited)
           senior == Least(net - junior, tranches["Senior"].deposited)
<1>0. TypeOK /\ now \in 0..MaxLedger /\ loans[l] \in LoanRecord
  BY Constants DEF IndInv, TypeOK
<1>1. /\ pool' = [pool EXCEPT !.balance = @ + seized, !.liquidity = @ + seized - lost,
                              !.loss = @ + lost, !.commitments = com]
      /\ IF net > 0 THEN AbsorbLoss(net) ELSE UNCHANGED tranches
  BY DEF execute_default
<1>2. acc \in LoanRecord
  BY <1>0, AccrueFields
<1> HIDE DEF acc, com
<1>3. seized \in Int
  <2>1. seizure \in Nat
    BY Constants
  <2>2. cut \in 0..seizure
    BY <2>1, RewardType
  <2> HIDE DEF cut
  <2> QED
    BY <2>1, <2>2
<1> HIDE DEF seized
<1>4. net \in Int
  BY <1>2, <1>3, LoanFields
<1>5. pool'.loss = pool.loss + lost /\ pool.loss \in Nat
  BY <1>0, <1>1 DEF TypeOK, Pool
<1> HIDE DEF net
<1>6. CASE net > 0
  <2>1. lost = net /\ net \in Nat
    BY <1>4, <1>6 DEF Greatest
  <2>2. tranches' = [tranches EXCEPT
          !["Junior"].deposited = @ - junior, !["Junior"].absorbed = @ + junior,
          !["Senior"].deposited = @ - senior, !["Senior"].absorbed = @ + senior]
    BY <1>1, <1>6 DEF AbsorbLoss
  <2> HIDE DEF junior, senior
  <2>3. tranches["Junior"].deposited \in Int /\ tranches["Senior"].deposited \in Int
    BY <1>0, Fields DEF Tranches
  <2>4. junior \in Int
    BY <1>4, <2>3, LeastGreatest DEF junior
  <2>5. senior \in Int
    BY <1>4, <2>3, <2>4, LeastGreatest DEF senior
  <2>6. /\ tranches'["Junior"].deposited = tranches["Junior"].deposited - junior
        /\ tranches'["Junior"].absorbed = tranches["Junior"].absorbed + junior
        /\ tranches'["Senior"].absorbed = tranches["Senior"].absorbed + senior
    BY <1>0, <2>2, <2>4, <2>5, AbsorbStep, Zenon
  <2>7. LossTaken(net)
    BY <1>5, <2>1, <2>6 DEF LossTaken, junior, senior
  <2> QED
    BY <2>1, <2>7 DEF LossStep
<1>7. CASE ~(net > 0)
  <2>1. lost = 0
    BY <1>4, <1>7 DEF Greatest
  <2> QED
    BY <1>1, <1>5, <1>7, <2>1 DEF LossStep, LossesKept
<1> QED
  BY <1>6, <1>7

LEMMA RecoverLoss ==
  ASSUME IndInv, NEW l, NEW recovered \in Recoveries, recover_default(l, recovered)
  PROVE  LossStep
<1> DEFINE reduction == Least(recovered, pool.loss)
           senior == Least(reduction, tranches["Senior"].absorbed)
           junior == Least(reduction - senior, tranches["Junior"].absorbed)
<1>0. TypeOK
  BY DEF IndInv
<1>1. /\ recovered > 0
      /\ pool' = [pool EXCEPT !.balance = @ + recovered, !.liquidity = @ + recovered,
                              !.loss = @ - reduction]
      /\ tranches' = [tranches EXCEPT
           !["Senior"].deposited = @ + senior, !["Senior"].absorbed = @ - senior,
           !["Junior"].deposited = @ + junior, !["Junior"].absorbed = @ - junior]
  BY DEF recover_default
<1>2. recovered \in Nat /\ pool.loss \in Nat
  BY <1>0, <1>1, Constants, Fields
<1>3. reduction \in Nat /\ reduction <= pool.loss
  BY <1>2, LeastGreatest
<1> HIDE DEF reduction
<1>4. pool'.loss = pool.loss - reduction
  BY <1>0, <1>1 DEF TypeOK, Pool
<1> HIDE DEF senior, junior
<1> DEFINE dj == tranches["Junior"].deposited + junior
           aj == tranches["Junior"].absorbed - junior
           ds == tranches["Senior"].deposited + senior
           as == tranches["Senior"].absorbed - senior
<1>5. tranches'["Senior"].absorbed = as /\ tranches'["Junior"].absorbed = aj
  <2>1. tranches' = [tranches EXCEPT
          !["Senior"].deposited = ds, !["Senior"].absorbed = as,
          !["Junior"].deposited = dj, !["Junior"].absorbed = aj]
    BY <1>0, <1>1 DEF TypeOK, Tranches
  <2> HIDE DEF dj, aj, ds, as
  <2> QED
    BY <1>0, <2>1, BothTranches
<1>6. LossMadeGood(reduction)
  BY <1>3, <1>4, <1>5 DEF LossMadeGood, senior, junior
<1> QED
  BY <1>3, <1>6 DEF LossStep

\* A supply is never negative: it is what investors hold, and they hold their
\* positions.
LEMMA SupplyNatural ==
  ASSUME IndInv, SupplyIsHeld, NEW t \in Tranches
  PROVE  tranches[t].supply \in Nat
<1> DEFINE f == Holdings(t)
<1>1. ASSUME NEW i \in Investors PROVE f[i] \in Nat
  <2>1. investors[i].shares[t] = IF t = investors[i].tranche THEN investors[i].deposited ELSE 0
    BY DEF IndInv, SharesReconcile
  <2>2. investors[i].deposited \in Nat
    BY Fields DEF IndInv
  <2> QED
    BY <2>1, <2>2 DEF Holdings
<1>2. tranches[t].supply = SumOver(f, Investors)
  BY DEF SupplyIsHeld
<1> HIDE DEF f
<1>3. SumOver(f, Investors) \in Nat
  BY <1>1, Constants, SumBounds
<1> QED
  BY <1>2, <1>3

\* What the waterfall works with.
LEMMA Capital ==
  ASSUME IndInv, SupplyIsHeld, LossesBooked
  PROVE  /\ \A t \in Tranches : /\ tranches[t].deposited \in Int
                                /\ tranches[t].absorbed \in Nat
                                /\ tranches[t].deposited + tranches[t].absorbed >= 0
         /\ pool.loss \in Nat
         /\ tranches["Junior"].absorbed + tranches["Senior"].absorbed <= pool.loss
         /\ "Senior" \in Tranches /\ "Junior" \in Tranches
<1>1. TypeOK
  BY DEF IndInv
<1>2. \A t \in Tranches : tranches[t].supply >= 0
  BY SupplyNatural
<1>3. \A t \in Tranches : tranches[t].deposited + tranches[t].absorbed = tranches[t].supply
  BY DEF IndInv, SharesReconcile
<1> QED
  BY <1>1, <1>2, <1>3, Fields DEF LossesBooked, Tranches

\* execute_default: a tranche's losses go up to its supply at most, and what the
\* junior tranche leaves of a loss is not below zero.
LEMMA TakenBooked ==
  ASSUME IndInv, SupplyIsHeld, LossesBooked, NEW net \in Nat, LossTaken(net)
  PROVE  LossesBooked'
<1> DEFINE junior == Least(net, tranches["Junior"].deposited)
           senior == Least(net - junior, tranches["Senior"].deposited)
<1>1. /\ tranches'["Junior"].absorbed = tranches["Junior"].absorbed + junior
      /\ tranches'["Senior"].absorbed = tranches["Senior"].absorbed + senior
      /\ pool'.loss = pool.loss + net
  BY DEF LossTaken
<1>2. junior \in Int /\ junior <= net /\ tranches["Junior"].absorbed + junior >= 0
  BY Capital DEF Least
<1> HIDE DEF junior
<1>3. senior \in Int /\ senior <= net - junior /\ tranches["Senior"].absorbed + senior >= 0
  BY <1>2, Capital DEF Least
<1> HIDE DEF senior
<1> QED
  BY <1>1, <1>2, <1>3, Capital DEF LossesBooked, Tranches

\* recover_default: what is not made good to a tranche is more than it had lost,
\* so that both are whole when less is restored than was taken off the record.
LEMMA MadeGoodBooked ==
  ASSUME IndInv, SupplyIsHeld, LossesBooked, NEW reduction \in Nat, LossMadeGood(reduction)
  PROVE  LossesBooked'
<1> DEFINE senior == Least(reduction, tranches["Senior"].absorbed)
           junior == Least(reduction - senior, tranches["Junior"].absorbed)
<1>1. /\ tranches'["Senior"].absorbed = tranches["Senior"].absorbed - senior
      /\ tranches'["Junior"].absorbed = tranches["Junior"].absorbed - junior
      /\ pool'.loss = pool.loss - reduction /\ reduction <= pool.loss
  BY DEF LossMadeGood
<1>2. /\ senior \in Nat /\ senior <= reduction /\ senior <= tranches["Senior"].absorbed
      /\ senior = reduction \/ senior = tranches["Senior"].absorbed
  BY Capital DEF Least
<1> HIDE DEF senior
<1>3. /\ junior \in Nat /\ junior <= tranches["Junior"].absorbed
      /\ junior = reduction - senior \/ junior = tranches["Junior"].absorbed
  BY <1>2, Capital DEF Least
<1> HIDE DEF junior
<1>4. \A t \in Tranches : tranches'[t].absorbed >= 0
  BY <1>1, <1>2, <1>3, Capital DEF Tranches
<1>5. tranches["Junior"].absorbed - junior + (tranches["Senior"].absorbed - senior)
        <= pool.loss - reduction
  <2> DEFINE ja == tranches["Junior"].absorbed
             sa == tranches["Senior"].absorbed
             lo == pool.loss
  <2>1. ja \in Nat /\ sa \in Nat /\ lo \in Nat /\ ja + sa <= lo /\ reduction <= lo
    BY <1>1, Capital
  <2>2. /\ senior = reduction \/ senior = sa
        /\ junior = reduction - senior \/ junior = ja
        /\ junior <= ja /\ senior <= sa
    BY <1>2, <1>3
  <2> HIDE DEF ja, sa, lo
  <2>3. ja - junior + (sa - senior) <= lo - reduction
    BY <1>2, <1>3, <2>1, <2>2
  <2> QED
    BY <2>3 DEF ja, sa, lo
<1> QED
  BY <1>1, <1>4, <1>5 DEF LossesBooked

\* The investors' calls and those of borrowers are no matter of losses.
LEMMA NextLossStep == IndInv /\ [Next]_vars => LossStep
<1> SUFFICES ASSUME IndInv, [Next]_vars PROVE LossStep
  OBVIOUS
<1>0. TypeOK /\ pool \in Pool
  BY DEF IndInv, TypeOK
<1>1. ASSUME UNCHANGED tranches, pool'.loss = pool.loss PROVE LossStep
  BY <1>1 DEF LossStep, LossesKept
<1>2. ASSUME NEW t \in Tranches, NEW amount \in Int, Grow(t, amount), pool'.loss = pool.loss
      PROVE  LossStep
  BY <1>0, <1>2, GrowStep DEF LossStep, LossesKept
<1>3. ASSUME NEW i \in Investors, Invest(i) PROVE LossStep
  <2>0. investors[i].tranche \in Tranches
    BY <1>0, Fields
  <2>1. ASSUME NEW n \in Deposits, NEW t \in Tranches, deposit_with_cap(i, n, t)
        PROVE  LossStep
    <3>1. n \in Int /\ Grow(t, n) /\ pool'.loss = pool.loss
      BY <1>0, <2>1, Constants DEF deposit_with_cap, Pool
    <3> QED
      BY <1>2, <3>1
  <2>2. ASSUME NEW n \in Withdrawals, NEW waived \in BOOLEAN, withdraw(i, n, waived)
        PROVE  LossStep
    <3>1. -n \in Int /\ Grow(investors[i].tranche, -n)
      BY <2>2, Constants DEF withdraw
    <3>2. pool'.loss = pool.loss
      BY <1>0, <2>2 DEF withdraw, Pool
    <3> QED
      BY <1>2, <2>0, <3>1, <3>2
  <2>3. ASSUME NEW to, NEW t, NEW n, transfer_debt_shares(i, to, t, n) PROVE LossStep
    BY <1>1, <2>3 DEF transfer_debt_shares
  <2>4. ASSUME claim_yield(i) PROVE LossStep
    <3>1. UNCHANGED tranches /\ pool'.loss = pool.loss
      BY <1>0, <2>4 DEF claim_yield, Pool
    <3> QED
      BY <1>1, <3>1
  <2>5. ASSUME NEW mode, compound_fresh_yield(i, mode) PROVE LossStep
    <3>1. fresh_yield(i) \in Int
      BY <1>0, YieldTypes DEF TypeOK
    <3>2. Grow(investors[i].tranche, fresh_yield(i)) /\ pool'.loss = pool.loss
      BY <1>0, <2>5 DEF compound_fresh_yield, Pool
    <3> QED
      BY <1>2, <2>0, <3>1, <3>2
  <2>6. ASSUME NEW mode \in Modes, set_yield_mode(i, mode) PROVE LossStep
    BY <1>1, <2>5, <2>6 DEF set_yield_mode
  <2>7. ASSUME compound_yield(i) PROVE LossStep
    BY <2>5, <2>7 DEF compound_yield
  <2> QED
    BY <1>3, <2>1, <2>2, <2>3, <2>4, <2>6, <2>7 DEF Invest
<1>4. ASSUME NEW n \in Fees, deposit_fees(n) PROVE LossStep
  <2>1. UNCHANGED tranches /\ pool'.loss = pool.loss
    BY <1>0, <1>4 DEF deposit_fees, Pool
  <2> QED
    BY <1>1, <2>1
<1>5. ASSUME NEW l \in Loans, Apply(l) \/ Pay(l) \/ Assume(l) PROVE LossStep
  <2>1. pool'.loss = pool.loss
    <3>1. CASE Apply(l)
      BY <1>0, <3>1 DEF Apply, do_request_loan, approve_loan, reject_loan, cancel_loan,
                        Decline, Pool
    <3>2. CASE Pay(l)
      <4>1. ASSUME NEW n, settle_quoted_payoff(l, n) PROVE pool'.loss = pool.loss
        BY <1>0, <4>1 DEF settle_quoted_payoff, Pool
      <4>2. ASSUME NEW n, repay(l, n) PROVE pool'.loss = pool.loss
        BY <1>0, <4>1, <4>2 DEF repay, Pool
      <4> QED
        BY <1>0, <3>2, <4>1, <4>2 DEF Pay, disburse, refund_milestone_dispute, quote_payoff,
                                      payoff_with_quote, Pool
    <3>3. CASE Assume(l)
      BY <3>3 DEF Assume, request_loan_assumption, assume_loan, cancel_loan_assumption
    <3> QED
      BY <1>5, <3>1, <3>2, <3>3
  <2> QED
    BY <1>1, <1>5, <2>1, LoanCalls
<1>6. ASSUME NEW l \in Loans, Default(l) PROVE LossStep
  BY <1>6, DefaultLoss, RecoverLoss DEF Default
<1>7. CASE CloseLedger
  BY <1>1, <1>7 DEF CloseLedger
<1>8. CASE UNCHANGED vars
  BY <1>1, <1>8 DEF vars
<1> QED
  BY <1>3, <1>4, <1>5, <1>6, <1>7, <1>8 DEF Next

\* A tranche absorbs no loss that is not on record.
LEMMA NextLosses ==
  IndInv /\ SupplyIsHeld /\ LossesBooked /\ [Next]_vars => LossesBooked'
<1> SUFFICES ASSUME IndInv, SupplyIsHeld, LossesBooked, [Next]_vars PROVE LossesBooked'
  OBVIOUS
<1>1. CASE LossesKept
  BY <1>1 DEF LossesKept, LossesBooked, Tranches
<1> QED
  BY <1>1, NextLossStep, TakenBooked, MadeGoodBooked DEF LossStep

\* What WaterfallOrder says of a step.
SeniorLast ==
  /\ tranches'["Senior"].absorbed > tranches["Senior"].absorbed =>
       tranches'["Junior"].deposited <= 0
  /\ tranches'["Junior"].absorbed < tranches["Junior"].absorbed /\ pool'.loss < pool.loss =>
       tranches'["Senior"].absorbed = 0

LEMMA StepWaterfall ==
  IndInv /\ SupplyIsHeld /\ LossesBooked /\ [Next]_vars => SeniorLast
<1> SUFFICES ASSUME IndInv, SupplyIsHeld, LossesBooked, [Next]_vars PROVE SeniorLast
  OBVIOUS
<1>1. CASE LossesKept
  BY <1>1, Capital DEF LossesKept, SeniorLast
<1>2. ASSUME NEW net \in Nat, LossTaken(net) PROVE SeniorLast
  BY <1>2, Capital DEF LossTaken, SeniorLast, Least
<1>3. ASSUME NEW reduction \in Nat, LossMadeGood(reduction) PROVE SeniorLast
  BY <1>3, Capital DEF LossMadeGood, SeniorLast, Least
<1> QED
  BY <1>1, <1>2, <1>3, NextLossStep DEF LossStep

-----------------------------------------------------------------------------
(* The theorems.                                                           *)

\* The inductive invariant holds in every reachable state of the contract,
\* whatever the amounts, rates, fees, caps and windows it is configured with.
THEOREM PoolInvariant == Spec => []IndInv
BY InitIndInv, NextIndInv, PTL DEF Spec

\* Storage keeps its shape: no call of the contract makes a position, a
\* principal, a disbursed amount or the token balance negative, and disburse
\* never pays out more than the principal.
THEOREM PoolTypeCorrect == Spec => []TypeOK
<1>1. IndInv => TypeOK
  BY DEF IndInv
<1> QED
  BY <1>1, PoolInvariant, PTL

\* Token balance and TotalLiquidity differ by exactly what BalanceAccounted
\* names, through deposits, withdrawals, yield, loans, defaults and recoveries.
THEOREM PoolBalance == Spec => []BalanceAccounted
<1>1. IndInv => BalanceAccounted
  BY DEF IndInv
<1> QED
  BY <1>1, PoolInvariant, PTL

\* Positions, debt tokens, tranche totals and TotalDeposited stay reconciled in
\* every operation that moves any of them.
THEOREM PoolShares == Spec => []SharesReconcile
<1>1. IndInv => SharesReconcile
  BY DEF IndInv
<1> QED
  BY <1>1, PoolInvariant, PTL

\* repay and payoff_with_quote close a loan only when what was disbursed has
\* come back, except for what was disbursed after the payoff was quoted.
THEOREM PoolPaid == Spec => []PaidBeforeClosed
<1>1. IndInv => PaidBeforeClosed
  BY DEF IndInv, PayoffCovered, Covered, PaidBeforeClosed
<1> QED
  BY <1>1, PoolInvariant, PTL

\* The books stay true in every reachable state: the totals of the loans, the
\* debt tokens and the losses, each on top of the invariant above.
Books == IndInv /\ LoanBook /\ SupplyIsHeld /\ LossesBooked

THEOREM PoolBooks == Spec => []Books
<1>1. Init => Books
  <2>1. Init => LossesBooked
    BY DEF Init, LossesBooked, Tranches
  <2> QED
    BY <2>1, InitIndInv, InitLoanBook, InitSupply DEF Books
<1>2. Books /\ [Next]_vars => Books'
  BY NextIndInv, NextLoanBook, NextSupply, NextLosses DEF Books
<1> QED
  BY <1>1, <1>2, PTL DEF Spec

\* The totals the contract keeps of its loans, the commitments, every borrower's
\* exposure and the fees in escrow, are the sums over the loans, however many
\* loans there are and however each one left the books.
THEOREM PoolLoanBook == Spec => []LoanBookMatches
<1>1. Books => LoanBookMatches
  BY DEF Books, LoanBook
<1> QED
  BY <1>1, PoolBooks, PTL

\* Every debt token of a tranche is some investor's, and every investor's token
\* is counted, through deposits, withdrawals, transfers and compounding, for any
\* number of investors.
THEOREM PoolSupply == Spec => []SupplyIsHeld
<1>1. Books => SupplyIsHeld
  BY DEF Books
<1> QED
  BY <1>1, PoolBooks, PTL

\* Neither tranche absorbs less than nothing, and the two never absorb more than
\* the losses on record, however defaults and recoveries follow each other.
THEOREM PoolLosses == Spec => []LossesBooked
<1>1. Books => LossesBooked
  BY DEF Books
<1> QED
  BY <1>1, PoolBooks, PTL

\* No step charges the senior tranche while junior capital is left, and none
\* restores the junior tranche while senior losses are.
THEOREM PoolWaterfall == Spec => WaterfallOrder
<1>1. Books /\ [Next]_vars =>
        [/\ tranches'["Senior"].absorbed > tranches["Senior"].absorbed =>
              tranches'["Junior"].deposited <= 0
         /\ tranches'["Junior"].absorbed < tranches["Junior"].absorbed
              /\ pool'.loss < pool.loss => tranches'["Senior"].absorbed = 0]_vars
  BY StepWaterfall DEF Books, SeniorLast
<1> QED
  BY <1>1, PoolBooks, PTL DEF Spec, WaterfallOrder
=============================================================================
