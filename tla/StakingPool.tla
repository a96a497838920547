---------------------------- MODULE StakingPool ----------------------------
(***************************************************************************)
(* The staking pool contract (contracts/staking-pool/src/lib.rs): stakes in *)
(* several tokens, one kind of share for all of them, and rewards that the  *)
(* admin distributes over the token pools.                                  *)
(*                                                                          *)
(* Every call is one transaction; a call that panics or answers Err changes *)
(* nothing and is left out.  TokenInfo.apy_bps and TokenInfo.exchange_rate  *)
(* are written and never read by the contract (stake computes the rate it   *)
(* uses), so they are not part of the state.                                *)
(***************************************************************************)
EXTENDS Integers, FiniteSets, Sums

CONSTANTS
  Stakers,
  Tokens,          \* numbers: the order of the keys of SupportedTokens
  StakeAmounts,    \* what one call stakes
  RewardAmounts,   \* what one call distributes
  RateScale,       \* SCALE, the fixed point of the exchange rate
  MaxStaked,       \* bound on the deposits of a token and on its rewards
  MaxShares        \* bound on the shares of the pool

VARIABLES
  supported,       \* the keys of SupportedTokens
  deposited,       \* TokenInfo.total_deposited
  rewards,         \* TokenInfo.accumulated_rewards
  totalShares,     \* TotalShares
  shares,          \* Shares
  stakes,          \* StakeBalance
  funds,           \* the pool's balance of each token
  net,             \* rewards brought in that token less rewards paid out in it
  crossed          \* ghost: a pool was credited a reward that did not come in its token

stakingVars ==
  <<supported, deposited, rewards, totalShares, shares, stakes, funds, net, crossed>>

Init ==
  /\ supported = {}
  /\ deposited = [t \in Tokens |-> 0]
  /\ rewards = [t \in Tokens |-> 0]
  /\ totalShares = 0
  /\ shares = [s \in Stakers |-> 0]
  /\ stakes = [s \in Stakers |-> [t \in Tokens |-> 0]]
  /\ funds = [t \in Tokens |-> 0]
  /\ net = [t \in Tokens |-> 0]
  /\ crossed = FALSE

AddToken(t) ==
  /\ t \notin supported
  /\ supported' = supported \cup {t}
  /\ UNCHANGED <<deposited, rewards, totalShares, shares, stakes, funds, net, crossed>>

\* The rewards the pool had accumulated are dropped with its TokenInfo.
RemoveToken(t) ==
  /\ t \in supported
  /\ deposited[t] = 0
  /\ supported' = supported \ {t}
  /\ rewards' = [rewards EXCEPT ![t] = 0]
  /\ UNCHANGED <<deposited, totalShares, shares, stakes, funds, net, crossed>>

ComputeExchangeRate(all, ofToken) ==
  IF ofToken = 0 THEN RateScale ELSE (all * RateScale) \div ofToken

SharesForDeposit(amount, rate) == (amount * rate) \div RateScale

Stake(s, t, amount) ==
  LET minted == SharesForDeposit(amount, ComputeExchangeRate(totalShares, deposited[t])) IN
  /\ t \in supported
  /\ deposited[t] + amount <= MaxStaked
  /\ minted > 0 /\ totalShares + minted <= MaxShares
  /\ totalShares' = totalShares + minted
  /\ deposited' = [deposited EXCEPT ![t] = @ + amount]
  /\ shares' = [shares EXCEPT ![s] = @ + minted]
  /\ stakes' = [stakes EXCEPT ![s][t] = @ + amount]
  /\ funds' = [funds EXCEPT ![t] = @ + amount]
  /\ UNCHANGED <<supported, rewards, net, crossed>>

UnstakeOfPool(s, n) ==  \* mutant: the fraction is of the pool's shares
  LET back == [t \in Tokens |->
                 IF t \in supported THEN (stakes[s][t] * n) \div totalShares ELSE 0] IN
  /\ n \in 1..shares[s]
  /\ \A t \in Tokens : back[t] <= funds[t]
  /\ stakes' = [stakes EXCEPT ![s] = [t \in Tokens |-> @[t] - back[t]]]
  /\ deposited' = [t \in Tokens |-> deposited[t] - back[t]]
  /\ funds' = [t \in Tokens |-> funds[t] - back[t]]
  /\ shares' = [shares EXCEPT ![s] = @ - n]
  /\ totalShares' = totalShares - n
  /\ UNCHANGED <<supported, rewards, net, crossed>>

\* Each of the staker's deposits pays back the fraction n / shares[s], rounded
\* down; a transfer the pool cannot make reverts the call.
Unstake(s, n) ==
  LET back == [t \in Tokens |-> IF t \in supported THEN (stakes[s][t] * n) \div shares[s] ELSE 0] IN
  /\ n \in 1..shares[s]
  /\ \A t \in Tokens : back[t] <= funds[t]
  /\ stakes' = [stakes EXCEPT ![s] = [t \in Tokens |-> @[t] - back[t]]]
  /\ deposited' = [t \in Tokens |-> deposited[t] - back[t]]
  /\ funds' = [t \in Tokens |-> funds[t] - back[t]]
  /\ shares' = [shares EXCEPT ![s] = @ - n]
  /\ totalShares' = totalShares - n
  /\ UNCHANGED <<supported, rewards, net, crossed>>

\* The reward is split over the pools by their deposits, whatever the token it
\* was brought in; the dust goes to the first pool that has deposits.  Taken from
\* the contract's own balance it brings nothing in.
DistributeRewards(token, total, own) ==
  LET funded == {t \in supported : deposited[t] > 0}
      all == SumOver(deposited, funded)
      alloc == [t \in funded |-> (total * deposited[t]) \div all]
      dust == total - SumOver(alloc, funded)
      credit == [t \in Tokens |-> IF t \notin funded THEN 0
                                  ELSE alloc[t] + IF t = Min(funded) THEN dust ELSE 0]
      brought == IF own THEN 0 ELSE total IN
  /\ funded # {}      \* else the reward goes back to where it came from
  /\ own => total <= funds[token]
  /\ \A t \in Tokens : rewards[t] + credit[t] <= MaxStaked
  /\ net[token] + brought <= MaxStaked
  /\ rewards' = [t \in Tokens |-> rewards[t] + credit[t]]
  /\ funds' = [funds EXCEPT ![token] = @ + brought]
  /\ net' = [net EXCEPT ![token] = @ + brought]
  /\ crossed' = (crossed \/ own \/ \E t \in Tokens \ {token} : credit[t] > 0)
  /\ UNCHANGED <<supported, deposited, totalShares, shares, stakes>>

\* Every pool pays the staker's fraction of what it has accumulated, in its own
\* token.
ClaimRewards(s) ==
  LET claim == [t \in Tokens |-> IF t \in supported
                                 THEN (rewards[t] * shares[s]) \div totalShares ELSE 0] IN
  /\ shares[s] > 0
  /\ \A t \in Tokens : claim[t] <= funds[t]
  /\ rewards' = [t \in Tokens |-> rewards[t] - claim[t]]
  /\ funds' = [t \in Tokens |-> funds[t] - claim[t]]
  /\ net' = [t \in Tokens |-> net[t] - claim[t]]
  /\ UNCHANGED <<supported, deposited, totalShares, shares, stakes, crossed>>

Next ==
  \/ \E t \in Tokens : AddToken(t) \/ RemoveToken(t)
  \/ \E t \in Tokens, amount \in RewardAmounts, own \in BOOLEAN : DistributeRewards(t, amount, own)
  \/ \E s \in Stakers :
       \/ \E t \in Tokens, amount \in StakeAmounts : Stake(s, t, amount)
       \/ \E n \in 1..shares[s] : Unstake(s, n)
       \/ ClaimRewards(s)

Spec == Init /\ [][Next]_stakingVars

-----------------------------------------------------------------------------
\* Types of the pool's totals and of the stakers' positions.
TypeOK ==
  /\ supported \subseteq Tokens
  /\ deposited \in [Tokens -> Nat] /\ rewards \in [Tokens -> Nat] /\ funds \in [Tokens -> Nat]
  /\ totalShares \in Nat
  /\ shares \in [Stakers -> Nat]
  /\ stakes \in [Stakers -> [Tokens -> Nat]]
  /\ net \in [Tokens -> Int]
  /\ crossed \in BOOLEAN

\* What each staker has in a token.
StakesIn(t) == [s \in Stakers |-> stakes[s][t]]

\* What the pool has booked is what its stakers hold, whoever staked, unstaked in
\* parts or claimed, and whatever was rounded: the totals are the sums of the
\* positions, a staker has shares exactly while one of the deposits is left to
\* take back, and as long as every reward came in, in the token of the pools it was
\* credited to, the pool can pay all deposits and all accumulated rewards.
StakesRedeemable ==
  /\ totalShares = SumOver(shares, Stakers)
  /\ \A t \in Tokens :
       /\ deposited[t] = SumOver(StakesIn(t), Stakers)
       /\ t \notin supported => deposited[t] = 0
       /\ funds[t] = deposited[t] + net[t]
       /\ ~crossed => net[t] >= rewards[t]
  /\ \A s \in Stakers : shares[s] > 0 <=> \E t \in Tokens : stakes[s][t] > 0
=============================================================================
