------------------------------- MODULE Escrow -------------------------------
(***************************************************************************)
(* The savings escrow (contracts/escrow/src/lib.rs and auto_deposit.rs) and *)
(* the yield vault it puts its deposits into: the goals of one borrower,    *)
(* deposits with matching, top-ups, scheduled draws, moves between goals,   *)
(* early and hardship withdrawal, release with rollover, and the claim of a *)
(* beneficiary.                                                             *)
(*                                                                          *)
(* Every call is one transaction, calls to the vault and to the token       *)
(* included; a call that panics or answers Err is rolled back whole and     *)
(* changes nothing.  Nothing in the contract sets Paused or seized, so the  *)
(* guards that read them are left out, and so are permissioned mode, the    *)
(* release schedule, the timelocks, TTLs and upgrades.                      *)
(***************************************************************************)
EXTENDS Integers, FiniteSets, Sums

CONSTANTS
  Goals,            \* the goals of one borrower
  Savings,          \* amounts of a deposit, a top-up or a scheduled draw
  SavingsTarget,    \* config.savings_target
  MinDuration,      \* config.min_duration_ledgers
  Month,            \* LEDGERS_PER_MONTH
  PenaltyBps,       \* config.penalty_bps_tier1 .. tier4
  MatchBps,         \* config.match_bps
  MatchCap,         \* config.match_cap, the initial MatchingReserve, 0 for no matching
  HardshipWindow,   \* hardship_approval_window_ledgers
  HardshipCap,      \* hardship_cap_per_period, 0 for none
  Inactivity,       \* BeneficiaryInactivityPeriod
  VaultPeriod, VaultScale, VaultGrowth,   \* the vault's interest
  MaxNow,           \* bound on the ledger sequence
  MaxSaved,         \* bound on what the vault or the escrow manages
  MaxCalls          \* bound on the borrower's calls, payouts not counted

VARIABLES
  now,              \* env.ledger().sequence()
  hasVault,         \* config.yield_vault is set
  goals,            \* Borrower, YieldShares and the other entries of a goal
  pooled,           \* TotalPooled
  yieldShares,      \* TotalYieldShares
  reserve,          \* MatchingReserve
  tokens,           \* the contract's own token balance
  yieldVault,       \* the vault's totals
  vaultHeld,        \* the vault's ShareBalance
  calls,            \* the borrower's calls so far, payouts not counted
  leaks             \* what has happened to the money that the books do not show

escrowBooks == <<goals, pooled, yieldShares, reserve, tokens, leaks>>
escrowVars == <<now, hasVault, escrowBooks, yieldVault, vaultHeld, calls>>

Self == "escrow"
Other == "investor"

Vault == INSTANCE YieldVault WITH
  Investors <- {Self, Other}, VaultAmounts <- Savings, Period <- VaultPeriod,
  Scale <- VaultScale, Compounded <- VaultGrowth, Delay <- 0,
  MaxLedger <- MaxNow, MaxAssets <- MaxSaved, MaxQueue <- 0,
  ledger <- now, vault <- yieldVault, held <- vaultHeld,
  waiting <- << >>, recovery <- << >>

Never == -1

NoGoal == [deposited |-> 0, start |-> 0, last |-> 0, matched |-> 0, rollover |-> FALSE,
           state |-> "open",          \* released and withdrawn
           shares |-> 0,              \* the YieldShares entry
           stranded |-> 0,            \* BorrowerRecord.yield_shares
           activity |-> Never,        \* LastOwnerActivity
           asked |-> Never,           \* HardshipRequest.requested_at_ledger
           approved |-> FALSE,
           heir |-> FALSE, claimed |-> FALSE,
           draw |-> 0, due |-> 0]     \* AutoDepositSchedule

Init ==
  /\ now = 1
  /\ hasVault \in BOOLEAN
  /\ goals = [g \in Goals |-> NoGoal]
  /\ pooled = 0 /\ yieldShares = 0 /\ reserve \in {0, MatchCap} /\ tokens = 0
  /\ yieldVault = [shares |-> 0, assets |-> 0, last |-> 1, liquidity |-> 0,
                   threshold |-> Vault!NoThreshold]
  /\ vaultHeld = [i \in {Self, Other} |-> 0]
  /\ calls = 0 /\ leaks = {}

Called == calls < MaxCalls /\ calls' = calls + 1 /\ UNCHANGED <<now, hasVault>>

OnlyGoals == UNCHANGED <<pooled, yieldShares, reserve, tokens, leaks, yieldVault, vaultHeld>>

Leak(what, happened) == IF happened THEN {what} ELSE {}

\* The vault buys shares for the escrow; without a vault the escrow keeps the tokens.
PutAway(amount) ==
  IF hasVault THEN Vault!Deposit(Self, amount) /\ UNCHANGED tokens
  ELSE tokens' = tokens + amount /\ tokens' <= MaxSaved /\ UNCHANGED <<yieldVault, vaultHeld>>

Bought == vaultHeld'[Self] - vaultHeld[Self]

\* The shares just bought are worth less than what was paid for them.
Rounded(amount) == hasVault /\ (Bought * yieldVault'.assets) \div yieldVault'.shares < amount

MatchingBeyondReserve(r, amount) ==  \* mutant: the reserve is not looked at
  Min({(amount * MatchBps) \div 10000, Max({MatchCap - r.matched, 0})})

\* The sponsor's match: a share of the deposit, within the cap and the reserve.
Matching(r, amount) ==
  Min({(amount * MatchBps) \div 10000, Max({MatchCap - r.matched, 0}), reserve})

Deposit(g, amount) ==
  LET r == goals[g]
      matched == Matching(r, amount) IN
  /\ Called
  /\ r.state = "open"
  /\ PutAway(amount)
  /\ goals' = [goals EXCEPT ![g] =
       [r EXCEPT !.deposited = @ + amount + matched, !.matched = @ + matched,
                 !.start = IF r.deposited = 0 THEN now ELSE @,
                 !.last = now, !.activity = now, !.shares = @ + Bought]]
  /\ pooled' = pooled + amount + matched
  /\ yieldShares' = yieldShares + Bought
  /\ reserve' = reserve - matched
  /\ leaks' = leaks \cup Leak("matched", matched > 0) \cup Leak("rounded", Rounded(amount))

\* A top-up and a scheduled draw book their shares in the borrower's record,
\* where no withdrawal looks for them.
AddTo(g, amount, r) ==
  /\ PutAway(amount)
  /\ goals' = [goals EXCEPT ![g] =
       [r EXCEPT !.deposited = @ + amount, !.stranded = @ + Bought]]
  /\ pooled' = pooled + amount
  /\ yieldShares' = yieldShares + Bought
  /\ leaks' = leaks \cup Leak("stranded", hasVault)
  /\ UNCHANGED reserve

TopUp(g, amount) ==
  /\ Called
  /\ goals[g].deposited > 0 /\ goals[g].state = "open"
  /\ AddTo(g, amount, goals[g])

ConfigureAutoDeposit(g, amount) ==
  /\ Called
  /\ goals[g].state = "open"
  /\ goals' = [goals EXCEPT ![g].draw = amount, ![g].due = now + 1]
  /\ OnlyGoals

CancelAutoDeposit(g) ==
  /\ Called
  /\ goals[g].draw > 0
  /\ goals' = [goals EXCEPT ![g].draw = 0, ![g].due = 0]
  /\ OnlyGoals

ExecuteAutoDeposit(g) ==
  LET r == goals[g] IN
  /\ Called
  /\ r.draw > 0 /\ now >= r.due
  /\ r.state = "open"
  /\ AddTo(g, r.draw, [r EXCEPT !.start = IF r.deposited = 0 THEN now ELSE @,
                                !.last = now, !.due = now + 1])

\* The balance moves, the vault shares bought with it stay with the old goal.
TransferBetweenGoals(from, to, amount) ==
  LET f == goals[from]
      t == goals[to] IN
  /\ Called
  /\ from # to
  /\ f.state = "open" /\ amount <= f.deposited
  /\ t.state = "open" /\ t.deposited > 0
  /\ goals' = [goals EXCEPT
       ![from] = [f EXCEPT !.deposited = @ - amount, !.activity = now],
       ![to] = [t EXCEPT !.deposited = @ + amount, !.activity = now,
                         !.start = Min({@, f.start}), !.last = Min({@, f.last})]]
  /\ leaks' = leaks \cup Leak("moved", hasVault)
  /\ UNCHANGED <<pooled, yieldShares, reserve, tokens, yieldVault, vaultHeld>>

-----------------------------------------------------------------------------
(* Paying out                                                               *)

\* What the goal's shares are worth, or its deposits when it has no shares.
Unwound(r) ==
  IF hasVault /\ r.shares > 0 THEN Vault!AssetsFor(Vault!Accrued, r.shares) ELSE r.deposited

\* The vault redeems the goal's shares and the escrow pays the given amount from
\* its balance, what the vault has just paid included.
PayFrom(r, amount) ==
  LET paid == IF hasVault /\ r.shares > 0 THEN Unwound(r) ELSE 0 IN
  /\ IF hasVault /\ r.shares > 0
     THEN Vault!Withdraw(Self, r.shares) /\ yieldShares' = yieldShares - r.shares
     ELSE UNCHANGED <<yieldVault, vaultHeld, yieldShares>>
  /\ amount <= tokens + paid
  /\ tokens' = tokens + paid - amount
  /\ leaks' = leaks \cup Leak("rounded", paid > 0 /\ paid < r.deposited)

Tier(r) == LET months == 1 + (now - r.start) \div Month IN
  CASE months <= 2 -> 1 [] months \in 3..4 -> 2 [] months \in 5..6 -> 3 [] OTHER -> 4

Yield(r) == Max({Unwound(r) - r.deposited, 0})

Open(r) == r.deposited > 0 /\ r.state = "open"

\* withdraw: the principal less the penalty of the month, and the yield.
Withdraw(g) ==
  LET r == goals[g] IN
  /\ Open(r)
  /\ PayFrom(r, r.deposited - (r.deposited * PenaltyBps[Tier(r)]) \div 10000 + Yield(r))
  /\ pooled' = pooled - r.deposited
  /\ goals' = [goals EXCEPT ![g] = [r EXCEPT !.deposited = 0, !.state = "withdrawn",
                                             !.shares = 0, !.activity = now]]
  /\ UNCHANGED <<now, hasVault, reserve, calls>>

RequestHardshipWithdrawal(g) ==
  /\ Called
  /\ Open(goals[g])
  /\ goals[g].asked = Never
  /\ goals' = [goals EXCEPT ![g].asked = now, ![g].approved = FALSE]
  /\ OnlyGoals

InTime(r) == r.asked # Never /\ now <= r.asked + HardshipWindow

\* After the window the call removes the request and answers
\* HardshipRequestExpired; the error rolls the removal back.
ApproveHardshipWithdrawal(g) ==
  /\ InTime(goals[g])
  /\ goals' = [goals EXCEPT ![g].approved = TRUE]
  /\ OnlyGoals /\ UNCHANGED <<now, hasVault, calls>>

HardshipKeepsShares(g) ==  \* mutant: the YieldShares entry is not removed
  LET r == goals[g] IN
  /\ Open(r)
  /\ InTime(r) /\ r.approved
  /\ HardshipCap = 0 \/ r.deposited <= HardshipCap
  /\ PayFrom(r, r.deposited + Yield(r))
  /\ pooled' = pooled - r.deposited
  /\ goals' = [goals EXCEPT ![g] = [r EXCEPT !.deposited = 0, !.state = "withdrawn",
                                             !.activity = now, !.asked = Never]]
  /\ UNCHANGED <<now, hasVault, reserve, calls>>

\* The cap is per goal and period; a goal is withdrawn once, so the period has
\* seen nothing of it before.
WithdrawHardship(g) ==
  LET r == goals[g] IN
  /\ Open(r)
  /\ InTime(r) /\ r.approved
  /\ HardshipCap = 0 \/ r.deposited <= HardshipCap
  /\ PayFrom(r, r.deposited + Yield(r))
  /\ pooled' = pooled - r.deposited
  /\ goals' = [goals EXCEPT ![g] = [r EXCEPT !.deposited = 0, !.state = "withdrawn", !.shares = 0,
                                             !.activity = now, !.asked = Never]]
  /\ UNCHANGED <<now, hasVault, reserve, calls>>

SetAutoRollover(g, on) ==
  /\ Called
  /\ goals[g].state = "open" /\ goals[g].rollover # on
  /\ goals' = [goals EXCEPT ![g].rollover = on]
  /\ OnlyGoals

Matured(r) ==
  /\ Open(r)
  /\ r.deposited >= SavingsTarget
  /\ MinDuration = 0 \/ now - r.start >= MinDuration

\* release, to a recipient.
Release(g) ==
  LET r == goals[g] IN
  /\ Matured(r) /\ ~r.rollover
  /\ PayFrom(r, Unwound(r))
  /\ pooled' = pooled - r.deposited
  /\ goals' = [goals EXCEPT ![g] = [r EXCEPT !.deposited = 0, !.state = "released", !.shares = 0]]
  /\ UNCHANGED <<now, hasVault, reserve, calls>>

\* release, into a new cycle: the shares are redeemed, the tokens stay in the
\* escrow, and TotalPooled is not adjusted to the new balance.
Rollover(g) ==
  LET r == goals[g] IN
  /\ Matured(r) /\ r.rollover
  /\ IF hasVault /\ r.shares > 0
     THEN /\ Vault!Withdraw(Self, r.shares)
          /\ yieldShares' = yieldShares - r.shares
          /\ tokens' = tokens + Unwound(r)
     ELSE UNCHANGED <<yieldVault, vaultHeld, yieldShares, tokens>>
  /\ goals' = [goals EXCEPT ![g] = [r EXCEPT !.deposited = Unwound(r), !.matched = 0, !.shares = 0,
                                             !.start = now, !.last = now]]
  /\ leaks' = leaks \cup Leak("rolled", hasVault /\ r.shares > 0)
  /\ UNCHANGED <<now, hasVault, pooled, reserve, calls>>

SetBeneficiary(g, on) ==
  /\ Called
  /\ goals[g].heir # on
  /\ goals' = [goals EXCEPT ![g].heir = on, ![g].activity = now]
  /\ OnlyGoals

LastOwnerActivity(r) ==
  IF r.activity # Never THEN r.activity ELSE IF r.last > 0 THEN r.last ELSE r.start

\* claim_as_beneficiary, with the attestations it needs.  The shares of the
\* beneficiaries add up to the amount: the last one gets the rest.
ClaimAsBeneficiary(g) ==
  LET r == goals[g] IN
  /\ r.heir /\ ~r.claimed
  /\ Open(r)
  /\ now >= LastOwnerActivity(r) + Inactivity
  /\ PayFrom(r, Unwound(r))
  /\ pooled' = pooled - r.deposited
  /\ goals' = [goals EXCEPT ![g] = [r EXCEPT !.deposited = 0, !.shares = 0, !.claimed = TRUE]]
  /\ UNCHANGED <<now, hasVault, reserve, calls>>

\* Time, interest, and the other investors of the vault.
VaultStep ==
  /\ \/ Vault!Tick
     \/ hasVault /\ Vault!BatchHarvest
     \/ hasVault /\ \E amount \in Savings : Vault!Deposit(Other, amount)
     \/ hasVault /\ \E n \in 1..vaultHeld[Other] : Vault!Withdraw(Other, n)
  /\ UNCHANGED <<hasVault, escrowBooks, calls>>

Next ==
  \/ \E g \in Goals :
       \/ \E amount \in Savings :
            \/ Deposit(g, amount) \/ TopUp(g, amount) \/ ConfigureAutoDeposit(g, amount)
            \/ \E to \in Goals : TransferBetweenGoals(g, to, amount)
       \/ CancelAutoDeposit(g) \/ ExecuteAutoDeposit(g)
       \/ Withdraw(g)
       \/ RequestHardshipWithdrawal(g) \/ ApproveHardshipWithdrawal(g)
       \/ WithdrawHardship(g)
       \/ Release(g) \/ Rollover(g) \/ ClaimAsBeneficiary(g)
       \/ \E on \in BOOLEAN : SetAutoRollover(g, on) \/ SetBeneficiary(g, on)
  \/ VaultStep

Spec == Init /\ [][Next]_escrowVars

-----------------------------------------------------------------------------
\* Types of the goals and the totals.
TypeOK ==
  /\ now \in Nat /\ hasVault \in BOOLEAN
  /\ \A g \in Goals :
       /\ goals[g].deposited \in Nat /\ goals[g].shares \in Nat /\ goals[g].stranded \in Nat
       /\ goals[g].state \in {"open", "released", "withdrawn"}
       /\ goals[g].asked \in Nat \cup {Never} /\ goals[g].activity \in Nat \cup {Never}
  /\ pooled \in Int /\ yieldShares \in Nat /\ reserve \in Nat /\ tokens \in Nat
  /\ leaks \subseteq {"matched", "rounded", "stranded", "moved", "rolled"}

Deposits == [g \in Goals |-> goals[g].deposited]

\* The savings of every goal are there to be paid, across the two contracts and
\* whatever was deposited, topped up, moved, withdrawn, rolled over or claimed.
\* The escrow's count of vault shares is what the vault holds for it and what
\* its goals hold; TotalPooled is the sum of the deposits unless a rollover
\* changed one; and unless money leaked in one of the five known ways (matched
\* without tokens, stranded in the record's yield_shares, moved without its
\* shares, rolled over out of the vault, or rounded away by the vault) the
\* escrow's balance covers the goals that are not in the vault and the shares of
\* every goal that is cover its deposits.
SavingsBacked ==
  /\ yieldShares = vaultHeld[Self]
  /\ yieldShares = SumOver([g \in Goals |-> goals[g].shares + goals[g].stranded], Goals)
  /\ "rolled" \notin leaks => pooled = SumOver(Deposits, Goals)
  /\ leaks = {} =>
       /\ tokens >= SumOver(Deposits, {g \in Goals : goals[g].shares = 0})
       /\ \A g \in Goals : goals[g].shares > 0 => Unwound(goals[g]) >= goals[g].deposited
=============================================================================
