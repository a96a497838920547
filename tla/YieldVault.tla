----------------------------- MODULE YieldVault -----------------------------
(***************************************************************************)
(* The yield vault contract (contracts/yield-vault/src/lib.rs): shares of a *)
(* pot of assets that grows by compound interest, a first-in-first-out      *)
(* queue for large withdrawals, and the delayed takeover of a position by   *)
(* the recovery address of its investor.                                    *)
(*                                                                          *)
(* Every call is one transaction of the ledger, and one action here.  A     *)
(* call that panics changes nothing and is left out.  pay_out mints what    *)
(* the vault's balance lacks, so the balance never stops a payment and is    *)
(* not part of the state.                                                   *)
(***************************************************************************)
EXTENDS Integers, Sequences, FiniteSets, Sums

CONSTANTS
  Investors,      \* the addresses that hold shares
  VaultAmounts,   \* amounts deposited or reported as liquidity
  Period,         \* COMPOUND_PERIOD
  Scale,          \* INTEREST_SCALE
  Compounded,     \* compound_pow of the period's factor, by number of periods
  Delay,          \* RECOVERY_DELAY_LEDGERS
  MaxLedger,      \* bound on the ledger sequence
  MaxAssets,      \* bound on the assets under management and on the liquidity
  MaxQueue        \* bound on the requests that wait

VARIABLES
  ledger,         \* env.ledger().sequence()
  vault,          \* the totals of the instance storage
  held,           \* ShareBalance
  waiting,        \* the queue: the requests from QueueHead to QueueTail
  recovery        \* RecoveryAddress and PendingRecovery, by investor

vaultVars == <<ledger, vault, held, waiting, recovery>>

NoThreshold == -1      \* i128::MAX: nothing is queued
Nobody == "nobody"

Init ==
  /\ ledger = 0
  /\ vault = [shares |-> 0, assets |-> 0, last |-> 0, liquidity |-> 0,
              threshold |-> NoThreshold]
  /\ held = [i \in Investors |-> 0]
  /\ waiting = <<>>
  /\ recovery = [i \in Investors |-> [address |-> Nobody, pending |-> Nobody, after |-> 0]]

-----------------------------------------------------------------------------
(* accrue_interest: whole periods are compounded, the rest is kept for later. *)

Periods == (ledger - vault.last) \div Period

Accrued ==
  IF Periods = 0 THEN vault
  ELSE [vault EXCEPT !.last = @ + Periods * Period,
                     !.assets = (@ * Compounded[Periods]) \div Scale]

\* The whole call is one read-compute-write on the accrued totals.
SharesFor(v, amount) ==
  IF v.shares = 0 \/ v.assets = 0 THEN amount ELSE (amount * v.shares) \div v.assets

AssetsFor(v, shares) == (shares * v.assets) \div v.shares

Max0(n) == IF n < 0 THEN 0 ELSE n      \* set_available_liquidity

Tick ==
  /\ ledger < MaxLedger
  /\ ledger' = ledger + 1
  /\ UNCHANGED <<vault, held, waiting, recovery>>

BatchHarvest ==
  /\ Periods > 0
  /\ vault' = Accrued
  /\ UNCHANGED <<ledger, held, waiting, recovery>>

DepositRoundsUp(i, amount) ==  \* mutant: the shares minted are rounded up
  LET v == Accrued
      shares == IF v.shares = 0 \/ v.assets = 0 THEN amount
                ELSE (amount * v.shares + v.assets - 1) \div v.assets IN
  /\ v.assets + amount <= MaxAssets /\ v.liquidity + amount <= MaxAssets
  /\ shares > 0
  /\ vault' = [v EXCEPT !.shares = @ + shares, !.assets = @ + amount,
                        !.liquidity = @ + amount]
  /\ held' = [held EXCEPT ![i] = @ + shares]
  /\ UNCHANGED <<ledger, waiting, recovery>>

Deposit(i, amount) ==
  LET v == Accrued
      shares == SharesFor(v, amount) IN
  /\ v.assets + amount <= MaxAssets /\ v.liquidity + amount <= MaxAssets
  /\ shares > 0
  /\ vault' = [v EXCEPT !.shares = @ + shares, !.assets = @ + amount,
                        !.liquidity = @ + amount]
  /\ held' = [held EXCEPT ![i] = @ + shares]
  /\ UNCHANGED <<ledger, waiting, recovery>>

Burnt(v, shares) ==
  [v EXCEPT !.shares = @ - shares, !.assets = @ - AssetsFor(v, shares)]

\* withdraw, the entry point of the escrow contract: never queued, and
\* AvailableLiquidity is not touched.
Withdraw(i, shares) ==
  LET v == Accrued IN
  /\ shares \in 1..held[i] /\ shares <= v.shares
  /\ vault' = Burnt(v, shares)
  /\ held' = [held EXCEPT ![i] = @ - shares]
  /\ UNCHANGED <<ledger, waiting, recovery>>

\* request_withdrawal: shares are burned at today's rate; up to the threshold
\* the amount is paid at once, above it the request joins the queue.
RequestWithdrawal(i, shares) ==
  LET v == Accrued
      amount == AssetsFor(v, shares)
      atOnce == vault.threshold = NoThreshold \/ amount <= vault.threshold IN
  /\ shares \in 1..held[i] /\ shares <= v.shares
  /\ atOnce \/ Len(waiting) < MaxQueue
  /\ held' = [held EXCEPT ![i] = @ - shares]
  /\ vault' = IF atOnce
              THEN [Burnt(v, shares) EXCEPT !.liquidity = Max0(@ - amount)]
              ELSE Burnt(v, shares)
  /\ waiting' = IF atOnce THEN waiting ELSE Append(waiting, [to |-> i, amount |-> amount])
  /\ UNCHANGED <<ledger, recovery>>

\* What the first n requests of the queue ask for.
Asked == [n \in 0..Len(waiting) |-> SumOver([k \in 1..n |-> waiting[k].amount], 1..n)]

\* process_withdrawal_queue stops at the first request it cannot cover in full.
ProcessWithdrawalQueue ==
  LET n == Max({k \in 0..Len(waiting) : Asked[k] <= vault.liquidity}) IN
  /\ n > 0
  /\ vault' = [vault EXCEPT !.liquidity = @ - Asked[n]]
  /\ waiting' = SubSeq(waiting, n + 1, Len(waiting))
  /\ UNCHANGED <<ledger, held, recovery>>

SetWithdrawalThreshold(threshold) ==
  /\ vault' = [vault EXCEPT !.threshold = threshold]
  /\ UNCHANGED <<ledger, held, waiting, recovery>>

\* add_liquidity raises the counter and moves no tokens.
AddLiquidity(amount) ==
  /\ vault.liquidity + amount <= MaxAssets
  /\ vault' = [vault EXCEPT !.liquidity = @ + amount]
  /\ UNCHANGED <<ledger, held, waiting, recovery>>

-----------------------------------------------------------------------------
(* Recovery                                                                 *)

SetRecoveryAddress(i, address) ==
  /\ address # i
  /\ recovery' = [recovery EXCEPT ![i] =
       [address |-> address, pending |-> Nobody, after |-> 0]]
  /\ UNCHANGED <<ledger, vault, held, waiting>>

RequestRecovery(i) ==
  /\ recovery[i].address # Nobody
  /\ recovery' = [recovery EXCEPT ![i].pending = recovery[i].address,
                                  ![i].after = ledger + Delay]
  /\ UNCHANGED <<ledger, vault, held, waiting>>

CancelRecovery(i) ==
  /\ recovery[i].pending # Nobody
  /\ recovery' = [recovery EXCEPT ![i].pending = Nobody, ![i].after = 0]
  /\ UNCHANGED <<ledger, vault, held, waiting>>

ExecuteRecovery(i) ==
  LET to == recovery[i].pending IN
  /\ to # Nobody
  /\ ledger >= recovery[i].after
  /\ held' = [held EXCEPT ![i] = 0, ![to] = @ + held[i]]
  /\ recovery' = [recovery EXCEPT ![i].pending = Nobody, ![i].after = 0]
  /\ UNCHANGED <<ledger, vault, waiting>>

Next ==
  \/ Tick
  \/ BatchHarvest
  \/ \E i \in Investors :
       \/ \E amount \in VaultAmounts : Deposit(i, amount)
       \/ \E shares \in 1..held[i] : Withdraw(i, shares) \/ RequestWithdrawal(i, shares)
       \/ \E address \in Investors : SetRecoveryAddress(i, address)
       \/ RequestRecovery(i) \/ CancelRecovery(i) \/ ExecuteRecovery(i)
  \/ ProcessWithdrawalQueue
  \/ \E amount \in VaultAmounts : AddLiquidity(amount) \/ SetWithdrawalThreshold(amount)

Spec == Init /\ [][Next]_vaultVars

-----------------------------------------------------------------------------
\* Types of the vault's totals, the positions and the queue.
TypeOK ==
  /\ ledger \in Nat
  /\ vault \in [shares : Nat, assets : Nat, last : Nat, liquidity : Nat,
                threshold : Nat \cup {NoThreshold}]
  /\ vault.last <= ledger
  /\ held \in [Investors -> Nat]
  /\ waiting \in Seq([to : Investors, amount : Nat])
  /\ recovery \in [Investors -> [address : Investors \cup {Nobody},
                                 pending : Investors \cup {Nobody}, after : Nat]]

\* Nobody's deposit, withdrawal, queued request or recovery lowers what a share
\* of the others is worth, roundings and interest included: as long as there are
\* shares, the assets per share never fall.
SharePriceNeverFalls ==
  [][vault.shares > 0 /\ vault'.shares > 0 =>
       vault'.assets * vault.shares >= vault.assets * vault'.shares]_vaultVars
=============================================================================
