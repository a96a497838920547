---------------------------- MODULE MCComponents ----------------------------
(***************************************************************************)
(* Small instances of the components that are checked by themselves, in one *)
(* run: every behaviour picks one part and takes only its steps, so the     *)
(* state space is the sum of theirs and not the product.                    *)
(***************************************************************************)
EXTENDS Integers, Sequences, FiniteSets

CONSTANTS
  Pair, Triple,         \* names, two and three of them
  Routes,               \* Operations of the idempotency middleware
  Audited, AuditEnd,    \* MaxEvents and MaxClock of the audit log
  LedgerEvents, PageLength, IndexFailures,      \* Chain, PageSize and MaxFaults of the indexer
  RpcNodes, RpcFailures,        \* Nodes and MaxFailures of the RPC gateway
  LegalHolds, LastDay,  \* Holds and MaxDay of the erasure workflow
  \* the tasks of the shutdown: Requests, Probes, QueueJobs, Scheduled, Floating
  Served, Probed, Queued, Runs, Promises,
  \* the webhooks: MaxAttempts, Threshold, StaleAfter, MaxHookClock, MaxHookFaults
  HookTries, HookStreak, HookAge, HookEnd, HookFaults,
  \* the late fees: Decisions, LateFee, MaxMissed
  Rulings, FeeAmount, FeeMisses,
  \* the yield vault: VaultAmounts, Period, Scale, Compounded, Delay, MaxLedger, MaxAssets,
  \* MaxQueue
  Invested, HarvestPeriod, GrowthScale, Growth, RecoveryDelay, VaultEnd, AssetBound, QueueBound,
  \* the escrow: Savings, and everything else that is set for it and its vault
  Saved, GoalTerms,
  \* the staking pool: Tokens, StakeAmounts, RewardAmounts, RateScale, MaxStaked, MaxShares
  PoolTokens, Staked, Rewarded, RateUnit, StakedBound, SharesBound,
  \* the bridge adapter: Chains, LockAmounts, Caps, CapDelays, Window, MaxOperations, MaxTick
  Foreign, Bridged, DailyCaps, RaiseDelays, CapWindow, OperationBound, TickBound,
  \* the governance: QuorumBps, MaxProposals
  ApprovalBps, ProposalBound,
  \* the wallet session: Checks, Timeout, Warning, MaxIdle
  Watches, IdleTimeout, IdleWarning, IdleBound,
  \* the multisig validator: Accounts, MaxWeight, Delays, Proposals, Bundles,
  \* Repeating, Lifetime, MaxSequence
  Treasuries, KeyWeight, Delays, Proposed, Bundled, Repeated, Lifetime, LastSequence

ASSUME ComponentAssumption ==
  /\ "none" \notin Routes
  /\ Audited \in Nat /\ AuditEnd \in Nat
  /\ RpcNodes \in Nat \ {0} /\ RpcFailures \in Nat
  /\ LastDay \in Nat /\ LegalHolds \cap Pair = {}
  /\ Probed \subseteq Served /\ Served \cap Queued = {}
  /\ Promises \cap (Served \cup Queued) = {}
  /\ KeyWeight \in Nat /\ Delays \subseteq Nat /\ Lifetime \in Nat /\ LastSequence \in Nat

\* The chain is a finite log of events with an amount each.
ASSUME IndexAssumption ==
  /\ LedgerEvents \in Seq([kind : STRING, amount : Nat, ledger : Nat])
  /\ PageLength \in Nat

\* The sums of the late fees are over finitely many requests and decisions.
ASSUME FeeAssumption ==
  /\ IsFiniteSet(Pair) /\ IsFiniteSet(Rulings) /\ "none" \notin Pair
  /\ FeeAmount \in Nat /\ FeeMisses \in Nat

\* The sums of the staking pool are over finitely many stakers and tokens; nobody
\* stakes nothing.
ASSUME StakingAssumption ==
  /\ IsFiniteSet(Pair) /\ IsFiniteSet(PoolTokens)
  /\ Staked \subseteq Nat \ {0} /\ Rewarded \subseteq Nat /\ RateUnit \in Nat \ {0}

\* Amounts and caps are natural numbers, and a day is not empty.
ASSUME BridgeAssumption ==
  Bridged \subseteq Nat /\ DailyCaps \subseteq Nat /\ CapWindow \in Nat \ {0}

\* A webhook is tried at least once, and a loan defaults after a miss, not before one.
ASSUME LimitsAssumption == HookTries \in Nat \ {0} /\ FeeMisses \in Nat \ {0}

\* A committee is finite.
ASSUME CommitteeAssumption ==
  /\ IsFiniteSet(Triple) /\ "none" \notin Triple
  /\ ApprovalBps \in Nat

\* Interest does not shrink the assets: a compounding factor is at least one.
ASSUME VaultAssumption ==
  /\ Invested \subseteq Nat /\ HarvestPeriod \in Nat \ {0} /\ GrowthScale \in Nat \ {0}
  /\ VaultEnd \in Nat /\ RecoveryDelay \in Nat
  /\ \A n \in 1..VaultEnd : Growth[n] \in Nat /\ Growth[n] >= GrowthScale

\* Nobody saves nothing, penalties and matches are not negative, and more periods
\* compound to no less (compound_pow of a rate that is not negative).
ASSUME SavingsAssumption ==
  /\ Saved \subseteq Nat \ {0}
  /\ GoalTerms.matchBps \in Nat /\ GoalTerms.matchCap \in Nat
  /\ \A tier \in 1..4 : GoalTerms.penalties[tier] \in Nat
  /\ GoalTerms.period \in Nat \ {0} /\ GoalTerms.scale \in Nat \ {0}
  /\ GoalTerms.end \in Nat \ {0}
  /\ \A n \in 1..GoalTerms.end :
       /\ GoalTerms.growth[n] \in Nat /\ GoalTerms.growth[n] >= GoalTerms.scale
       /\ \A m \in 1..n : GoalTerms.growth[m] <= GoalTerms.growth[n]

\* The desk names its own writers with tuples, the wallet its other accounts with
\* strings; and a warning comes before the logout it warns of.
ASSUME DeskAssumption == <<"apply">> \notin Pair /\ \A p \in Pair : <<p, "disburse">> \notin Pair
ASSUME WalletAssumption ==
  /\ "none" \notin Pair /\ "ledger key" \notin Pair
  /\ IdleTimeout \in Nat /\ IdleWarning \in Nat /\ IdleWarning < IdleTimeout

VARIABLES part,
  auditClock, auditCalls, auditRows, auditCause,
  indexers, savedCursor, eventRows, borrower, indexFaults, totalsCause,
  loan, desk, trail, lastReview, blind, trailCause,
  requests, cached, effects, idemCause,
  hookClock, subscription, jobs, sweep, deadLetters, streak, order, hookFaults, hookCause,
  phase, elapsed, closed, task, drained, forced, hungUp, queue, finished,
  account, audit, waivers, deciding, charged, feeCause,
  ledger, vault, held, waiting, recovery,
  supported, deposited, rewards, totalShares, shares, stakes, funds, net, crossed,
  signers, minStake, stakingPool, delegation, proposals, power, roll, shrunk,
  now, hasVault, goals, pooled, yieldShares, reserve, tokens, yieldVault, vaultHeld, calls, leaks,
  sequence, accounts, bundles, quorum, agreed,
  tick, bridge, operations, mints,
  currentIndex, failedAttempts, resets, rpcCalls,
  day, activeLoan, erasures, legalHolds, erased, circumstances, erasureCause,
  extension, session, connects, checks, idle, inactive, walletCause,
  network, form, modal, submits, monitor, timer, polls, flowCause

Audit == INSTANCE AuditChain WITH MaxEvents <- Audited, MaxClock <- AuditEnd

\* Two equal deposits in one ledger, a release (which is not recorded), a page
\* that ends inside a ledger, and a withdrawal that both deposits cover and the
\* one row that is kept of them does not.
Events == <<
  [kind |-> "deposit",  amount |-> 2, ledger |-> 1],
  [kind |-> "deposit",  amount |-> 2, ledger |-> 1],
  [kind |-> "release",  amount |-> 1, ledger |-> 2],
  [kind |-> "disburse", amount |-> 3, ledger |-> 2],
  [kind |-> "repay",    amount |-> 1, ledger |-> 2],
  [kind |-> "withdraw", amount |-> 3, ledger |-> 3]>>

Index == INSTANCE EventIndexer WITH
  Indexers <- Pair, Chain <- LedgerEvents, PageSize <- PageLength, MaxFaults <- IndexFailures

Desk == INSTANCE LoanDesk WITH Reviews <- Pair

Idem == INSTANCE Idempotency WITH Requests <- Triple, Operations <- Routes

Hook == INSTANCE WebhookDelivery WITH
  Jobs <- Pair, MaxAttempts <- HookTries, Threshold <- HookStreak, StaleAfter <- HookAge,
  MaxHookClock <- HookEnd, MaxHookFaults <- HookFaults

Stop == INSTANCE GracefulShutdown WITH
  Requests <- Served, Probes <- Probed, QueueJobs <- Queued,
  Scheduled <- Runs, Floating <- Promises

Fees == INSTANCE LateFees WITH
  Waivers <- Pair, Decisions <- Rulings, LateFee <- FeeAmount, MaxMissed <- FeeMisses

\* After one period the assets are half as much again, after two twice as much.
GrowthTable == <<3, 4>>

Vault == INSTANCE YieldVault WITH
  Investors <- Pair, VaultAmounts <- Invested, Period <- HarvestPeriod, Scale <- GrowthScale,
  Compounded <- Growth, Delay <- RecoveryDelay, MaxLedger <- VaultEnd,
  MaxAssets <- AssetBound, MaxQueue <- QueueBound

Staking == INSTANCE StakingPool WITH
  Stakers <- Pair, Tokens <- PoolTokens, StakeAmounts <- Staked, RewardAmounts <- Rewarded,
  RateScale <- RateUnit, MaxStaked <- StakedBound, MaxShares <- SharesBound

Committee == INSTANCE Governance WITH
  Members <- Triple, QuorumBps <- ApprovalBps, Stakes <- {0, 1}, MinStakes <- {0, 1},
  MaxProposals <- ProposalBound

EscrowTerms ==
  [target |-> 4, duration |-> 1, month |-> 1, penalties |-> <<5000, 2500, 0, 0>>,
   matchBps |-> 5000, matchCap |-> 1, window |-> 0, hardship |-> 2, inactivity |-> 1,
   period |-> 1, scale |-> 2, growth |-> GrowthTable, end |-> 2, assets |-> 6, calls |-> 3]

Goal == INSTANCE Escrow WITH
  Goals <- Pair, Savings <- Saved, SavingsTarget <- GoalTerms.target,
  MinDuration <- GoalTerms.duration, Month <- GoalTerms.month,
  PenaltyBps <- GoalTerms.penalties, MatchBps <- GoalTerms.matchBps,
  MatchCap <- GoalTerms.matchCap, HardshipWindow <- GoalTerms.window,
  HardshipCap <- GoalTerms.hardship, Inactivity <- GoalTerms.inactivity,
  VaultPeriod <- GoalTerms.period, VaultScale <- GoalTerms.scale,
  VaultGrowth <- GoalTerms.growth,
  MaxNow <- GoalTerms.end, MaxSaved <- GoalTerms.assets, MaxCalls <- GoalTerms.calls

Multisig == INSTANCE MultisigValidator WITH
  Accounts <- Treasuries, Keys <- Pair, MaxWeight <- KeyWeight,
  Proposals <- Proposed, Bundles <- Bundled, Repeating <- Repeated,
  MaxSequence <- LastSequence

Bridge == INSTANCE BridgeAdapter WITH
  Chains <- Foreign, LockAmounts <- Bridged, Caps <- DailyCaps, CapDelays <- RaiseDelays,
  Window <- CapWindow, MaxOperations <- OperationBound, MaxTick <- TickBound

Rpc == INSTANCE RpcFailover WITH Nodes <- RpcNodes, RpcCalls <- Pair, MaxFailures <- RpcFailures

Erase == INSTANCE Erasure WITH ErasureRequests <- Pair, Holds <- LegalHolds, MaxDay <- LastDay

Wallet == INSTANCE WalletSession WITH
  Keys <- Pair, LedgerKey <- "ledger key", Connects <- Pair, Checks <- Watches,
  Timeout <- IdleTimeout, Warning <- IdleWarning, MaxIdle <- IdleBound

\* Two envelopes one after the other; one submitted twice over, the wallet going.
Flow == INSTANCE TransactionFlow WITH
  Envelopes <- Pair, Submits <- {"submit"}, Polls <- {1, 2}, WalletMayGo <- FALSE
Again == INSTANCE TransactionFlow WITH
  Envelopes <- {"envelope"}, Submits <- Pair, Polls <- {1, 2}, WalletMayGo <- TRUE

-----------------------------------------------------------------------------
Parts == {"audit", "index", "desk", "idempotency", "hook", "stop", "fees", "vault",
          "staking", "governance", "escrow", "multisig", "bridge",
          "rpc", "erasure", "wallet", "flow", "resubmit"}

Init ==
  /\ part \in Parts
  /\ Audit!Init /\ Index!Init /\ Desk!Init /\ Idem!Init /\ Hook!Init /\ Stop!Init
  /\ Fees!Init /\ Vault!Init /\ Staking!Init /\ Committee!Init /\ Goal!Init
  /\ Multisig!Init /\ Bridge!Init /\ Rpc!Init /\ Erase!Init /\ Wallet!Init
  /\ IF part = "resubmit" THEN Again!Init ELSE Flow!Init
  /\ part # "governance" => signers = {}
  /\ part # "escrow" => ~hasVault /\ reserve = 0
  /\ part # "erasure" => ~activeLoan
  /\ part # "wallet" => extension = CHOOSE k \in Pair : TRUE

\* The variables of each part.
auditPart == <<auditClock, auditCalls, auditRows, auditCause>>
indexPart == <<indexers, savedCursor, eventRows, borrower, indexFaults, totalsCause>>
deskPart == <<loan, desk, trail, lastReview, blind, trailCause>>
idemPart == <<requests, cached, effects, idemCause>>
hookPart == <<hookClock, subscription, jobs, sweep, deadLetters,
              streak, order, hookFaults, hookCause>>
stopPart == <<phase, elapsed, closed, task, drained, forced, hungUp, queue, finished>>
feesPart == <<account, audit, waivers, deciding, charged, feeCause>>
vaultPart == <<ledger, vault, held, waiting, recovery>>
stakingPart == <<supported, deposited, rewards, totalShares, shares, stakes, funds, net, crossed>>
governancePart == <<signers, minStake, stakingPool, delegation, proposals, power, roll, shrunk>>
escrowPart == <<now, hasVault, goals, pooled, yieldShares, reserve, tokens,
                 yieldVault, vaultHeld, calls, leaks>>
multisigPart == <<sequence, accounts, bundles, quorum, agreed>>
bridgePart == <<tick, bridge, operations, mints>>
rpcPart == <<currentIndex, failedAttempts, resets, rpcCalls>>
erasurePart == <<day, activeLoan, erasures, legalHolds, erased, circumstances, erasureCause>>
walletPart == <<extension, session, connects, checks, idle, inactive, walletCause>>
flowPart == <<network, form, modal, submits, monitor, timer, polls, flowCause>>

\* The parts that are not picked stay where they are.
Only(p) ==
  /\ part = p /\ UNCHANGED part
  /\ p # "audit" => UNCHANGED auditPart
  /\ p # "index" => UNCHANGED indexPart
  /\ p # "desk" => UNCHANGED deskPart
  /\ p # "idempotency" => UNCHANGED idemPart
  /\ p # "hook" => UNCHANGED hookPart
  /\ p # "stop" => UNCHANGED stopPart
  /\ p # "fees" => UNCHANGED feesPart
  /\ p # "vault" => UNCHANGED vaultPart
  /\ p # "staking" => UNCHANGED stakingPart
  /\ p # "governance" => UNCHANGED governancePart
  /\ p # "escrow" => UNCHANGED escrowPart
  /\ p # "multisig" => UNCHANGED multisigPart
  /\ p # "bridge" => UNCHANGED bridgePart
  /\ p # "rpc" => UNCHANGED rpcPart
  /\ p # "erasure" => UNCHANGED erasurePart
  /\ p # "wallet" => UNCHANGED walletPart
  /\ p \notin {"flow", "resubmit"} => UNCHANGED flowPart

Next ==
  \/ Only("audit") /\ Audit!Next
  \/ Only("index") /\ Index!Next
  \/ Only("desk") /\ Desk!Next
  \/ Only("idempotency") /\ Idem!Next
  \/ Only("hook") /\ Hook!Next
  \/ Only("stop") /\ Stop!Next
  \/ Only("fees") /\ Fees!Next
  \/ Only("vault") /\ Vault!Next
  \/ Only("staking") /\ Staking!Next
  \/ Only("governance") /\ Committee!Next
  \/ Only("escrow") /\ Goal!Next
  \/ Only("multisig") /\ Multisig!Next
  \/ Only("bridge") /\ Bridge!Next
  \/ Only("rpc") /\ Rpc!Next
  \/ Only("erasure") /\ Erase!Next
  \/ Only("wallet") /\ Wallet!Next
  \/ Only("flow") /\ Flow!Next
  \/ Only("resubmit") /\ Again!Next

allVars == <<part, auditPart, indexPart, deskPart, idemPart, hookPart, stopPart, feesPart,
             vaultPart, stakingPart, governancePart, escrowPart, multisigPart, bridgePart,
             rpcPart, erasurePart, walletPart, flowPart>>

Spec == Init /\ [][Next]_allVars

-----------------------------------------------------------------------------
(* The properties of the parts, which their modules state and explain.  A    *)
(* part that is not picked stays in its initial state: nothing is evaluated  *)
(* for it there.                                                            *)

\* Types of every part.
TypeOK ==
  /\ part = "audit" => Audit!TypeOK
  /\ part = "index" => Index!TypeOK
  /\ part = "desk" => Desk!TypeOK
  /\ part = "idempotency" => Idem!TypeOK
  /\ part = "hook" => Hook!TypeOK
  /\ part = "stop" => Stop!TypeOK
  /\ part = "fees" => Fees!TypeOK
  /\ part = "vault" => Vault!TypeOK
  /\ part = "staking" => Staking!TypeOK
  /\ part = "governance" => Committee!TypeOK
  /\ part = "escrow" => Goal!TypeOK
  /\ part = "multisig" => Multisig!TypeOK
  /\ part = "bridge" => Bridge!TypeOK
  /\ part = "rpc" => Rpc!TypeOK
  /\ part = "erasure" => Erase!TypeOK
  /\ part = "wallet" => Wallet!TypeOK
  /\ part = "flow" => Flow!TypeOK
  /\ part = "resubmit" => Again!TypeOK

\* verifyAuditRange passes on an untouched log and fails on an altered one.
TamperEvident == part = "audit" => Audit!TamperEvident

\* The saved cursor passes no unrecorded event; totals are those of the rows.
IndexedFaithfully == part = "index" => Index!IndexedFaithfully

\* Only the writers that name no version overrule a decision, and the audit trail
\* of loanHistory.ts replays to the live record.
DecisionsOnRecord == part = "desk" => Desk!DecisionsOnRecord

\* One idempotency key, one effect and one answer.
OneEffectPerKey == part = "idempotency" => Idem!OneEffectPerKey

\* The failure streak the auto-disable sweep goes by is the real one.
StreakIsTrue == part = "hook" => Hook!StreakIsTrue

\* Nothing that was waited for uses a resource after its close.
DrainedBeforeClosed == part = "stop" => Stop!DrainedBeforeClosed

\* The late-fee balance is what was charged less what was waived.
LateFeesReconcile == part = "fees" => Fees!LateFeesReconcile

\* No operation of the vault lowers the assets per share.
SharePriceNeverFalls == Vault!SharePriceNeverFalls

\* The staking pool's totals are its stakers' positions, and it can pay them.
StakesRedeemable == part = "staking" => Staking!StakesRedeemable

\* A member's voice counts once on a proposal.
OneVoiceEach == part = "governance" => Committee!OneVoiceEach

\* The escrow's books agree with the vault's and the savings can be paid.
SavingsBacked == part = "escrow" => Goal!SavingsBacked

\* What the bridge minted is what was locked or burned, within the caps.
MintedWithinCap == part = "bridge" => Bridge!MintedWithinCap

\* A call of the RPC gateway gives every node its turn.
EveryNodeHadItsTurn == part = "rpc" => Rpc!EveryNodeHadItsTurn

\* Personal data is scrubbed only while no hold or loan requires it.
ErasedOnlyWhenFree == part = "erasure" => Erase!ErasedOnlyWhenFree

\* Key, wallet type and balance shown belong together.
SessionHangsTogether == part = "wallet" => Wallet!SessionHangsTogether

\* A transaction shown as confirmed or reverted is, and one that is pending is
\* being watched.
OutcomeShownIsReal ==
  /\ part = "flow" => Flow!OutcomeShownIsReal
  /\ part = "resubmit" => Again!OutcomeShownIsReal

\* A proposal executes what was approved, when it was due.
ExecutedAsAgreed == Multisig!ExecutedAsAgreed
=============================================================================
