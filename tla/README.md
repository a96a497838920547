# Verification of RemitMortgage

RemitMortgage lets migrants save for, borrow for and build a house at home. The
repository has two layers (`ARCHITECTURE.md`): Soroban contracts that hold the money
(`contracts/`) and a TypeScript backend that verifies people, indexes the chain and runs
the back office (`backend/`); a Next.js front end sits on top. This directory models
the parts whose correctness depends on order, concurrency, failure or accounting,
checks them with TLC on small instances and proves with TLAPS, for every instance, the
central invariants of the milestone and lending pool contracts, of the leader election, the
four-eyes transfer and the event pipeline, and of fourteen of the smaller parts.

## 1. Inventory

| Component | State | Operations | Talks to | What is hard | What makes it correct |
|---|---|---|---|---|---|
| Milestone contract | config, milestones, votes, budget changes, disputes, bonus pool | propose, approve, reject, resubmit, budget vote, release, partial release, dispute, arbitrate | lending pool (`disburse`, `refund_milestone_dispute`), token | long legal call sequences; three ways to end a dispute; amounts that change between two partial releases | money only on a quorum; books agree with the pool; arbitration excludes release; a refund is final |
| Lending pool contract | liquidity, commitments, tranches, shares, loans, quotes | deposit, withdraw, request, approve, disburse, repay, quote, default, recover, claim | milestone, escrow, insurance pool, token | two-sided accounting across many totals; quotes that outlive the state they were made in | tokens held = what the books say; loss hits junior first; a closed loan was paid |
| Escrow contract | goals, pooled total, vault shares, matching reserve, hardship requests | deposit, top-up, scheduled draw, transfer, withdraw, hardship withdrawal, release, rollover, beneficiary claim | yield vault, token | five ways into a goal and four out of it, each with its own bookkeeping in two contracts | pooled total and shares are the goals'; savings can be paid |
| Yield vault contract | assets, shares, liquidity, withdrawal queue, recoveries | deposit, withdraw, queue, process, report liquidity, recover | escrow, token (mints yield) | rounding at every step while interest accrues in whole periods | no operation lowers the value of a share |
| Staking pool contract | stakes and rewards per token, one kind of share | stake, unstake, distribute, claim, add and remove tokens | tokens | shares minted at a moving rate, several tokens redeemed at once | totals are the stakers'; stakes can be paid |
| Governance contract | signers, delegations, proposals, power snapshots | submit, approve, reject, veto, delegate, change signers | staking pool | delegations and signers change while a proposal is open | a voice counts once; a decision needs the quorum of the snapshot |
| Multisig validator contract | accounts and timelocks, action proposals, signer set | configure, submit, approve, execute, rotate | lending pool | a known id can be submitted again; rotation cooldown | what is executed is what was approved, when due |
| Bridge adapter contract | operations, caps, volume window | lock, burn, mint, change cap | token | caps change inside a running window; raises are timelocked | minted once, what was locked, within the cap |
| Insurance pool, oracle, verification registry | own ledgers | deposit, claim, report | lending pool, backend | | solvency, no replay |
| Job leader election | advisory lock, `ScheduledJobRun` rows | `run()` | PostgreSQL; all cron jobs | the lock may end under the job; crashes; stragglers | one execution per tick; no row "running" for ever |
| Four-eyes approval and loan servicing | approval requests, transfers, servicer of record | create, approve, reject, expire, execute, apply | Prisma, cron | reads and updates of two calls interleave; a payload executed in several steps | two people; no half execution reported as done; decisions final |
| Outbox, relay, ledger-event queue, worker | `OutboxEvent`, Redis lists, attempt counters, balances | enqueue, relay pass, cleanup, pop, retry, dead-letter | PostgreSQL, Redis | crash between push and mark; crash after pop; retry order | at-least-once delivery; no silent loss; no blocked queue |
| Event indexer | cursor, event rows, borrower totals | poll, record, save cursor | Soroban RPC, PostgreSQL | crash between three statements; every replica runs one | the cursor passes no unrecorded event; totals are the sums of the rows |
| Idempotency, rate limits | Redis entries | middleware | Redis | two requests with one key; Redis down in between | one effect and one answer per key |
| Audit chain | rows with a hash of the previous one | append, verify, scheduled verification | PostgreSQL | appends that are not awaited; other writers of the table | verification passes on an intact log and fails on an altered one |
| Loan desk | application row with a version, change records | submit, decide, review, bulk review, automatic rejection, replay | PostgreSQL, four-eyes | decisions on versions seen earlier; writers that name no version | a decision is not overruled unseen; the trail replays to the row |
| Late fees and waivers | balance, missed payments, waiver requests | repayment audit, file, decide | PostgreSQL, cron | balance computed from a stale read | balance = charged less waived |
| Webhooks | subscription, queue jobs, failure streak, dead letters | dispatch, deliver, retry, sweep, set status | BullMQ, HTTP | retries, stalls and late records race a sweep that disables | the streak the sweep goes by is the real one |
| Graceful shutdown | phase, drains, closed resources | signal, drain, close, watchdog | every server, queue, database | two drains with timeouts, ordered closes | what was waited for never meets a closed resource |
| RPC gateway | current index, failures by node, reset timers | `execute` | Soroban RPC nodes; every simulated read | overlapping calls share the index | every node gets its turn; no node is passed over for ever |
| Erasure workflow | requests and legal holds, in memory | submit, attach, lift, decide, execute | PostgreSQL (loans), admin routes | holds, lifts, decisions and new requests in any order | nothing is erased under a hold |
| Wallet session, idle logout (web) | account, type, balance, idle time, warning | connect, watch, disconnect, tick, extend | Freighter, Ledger, Horizon | answers after awaits; effects re-run by renders | what is shown belongs together; the idle are logged out in time |
| Transaction flow (web) | envelope, modal phase, hash, monitor, polls | build, submit, sign, poll, close | Freighter, Soroban RPC | late and overlapping polls; an effect that reads the old monitor | the outcome shown is that of the transaction |
| Authentication, KYC, scoring, read models, exports, the pages of the front end, infrastructure | | | | I/O, formatting, heuristics | not modelled (section 5) |

The milestone contract decides *when* the pool pays, the lending pool decides *whether
it can* and keeps the books; the backend mirrors the chain through the indexer and sends
its own business events through outbox → relay → Redis → worker. Every cron job of the
backend, the relay included, runs behind the leader election.

`PROJECT.json` lists every component with its source files and status, and every hazard
with the line where it bites and the property that would catch it.

## 2. Modules

| Module | Models | State | Composition |
|---|---|---|---|
| `Milestone` | `contracts/milestone/src/lib.rs`, all entry points | one variable per `DataKey`, plus what the calls out of the contract have added up to | |
| `MilestoneProofs` | the theorems about it | | extends `Milestone` |
| `LendingPool` | `contracts/lending-pool/src/lib.rs`, investors and the life of a loan | the pool's totals, tranches, investors, loans, exposures | |
| `LendingPoolProofs` | the theorems about it | | extends `LendingPool`, `Induction` |
| `Sums` | sums over a finite set | | used by `LendingPool`, `LateFees`, `StakingPool`, `BridgeAdapter`, `Escrow`, `YieldVault`, `EventIndexer` |
| `Induction` | well-founded induction over given sets; how a sum changes with its function and its set | | |
| `JobLeaderElection` | `services/jobLeaderElection.ts` | one program counter per instance, the lock, the rows | |
| `ServicingApproval` | `services/fourEyesApproval.ts`, `services/loanServicing.ts`, the routes in `routes/admin.ts`, both cron jobs | requests, calls in flight, transfers, the loan | composes the two services through the HTTP calls |
| `EventPipeline` | `services/transactionalOutbox.ts`, `jobs/outboxRelay.ts`, `services/eventProducer.ts`, `services/eventWorker.ts` | outbox, relay pass, Redis list, worker, counters | composes producer, relay, queue and worker |
| `BackOfficeProofs` | the theorems about these three | | extends `ServicingApproval`, `JobLeaderElection`, `EventPipeline`, `Induction` |
| `Delivery` | what the outbox promises (abstract) | accepted and delivered events | refined by `EventPipeline` |
| `Escrow` | `contracts/escrow/src/lib.rs`, `auto_deposit.rs` | the goals of one borrower, the escrow's totals, the vault | composes the escrow with `YieldVault` (INSTANCE): a deposit or payout is one step of both |
| `YieldVault` | `contracts/yield-vault/src/lib.rs` | totals, shares, queue, recoveries | |
| `StakingPool`, `Governance`, `MultisigValidator`, `BridgeAdapter` | the contracts of these names | one variable per storage key or record | |
| `EventIndexer` | `services/eventIndexer.ts`, the `record*` functions of `services/db.ts` | loops by process, cursor, rows, totals | |
| `AuditChain` | `services/audit.ts`, `services/auditChain.ts`, `jobs/auditChainVerification.ts` | calls in progress, the table | |
| `LoanDesk` | `routes/loan.ts`, `services/loanStore.ts`, `services/autoRejectionRuleStore.ts`, `services/loanHistory.ts` | one application, the writers in progress, its trail | |
| `Idempotency` | `middleware/idempotency.ts` | requests with one key, the Redis entry | |
| `WebhookDelivery` | `services/webhook.ts`, `workers/webhookWorker.ts`, `jobs/webhookAutoDisable.ts` | one subscription, its jobs, the sweep | composes dispatcher, worker and sweep |
| `LateFees` | `jobs/repaymentAudit.ts`, `services/feeWaiver.ts` | one loan, the audit, waivers, decisions | composes audit and waivers |
| `GracefulShutdown` | `services/gracefulShutdown.ts`, its wiring in `index.ts` | phase, tasks, resources | |
| `RpcFailover` | `services/rpcFailover.ts` | the gateway's index, counters and timers, calls in progress | |
| `Erasure` | `services/erasureWorkflow.ts` | the requests of one wallet, holds, the clock | |
| `WalletSession` | `frontend/src/context/WalletContext.tsx`, `IdleSessionContext.tsx` | session, connect calls, the watcher's checks, idle time | composes the wallet provider and the idle logout |
| `TransactionFlow` | `frontend/src/components/DepositModal.tsx`, `hooks/useTransactionMonitor.ts`, `signAndSubmit` of `lib/soroban-client.ts` | form, modal, submit calls, monitor, polls | composes modal, monitor and network |
| `MCMilestone`, `MCLendingPool`, `MCEventPipeline`, `MCComponents` | instances for TLC | | `MCComponents` instantiates the seventeen modules from `Escrow` to `TransactionFlow` |
| `TransactionFlowProofs` | the inductive invariant of `TransactionFlow` | | extends `TransactionFlow` |
| `ServiceProofs` | theorems about `Idempotency`, `RpcFailover`, `Erasure`, `GracefulShutdown`, `WebhookDelivery`, `LoanDesk`, `WalletSession`, `TransactionFlow`, `LateFees`, `AuditChain`, `EventIndexer` | | extends `MCComponents`, `Induction`; instantiates `TransactionFlowProofs` |
| `ContractProofs` | theorems about `MultisigValidator`, `YieldVault`, `Governance`, `StakingPool`, `BridgeAdapter`, `Escrow` | | extends `MCComponents`, `Induction` |
| `TypeProofs` | the type invariant of `MCComponents` | | extends `ServiceProofs`, `ContractProofs` |

### Milestone

A Soroban call is a transaction: it runs alone, and an error undoes all of it. So each
entry point is one action, its guard the conjunction of the checks, and a call that is
refused is a stuttering step; the `Reentrant` flag is false between any two steps and is
left out. The action and variable names are the contract's. A missing storage key is a
record of zeros. `paid`, `bonus_paid` and `refund_asked` record the calls to
the lending pool and the token; `ever_rejected` is history. `disburse` traps
when the pool refuses, which undoes the release, so a release that happens is one the
pool has paid; the results of the refund call and of the budget check are discarded by
the contract, and so the model does not constrain them. TTLs, events, and the contents
of evidence beyond validity are left out.

### LendingPool

Again a call is one action and a refused call a stuttering step; a call whose transfer
out of the contract exceeds the token balance traps, so `balance >= amount` is a guard.

* `pool` has the token balance and the totals the contract keeps (`TotalLiquidity`,
  `ActiveLoanCommitments`, `TotalDeposited`, `TotalRepaidInterest`, withdrawal fees,
  `TotalDefaultedLoss`); `tranches` the `TrancheInfo` and debt-token supply of each
  tranche; `investors` the `InvestorRecord`, yield mode and debt-token balances; `loans`
  the `LoanRecord` with schedule, payoff quote, held application fee and requested
  assumption; `exposure` the `BorrowerExposure`.
* `book` and `late` are history: what is in the balance for another reason than
  liquidity, and what was disbursed to a loan after its payoff had been quoted.
* Amounts that a subtraction or a deduction may take below zero are integers, as
  `i128` is; the division truncates as Rust's does; a basis-point share rounds down.
* `trigger_default` and `mark_default` are `execute_default` with and without a keeper.
  What the escrow's `seize_collateral` returns is any of `Seizures` (external).
* Whether a withdrawal fee is waived depends on how long the position was held, which the
  model does not keep, so either may happen. `compound_pow` is the constant
  `CompoundPow`, any function that does not shrink a debt.

Checks that only refuse calls (pause, whitelist, cooldown, lockup, limits per day) are
left out, which adds behaviours and removes none. Left out with their state: credit
lines, interest-only periods, lockup tiers and their bonus, the cap on late fees, the
halving of rewards, restructuring, extension, refinancing, collateral, rebates,
portability, emergency liquidity, `batch_disburse`, wind-down, setters and upgrade.

### JobLeaderElection

Each `await` of `run()` is a step of its own. The lock belongs to an open transaction,
which may end (timeout, lost connection) while the job goes on: `LoseLock`. Times are
ages, counted up to `MinInterval`, the only value the code compares an age with, which
keeps the state space finite without bounding time.

### ServicingApproval

Each database access is a step. Updates are by id, so a call acts on what it read. The
model has one loan, and requests for it; a call carries out one decision, and the
transfer it creates is identified by it.

### EventPipeline

Every database and Redis call may throw, and every process may die between two. A
payload is what its handler does with it: *valid*, *skipped* or *malformed*. Balances are
abstracted to how often an event was applied. Three assumptions: a relay pass is shorter
than the cleanup's retention of seven days; a job's attempt counter (an hour) does not
expire while the job is queued or held; a second relay (an instance that has lost the
scheduler's lock) is one coarse step, `OtherRelay`.

### The other contracts

`Escrow`, `YieldVault`, `StakingPool`, `Governance`, `MultisigValidator` and
`BridgeAdapter` follow the same convention: one action per entry point, a call that panics
or answers `Err` is rolled back and is a stuttering step. A ghost variable records what
the code lets happen and the property must account for, so that the property is exact
and not merely weak:

* `Escrow`: `leaks` names the ways in which money has left a goal's books (matched without
  tokens, stranded shares, moved without shares, rolled over, rounded by the vault);
  `SavingsBacked` asks for full cover while there are none, and for equal share counts of the
  two contracts always. Of the escrow, the release schedule, the penalty timelock, the change of attestors, permissioned mode,
  the pause, TTLs and upgrades are left out: they refuse calls or change configuration.
* `YieldVault`: `compound_pow` is a table of factors by number of periods. `pay_out`
  mints what the vault's balance lacks, so the balance is not state.
* `StakingPool`: `crossed` says that a pool was credited a reward that did not come in its
  token: it was brought in another one, or "distributed" from the contract's own balance.
* `Governance`: `roll` keeps the signers and delegations a snapshot was made from,
  `shrunk` the proposals during which a signer was removed. Signers given to `initialize`
  are distinct. The content of a proposal is left out.
* `MultisigValidator`: one clock for the ledger's sequence and timestamp; a list of actions
  is a bundle, told apart only by whether it names an action twice. Slashing and decay only
  feed `effective_weight`, which nothing reads.
* `BridgeAdapter`: every operation is stamped "stellar", so there is one cap and one window.

### The other backend services

In `EventIndexer`, `AuditChain`, `LoanDesk`, `Idempotency`, `WebhookDelivery` and `LateFees`
each database or Redis statement is a step, an `await` lets any other call run, and a call
that is not awaited goes on by itself. Faults (failed statements, crashes, silent
workers) are counted and bounded. BullMQ and Redis are external: a job is handed out,
retried and handed out again after a stall; a Redis call succeeds or throws. A SHA-256 hash
is injective: it is the sequence of the contents it covers.

These services do lose updates, and the code shows exactly where. A ghost "cause" variable
(`auditCause`, `totalsCause`, `trailCause`, `idemCause`, `hookCause`, `feeCause`) records that
one of the listed events has happened, for instance two appends that read the same head.
Each property says that the guarantee holds *until* one of them has, and the causes are
listed above the property in its module. Any other way to break the guarantee, as each
mutant introduces one, is a violation.

`GracefulShutdown` has tasks of four kinds (requests, queue jobs, scheduler runs, promises a
handler did not await), because the code waits for the first two only. Left out elsewhere:
webhook signing, payload versions, secret rotation and replay from the dead-letter table; drafts,
documents and notifications of the loan desk; guarantor liability.

`RpcFailover` takes a loop turn up to the next await as a step; `moved` and `repeated` are
ghosts of a call. In `Erasure` a call is one step, since the store is in memory, except
for submission, which awaits the loan query; `circumstances` records what was the case at an
execution, `erasureCause` what the code lets happen that a hold does not protect from.

### The web application

`WalletSession` and `TransactionFlow` are the two parts of the front end that keep state over
time. An action is an event handler, or what follows an await in one, together with
the effects React runs after the render it causes. React batches the updates of one
handler, and an effect sees the values of the render it belongs to; both matter:

* a render of the wallet provider makes a new `disconnectAll`, so the idle effect is re-run
  and `lastActivityRef` starts anew (`Become`, `ProviderRenders`, `Tick`);
* when `txHash` changes, the modal's effect on the outcome runs with the monitor's state
  of before, since the monitor's own effect has only asked for its reset (`Render`).

The idle time is an age in ticks. `Report` applies what any poll brings, whichever hash
it was made for, as the hook does. `reverted` tells the error of a transaction that the
monitor saw fail ("The transaction reverted on-chain.") from every other error, of which
`OutcomeShownIsReal` says nothing (see the observations). The causes of `WalletSession`
(`walletCause`) end: a wallet that grants a key and the end of the session clear them all,
and the next balance fetched clears that of a late one, so `SessionHangsTogether` holds again
from then on. An envelope stands for its hash. Left out: error texts,
network selection, the contents of a preview, labels of phases that are not terminal.

## 3. Runs

| Run | Instance | Shows |
|---|---|---|
| `milestone` | one milestone, two approvers who also arbitrate, threshold 2, amounts 0..2, ledgers 0..2 | all safety properties of the contract over every order of calls |
| `milestone_budget` (violation) | the same | a budget change is executed after approval, or even after payment |
| `leader` | two instances, `MinInterval` 2 | overlap and write-offs need a lost lock (`LockGuardsRows`); runs are spaced (`KeptRunsAreSpaced`); lock and rows do not stay (`LeadershipRecovers`) |
| `leader_dead` (violation) | the same | `abandonRunning` writes off runs of holders that are alive |
| `servicing` | one request, two calls, three admins of whom two are eligible | a transfer was approved by a second person and an executed request has its transfer (`TransfersAreApproved`); decisions are final (`DecisionIsFinal`); expiry and application happen (`ServicingSettles`) |
| `servicing_one` (violation) | the same | two approvals of one request schedule two transfers |
| `pipeline` | a valid and a malformed event, batches of one, two attempts | at-least-once delivery (refinement of `Delivery`), no silent loss, no blocking |
| `pipeline_once` (violation) | the same | the worker does not use the idempotency key: an event is applied twice |
| `pool` | one loan of 2, two borrowers, two investors who deposit 2, three ledgers; either interest in every ledger, quotes, application fees and payments 1..3, or withdrawals of 2, transfers of 1 and fees of 1 without accrual | balance, commitments, exposures, held fees and closed loans through every order of a loan's operations; the loss waterfall; shares, positions, tranches and totals through defaults and recoveries |
| `pool_transfer` (violation) | the second of these with one borrower and room for banked yield of 2 | a second transfer banks the yield again |
| `idle_logout` (violation) | two accounts and a Ledger, a connect call, a check, timeout 5, warning 2, as in `IdleSession.test.tsx` | a user who does nothing is still connected after the timeout |
| `components` | seventeen parts, see below | one safety property for each part, and their types |

`components` puts the modules that are checked by themselves into one run. `part` is chosen
initially and only that part moves, so its state space is the sum of small ones
(1.6 million states in all), and each module's specification is checked as it stands.

| Part | Instance | Property |
|---|---|---|
| audit | three events, clock 0..2, overlapping appends, a direct writer, an alteration | `TamperEvident` |
| index | two replicas, six events on pages of two, one fault | `IndexedFaithfully` |
| desk | two reviews and every unversioned writer, bulk approval and rejection included | `DecisionsOnRecord` |
| idempotency | three requests, two operations | `OneEffectPerKey` |
| hook | two jobs, two attempts, threshold 2, one fault | `StreakIsTrue` |
| stop | a request, a probe, a job, a scheduled run, a promise | `DrainedBeforeClosed` |
| fees | two waivers, two decisions, default after three misses | `LateFeesReconcile` |
| vault | two investors, deposits of 2, growth 3/2 and 2, a queue of two | `SharePriceNeverFalls` |
| staking | two stakers, two tokens, stakes 1 and 2, rewards of 2 | `StakesRedeemable` |
| governance | three members, quorum 60 %, one proposal | `OneVoiceEach` |
| escrow | two goals, deposits of 2, three calls, with and without vault and matching | `SavingsBacked` |
| multisig | one account, two keys, one id, three bundles, lifetime 1 | `ExecutedAsAgreed` |
| bridge | two operations of 2, caps 0, 2, 3, delay 1, window 2 | `MintedWithinCap` |
| rpc | two overlapping calls, three nodes, one failure makes a node unhealthy | `EveryNodeHadItsTurn` |
| erasure | two requests of a wallet, holds that expire or not, a loan that comes and goes | `ErasedOnlyWhenFree` |
| wallet | two Freighter accounts and a Ledger, two connect calls, a check, timeout 2, warning 1 | `SessionHangsTogether` |
| flow | two envelopes one after the other, two polls that overlap | `OutcomeShownIsReal` |
| resubmit | one envelope, two submits that overlap, two polls, a wallet that goes and returns | `OutcomeShownIsReal` |

**Why the bounds are enough.** *Milestone:* milestones share only config, the count and
the bonus pool, so one milestone shows every interplay of votes, releases and disputes;
amounts 1 and 2 give partial, full and over-payment, and 0 the refused call; thresholds
0, 2, 3 of two approvers give zero, quorum and too many; three ledgers give before, at
and after a timelock, a deadline and an arbitration window of one. The proofs remove
the bounds. *Leader:* two instances give holder and contender; a third would only be
another contender. *Servicing:* two calls on one request give the races between
two approvals and between approval and rejection; time 0..2 puts expiry before, at and
after the decision. *Pipeline:* two events are needed for one to block the other, two
attempts for a retry and a dead letter; `MaxQueue` bounds only repeated pushes.
*Pool:* a principal of 2 is disbursed in one or two draws; payments of 1, 2 and 3 are less
than, as much as and more than the debt at some time, with rates of a half so that fees
and interest on them do not all round to zero; three ledgers put a quote before, at and after its expiry and
a loan before and after grace period and default; two investors can hold both
tranches, or after a transfer share one, and caps of one deposit each keep that small; the
second deposit fits under `MaxBalance` once the loan is paid out. `MaxBalance`, `MaxFees`,
`MaxUnbacked`, `MaxAccrued`, `MaxInterest` and `MaxDeposited` stop operations that could be
repeated for ever; they are guards of the model, and the proofs hold for every value of
them. `MCLendingPool` chooses one of its two pools initially, as `MCComponents` chooses a
part, and every property is checked in both; the pool with withdrawals and transfers
has no accrual because what concerns investors does not read a debt.
*Idle logout:* `MaxIdle` 8 is the time after which the code logs out with these times. *Components:* two callers give every lost update, a third request one that meets the cache
after two that did not; a clock of three values gives before, at and after each deadline;
page size 2 puts a page's end inside a ledger; amounts of 2 with rates of a half round both
ways; three members of whom 60 % decide give a quorum that one delegation can reach and one cannot;
caps below, at and above a mint and 0 give every comparison; two envelopes give a monitor that
is left over from the first, two polls an answer out of order, and the module has been checked
with two of envelopes, submits and polls together (3.5 million states). Every cap on a total or on the
number of calls is a constant named in its module.

**Deadlock** is checked for the leader election. The others may stop: contracts
nobody calls, a bounded clock, an outbox with nothing to send.

**Fairness.** The contracts have none: nobody must call them; nor has `components`, whose properties are all safety. *Leader:* weak fairness of every
continuation (the event loop runs what is pending), of restarts, and of the end of the
lock's transaction (`maxHoldMs`); strong fairness of `tryAcquire` and `abandonRunning`,
because cron fires for ever and a database that fails every single tick is out of scope.
The job itself has none: it may hang. *Servicing:* weak fairness of calls and of the
cron jobs' queries, strong fairness of their updates. *Pipeline:* weak fairness of relay
and worker, strong fairness, per event, of the push and of the mark.

### Findings

Each is a run whose property is what a comment or document says, and which TLC refutes.

1. `BudgetOnlyWhileProposed`: `propose_milestone_budget_change` checks the status, the
   deciding `vote_budget_change` does not.
2. `AbandonedMeansDead`: a holder that has lost its lock is still alive when the next
   one abandons its row, and a slow former holder can abandon the row of the new one.
3. `OneScheduledTransfer`: "find a scheduled transfer" and "create one" are two
   statements without a constraint, and two approvals of one request both pass
   `requirePendingAndNotSelf`.
4. `AppliedAtMostOnce`: the relay may publish twice, and the worker does not deduplicate.
5. `TransferKeepsYield`: `settle_accrued_yield` banks the pending yield, of which the banked
   yield is a part, so each further transfer doubles it.
6. `LoggedOutInTime`: opening the warning re-runs the effect of the idle timer, which ends the
   countdown and starts the idle time anew, so logout comes after (timeout − warning) +
   timeout: 8 s where `IdleSession.test.tsx` expects 5 s, and almost 29 minutes with the default
   times. The test advances its clock by the last seconds in one `act()`, before the
   warning is rendered again, and so passes.

### Observations without a run

* `contracts/milestone/src/state_machine.rs` (`is_valid_transition`) claims to list all
  direct transitions and lacks those to and from `Rejected` and `PartiallyDisbursed`;
  only tests use it.
* `dispute_milestone` asks for one approver although it refunds a milestone a quorum
  approved, and it discards the outcome of the refund call.
* A payoff quote survives a later `disburse`. Paying the quoted amount then closes the
  loan although principal is outstanding; the comment on `settle_quoted_payoff` speaks of
  interest. `PaidBeforeClosed` states exactly how much can be missing: `late`.
* The withdrawal fee leaves the contract and stays in `TotalLiquidity`, and
  `refund_milestone_dispute` credits liquidity without receiving tokens. Both are terms of
  `BalanceAccounted`, so liquidity may promise tokens the contract does not have; the
  transfer then traps.
* The junior first-loss limits that the comment in `execute_default` describes are not
  applied. After a loss, withdrawals at par can make a tranche's capital negative.
* An accrual drops what is left of the last compounding period.
* `drainDlq` pops with timeout 0, which blocks for ever on an empty list.
* `subStroops` clamps at zero, so the balance depends on the order of delivery; and two equal
  events of one ledger share an `eventHash`, so one of them is not recorded.
* Audit chain: it forks when two appends overlap, carry one millisecond or fail to read the
  head; `loanHistory.ts`, `loanStore.ts`, `assignmentQueue.ts`, `autoRejectionRuleStore.ts`,
  `routes/loan.ts` and `dataQualityAudit.ts` write rows without chain fields; metadata with
  `undefined` or `Date` values hashes differently once stored; deleting the tail cannot be seen.
* Event indexer: a crash between row and totals leaves the amount out for good; two replicas
  (`index.ts:377`) overwrite each other's totals; two equal events of a ledger
  are one row.
* Idempotency: the key is not scoped to route or caller, so another operation is answered
  with the cached response.
* Loan desk: `MANUAL_REVIEW`, automatic rejection and `Disbursing` are written without a
  version; `res.json` of the disbursing update is given a promise (`routes/loan.ts:318`);
  automatic rejections leave a row without changes, which does not replay.
* Webhooks: the sweep pauses by id and so overwrites a revocation; without a queue a dispatch
  passes for delivered.
* Shutdown: indexer and schedulers are stopped and not awaited, the backup schedulers and the
  RPC monitor not even stopped; a handler whose client hung up is not waited for.
* Late fees: a decision and the audit overwrite each other's balance; a crash leaves a
  waiver approved and not credited.
* Yield vault: `withdraw` does not lower `AvailableLiquidity`; `add_liquidity` moves no
  tokens; a queue head that is too large blocks everyone behind it.
* Staking pool: rewards can be claimed again and again; they are credited to the pools of
  all tokens although paid in one; `remove_token` drops rewards.
* Governance: duplicate initial signers count twice; a signer removed during a vote may
  leave the proposal open for ever, and votes of removed signers go on counting.
* Escrow: a top-up or scheduled draw buys vault shares that no payout redeems; a transfer
  moves no shares; a rollover stays in `TotalPooled`; matching credits without tokens;
  `BeneficiaryClaimed` is for ever; an expired hardship request is "cleared" in a call that answers
  `Err` and is rolled back (`lib.rs:867-886`), as in `confirm_release_time`.
* Multisig validator: a proposal names no account; a bundle that names an action twice can
  be approved and never executed; `mark_missed_votes` counts an expired proposal again.
* Bridge adapter: lowering a cap to 0, which means no cap, and raising it again avoids the
  timelock of raises; the "rolling" window is a fixed one; uncapped mints are not counted.
* RPC gateway: a success of another call moves `currentIndex`, so the remaining turns of a call
  may repeat one node and miss another; the timer of an old failure forgets newer ones.
* Erasure: holds belong to a request, so a request that is approved, or a second one made
  after it, is not stopped by a hold on the other; deciding, lifting and attaching reopen completed requests; a loan query
  that fails means no hold, and a loan taken later is not noticed.
* Wallet session: the watcher also runs for a Ledger's key and drops it, or replaces it by
  Freighter's account while the type stays `ledger`; a late balance overwrites a newer one; a
  connect call outlives a disconnect; a failed one leaves balance and Ledger type behind.
* Idle logout: every render of the wallet provider starts the idle time anew too, since
  `disconnectAll` is a new function each time.
* Transaction flow: the monitor is not reset when the hash becomes undefined, so after a
  confirmed deposit a second one from the same modal is shown as a success at once, and after a
  failed one as an error; late answers of an earlier hash are applied and stop the new
  interval; overlapping polls take back a terminal phase; after two overlapping submits the
  modal can be pending for ever without an interval and cannot be closed; one poll that fails
  ends the polling, and the modal then says of a transaction the network may have confirmed
  that it "was rejected before confirmation" (`TransactionModal.tsx:73`) and offers a retry.
* JWT key ring: each process rotates to a random secret of its own.

## 4. Proofs

`MilestoneProofs` proves, from `MilestoneAssumption` alone (any number of milestones,
approvers, loans, any amounts, any time), by induction over steps:

* `TypeCorrect`: `Spec => []TypeOK`;
* `Safety`: `Spec => []IndInv`, from which follow
* `QuorumTheorem` (`PaidOnlyByQuorum`), `BooksTheorem` (`BooksAgree`) and
  `DisputeTheorem` (`DisputeConsistent`).

None of the three is inductive alone. `IndInv` is `TypeOK`, `NothingYet` (before
`initialize` there are no votes and no milestones) and for every proposal the four parts
of `SafeAt`: `VotesCounted` (the counter is the number of distinct voters, all of them
approvers: this is what a vote count surviving a rejection would break), `DecidedByQuorum`
(a status past `Proposed`/`Rejected` has a quorum behind it, so a release has one),
`PaidByRelease` (only a status reached by a release has been paid, and the books agree)
and `DisputeSafe` (a pending dispute is of a milestone that was `Approved`, hence unpaid).
There is one lemma per action for each part it can disturb.

`LendingPoolProofs` proves, from `PoolAssumption` alone (any investors, borrowers, loans,
amounts, rates, fees, caps and bounds), by induction over the 21 operations:

* `PoolInvariant`: `Spec => []IndInv`, from which follow
* `PoolTypeCorrect` (`TypeOK`), `PoolBalance` (`BalanceAccounted`), `PoolShares`
  (`SharesReconcile`) and `PoolPaid` (`PaidBeforeClosed`).

`TypeOK` needs `now <= MaxLedger`, the domain of `CompoundPow`, and `LoansHavePrincipal`,
without which the protocol's cut of a payment divides by zero. `PaidBeforeClosed` says
nothing about a loan that is still open; `PayoffCovered` does: the debt of an approved
loan is at least what was disbursed and has not come back (an accrual never lowers a
debt), and so is a stored quote together with `late`. `BalanceAccounted` and
`SharesReconcile` are inductive given the types. The arithmetic (division, basis points,
the cut is at most the payment) is in lemmas of its own, and there is one lemma per
action.

Two more follow from the same invariant. `BonusTheorem` (`BonusEarned`) adds `BonusSafe` per
proposal: a milestone that was once rejected is rejected still or marked as resubmitted, and
no bonus has gone to it. `FinalityTheorem` (`DisputesAreFinal`) is an action property: a
refunded milestone stays refunded and is paid no more, and a milestone that comes back from
a dispute keeps its approval ledger.

Also from `PoolAssumption`, about sums over the investors and the loans, which are finite sets
of any size: `PoolLoanBook` (`LoanBookMatches`), `PoolSupply` (`SupplyIsHeld`), `PoolLosses`
(`LossesBooked`) and `PoolWaterfall` (`WaterfallOrder`, an action property). They need one
another, so `PoolBooks` proves them together:
`Books` is `IndInv`, `LoanBook` (commitments, exposures and held fees are those of the
loans, and a fee is held only for a request), `SupplyIsHeld` and `LossesBooked`. A tranche's
supply is a sum of balances that are not negative, so it is not negative itself; that is what
the two statements about losses rest on. `Induction` proves what a sum does when its
function changes at one point or one element leaves, and that a sum of natural numbers is
one. The library's induction theorems take the property as a parameter, which the provers cannot
instantiate; here induction is over a set that is given (`WellOrdered`, `SetInduction`, from
`WellFoundedInduction`), and the set is then chosen to be the cases that hold.

`BackOfficeProofs` proves, from the assumption of `JobLeaderElection` (any number of instances, any
interval), `ElectionGuardsRows` (`LockGuardsRows`) and `ElectionSpacesRuns`
(`KeptRunsAreSpaced`) from `ElectionInvariant`. `ElectionInv` is `ElectionTypeOK`, `HolderIsLocked` (an
instance inside the locked region is the lock's holder unless it has lost the lock) and
`SeenCoversKept` (the last run such an instance has read is no older than any run that kept
its lock, as none was completed in between).

It also proves `FourEyes` (`TransfersAreApproved`) and `DecisionsAreFinal`
(`DecisionIsFinal`) of `ServicingApproval`, for any set of requests, calls, admins and servicers. The calls of two
admins on one request overwrite each other's `approvedBy`; the invariant survives this
because it does not say who approved but that whoever is shown was checked against the
requester (`CallsWereChecked`), and that a transfer comes from a call that got that far and
carries the request's payload (`TransfersHaveACall`, `ExecutedHasATransfer`). The remaining
parts say that calls and cron jobs hold rows that exist.

Of `EventPipeline` it proves, for any set of events, batch size, retry limit and queue bound:

* `NothingIsLost` (`NoSilentLoss`): `OutboxCustody` says that an event is in the outbox from
  the business change until it is pushed, `QueueCustody` that a pushed event is in the queue,
  in the worker's hands, settled, or dead-lettered.
* `RetriesApplyOnce` (`AppliedTwiceNeedsARepeat`): `OneCopy` says that an event no repeat was
  recorded for has at most one copy of its job, and none that can still change the
  balances once they have changed.
* `OutboxImplementsDelivery`: the safety half of the refinement of `Delivery`. Initial states
  map to initial states, and every step to a step of `Delivery` or a stutter.

`ServiceProofs` and `ContractProofs` are about parts of `MCComponents`, as the run checks them.
A part moves alone, so its invariant is proved as `part = "..." => Inv`, with one lemma
per action. Each holds for any value of the part's constants, under what
`ComponentAssumption`, `DeskAssumption`, `WalletAssumption`, `FeeAssumption`, `IndexAssumption`,
`CommitteeAssumption`, `StakingAssumption`, `BridgeAssumption`, `VaultAssumption` and
`SavingsAssumption` ask: names
that are told apart are different, numbers are natural, a gateway has a node, a warning is
shorter than the timeout, as the defaults have it, sums are over finitely many waivers,
decisions, stakers, tokens and goals, the log of events is finite, the committee is finite,
nobody stakes or saves nothing (`stake` and `deposit` refuse it), the window of the daily cap
is not empty, and an interest factor is at least one and does not fall with the number of
periods: `compound_pow` squares and multiplies one plus an unsigned rate, and each truncated
product is monotone in its factors, so one more period never compounds to less. The
transaction flow is proved in a module of its own for any envelopes, submits and polls, and
`ServiceProofs` carries that to the two instances of the run. That there are at most two or
three calls (`Pair`, `Triple`) is not used; they are sets of any size, as are the events,
the rows of the audit log (`Audited`, `AuditEnd`), pages and faults.

| Theorem | Property | Why it is inductive |
|---|---|---|
| `IdempotencyTheorem` | `OneEffectPerKey` | until a listed cause one request is in the handler or about to cache, and the effect is that request's (`IdemProtected`) |
| `FailoverTheorem` | `EveryNodeHadItsTurn` | a call no other has disturbed has asked or skipped the nodes of its turns so far (`InTurn`), and the nodes of all turns are all nodes: arithmetic modulo any number; a node with failures has a timer that will forget them |
| `ErasureTheorem` | `ErasedOnlyWhenFree` | an approved request has no active hold (`HoldsInOrder`), a debtor's requests have the automatic one (`LoansAreHeld`), a second request leaves its mark |
| `ShutdownTheorem` | `DrainedBeforeClosed` | the drains come before every close (`DrainsFirst`) and, unless forced, leave nothing running (`DrainsEmpty`); a job then runs once (`JobsRunOnce`) |
| `StreakTheorem` | `StreakIsTrue` | the counter is the number of dispatches counted, and no failure is older than the last recorded success (`CountersTrue`); a revocation stays until a sweep overtakes it |
| `DecisionsTheorem` | `DecisionsOnRecord` | nobody decided on a version to come, and who saw the row as it is knows the reviewers' last word (`EntriesTrue`); at most one change is not in the trail, which ends with the status that change started from (`TrailTrue`) |
| `WalletTheorem` | `SessionHangsTogether` | a balance of another account is one whose successor is being fetched (`BalanceTrue`), unless a cause that has not ended yet explains it |
| `OutcomeTheorem` | `OutcomeShownIsReal` | a fresh poll (none started before the last change of hash) is about the hash the modal has, so its answer is true of that transaction (`Right`), and what the modal has taken from it stays true, as a transaction settles once (`SettledStays`): shown as confirmed, it succeeded, shown as reverted, it failed (`OutcomeTrue`); a submit that is alone finds no hash, so the one it leaves starts the polling (`FlowInv` of `TransactionFlowProofs`) |
| `LateFeesTheorem` | `LateFeesReconcile` | at every step, and not only when nothing is half done, the balance is what was charged less what the requests say was waived, plus what is marked and not yet credited (`FeeBalance`); every miss was charged (`MissesCharged`) |
| `VaultTheorem` | `SharePriceNeverFalls` | an action property; a step accrues whole periods, which lowers nothing as the factor is at least one, then mints or burns with a division rounded against the caller (`MintKeepsPrice`, `BurnKeepsPrice`); the invariant keeps the periods within the table of factors |
| `CommitteeTheorem` | `OneVoiceEach` | delegators are signers, and no delegate has delegated, now and in every snapshot (`InOrder`); so who has a vote speaks for itself, two such speak for different members, and a vote adds the cardinality of a disjoint set (`CountTrue`); the quorum grows with the committee, and a removal marks what is open (`WaitsRightly`) |
| `StakingTheorem` | `StakesRedeemable` | a staker's shares and stakes are both zero or both positive, token by token, as a part of the shares takes a part of the stake rounded down (`PartOf`), and the totals follow the positions (`SumsFollow`); the parts of a reward, each rounded down, do not add up to more than it (`SumsCompare`), so the dust is not negative and no pool is credited more than was paid in, unless nothing was (`PoolPays`) |
| `BridgeTheorem` | `MintedWithinCap` | each mint has a window start: two windows that differ lie a day apart, and what one of them minted up to then fits the cap of that moment (`Windows`, kept by `CapKeeps`); a day touches two of them (`TwoWindows`), and each part is below the cap its last mint met |
| `MultisigTheorem` | `ExecutedAsAgreed` | a locked proposal has the actions agreed on and the delay that ran from then (`LockedAsAgreed`) |
| `AuditTheorem` | `TamperEvident` | until a cause every row hashes what it stores and names the row before it, times differ, and hashes grow longer with the times (`OneChain`); a call nobody has overtaken is as late as all rows and holds the newest hash (`Unovertaken`). Such a chain verifies from any time (`ChainVerifies`), and does not once a row is edited (`EditFails`) or one that another names is deleted (`DeleteFails`) |
| `IndexTheorem` | `IndexedFaithfully` | whatever the faults, all events before a loop's place and before every cursor have rows (`LoopFine`, `Covered`); until a cause the totals are those of the rows less the rows some loop is about to add, each by one loop only (`InStep`, `PendingDiffer`), and what a loop has read is current or marked stale |
| `SavingsTheorem` | `SavingsBacked` | shares on both books agree, and pooled is the sum of the deposits (`SavedBooks`); until a leak each goal's shares are worth its deposits by cross-multiplication (`Backed`), which no step lowers: the vault's price as it will be after the next accrual (`Worthwhile`) never falls, and a purchase that is not rounded buys the full worth |

`TypeProofs` proves the types of all parts together, `TypesTheorem` (`TypeOK`), for any values of
the constants. The invariants above contain the types their properties need, and imply
`TypeOK` of eleven of the eighteen parts as they are. `Typed` adds what the other seven
lack:
a webhook's attempts stay below the limit and no record lies ahead of the clock (`HookRest`);
only a loan being repaid is audited, and it has missed less than makes a default (`FeeRest`);
the vault's liquidity never goes below zero, which needs the longest prefix of the queue that
can be paid (`VaultRest`, `VaultPays`); an active multisig threshold can be met
by the signers there are, and a proposed one by the signers proposed (`QuorumRest`);
caps, amounts and chains of the bridge are configured ones (`BridgeRest`); and the marks of
staking pool and committee are about what exists (`StakeRest`, `CommitteeRest`).
`LimitsAssumption` asks that a webhook is tried at least once and that a loan defaults after a
miss, as the configured values have it.

Only model-checked:

* All liveness (`LeadershipRecovers`, `ServicingSettles`, `QueuedIsSettled`, and the fairness of `Delivery`, so the
  other half of the refinement): the prover handles neither fairness nor `ENABLED`.

## 5. Not modelled

* *Insurance pool:* counters behind an admin's signature; of interest only with the default
  path of the lending pool. *Verification registry, oracle:* records written and read one
  call at a time, and arithmetic over submitted feeds; no sequence of calls matters.
* *Rest of the lending pool and escrow:* listed in section 2.
* *Authentication and sessions, rate limits:* parsing, and counters that only refuse.
* *KYC, documents, scoring, rate sheets:* calls to providers and heuristics with no
  specification to check against but themselves.
* *Read models, notifications, exports, reports:* output. The *pages of the front end* show what
  backend and contracts answer, and *infrastructure* is deployment: no protocol of their own.

Most of the repository's lines are of these kinds; the modules cover the services and
contracts that keep state other parts rely on.

## 6. Plan

1. `Milestone`, its run and its proofs. *Done.*
2. `JobLeaderElection`, `ServicingApproval`, `EventPipeline` with `Delivery`. *Done.*
3. `LendingPool`, its runs and its proofs. *Done*, for investors and the life of a loan.
4. The other contracts that hold value or decide (`Escrow` with `YieldVault`, `StakingPool`,
   `Governance`, `MultisigValidator`, `BridgeAdapter`) and the services that keep shared state
   (indexer, audit chain, loan desk, idempotency, webhooks, late fees, shutdown, RPC gateway,
   erasure), and the wallet session and transaction flow of the web application. *Done.*
5. `Milestone` and `LendingPool` composed: a release that the pool pays, a dispute it
   takes back. Then what is left out of the pool, credit lines and restructuring first.
6. Proofs: the contracts of items 1 and 3, the backend of item 2 with the safety half of
   `Delivery`, and the property of every part of item 4. *Done.*
