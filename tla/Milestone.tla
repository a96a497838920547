------------------------------- MODULE Milestone -------------------------------
(***************************************************************************)
(* The milestone disbursement contract, contracts/milestone/src/lib.rs.    *)
(*                                                                         *)
(* A contractor proposes a milestone of a loan, a multisig of approvers    *)
(* votes on it, and once a timelock has passed the admin releases its      *)
(* amount, at once or in parts, by calling the lending pool's `disburse'.  *)
(* Approvers may send a proposal back, change its budget or dispute it;    *)
(* borrower and admin may take an approved milestone to arbitration.       *)
(*                                                                         *)
(* A contract call is one transaction: it runs alone and an error undoes   *)
(* all of it, so every entry point is one action whose guard is the        *)
(* conjunction of the checks, and a call that fails is a stuttering step.  *)
(* (For the same reason the `Reentrant' flag is FALSE in every state       *)
(* between two steps, and it is left out.)  Time is the ledger sequence.   *)
(*                                                                         *)
(* A storage key that is not set is a record of zeros: status "Absent",    *)
(* outcome "None", threshold 0, new_amount 0.  No operation writes these.  *)
(***************************************************************************)
EXTENDS Integers, Sequences, FiniteSets, Functions

CONSTANTS
  Proposals,        \* proposal ids
  MilestoneIds,     \* the Symbols that key budget changes
  Loans,            \* loan ids of the lending pool
  Addresses,        \* contractors, borrowers, approvers, arbitrators, admin
  Admin,            \* config.admin
  BorrowerOf,       \* the lending pool's get_loan_borrower, None if no loan
  ApproverLists,    \* the Vec<Address> values initialize may be given
  ArbitratorLists,  \* the ones set_arbitration_config may be given
  ApprovalThresholds,     \* thresholds initialize may be given
  ArbitrationThresholds,  \* thresholds set_arbitration_config may be given
  Amounts,          \* amounts a caller may pass
  Delays,           \* timelocks the admin may set
  Windows,          \* arbitration windows the admin may set
  BonusRates,       \* performance bonuses, in basis points
  DefaultDelay,     \* DEFAULT_MIN_DELAY_LEDGERS
  DefaultDeadline,  \* DEFAULT_MILESTONE_DEADLINE_LEDGERS
  MaxLedger,        \* bound on time
  MaxBonusPool,     \* bound on what funders put in the bonus pool
  None              \* no address, no loan, no proposal

ASSUME MilestoneAssumption ==
  /\ Admin \in Addresses
  /\ None \notin Addresses \cup Loans \cup Proposals
  /\ BorrowerOf \in [Loans -> Addresses \cup {None}]
  /\ ApproverLists \subseteq Seq(Addresses)
  /\ ArbitratorLists \subseteq Seq(Addresses)
  /\ ApprovalThresholds \subseteq Nat
  /\ ArbitrationThresholds \subseteq Nat
  /\ Amounts \subseteq Int
  /\ Delays \subseteq Nat
  /\ Windows \subseteq Nat
  /\ BonusRates \subseteq Nat
  /\ DefaultDelay \in Nat
  /\ DefaultDeadline \in Nat
  /\ MaxLedger \in Nat
  /\ MaxBonusPool \in Nat

VARIABLES
  ledger,           \* env.ledger().sequence()
  config,           \* DataKey::Config
  milestone_count,  \* DataKey::MilestoneCount
  milestones,       \* DataKey::Milestone(proposal)
  voted,            \* DataKey::Voted(proposal, approver), as a set per proposal
  budget_changes,   \* DataKey::BudgetChange(symbol)
  budget_voted,     \* DataKey::BudgetChangeVoted(symbol, approver)
  arbitration,      \* DataKey::ArbitrationConfig
  disputes,         \* DataKey::Dispute(proposal)
  dispute_voted,    \* DataKey::DisputeVoted(proposal, arbitrator)
  bonus_pool,       \* DataKey::BonusPool
  \* What the calls out of the contract have added up to, per proposal:
  paid,             \* disbursed by the lending pool
  bonus_paid,       \* transferred out of the bonus pool
  refund_asked,     \* the amount passed to the lending pool's refund
  ever_rejected     \* whether reject_milestone ever succeeded

govVars == <<config, arbitration>>
budgetVars == <<budget_changes, budget_voted>>
disputeVars == <<disputes, dispute_voted>>
calls == <<paid, bonus_paid, refund_asked>>
vars == <<ledger, config, milestone_count, milestones, voted, budget_changes,
          budget_voted, arbitration, disputes, dispute_voted, bonus_pool,
          paid, bonus_paid, refund_asked, ever_rejected>>

Statuses == {"Absent", "Proposed", "Approved", "Disbursed", "Disputed",
             "Refunded", "PartiallyDisbursed", "Rejected"}
Outcomes == {"None", "Pending", "Upheld", "Rejected", "TimedOut"}

MilestoneRecord ==
  [loan_id: Loans \cup {None}, contractor: Addresses \cup {None}, amount: Nat,
   status: Statuses, votes: Nat, approved_ledger: Nat, released_amount: Nat,
   deadline_ledger: Nat, was_resubmitted: BOOLEAN, bonus_awarded: BOOLEAN]

MilestoneConfig ==
  [approvers: Seq(Addresses), threshold: Nat, min_delay_ledgers: Nat,
   performance_bonus_bps: Nat]

BudgetChangeProposal ==
  [proposal_id: Proposals \cup {None}, new_amount: Nat, votes: Nat, executed: BOOLEAN]

ArbitrationConfig ==
  [arbitrators: Seq(Addresses), threshold: Nat, window_ledgers: Nat]

DisputeRecord ==
  [prior_status: Statuses, deadline_ledger: Nat, uphold_votes: Nat,
   reject_votes: Nat, outcome: Outcomes]

NoMilestone ==
  [loan_id |-> None, contractor |-> None, amount |-> 0, status |-> "Absent",
   votes |-> 0, approved_ledger |-> 0, released_amount |-> 0,
   deadline_ledger |-> 0, was_resubmitted |-> FALSE, bonus_awarded |-> FALSE]

Init ==
  /\ ledger = 0
  /\ config = [approvers |-> << >>, threshold |-> 0, min_delay_ledgers |-> 0,
               performance_bonus_bps |-> 0]
  /\ milestone_count = 0
  /\ milestones = [p \in Proposals |-> NoMilestone]
  /\ voted = [p \in Proposals |-> {}]
  /\ budget_changes = [s \in MilestoneIds |->
       [proposal_id |-> None, new_amount |-> 0, votes |-> 0, executed |-> FALSE]]
  /\ budget_voted = [s \in MilestoneIds |-> {}]
  /\ arbitration = [arbitrators |-> << >>, threshold |-> 0, window_ledgers |-> 0]
  /\ disputes = [p \in Proposals |->
       [prior_status |-> "Absent", deadline_ledger |-> 0, uphold_votes |-> 0,
        reject_votes |-> 0, outcome |-> "None"]]
  /\ dispute_voted = [p \in Proposals |-> {}]
  /\ bonus_pool = 0
  /\ paid = [p \in Proposals |-> 0]
  /\ bonus_paid = [p \in Proposals |-> 0]
  /\ refund_asked = [p \in Proposals |-> 0]
  /\ ever_rejected = [p \in Proposals |-> FALSE]

-----------------------------------------------------------------------------
(* Helpers.                                                                *)

\* Writing a record back to storage.
set_milestone(p, record) == milestones' = [milestones EXCEPT ![p] = record]
set_dispute(p, dispute) == disputes' = [disputes EXCEPT ![p] = dispute]
set_budget_change_proposal(s, proposal) ==
  budget_changes' = [budget_changes EXCEPT ![s] = proposal]

\* read_config: the contract has been initialized.
Initialized == config.threshold # 0

\* config.approvers.contains(a)
IsApprover(a) == a \in Range(config.approvers)

\* An evidence hash and CID as a caller may pass them, and the ones accepted.
Evidence == [hash: {"zeroed", "digest"}, cid: {"v0", "v1", "malformed"}]
ValidEvidence(e) == e.hash # "zeroed" /\ e.cid \in {"v0", "v1"}

\* record.amount - record.released_amount
Remaining(m) == m.amount - m.released_amount

Releasable(m) == m.status \in {"Approved", "PartiallyDisbursed"}

TimelockElapsed(m) == ledger >= m.approved_ledger + config.min_delay_ledgers

\* The bonus maybe_award_bonus pays for m: a share of the amount, capped by
\* the pool, for a milestone approved on time and at its first submission.
Bonus(m) ==
  LET full == (m.amount * config.performance_bonus_bps) \div 10000
  IN  IF m.was_resubmitted \/ m.approved_ledger > m.deadline_ledger
        THEN 0
        ELSE IF full < bonus_pool THEN full ELSE bonus_pool

-----------------------------------------------------------------------------
(* Setting up and administering the contract.                              *)

initialize(approvers, threshold) ==
  /\ ~Initialized
  /\ threshold # 0 /\ threshold <= Len(approvers)
  /\ config' = [approvers |-> approvers, threshold |-> threshold,
                min_delay_ledgers |-> DefaultDelay, performance_bonus_bps |-> 0]
  /\ milestone_count' = 0
  /\ UNCHANGED <<ledger, milestones, voted, budgetVars, arbitration, disputeVars,
                 bonus_pool, calls, ever_rejected>>

set_min_delay_ledgers(delay) ==
  /\ Initialized
  /\ config' = [config EXCEPT !.min_delay_ledgers = delay]
  /\ UNCHANGED <<ledger, milestone_count, milestones, voted, budgetVars,
                 arbitration, disputeVars, bonus_pool, calls, ever_rejected>>

set_performance_bonus_bps(bps) ==
  /\ Initialized
  /\ bps <= 10000
  /\ config' = [config EXCEPT !.performance_bonus_bps = bps]
  /\ UNCHANGED <<ledger, milestone_count, milestones, voted, budgetVars,
                 arbitration, disputeVars, bonus_pool, calls, ever_rejected>>

set_arbitration_config(arbitrators, threshold, window) ==
  /\ Initialized
  /\ threshold # 0 /\ threshold <= Len(arbitrators)
  /\ window # 0
  /\ arbitration' = [arbitrators |-> arbitrators, threshold |-> threshold,
                     window_ledgers |-> window]
  /\ UNCHANGED <<ledger, config, milestone_count, milestones, voted, budgetVars,
                 disputeVars, bonus_pool, calls, ever_rejected>>

fund_bonus_pool(amount) ==
  /\ Initialized
  /\ amount > 0
  /\ bonus_pool + amount <= MaxBonusPool
  /\ bonus_pool' = bonus_pool + amount
  /\ UNCHANGED <<ledger, govVars, milestone_count, milestones, voted, budgetVars,
                 disputeVars, calls, ever_rejected>>

-----------------------------------------------------------------------------
(* Proposing and approving.                                                *)

propose_milestone(contractor, p, loan, amount, evidence) ==
  /\ Initialized
  /\ amount > 0
  /\ ValidEvidence(evidence)
  /\ milestones[p].status = "Absent"
  /\ BorrowerOf[loan] # contractor
  /\ set_milestone(p,
       [NoMilestone EXCEPT !.loan_id = loan, !.contractor = contractor,
                           !.amount = amount, !.status = "Proposed",
                           !.deadline_ledger = ledger + DefaultDeadline])
  /\ milestone_count' = milestone_count + 1
  /\ UNCHANGED <<ledger, govVars, voted, budgetVars, disputeVars, bonus_pool,
                 calls, ever_rejected>>

approve_milestone(approver, p) ==
  /\ Initialized
  /\ IsApprover(approver)
  /\ milestones[p].status = "Proposed"
  /\ approver \notin voted[p]
  /\ voted' = [voted EXCEPT ![p] = @ \cup {approver}]
  /\ LET votes == milestones[p].votes + 1
     IN  set_milestone(p,
           IF votes >= config.threshold
           THEN [milestones[p] EXCEPT !.votes = votes, !.status = "Approved",
                                      !.approved_ledger = ledger]
           ELSE [milestones[p] EXCEPT !.votes = votes])
  /\ UNCHANGED <<ledger, govVars, milestone_count, budgetVars, disputeVars,
                 bonus_pool, calls, ever_rejected>>

\* Mutant: the vote count survives the rejection.
reject_keeping_votes(approver, p) ==
  /\ Initialized
  /\ IsApprover(approver)
  /\ milestones[p].status = "Proposed"
  /\ voted' = [voted EXCEPT ![p] = @ \ Range(config.approvers)]
  /\ set_milestone(p, [milestones[p] EXCEPT !.status = "Rejected"])
  /\ ever_rejected' = [ever_rejected EXCEPT ![p] = TRUE]
  /\ UNCHANGED <<ledger, govVars, milestone_count, budgetVars, disputeVars,
                 bonus_pool, calls>>

\* Any one approver sends the proposal back, and every vote is cleared.
reject_milestone(approver, p) ==
  /\ Initialized
  /\ IsApprover(approver)
  /\ milestones[p].status = "Proposed"
  /\ voted' = [voted EXCEPT ![p] = @ \ Range(config.approvers)]
  /\ set_milestone(p, [milestones[p] EXCEPT !.votes = 0, !.status = "Rejected"])
  /\ ever_rejected' = [ever_rejected EXCEPT ![p] = TRUE]
  /\ UNCHANGED <<ledger, govVars, milestone_count, budgetVars, disputeVars,
                 bonus_pool, calls>>

\* Mutant: a resubmission is not remembered.
resubmit_unmarked(contractor, p, evidence) ==
  /\ milestones[p].status = "Rejected"
  /\ milestones[p].contractor = contractor
  /\ ValidEvidence(evidence)
  /\ set_milestone(p, [milestones[p] EXCEPT !.status = "Proposed"])
  /\ UNCHANGED <<ledger, govVars, milestone_count, voted, budgetVars, disputeVars,
                 bonus_pool, calls, ever_rejected>>

resubmit_milestone(contractor, p, evidence) ==
  /\ milestones[p].status = "Rejected"
  /\ milestones[p].contractor = contractor
  /\ ValidEvidence(evidence)
  /\ set_milestone(p, [milestones[p] EXCEPT !.status = "Proposed",
                                            !.was_resubmitted = TRUE])
  /\ UNCHANGED <<ledger, govVars, milestone_count, voted, budgetVars, disputeVars,
                 bonus_pool, calls, ever_rejected>>

set_milestone_deadline(contractor, p, deadline) ==
  /\ milestones[p].status \in {"Proposed", "Rejected"}
  /\ milestones[p].contractor = contractor
  /\ deadline > ledger
  /\ set_milestone(p, [milestones[p] EXCEPT !.deadline_ledger = deadline])
  /\ UNCHANGED <<ledger, govVars, milestone_count, voted, budgetVars, disputeVars,
                 bonus_pool, calls, ever_rejected>>

-----------------------------------------------------------------------------
(* Budget changes.  Anyone may propose one; the call that would check it   *)
(* against the loan ("chk_bgt") has its result discarded.                  *)

propose_milestone_budget_change(s, p, new_budget) ==
  /\ Initialized
  /\ new_budget > 0
  /\ milestones[p].status = "Proposed"
  /\ budget_changes[s].new_amount = 0
  /\ set_budget_change_proposal(s,
       [proposal_id |-> p, new_amount |-> new_budget, votes |-> 0, executed |-> FALSE])
  /\ UNCHANGED <<ledger, govVars, milestone_count, milestones, voted, budget_voted,
                 disputeVars, bonus_pool, calls, ever_rejected>>

\* The deciding vote writes the new amount whatever the milestone's status.
vote_budget_change(approver, s) ==
  /\ Initialized
  /\ IsApprover(approver)
  /\ budget_changes[s].new_amount # 0
  /\ ~budget_changes[s].executed
  /\ approver \notin budget_voted[s]
  /\ budget_voted' = [budget_voted EXCEPT ![s] = @ \cup {approver}]
  /\ LET proposal == budget_changes[s]
         votes == proposal.votes + 1
         p == proposal.proposal_id
     IN  IF votes >= config.threshold
         THEN /\ set_milestone(p, [milestones[p] EXCEPT !.amount = proposal.new_amount])
              /\ set_budget_change_proposal(s,
                   [proposal EXCEPT !.votes = votes, !.executed = TRUE])
         ELSE /\ set_budget_change_proposal(s, [proposal EXCEPT !.votes = votes])
              /\ UNCHANGED milestones
  /\ UNCHANGED <<ledger, govVars, milestone_count, voted, disputeVars, bonus_pool,
                 calls, ever_rejected>>

-----------------------------------------------------------------------------
(* Releasing.  The lending pool's `disburse' traps when it refuses, which  *)
(* undoes the call, so a release that is a step is one the pool has paid.  *)

\* Mutant: the whole amount is paid, whatever was released before.
release_in_full(p) ==
  LET m == milestones[p]
  IN  /\ Initialized
      /\ Releasable(m)
      /\ TimelockElapsed(m)
      /\ Remaining(m) > 0
      /\ paid' = [paid EXCEPT ![p] = @ + m.amount]
      /\ set_milestone(p, [m EXCEPT !.released_amount = m.amount, !.status = "Disbursed"])
      /\ UNCHANGED <<ledger, govVars, milestone_count, voted, budgetVars, bonus_pool,
                     bonus_paid, disputeVars, refund_asked, ever_rejected>>

release_milestone(p) ==
  LET m == milestones[p]
  IN  /\ Initialized
      /\ Releasable(m)
      /\ TimelockElapsed(m)
      /\ Remaining(m) > 0
      /\ paid' = [paid EXCEPT ![p] = @ + Remaining(m)]
      /\ bonus_pool' = bonus_pool - Bonus(m)
      /\ bonus_paid' = [bonus_paid EXCEPT ![p] = @ + Bonus(m)]
      /\ set_milestone(p, [m EXCEPT !.released_amount = m.amount,
                                    !.status = "Disbursed",
                                    !.bonus_awarded = @ \/ Bonus(m) > 0])
      /\ UNCHANGED <<ledger, govVars, milestone_count, voted, budgetVars,
                     disputeVars, refund_asked, ever_rejected>>

partially_approve_milestone(p, release_amount) ==
  LET m == milestones[p]
      released == m.released_amount + release_amount
  IN  /\ Initialized
      /\ Releasable(m)
      /\ release_amount > 0
      /\ release_amount <= Remaining(m)
      /\ TimelockElapsed(m)
      /\ paid' = [paid EXCEPT ![p] = @ + release_amount]
      /\ set_milestone(p, [m EXCEPT
           !.released_amount = released,
           !.status = IF released >= m.amount THEN "Disbursed"
                                              ELSE "PartiallyDisbursed"])
      /\ UNCHANGED <<ledger, govVars, milestone_count, voted, budgetVars,
                     disputeVars, bonus_pool, bonus_paid, refund_asked, ever_rejected>>

-----------------------------------------------------------------------------
(* Disputes.                                                               *)

\* Mutant: a milestone under arbitration may be disputed here too.
dispute_under_arbitration(approver, p) ==
  /\ Initialized
  /\ IsApprover(approver)
  /\ milestones[p].status \in {"Approved", "Disputed"}
  /\ set_milestone(p, [milestones[p] EXCEPT !.status = "Refunded"])
  /\ UNCHANGED <<ledger, govVars, milestone_count, voted, budgetVars, disputeVars,
                 bonus_pool, calls, ever_rejected>>

\* One approver is enough; the outcome of the refund call is discarded.
dispute_milestone(approver, p) ==
  LET m == milestones[p]
  IN  /\ Initialized
      /\ IsApprover(approver)
      /\ m.status \in {"Approved", "Disbursed"}
      /\ set_milestone(p, [m EXCEPT !.status = "Refunded"])
      /\ refund_asked' = IF m.status = "Disbursed"
           THEN [refund_asked EXCEPT ![p] = @ + m.amount]
           ELSE refund_asked
      /\ UNCHANGED <<ledger, govVars, milestone_count, voted, budgetVars,
                     disputeVars, bonus_pool, paid, bonus_paid, ever_rejected>>

raise_dispute(caller, p) ==
  /\ Initialized
  /\ arbitration.threshold # 0
  /\ disputes[p].outcome = "None"
  /\ milestones[p].status = "Approved"
  /\ caller = Admin \/ caller = BorrowerOf[milestones[p].loan_id]
  /\ set_dispute(p,
       [prior_status |-> milestones[p].status,
        deadline_ledger |-> ledger + arbitration.window_ledgers,
        uphold_votes |-> 0, reject_votes |-> 0, outcome |-> "Pending"])
  /\ set_milestone(p, [milestones[p] EXCEPT !.status = "Disputed"])
  /\ UNCHANGED <<ledger, govVars, milestone_count, voted, budgetVars,
                 dispute_voted, bonus_pool, calls, ever_rejected>>

\* Mutant: votes are taken after the dispute is resolved.
vote_resolved_dispute(arbitrator, p, uphold) ==
  LET d == disputes[p]
      ups == IF uphold THEN d.uphold_votes + 1 ELSE d.uphold_votes
      upheld == ups >= arbitration.threshold
  IN  /\ arbitrator \in Range(arbitration.arbitrators) \ dispute_voted[p]
      /\ d.outcome # "None" /\ ledger <= d.deadline_ledger
      /\ dispute_voted' = [dispute_voted EXCEPT ![p] = @ \cup {arbitrator}]
      /\ set_dispute(p, [d EXCEPT !.uphold_votes = ups,
                                  !.outcome = IF upheld THEN "Upheld" ELSE "Rejected"])
      /\ set_milestone(p, [milestones[p] EXCEPT
           !.status = IF upheld THEN "Refunded" ELSE d.prior_status])
      /\ UNCHANGED <<ledger, govVars, milestone_count, voted, budgetVars,
                     bonus_pool, calls, ever_rejected>>

\* The tallies are compared with the threshold in force now, uphold first.
vote_dispute(arbitrator, p, uphold) ==
  LET d == disputes[p]
      ups == IF uphold THEN d.uphold_votes + 1 ELSE d.uphold_votes
      downs == IF uphold THEN d.reject_votes ELSE d.reject_votes + 1
      outcome == IF ups >= arbitration.threshold THEN "Upheld"
                 ELSE IF downs >= arbitration.threshold THEN "Rejected"
                 ELSE "Pending"
  IN  /\ arbitration.threshold # 0
      /\ arbitrator \in Range(arbitration.arbitrators)
      /\ d.outcome = "Pending"
      /\ ledger <= d.deadline_ledger
      /\ arbitrator \notin dispute_voted[p]
      /\ dispute_voted' = [dispute_voted EXCEPT ![p] = @ \cup {arbitrator}]
      /\ set_dispute(p, [d EXCEPT !.uphold_votes = ups, !.reject_votes = downs,
                                  !.outcome = outcome])
      /\ \/ /\ outcome = "Upheld"
            /\ set_milestone(p, [milestones[p] EXCEPT !.status = "Refunded"])
         \/ /\ outcome = "Rejected"
            /\ set_milestone(p, [milestones[p] EXCEPT !.status = d.prior_status])
         \/ /\ outcome = "Pending"
            /\ UNCHANGED milestones
      /\ UNCHANGED <<ledger, govVars, milestone_count, voted, budgetVars,
                     bonus_pool, calls, ever_rejected>>

resolve_expired_dispute(p) ==
  /\ disputes[p].outcome = "Pending"
  /\ ledger > disputes[p].deadline_ledger
  /\ set_milestone(p, [milestones[p] EXCEPT !.status = disputes[p].prior_status])
  /\ set_dispute(p, [disputes[p] EXCEPT !.outcome = "TimedOut"])
  /\ UNCHANGED <<ledger, govVars, milestone_count, voted, budgetVars,
                 dispute_voted, bonus_pool, calls, ever_rejected>>

-----------------------------------------------------------------------------
\* A ledger closes.
CloseLedger ==
  /\ ledger < MaxLedger
  /\ ledger' = ledger + 1
  /\ UNCHANGED <<govVars, milestone_count, milestones, voted, budgetVars,
                 disputeVars, bonus_pool, calls, ever_rejected>>

Govern ==
  \/ \E l \in ApproverLists, t \in ApprovalThresholds : initialize(l, t)
  \/ \E d \in Delays : set_min_delay_ledgers(d)
  \/ \E b \in BonusRates : set_performance_bonus_bps(b)
  \/ \E l \in ArbitratorLists, t \in ArbitrationThresholds, w \in Windows :
       set_arbitration_config(l, t, w)
  \/ \E n \in Amounts : fund_bonus_pool(n)

Submit(p) ==
  \/ \E c \in Addresses, l \in Loans, n \in Amounts, e \in Evidence :
       propose_milestone(c, p, l, n, e)
  \/ \E c \in Addresses, e \in Evidence : resubmit_milestone(c, p, e)
  \/ \E c \in Addresses, d \in 0..MaxLedger : set_milestone_deadline(c, p, d)

Vote(p) ==
  \/ \E a \in Addresses : approve_milestone(a, p)
  \/ \E a \in Addresses : reject_milestone(a, p)

ChangeBudget ==
  \/ \E s \in MilestoneIds, p \in Proposals, n \in Amounts :
       propose_milestone_budget_change(s, p, n)
  \/ \E s \in MilestoneIds, a \in Addresses : vote_budget_change(a, s)

Release(p) ==
  \/ release_milestone(p)
  \/ \E n \in Amounts : partially_approve_milestone(p, n)

Dispute(p) ==
  \/ \E a \in Addresses : dispute_milestone(a, p)
  \/ \E a \in Addresses : raise_dispute(a, p)
  \/ \E a \in Addresses, uphold \in BOOLEAN : vote_dispute(a, p, uphold)
  \/ resolve_expired_dispute(p)

Next ==
  \/ Govern
  \/ ChangeBudget
  \/ \E p \in Proposals : Submit(p) \/ Vote(p) \/ Release(p) \/ Dispute(p)
  \/ CloseLedger

Spec == Init /\ [][Next]_vars

-----------------------------------------------------------------------------
(* Correctness.                                                            *)

\* Every storage entry has the shape its Rust type gives it, and the amounts
\* of the release path and of the bonus pool never go negative.
TypeOK ==
  /\ ledger \in Nat
  /\ config \in MilestoneConfig
  /\ milestone_count \in Nat
  /\ milestones \in [Proposals -> MilestoneRecord]
  /\ voted \in [Proposals -> SUBSET Addresses]
  /\ budget_changes \in [MilestoneIds -> BudgetChangeProposal]
  /\ budget_voted \in [MilestoneIds -> SUBSET Addresses]
  /\ arbitration \in ArbitrationConfig
  /\ disputes \in [Proposals -> DisputeRecord]
  /\ dispute_voted \in [Proposals -> SUBSET Addresses]
  /\ bonus_pool \in Nat
  /\ paid \in [Proposals -> Nat]
  /\ bonus_paid \in [Proposals -> Nat]
  /\ refund_asked \in [Proposals -> Nat]
  /\ ever_rejected \in [Proposals -> BOOLEAN]

\* Money leaves the pool for a milestone only on the votes of `threshold'
\* different approvers, all cast on the submission that was approved: votes
\* given before a reject_milestone never count.
PaidOnlyByQuorum ==
  \A p \in Proposals : paid[p] > 0 =>
    /\ voted[p] \subseteq Range(config.approvers)
    /\ Cardinality(voted[p]) >= config.threshold

\* The contract and the pool agree on what a milestone has been paid, over
\* any mix of partial and full releases, budget changes and disputes.
BooksAgree ==
  \A p \in Proposals : paid[p] = milestones[p].released_amount

\* The dispute record and the milestone's status tell the same story: while
\* arbitration is open the milestone is Disputed (so it cannot be released or
\* refunded behind the arbitrators' back), and a dispute that was upheld has
\* refunded a milestone of which nothing was ever paid.
DisputeConsistent ==
  \A p \in Proposals :
    /\ disputes[p].outcome = "Pending" <=> milestones[p].status = "Disputed"
    /\ disputes[p].outcome \in {"Pending", "Upheld"} => paid[p] = 0
    /\ disputes[p].outcome = "Upheld" => milestones[p].status = "Refunded"

\* A performance bonus is paid at most once, and only for a milestone that no
\* approver ever sent back and that was approved by its deadline.
BonusEarned ==
  \A p \in Proposals : bonus_paid[p] > 0 =>
    /\ ~ever_rejected[p]
    /\ milestones[p].approved_ledger <= milestones[p].deadline_ledger
    /\ milestones[p].status \in {"Disbursed", "Refunded"}

\* What a dispute leaves behind stands: no later vote, budget change or timeout
\* revives a refunded milestone, pays for it, asks for its refund again or
\* reopens its arbitration; and a milestone that comes back from a dispute has
\* the approval it had, so the timelock that protects its release still runs
\* from the original approval ledger.
DisputesAreFinal ==
  [][\A p \in Proposals :
       /\ milestones[p].status = "Refunded" =>
            /\ milestones'[p].status = "Refunded"
            /\ paid'[p] = paid[p]
            /\ refund_asked'[p] = refund_asked[p]
            /\ disputes'[p] = disputes[p]
       /\ milestones[p].status \notin {"Absent", "Proposed", "Rejected"} =>
            /\ milestones'[p].approved_ledger = milestones[p].approved_ledger
            /\ milestones'[p].status \notin {"Absent", "Proposed", "Rejected"}]_vars

\* What the comment on propose_milestone_budget_change says: "Only milestones
\* in `Proposed` status can have their budget changed".
BudgetOnlyWhileProposed ==
  [][\A p \in Proposals :
       milestones[p].status # "Absent" /\ milestones'[p].amount # milestones[p].amount
         => milestones[p].status = "Proposed"]_vars
=============================================================================
