---------------------------- MODULE MilestoneProofs ----------------------------
(***************************************************************************)
(* Theorems about the milestone contract, for every set of approvers,      *)
(* proposals and amounts.                                                  *)
(***************************************************************************)
EXTENDS Milestone, FiniteSetTheorems, TLAPS

\* Empty storage is well-typed.
LEMMA InitType == Init => TypeOK
  BY MilestoneAssumption
  DEF Init, TypeOK, MilestoneConfig, MilestoneRecord, NoMilestone,
      BudgetChangeProposal, ArbitrationConfig, DisputeRecord, Statuses, Outcomes

\* The parts of TypeOK that a step which writes a milestone may disturb.
MilestonesOK == milestones \in [Proposals -> MilestoneRecord]
DisputesOK == disputes \in [Proposals -> DisputeRecord]
BudgetsOK == budget_changes \in [MilestoneIds -> BudgetChangeProposal]

\* Storing a well-formed record keeps the store well-formed.
LEMMA SetType ==
  ASSUME TypeOK
  PROVE  /\ \A p \in Proposals, r \in MilestoneRecord :
              set_milestone(p, r) => MilestonesOK'
         /\ \A p \in Proposals, d \in DisputeRecord :
              set_dispute(p, d) => DisputesOK'
         /\ \A s \in MilestoneIds, b \in BudgetChangeProposal :
              set_budget_change_proposal(s, b) => BudgetsOK'
  BY DEF TypeOK, MilestonesOK, DisputesOK, BudgetsOK, set_milestone, set_dispute,
         set_budget_change_proposal

\* Setting up and administering the contract preserves the types.
LEMMA GovernType == TypeOK /\ Govern => TypeOK'
<1> SUFFICES ASSUME TypeOK, Govern PROVE TypeOK'
  OBVIOUS
<1> USE MilestoneAssumption
<1>1. ASSUME NEW l \in ApproverLists, NEW t \in ApprovalThresholds, initialize(l, t)
      PROVE  TypeOK'
  BY <1>1 DEF TypeOK, initialize, MilestoneConfig, budgetVars, disputeVars, calls
<1>2. ASSUME NEW d \in Delays, set_min_delay_ledgers(d)
      PROVE  TypeOK'
  <2>1. config' \in MilestoneConfig
    <3>1. config \in MilestoneConfig /\ d \in Nat
      BY DEF TypeOK
    <3> QED
      BY <1>2, <3>1 DEF set_min_delay_ledgers, MilestoneConfig
  <2> QED
    BY <1>2, <2>1 DEF TypeOK, set_min_delay_ledgers, budgetVars, disputeVars, calls
<1>3. ASSUME NEW b \in BonusRates, set_performance_bonus_bps(b)
      PROVE  TypeOK'
  <2>1. config' \in MilestoneConfig
    <3>1. config \in MilestoneConfig /\ b \in Nat
      BY DEF TypeOK
    <3> QED
      BY <1>3, <3>1 DEF set_performance_bonus_bps, MilestoneConfig
  <2> QED
    BY <1>3, <2>1 DEF TypeOK, set_performance_bonus_bps, budgetVars, disputeVars, calls
<1>4. ASSUME NEW l \in ArbitratorLists, NEW t \in ArbitrationThresholds, NEW w \in Windows,
             set_arbitration_config(l, t, w)
      PROVE  TypeOK'
  BY <1>4 DEF TypeOK, set_arbitration_config, ArbitrationConfig, budgetVars,
              disputeVars, calls
<1>5. ASSUME NEW n \in Amounts, fund_bonus_pool(n)
      PROVE  TypeOK'
  BY <1>5 DEF TypeOK, fund_bonus_pool, govVars, budgetVars, disputeVars, calls
<1> QED
  BY <1>1, <1>2, <1>3, <1>4, <1>5 DEF Govern

\* The bonus is a natural number the pool can pay.
LEMMA BonusBounded ==
  ASSUME TypeOK, NEW p \in Proposals
  PROVE  Bonus(milestones[p]) \in Nat /\ Bonus(milestones[p]) <= bonus_pool
<1> DEFINE prod == milestones[p].amount * config.performance_bonus_bps
<1>1. milestones[p].amount \in Nat /\ config.performance_bonus_bps \in Nat
  BY DEF TypeOK, MilestoneRecord, MilestoneConfig
<1>2. prod \in Nat
  BY <1>1
<1> HIDE DEF prod
<1>3. prod \div 10000 \in Nat
  BY <1>2
<1>4. bonus_pool \in Nat
  BY DEF TypeOK
<1> QED
  BY <1>3, <1>4 DEF Bonus, prod

\* Proposing, resubmitting, deadlines, approvals and rejections preserve the types.
LEMMA SubmitType == \A p \in Proposals : TypeOK /\ (Submit(p) \/ Vote(p)) => TypeOK'
<1> SUFFICES ASSUME NEW p \in Proposals, TypeOK, Submit(p) \/ Vote(p) PROVE TypeOK'
  OBVIOUS
<1> USE MilestoneAssumption
<1> DEFINE m == milestones[p]
<1>0. m \in MilestoneRecord /\ m.votes + 1 \in Nat /\ ledger \in Nat
  BY DEF TypeOK, MilestoneRecord
<1>1. ASSUME NEW c \in Addresses, NEW l \in Loans, NEW n \in Amounts, NEW e \in Evidence,
             propose_milestone(c, p, l, n, e)
      PROVE  TypeOK'
  <2> DEFINE r == [NoMilestone EXCEPT !.loan_id = l, !.contractor = c, !.amount = n,
                     !.status = "Proposed", !.deadline_ledger = ledger + DefaultDeadline]
  <2>1. r \in MilestoneRecord
    <3> DEFINE deadline == ledger + DefaultDeadline
    <3>1. deadline \in Nat /\ n \in Nat
      BY <1>0, <1>1 DEF propose_milestone
    <3>2. NoMilestone \in MilestoneRecord
      BY DEF NoMilestone, MilestoneRecord, Statuses
    <3> HIDE DEF deadline
    <3>3. [NoMilestone EXCEPT !.loan_id = l, !.contractor = c, !.amount = n,
             !.status = "Proposed", !.deadline_ledger = deadline] \in MilestoneRecord
      BY <3>1, <3>2 DEF MilestoneRecord, Statuses
    <3> QED
      BY <3>3 DEF deadline
  <2>2. set_milestone(p, r)
    BY <1>1 DEF propose_milestone
  <2>3. MilestonesOK'
    BY <2>1, <2>2, SetType
  <2> QED
    BY <1>1, <2>3 DEF propose_milestone, TypeOK, MilestonesOK, govVars, budgetVars,
                      disputeVars, calls
<1>2. ASSUME NEW c \in Addresses, NEW e \in Evidence, resubmit_milestone(c, p, e)
      PROVE  TypeOK'
  <2>1. [m EXCEPT !.status = "Proposed", !.was_resubmitted = TRUE] \in MilestoneRecord
    BY <1>0 DEF MilestoneRecord, Statuses
  <2>2. MilestonesOK'
    BY <1>2, <2>1, SetType DEF resubmit_milestone
  <2> QED
    BY <1>2, <2>2 DEF resubmit_milestone, TypeOK, MilestonesOK, govVars, budgetVars,
                      disputeVars, calls
<1>3. ASSUME NEW c \in Addresses, NEW d \in 0..MaxLedger, set_milestone_deadline(c, p, d)
      PROVE  TypeOK'
  <2>1. [m EXCEPT !.deadline_ledger = d] \in MilestoneRecord
    <3>1. d \in Nat
      OBVIOUS
    <3> HIDE DEF m
    <3> QED
      BY <1>0, <3>1 DEF MilestoneRecord
  <2>2. MilestonesOK'
    BY <1>3, <2>1, SetType DEF set_milestone_deadline
  <2> QED
    BY <1>3, <2>2 DEF set_milestone_deadline, TypeOK, MilestonesOK, govVars, budgetVars,
                      disputeVars, calls
<1>4. ASSUME NEW a \in Addresses, approve_milestone(a, p)
      PROVE  TypeOK'
  <2> DEFINE v == m.votes + 1
  <2>1. /\ [m EXCEPT !.votes = v, !.status = "Approved",
                     !.approved_ledger = ledger] \in MilestoneRecord
        /\ [m EXCEPT !.votes = v] \in MilestoneRecord
    <3>1. v \in Nat
      BY <1>0
    <3> HIDE DEF v, m
    <3> QED
      BY <1>0, <3>1 DEF MilestoneRecord, Statuses
  <2>2. MilestonesOK'
    BY <1>4, <2>1, SetType DEF approve_milestone
  <2> QED
    BY <1>4, <2>2 DEF approve_milestone, TypeOK, MilestonesOK, govVars, budgetVars,
                      disputeVars, calls
<1>5. ASSUME NEW a \in Addresses, reject_milestone(a, p)
      PROVE  TypeOK'
  <2>1. [m EXCEPT !.votes = 0, !.status = "Rejected"] \in MilestoneRecord
    BY <1>0 DEF MilestoneRecord, Statuses
  <2>2. MilestonesOK'
    BY <1>5, <2>1, SetType DEF reject_milestone
  <2> QED
    BY <1>5, <2>2 DEF reject_milestone, TypeOK, MilestonesOK, govVars, budgetVars,
                      disputeVars, calls
<1> QED
  BY <1>1, <1>2, <1>3, <1>4, <1>5 DEF Submit, Vote

\* Budget changes preserve the types.
LEMMA ChangeBudgetType == TypeOK /\ ChangeBudget => TypeOK'
<1> SUFFICES ASSUME TypeOK, ChangeBudget PROVE TypeOK'
  OBVIOUS
<1> USE MilestoneAssumption
<1>1. ASSUME NEW s \in MilestoneIds, NEW p \in Proposals, NEW n \in Amounts,
             propose_milestone_budget_change(s, p, n)
      PROVE  TypeOK'
  <2>1. [proposal_id |-> p, new_amount |-> n, votes |-> 0, executed |-> FALSE]
          \in BudgetChangeProposal
    <3>1. n \in Int
      OBVIOUS
    <3>2. n > 0
      BY <1>1 DEF propose_milestone_budget_change
    <3>3. n \in Nat
      BY <3>1, <3>2
    <3> QED
      BY <3>3 DEF BudgetChangeProposal
  <2>2. BudgetsOK'
    BY <1>1, <2>1, SetType DEF propose_milestone_budget_change
  <2> QED
    BY <1>1, <2>2 DEF propose_milestone_budget_change, TypeOK, BudgetsOK, govVars,
                      disputeVars, calls
<1>2. ASSUME NEW s \in MilestoneIds, NEW a \in Addresses, vote_budget_change(a, s)
      PROVE  TypeOK'
  <2> DEFINE b == budget_changes[s]
             v == b.votes + 1
             p == b.proposal_id
  <2>1. b \in BudgetChangeProposal /\ v \in Nat /\ b.new_amount \in Nat
    BY DEF TypeOK, BudgetChangeProposal
  <2>2. /\ [b EXCEPT !.votes = v] \in BudgetChangeProposal
        /\ [b EXCEPT !.votes = v, !.executed = TRUE] \in BudgetChangeProposal
    BY <2>1 DEF BudgetChangeProposal
  <2>3. BudgetsOK'
    BY <1>2, <2>2, SetType DEF vote_budget_change
  <2>4. MilestonesOK'
    <3>1. CASE p \in Proposals /\ v >= config.threshold
      <4>1. [milestones[p] EXCEPT !.amount = b.new_amount] \in MilestoneRecord
        <5>1. milestones[p] \in MilestoneRecord
          BY <3>1 DEF TypeOK
        <5> HIDE DEF b, p
        <5> QED
          BY <2>1, <5>1 DEF MilestoneRecord
      <4> QED
        BY <1>2, <3>1, <4>1, SetType DEF vote_budget_change
    <3>2. CASE p \notin Proposals /\ v >= config.threshold
      BY <1>2, <3>2 DEF vote_budget_change, set_milestone, TypeOK, MilestonesOK
    <3>3. CASE ~(v >= config.threshold)
      BY <1>2, <3>3 DEF vote_budget_change, TypeOK, MilestonesOK
    <3> QED
      BY <3>1, <3>2, <3>3
  <2> QED
    BY <1>2, <2>3, <2>4 DEF vote_budget_change, TypeOK, BudgetsOK, MilestonesOK, govVars,
                            disputeVars, calls
<1> QED
  BY <1>1, <1>2 DEF ChangeBudget

\* Full and partial releases preserve the types: nothing becomes negative.
LEMMA ReleaseType == \A p \in Proposals : TypeOK /\ Release(p) => TypeOK'
<1> SUFFICES ASSUME NEW p \in Proposals, TypeOK, Release(p) PROVE TypeOK'
  OBVIOUS
<1> USE MilestoneAssumption
<1> DEFINE m == milestones[p]
<1>0. /\ m \in MilestoneRecord /\ m.amount \in Nat /\ m.released_amount \in Nat
      /\ Remaining(m) \in Int /\ paid \in [Proposals -> Nat]
  BY DEF TypeOK, MilestoneRecord, Remaining
<1>1. CASE release_milestone(p)
  <2> DEFINE bonus == Bonus(m)
             won == m.bonus_awarded \/ bonus > 0
  <2>1. bonus \in Nat /\ bonus <= bonus_pool
    BY BonusBounded
  <2>2. [m EXCEPT !.released_amount = m.amount, !.status = "Disbursed",
                  !.bonus_awarded = won] \in MilestoneRecord
    <3>1. won \in BOOLEAN
      OBVIOUS
    <3> HIDE DEF won
    <3> QED
      BY <1>0, <3>1 DEF MilestoneRecord, Statuses
  <2>3. MilestonesOK'
    BY <1>1, <2>2, SetType DEF release_milestone
  <2>4. paid' \in [Proposals -> Nat]
    BY <1>0, <1>1 DEF release_milestone
  <2> HIDE DEF bonus
  <2>5. bonus_pool' \in Nat /\ bonus_paid' \in [Proposals -> Nat]
    BY <1>1, <2>1 DEF release_milestone, TypeOK, bonus
  <2> QED
    BY <1>1, <2>3, <2>4, <2>5 DEF release_milestone, TypeOK, MilestonesOK, govVars,
                                  budgetVars, disputeVars
<1>2. ASSUME NEW n \in Amounts, partially_approve_milestone(p, n)
      PROVE  TypeOK'
  <2> DEFINE released == m.released_amount + n
             status == IF released >= m.amount THEN "Disbursed" ELSE "PartiallyDisbursed"
  <2>1. n \in Nat /\ released \in Nat /\ status \in Statuses
    BY <1>0, <1>2 DEF partially_approve_milestone, Statuses
  <2>2. [m EXCEPT !.released_amount = released, !.status = status] \in MilestoneRecord
    <3> HIDE DEF released, status
    <3> QED
      BY <1>0, <2>1 DEF MilestoneRecord
  <2>3. MilestonesOK'
    BY <1>2, <2>2, SetType DEF partially_approve_milestone
  <2>4. paid' \in [Proposals -> Nat]
    BY <1>0, <1>2, <2>1 DEF partially_approve_milestone
  <2> QED
    BY <1>2, <2>3, <2>4 DEF partially_approve_milestone, TypeOK, MilestonesOK, govVars,
                            budgetVars, disputeVars
<1> QED
  BY <1>1, <1>2 DEF Release

\* Disputes and arbitration preserve the types.
LEMMA DisputeType == \A p \in Proposals : TypeOK /\ Dispute(p) => TypeOK'
<1> SUFFICES ASSUME NEW p \in Proposals, TypeOK, Dispute(p) PROVE TypeOK'
  OBVIOUS
<1> USE MilestoneAssumption
<1> DEFINE m == milestones[p]
           d == disputes[p]
<1>0. /\ m \in MilestoneRecord /\ m.amount \in Nat /\ m.status \in Statuses
      /\ d \in DisputeRecord /\ d.prior_status \in Statuses
      /\ d.uphold_votes \in Nat /\ d.reject_votes \in Nat
  BY DEF TypeOK, MilestoneRecord, DisputeRecord
<1>status. ASSUME NEW st \in Statuses
           PROVE  [m EXCEPT !.status = st] \in MilestoneRecord
  BY <1>0 DEF MilestoneRecord
<1>1. ASSUME NEW a \in Addresses, dispute_milestone(a, p)
      PROVE  TypeOK'
  <2>1. MilestonesOK'
    BY <1>1, <1>status, SetType DEF dispute_milestone, Statuses
  <2>2. refund_asked' \in [Proposals -> Nat]
    BY <1>0, <1>1 DEF dispute_milestone, TypeOK
  <2> QED
    BY <1>1, <2>1, <2>2 DEF dispute_milestone, TypeOK, MilestonesOK, govVars, budgetVars,
                            disputeVars
<1>2. ASSUME NEW a \in Addresses, raise_dispute(a, p)
      PROVE  TypeOK'
  <2> DEFINE r == [prior_status |-> m.status,
                   deadline_ledger |-> ledger + arbitration.window_ledgers,
                   uphold_votes |-> 0, reject_votes |-> 0, outcome |-> "Pending"]
  <2>1. ledger + arbitration.window_ledgers \in Nat
    BY DEF TypeOK, ArbitrationConfig
  <2>2. r \in DisputeRecord
    BY <1>0, <2>1 DEF DisputeRecord, Outcomes
  <2>3. DisputesOK'
    BY <1>2, <2>2, SetType DEF raise_dispute
  <2>4. MilestonesOK'
    BY <1>2, <1>status, SetType DEF raise_dispute, Statuses
  <2> QED
    BY <1>2, <2>3, <2>4 DEF raise_dispute, TypeOK, MilestonesOK, DisputesOK, govVars,
                            budgetVars, calls
<1>3. ASSUME NEW a \in Addresses, NEW uphold \in BOOLEAN, vote_dispute(a, p, uphold)
      PROVE  TypeOK'
  <2> DEFINE ups == IF uphold THEN d.uphold_votes + 1 ELSE d.uphold_votes
             downs == IF uphold THEN d.reject_votes ELSE d.reject_votes + 1
             outcome == IF ups >= arbitration.threshold THEN "Upheld"
                        ELSE IF downs >= arbitration.threshold THEN "Rejected"
                        ELSE "Pending"
  <2>1. ups \in Nat /\ downs \in Nat /\ outcome \in Outcomes
    BY <1>0 DEF Outcomes
  <2>2. [d EXCEPT !.uphold_votes = ups, !.reject_votes = downs, !.outcome = outcome]
          \in DisputeRecord
    <3> HIDE DEF ups, downs, outcome
    <3> QED
      BY <1>0, <2>1 DEF DisputeRecord
  <2>3. DisputesOK'
    BY <1>3, <2>2, SetType DEF vote_dispute
  <2>4. MilestonesOK'
    <3>1. CASE set_milestone(p, [m EXCEPT !.status = "Refunded"])
      BY <3>1, <1>status, SetType DEF Statuses
    <3>2. CASE set_milestone(p, [m EXCEPT !.status = d.prior_status])
      BY <3>2, <1>0, <1>status, SetType
    <3>3. CASE UNCHANGED milestones
      BY <3>3 DEF TypeOK, MilestonesOK
    <3> QED
      BY <1>3, <3>1, <3>2, <3>3 DEF vote_dispute
  <2> QED
    BY <1>3, <2>3, <2>4 DEF vote_dispute, TypeOK, MilestonesOK, DisputesOK, govVars,
                            budgetVars, calls
<1>4. CASE resolve_expired_dispute(p)
  <2>1. [d EXCEPT !.outcome = "TimedOut"] \in DisputeRecord
    BY <1>0 DEF DisputeRecord, Outcomes
  <2>2. DisputesOK' /\ MilestonesOK'
    BY <1>0, <1>4, <1>status, <2>1, SetType DEF resolve_expired_dispute
  <2> QED
    BY <1>4, <2>2 DEF resolve_expired_dispute, TypeOK, MilestonesOK, DisputesOK, govVars,
                      budgetVars, calls
<1> QED
  BY <1>1, <1>2, <1>3, <1>4 DEF Dispute

\* Every step of the contract preserves the types.
LEMMA TypeStep == TypeOK /\ [Next]_vars => TypeOK'
<1> SUFFICES ASSUME TypeOK, [Next]_vars PROVE TypeOK'
  OBVIOUS
<1>1. CASE UNCHANGED vars
  BY <1>1 DEF TypeOK, vars
<1>2. CASE CloseLedger
  BY <1>2 DEF TypeOK, CloseLedger, govVars, budgetVars, disputeVars, calls
<1> QED
  BY <1>1, <1>2, GovernType, ChangeBudgetType, SubmitType, ReleaseType, DisputeType
  DEF Next

\* Every entry the contract stores keeps the shape of its Rust type, and no
\* release, partial release or bonus drives an amount below zero.
THEOREM TypeCorrect == Spec => []TypeOK
  BY InitType, TypeStep, PTL DEF Spec

-----------------------------------------------------------------------------
(***************************************************************************)
(* Safety.  PaidOnlyByQuorum, BooksAgree and DisputeConsistent are not     *)
(* inductive: what has been paid depends on the status, the status on the  *)
(* number of votes, and that number on who has voted since the last        *)
(* rejection.  SafeAt(p) is the chain, link by link.                       *)
(***************************************************************************)
Decided == {"Approved", "Disbursed", "Disputed", "Refunded", "PartiallyDisbursed"}

\* The counter in the record counts the Voted keys of approvers.
VotesCounted(p) ==
  /\ IsFiniteSet(voted[p])
  /\ milestones[p].votes = Cardinality(voted[p])
  /\ voted[p] \subseteq Range(config.approvers)
  /\ milestones[p].status = "Absent" => milestones[p].votes = 0

\* A milestone leaves the voting phase only with `threshold' votes.
DecidedByQuorum(p) ==
  milestones[p].status \in Decided => milestones[p].votes >= config.threshold

\* Nothing is paid before the first release, and what is paid is recorded.
PaidByRelease(p) ==
  /\ paid[p] > 0 => milestones[p].status \in {"PartiallyDisbursed", "Disbursed", "Refunded"}
  /\ paid[p] = milestones[p].released_amount

\* The dispute record agrees with the status, and remembers "Approved".
DisputeSafe(p) ==
  /\ disputes[p].outcome = "Pending" <=> milestones[p].status = "Disputed"
  /\ disputes[p].outcome = "Pending" => disputes[p].prior_status = "Approved"
  /\ disputes[p].outcome = "Upheld" => milestones[p].status = "Refunded" /\ paid[p] = 0

SafeAt(p) ==
  VotesCounted(p) /\ DecidedByQuorum(p) /\ PaidByRelease(p) /\ DisputeSafe(p)

\* Before initialize there is nothing.
NothingYet ==
  ~Initialized => \A p \in Proposals : milestones[p].status = "Absent" /\ voted[p] = {}

IndInv == TypeOK /\ NothingYet /\ \A p \in Proposals : SafeAt(p)

\* Reading back what was stored, and every other record as it was.
LEMMA SetGet ==
  ASSUME TypeOK, NEW p \in Proposals
  PROVE  /\ \A r : set_milestone(p, r) =>
              /\ milestones'[p] = r
              /\ \A q \in Proposals \ {p} : milestones'[q] = milestones[q]
         /\ \A d : set_dispute(p, d) =>
              /\ disputes'[p] = d
              /\ \A q \in Proposals \ {p} : disputes'[q] = disputes[q]
  BY DEF TypeOK, set_milestone, set_dispute

\* What concerns proposal q is safe after a step that leaves it alone.
LEMMA FrameSafe ==
  ASSUME NEW q \in Proposals, SafeAt(q),
         milestones'[q] = milestones[q], voted'[q] = voted[q],
         disputes'[q] = disputes[q], paid'[q] = paid[q],
         config'.approvers = config.approvers, config'.threshold = config.threshold
  PROVE  SafeAt(q)'
  BY DEF SafeAt, VotesCounted, DecidedByQuorum, PaidByRelease, DisputeSafe

\* A step on proposal p of the initialized contract need only keep p safe.
LEMMA FocusSafe ==
  ASSUME NEW p \in Proposals, IndInv, Initialized, config' = config,
         \A q \in Proposals \ {p} :
           /\ milestones'[q] = milestones[q] /\ voted'[q] = voted[q]
           /\ disputes'[q] = disputes[q] /\ paid'[q] = paid[q],
         SafeAt(p)'
  PROVE  NothingYet' /\ \A q \in Proposals : SafeAt(q)'
<1>1. NothingYet'
  BY DEF NothingYet, Initialized
<1>2. ASSUME NEW q \in Proposals PROVE SafeAt(q)'
  <2>1. CASE q = p
    BY <2>1
  <2>2. CASE q # p
    BY <2>2, FrameSafe DEF IndInv
  <2> QED
    BY <2>1, <2>2
<1> QED
  BY <1>1, <1>2

\* A stored milestone exists only in an initialized contract.
LEMMA PresentInitialized ==
  ASSUME NEW p \in Proposals, IndInv, milestones[p].status # "Absent"
  PROVE  Initialized
  BY DEF IndInv, NothingYet

\* Empty storage is safe.
LEMMA InitSafe == Init => NothingYet /\ \A p \in Proposals : SafeAt(p)
<1> SUFFICES ASSUME Init PROVE NothingYet /\ \A p \in Proposals : SafeAt(p)
  OBVIOUS
<1>1. NothingYet
  BY DEF Init, NothingYet, Initialized, NoMilestone
<1>2. ASSUME NEW p \in Proposals PROVE SafeAt(p)
  <2>1. /\ voted[p] = {} /\ paid[p] = 0
        /\ milestones[p].votes = 0 /\ milestones[p].status = "Absent"
        /\ milestones[p].released_amount = 0 /\ disputes[p].outcome = "None"
    BY DEF Init, NoMilestone
  <2>2. IsFiniteSet({}) /\ Cardinality({}) = 0
    BY FS_EmptySet
  <2> QED
    BY <2>1, <2>2 DEF SafeAt, VotesCounted, DecidedByQuorum, PaidByRelease, DisputeSafe,
                      Decided
<1> QED
  BY <1>1, <1>2

\* No administrative call can make a decided milestone unsafe: the approvers
\* and their threshold are fixed once, before the first proposal.
LEMMA GovernSafe == IndInv /\ Govern => NothingYet' /\ \A p \in Proposals : SafeAt(p)'
<1> SUFFICES ASSUME IndInv, Govern
             PROVE  NothingYet' /\ \A p \in Proposals : SafeAt(p)'
  OBVIOUS
<1> USE MilestoneAssumption
<1>frame. ASSUME UNCHANGED <<milestones, voted, disputes, paid>>,
                 config'.approvers = config.approvers,
                 config'.threshold = config.threshold
          PROVE  NothingYet' /\ \A p \in Proposals : SafeAt(p)'
  <2>1. NothingYet'
    BY <1>frame DEF IndInv, NothingYet, Initialized
  <2> QED
    BY <1>frame, <2>1, FrameSafe DEF IndInv
<1>1. ASSUME NEW l \in ApproverLists, NEW t \in ApprovalThresholds, initialize(l, t)
      PROVE  NothingYet' /\ \A p \in Proposals : SafeAt(p)'
  <2>1. NothingYet'
    BY <1>1 DEF initialize, NothingYet, Initialized
  <2>2. ASSUME NEW p \in Proposals PROVE SafeAt(p)'
    <3>1. milestones[p].status = "Absent" /\ voted[p] = {} /\ SafeAt(p)
      BY <1>1 DEF initialize, IndInv, NothingYet
    <3>2. UNCHANGED <<milestones, voted, disputes, paid>>
      BY <1>1 DEF initialize, disputeVars, calls
    <3> QED
      BY <3>1, <3>2 DEF SafeAt, VotesCounted, DecidedByQuorum, PaidByRelease, DisputeSafe,
                        Decided
  <2> QED
    BY <2>1, <2>2
<1>config. config \in MilestoneConfig
  BY DEF IndInv, TypeOK
<1>2. ASSUME NEW d \in Delays, set_min_delay_ledgers(d)
      PROVE  NothingYet' /\ \A p \in Proposals : SafeAt(p)'
  <2>1. config'.approvers = config.approvers /\ config'.threshold = config.threshold
    BY <1>2, <1>config DEF set_min_delay_ledgers, MilestoneConfig
  <2> QED
    BY <1>2, <1>frame, <2>1 DEF set_min_delay_ledgers, disputeVars, calls
<1>3. ASSUME NEW b \in BonusRates, set_performance_bonus_bps(b)
      PROVE  NothingYet' /\ \A p \in Proposals : SafeAt(p)'
  <2>1. config'.approvers = config.approvers /\ config'.threshold = config.threshold
    BY <1>3, <1>config DEF set_performance_bonus_bps, MilestoneConfig
  <2> QED
    BY <1>3, <1>frame, <2>1 DEF set_performance_bonus_bps, disputeVars, calls
<1>4. ASSUME NEW l \in ArbitratorLists, NEW t \in ArbitrationThresholds, NEW w \in Windows,
             set_arbitration_config(l, t, w)
      PROVE  NothingYet' /\ \A p \in Proposals : SafeAt(p)'
  BY <1>4, <1>frame DEF set_arbitration_config, disputeVars, calls
<1>5. ASSUME NEW n \in Amounts, fund_bonus_pool(n)
      PROVE  NothingYet' /\ \A p \in Proposals : SafeAt(p)'
  BY <1>5, <1>frame DEF fund_bonus_pool, govVars, disputeVars, calls
<1> QED
  BY <1>1, <1>2, <1>3, <1>4, <1>5 DEF Govern

\* A new or resubmitted milestone starts without votes and without payments.
LEMMA SubmitSafe ==
  \A p \in Proposals : IndInv /\ Submit(p) => NothingYet' /\ \A q \in Proposals : SafeAt(q)'
<1> SUFFICES ASSUME NEW p \in Proposals, IndInv, Submit(p)
             PROVE  NothingYet' /\ \A q \in Proposals : SafeAt(q)'
  OBVIOUS
<1> DEFINE m == milestones[p]
<1>0. TypeOK /\ m \in MilestoneRecord /\ SafeAt(p)
  BY DEF IndInv, TypeOK
<1>1. ASSUME NEW c \in Addresses, NEW l \in Loans, NEW n \in Amounts, NEW e \in Evidence,
             propose_milestone(c, p, l, n, e)
      PROVE  NothingYet' /\ \A q \in Proposals : SafeAt(q)'
  <2>1. /\ milestones'[p].status = "Proposed"
        /\ milestones'[p].votes = 0 /\ milestones'[p].released_amount = 0
        /\ \A q \in Proposals \ {p} : milestones'[q] = milestones[q]
    <3> DEFINE r == [NoMilestone EXCEPT !.loan_id = l, !.contractor = c, !.amount = n,
                       !.status = "Proposed", !.deadline_ledger = ledger + DefaultDeadline]
    <3>1. set_milestone(p, r)
      BY <1>1 DEF propose_milestone
    <3>2. r.status = "Proposed" /\ r.votes = 0 /\ r.released_amount = 0
      BY DEF NoMilestone
    <3> HIDE DEF r
    <3> QED
      BY <1>0, <3>1, <3>2, SetGet
  <2>2. m.status = "Absent" /\ UNCHANGED <<config, voted, disputes, paid>>
    BY <1>1 DEF propose_milestone, govVars, disputeVars, calls
  <2>3. paid[p] \in Nat
    BY <1>0 DEF TypeOK
  <2>4. SafeAt(p)'
    BY <1>0, <2>1, <2>2, <2>3
    DEF SafeAt, VotesCounted, DecidedByQuorum, PaidByRelease, DisputeSafe, Decided
  <2> QED
    BY <1>1, <2>1, <2>2, <2>4, FocusSafe DEF propose_milestone
<1>2. ASSUME NEW c \in Addresses, NEW e \in Evidence, resubmit_milestone(c, p, e)
      PROVE  NothingYet' /\ \A q \in Proposals : SafeAt(q)'
  <2>1. /\ milestones'[p].status = "Proposed"
        /\ milestones'[p].votes = m.votes
        /\ milestones'[p].released_amount = m.released_amount
        /\ \A q \in Proposals \ {p} : milestones'[q] = milestones[q]
    <3> DEFINE r == [m EXCEPT !.status = "Proposed", !.was_resubmitted = TRUE]
    <3>1. set_milestone(p, r)
      BY <1>2 DEF resubmit_milestone
    <3>2. /\ r.status = "Proposed" /\ r.votes = m.votes
          /\ r.released_amount = m.released_amount
      BY <1>0 DEF MilestoneRecord
    <3> HIDE DEF r
    <3> QED
      BY <1>0, <3>1, <3>2, SetGet
  <2>2. m.status = "Rejected" /\ UNCHANGED <<config, voted, disputes, paid>>
    BY <1>2 DEF resubmit_milestone, govVars, disputeVars, calls
  <2>3. SafeAt(p)'
    BY <1>0, <2>1, <2>2
    DEF SafeAt, VotesCounted, DecidedByQuorum, PaidByRelease, DisputeSafe, Decided
  <2> QED
    BY <2>1, <2>2, <2>3, FocusSafe, PresentInitialized
<1>3. ASSUME NEW c \in Addresses, NEW d \in 0..MaxLedger, set_milestone_deadline(c, p, d)
      PROVE  NothingYet' /\ \A q \in Proposals : SafeAt(q)'
  <2>1. /\ milestones'[p].status = m.status
        /\ milestones'[p].votes = m.votes
        /\ milestones'[p].released_amount = m.released_amount
        /\ \A q \in Proposals \ {p} : milestones'[q] = milestones[q]
    BY <1>0, <1>3, SetGet DEF set_milestone_deadline, MilestoneRecord
  <2>2. m.status # "Absent" /\ UNCHANGED <<config, voted, disputes, paid>>
    BY <1>3 DEF set_milestone_deadline, govVars, disputeVars, calls
  <2>3. SafeAt(p)'
    BY <1>0, <2>1, <2>2
    DEF SafeAt, VotesCounted, DecidedByQuorum, PaidByRelease, DisputeSafe, Decided
  <2> QED
    BY <2>1, <2>2, <2>3, FocusSafe, PresentInitialized
<1> QED
  BY <1>1, <1>2, <1>3 DEF Submit

\* A vote is counted once, and a rejection clears count and voters together.
LEMMA VoteSafe ==
  \A p \in Proposals : IndInv /\ Vote(p) => NothingYet' /\ \A q \in Proposals : SafeAt(q)'
<1> SUFFICES ASSUME NEW p \in Proposals, IndInv, Vote(p)
             PROVE  NothingYet' /\ \A q \in Proposals : SafeAt(q)'
  OBVIOUS
<1> DEFINE m == milestones[p]
<1>0. TypeOK /\ m \in MilestoneRecord /\ SafeAt(p) /\ config.threshold \in Nat
  BY DEF IndInv, TypeOK, MilestoneConfig
<1>voted. voted \in [Proposals -> SUBSET Addresses]
  BY DEF IndInv, TypeOK
<1>1. ASSUME NEW a \in Addresses, approve_milestone(a, p)
      PROVE  NothingYet' /\ \A q \in Proposals : SafeAt(q)'
  <2> DEFINE v == m.votes + 1
             r == IF v >= config.threshold
                  THEN [m EXCEPT !.votes = v, !.status = "Approved", !.approved_ledger = ledger]
                  ELSE [m EXCEPT !.votes = v]
  <2>1. m.status = "Proposed" /\ Initialized /\ a \in Range(config.approvers) /\ a \notin voted[p]
    BY <1>1 DEF approve_milestone, IsApprover
  <2>2. set_milestone(p, r)
    BY <1>1 DEF approve_milestone
  <2>3. /\ r.votes = v /\ r.released_amount = m.released_amount
        /\ r.status = IF v >= config.threshold THEN "Approved" ELSE "Proposed"
    <3> HIDE DEF v, m
    <3> QED
      BY <1>0, <2>1 DEF MilestoneRecord
  <2> HIDE DEF r
  <2>4. /\ milestones'[p] = r
        /\ \A q \in Proposals \ {p} : milestones'[q] = milestones[q]
    BY <1>0, <2>2, SetGet
  <2>5. /\ UNCHANGED <<config, disputes, paid>>
        /\ voted'[p] = voted[p] \cup {a}
        /\ \A q \in Proposals \ {p} : voted'[q] = voted[q]
    BY <1>voted, <1>1 DEF approve_milestone, govVars, disputeVars, calls
  <2>6. IsFiniteSet(voted'[p]) /\ Cardinality(voted'[p]) = v
    <3>1. IsFiniteSet(voted[p]) /\ m.votes = Cardinality(voted[p])
      BY <1>0 DEF SafeAt, VotesCounted
    <3>2. /\ IsFiniteSet(voted[p] \cup {a})
          /\ Cardinality(voted[p] \cup {a}) = Cardinality(voted[p]) + 1
      BY <2>1, <3>1, FS_AddElement
    <3> QED
      BY <2>5, <3>1, <3>2
  <2>7. VotesCounted(p)'
    BY <1>0, <2>1, <2>3, <2>4, <2>5, <2>6 DEF SafeAt, VotesCounted
  <2>8. DecidedByQuorum(p)'
    BY <1>0, <2>3, <2>4, <2>5 DEF DecidedByQuorum, Decided
  <2>9. PaidByRelease(p)' /\ DisputeSafe(p)'
    BY <1>0, <2>1, <2>3, <2>4, <2>5 DEF SafeAt, PaidByRelease, DisputeSafe
  <2>10. SafeAt(p)'
    BY <2>7, <2>8, <2>9 DEF SafeAt
  <2> QED
    BY <2>1, <2>4, <2>5, <2>10, FocusSafe
<1>2. ASSUME NEW a \in Addresses, reject_milestone(a, p)
      PROVE  NothingYet' /\ \A q \in Proposals : SafeAt(q)'
  <2> DEFINE r == [m EXCEPT !.votes = 0, !.status = "Rejected"]
  <2>1. m.status = "Proposed" /\ Initialized
    BY <1>2 DEF reject_milestone
  <2>2. set_milestone(p, r)
    BY <1>2 DEF reject_milestone
  <2>3. r.votes = 0 /\ r.released_amount = m.released_amount /\ r.status = "Rejected"
    BY <1>0 DEF MilestoneRecord
  <2> HIDE DEF r
  <2>4. /\ milestones'[p] = r
        /\ \A q \in Proposals \ {p} : milestones'[q] = milestones[q]
    BY <1>0, <2>2, SetGet
  <2>5. /\ UNCHANGED <<config, disputes, paid>>
        /\ voted'[p] = voted[p] \ Range(config.approvers)
        /\ \A q \in Proposals \ {p} : voted'[q] = voted[q]
    BY <1>voted, <1>2 DEF reject_milestone, govVars, disputeVars, calls
  <2>6. voted'[p] = {}
    BY <1>0, <2>5 DEF SafeAt, VotesCounted
  <2>7. VotesCounted(p)'
    BY <2>3, <2>4, <2>6, FS_EmptySet DEF VotesCounted
  <2>8. DecidedByQuorum(p)' /\ PaidByRelease(p)' /\ DisputeSafe(p)'
    BY <1>0, <2>1, <2>3, <2>4, <2>5
    DEF SafeAt, DecidedByQuorum, PaidByRelease, DisputeSafe, Decided
  <2>9. SafeAt(p)'
    BY <2>7, <2>8 DEF SafeAt
  <2> QED
    BY <2>1, <2>4, <2>5, <2>9, FocusSafe
<1> QED
  BY <1>1, <1>2 DEF Vote

\* A budget change touches no field the invariant speaks of.
LEMMA ChangeBudgetSafe ==
  IndInv /\ ChangeBudget => NothingYet' /\ \A q \in Proposals : SafeAt(q)'
<1> SUFFICES ASSUME IndInv, ChangeBudget
             PROVE  NothingYet' /\ \A q \in Proposals : SafeAt(q)'
  OBVIOUS
<1>0. TypeOK
  BY DEF IndInv
<1>1. ASSUME UNCHANGED <<config, milestones, voted, disputes, paid>>
      PROVE  NothingYet' /\ \A q \in Proposals : SafeAt(q)'
  <2>1. NothingYet'
    BY <1>1 DEF IndInv, NothingYet, Initialized
  <2> QED
    BY <1>1, <2>1, FrameSafe DEF IndInv
<1>2. ASSUME NEW s \in MilestoneIds, NEW p \in Proposals, NEW n \in Amounts,
             propose_milestone_budget_change(s, p, n)
      PROVE  NothingYet' /\ \A q \in Proposals : SafeAt(q)'
  BY <1>1, <1>2 DEF propose_milestone_budget_change, govVars, disputeVars, calls
<1>3. ASSUME NEW s \in MilestoneIds, NEW a \in Addresses, vote_budget_change(a, s)
      PROVE  NothingYet' /\ \A q \in Proposals : SafeAt(q)'
  <2> DEFINE p == budget_changes[s].proposal_id
             n == budget_changes[s].new_amount
  <2>1. UNCHANGED <<config, voted, disputes, paid>> /\ Initialized
    BY <1>3 DEF vote_budget_change, govVars, disputeVars, calls
  <2>2. CASE UNCHANGED milestones
    BY <1>1, <2>1, <2>2
  <2>3. CASE p \notin Proposals /\ set_milestone(p, [milestones[p] EXCEPT !.amount = n])
    <3>1. UNCHANGED milestones
      BY <1>0, <2>3 DEF set_milestone, TypeOK
    <3> QED
      BY <1>1, <2>1, <3>1
  <2>4. CASE p \in Proposals /\ set_milestone(p, [milestones[p] EXCEPT !.amount = n])
    <3>1. PICK id \in Proposals : id = p
      BY <2>4
    <3> DEFINE m == milestones[id]
               r == [m EXCEPT !.amount = n]
    <3>2. m \in MilestoneRecord /\ SafeAt(id)
      BY <1>0 DEF TypeOK, IndInv
    <3>3. set_milestone(id, r)
      BY <2>4, <3>1
    <3>4. /\ r.votes = m.votes /\ r.released_amount = m.released_amount
          /\ r.status = m.status
      <4> HIDE DEF m, n
      <4> QED
        BY <3>2 DEF MilestoneRecord
    <3> HIDE DEF r
    <3>5. /\ milestones'[id] = r
          /\ \A q \in Proposals \ {id} : milestones'[q] = milestones[q]
      BY <1>0, <3>3, SetGet
    <3>6. SafeAt(id)'
      BY <2>1, <3>2, <3>4, <3>5
      DEF SafeAt, VotesCounted, DecidedByQuorum, PaidByRelease, DisputeSafe
    <3> QED
      BY <2>1, <3>5, <3>6, FocusSafe
  <2> QED
    BY <1>3, <2>2, <2>3, <2>4 DEF vote_budget_change
<1> QED
  BY <1>2, <1>3 DEF ChangeBudget

\* A release pays a milestone that a quorum decided, and records what it pays.
LEMMA ReleaseSafe ==
  \A p \in Proposals : IndInv /\ Release(p) => NothingYet' /\ \A q \in Proposals : SafeAt(q)'
<1> SUFFICES ASSUME NEW p \in Proposals, IndInv, Release(p)
             PROVE  NothingYet' /\ \A q \in Proposals : SafeAt(q)'
  OBVIOUS
<1> DEFINE m == milestones[p]
<1>0. TypeOK /\ m \in MilestoneRecord /\ SafeAt(p)
  BY DEF IndInv, TypeOK
<1>nat. /\ m.amount \in Nat /\ m.released_amount \in Nat /\ paid[p] \in Nat
        /\ paid \in [Proposals -> Nat]
  BY <1>0 DEF TypeOK, MilestoneRecord
<1>1. CASE release_milestone(p)
  <2> DEFINE won == m.bonus_awarded \/ Bonus(m) > 0
             r == [m EXCEPT !.released_amount = m.amount, !.status = "Disbursed",
                            !.bonus_awarded = won]
  <2>1. Initialized /\ m.status \in {"Approved", "PartiallyDisbursed"}
    BY <1>1 DEF release_milestone, Releasable
  <2>2. set_milestone(p, r)
    BY <1>1 DEF release_milestone
  <2>3. r.votes = m.votes /\ r.released_amount = m.amount /\ r.status = "Disbursed"
    <3> HIDE DEF won, m
    <3> QED
      BY <1>0 DEF MilestoneRecord
  <2> HIDE DEF r
  <2>4. /\ milestones'[p] = r
        /\ \A q \in Proposals \ {p} : milestones'[q] = milestones[q]
    BY <1>0, <2>2, SetGet
  <2>5. /\ UNCHANGED <<config, voted, disputes>>
        /\ paid'[p] = paid[p] + (m.amount - m.released_amount)
        /\ \A q \in Proposals \ {p} : paid'[q] = paid[q]
    BY <1>nat, <1>1 DEF release_milestone, Remaining, govVars, disputeVars
  <2>6. PaidByRelease(p)'
    BY <1>0, <1>nat, <2>3, <2>4, <2>5 DEF SafeAt, PaidByRelease
  <2>7. VotesCounted(p)' /\ DecidedByQuorum(p)' /\ DisputeSafe(p)'
    BY <1>0, <2>1, <2>3, <2>4, <2>5
    DEF SafeAt, VotesCounted, DecidedByQuorum, DisputeSafe, Decided
  <2>8. SafeAt(p)'
    BY <2>6, <2>7 DEF SafeAt
  <2> QED
    BY <2>1, <2>4, <2>5, <2>8, FocusSafe
<1>2. ASSUME NEW n \in Amounts, partially_approve_milestone(p, n)
      PROVE  NothingYet' /\ \A q \in Proposals : SafeAt(q)'
  <2> DEFINE released == m.released_amount + n
             status == IF released >= m.amount THEN "Disbursed" ELSE "PartiallyDisbursed"
             r == [m EXCEPT !.released_amount = released, !.status = status]
  <2>1. Initialized /\ m.status \in {"Approved", "PartiallyDisbursed"}
    BY <1>2 DEF partially_approve_milestone, Releasable
  <2>2. set_milestone(p, r)
    BY <1>2 DEF partially_approve_milestone
  <2>3. r.votes = m.votes /\ r.released_amount = released /\ r.status = status
    <3> HIDE DEF released, status, m
    <3> QED
      BY <1>0 DEF MilestoneRecord
  <2> HIDE DEF r
  <2>4. /\ milestones'[p] = r
        /\ \A q \in Proposals \ {p} : milestones'[q] = milestones[q]
    BY <1>0, <2>2, SetGet
  <2>5. /\ UNCHANGED <<config, voted, disputes>>
        /\ paid'[p] = paid[p] + n
        /\ \A q \in Proposals \ {p} : paid'[q] = paid[q]
    BY <1>nat, <1>2 DEF partially_approve_milestone, govVars, disputeVars
  <2>6. PaidByRelease(p)'
    BY <1>0, <1>nat, <2>3, <2>4, <2>5, MilestoneAssumption DEF SafeAt, PaidByRelease
  <2>7. status \in {"Disbursed", "PartiallyDisbursed"}
    OBVIOUS
  <2> HIDE DEF status, released
  <2>8. VotesCounted(p)' /\ DecidedByQuorum(p)' /\ DisputeSafe(p)'
    BY <1>0, <2>1, <2>3, <2>4, <2>5, <2>7
    DEF SafeAt, VotesCounted, DecidedByQuorum, DisputeSafe, Decided
  <2>9. SafeAt(p)'
    BY <2>6, <2>8 DEF SafeAt
  <2> QED
    BY <2>1, <2>4, <2>5, <2>9, FocusSafe
<1> QED
  BY <1>1, <1>2 DEF Release

\* Disputing, ruling and timing out keep dispute record and status in step.
LEMMA DisputeStepSafe ==
  \A p \in Proposals : IndInv /\ Dispute(p) => NothingYet' /\ \A q \in Proposals : SafeAt(q)'
<1> SUFFICES ASSUME NEW p \in Proposals, IndInv, Dispute(p)
             PROVE  NothingYet' /\ \A q \in Proposals : SafeAt(q)'
  OBVIOUS
<1> DEFINE m == milestones[p]
           d == disputes[p]
<1>0. TypeOK /\ m \in MilestoneRecord /\ d \in DisputeRecord /\ SafeAt(p) /\ paid[p] \in Nat
  BY DEF IndInv, TypeOK
<1>set. ASSUME NEW st, set_milestone(p, [m EXCEPT !.status = st])
        PROVE  /\ milestones'[p].status = st
               /\ milestones'[p].votes = m.votes
               /\ milestones'[p].released_amount = m.released_amount
               /\ \A q \in Proposals \ {p} : milestones'[q] = milestones[q]
  <2> DEFINE r == [m EXCEPT !.status = st]
  <2>1. r.status = st /\ r.votes = m.votes /\ r.released_amount = m.released_amount
    <3> HIDE DEF m
    <3> QED
      BY <1>0 DEF MilestoneRecord
  <2> HIDE DEF r
  <2>2. set_milestone(p, r)
    BY <1>set DEF r
  <2> QED
    BY <1>0, <2>1, <2>2, SetGet
<1>1. ASSUME NEW a \in Addresses, dispute_milestone(a, p)
      PROVE  NothingYet' /\ \A q \in Proposals : SafeAt(q)'
  <2>1. /\ Initialized /\ m.status \in {"Approved", "Disbursed"}
        /\ set_milestone(p, [m EXCEPT !.status = "Refunded"])
        /\ UNCHANGED <<config, voted, disputes, paid>>
    BY <1>1 DEF dispute_milestone, govVars, disputeVars
  <2>2. SafeAt(p)'
    BY <1>0, <1>set, <2>1
    DEF SafeAt, VotesCounted, DecidedByQuorum, PaidByRelease, DisputeSafe, Decided
  <2> QED
    BY <1>set, <2>1, <2>2, FocusSafe
<1>2. ASSUME NEW a \in Addresses, raise_dispute(a, p)
      PROVE  NothingYet' /\ \A q \in Proposals : SafeAt(q)'
  <2> DEFINE r == [prior_status |-> m.status,
                   deadline_ledger |-> ledger + arbitration.window_ledgers,
                   uphold_votes |-> 0, reject_votes |-> 0, outcome |-> "Pending"]
  <2>1. /\ Initialized /\ m.status = "Approved"
        /\ set_milestone(p, [m EXCEPT !.status = "Disputed"])
        /\ set_dispute(p, r)
        /\ UNCHANGED <<config, voted, paid>>
    BY <1>2 DEF raise_dispute, govVars, calls
  <2>2. r.prior_status = "Approved" /\ r.outcome = "Pending"
    BY <2>1
  <2> HIDE DEF r
  <2>3. /\ disputes'[p] = r
        /\ \A q \in Proposals \ {p} : disputes'[q] = disputes[q]
    BY <1>0, <2>1, SetGet
  <2>4. SafeAt(p)'
    BY <1>0, <1>set, <2>1, <2>2, <2>3
    DEF SafeAt, VotesCounted, DecidedByQuorum, PaidByRelease, DisputeSafe, Decided
  <2> QED
    BY <1>set, <2>1, <2>3, <2>4, FocusSafe
<1>3. ASSUME NEW a \in Addresses, NEW uphold \in BOOLEAN, vote_dispute(a, p, uphold)
      PROVE  NothingYet' /\ \A q \in Proposals : SafeAt(q)'
  <2> DEFINE ups == IF uphold THEN d.uphold_votes + 1 ELSE d.uphold_votes
             downs == IF uphold THEN d.reject_votes ELSE d.reject_votes + 1
             outcome == IF ups >= arbitration.threshold THEN "Upheld"
                        ELSE IF downs >= arbitration.threshold THEN "Rejected"
                        ELSE "Pending"
             r == [d EXCEPT !.uphold_votes = ups, !.reject_votes = downs,
                            !.outcome = outcome]
  <2>1. /\ d.outcome = "Pending"
        /\ set_dispute(p, r)
        /\ UNCHANGED <<config, voted, paid>>
    BY <1>3 DEF vote_dispute, govVars, calls
  <2>2. m.status = "Disputed" /\ d.prior_status = "Approved" /\ paid[p] = 0
    BY <1>0, <2>1 DEF SafeAt, DisputeSafe, PaidByRelease
  <2>3. Initialized
    BY <2>2, PresentInitialized
  <2>4. \/ outcome = "Upheld" /\ set_milestone(p, [m EXCEPT !.status = "Refunded"])
        \/ outcome = "Rejected" /\ set_milestone(p, [m EXCEPT !.status = "Approved"])
        \/ outcome = "Pending" /\ UNCHANGED milestones
    BY <1>3, <2>2 DEF vote_dispute
  <2>5. r.outcome = outcome /\ r.prior_status = "Approved"
    <3> HIDE DEF ups, downs, outcome, d
    <3> QED
      BY <1>0, <2>2 DEF DisputeRecord
  <2> HIDE DEF r, outcome
  <2>6. /\ disputes'[p] = r
        /\ \A q \in Proposals \ {p} : disputes'[q] = disputes[q]
    BY <1>0, <2>1, SetGet
  <2>7. SafeAt(p)' /\ \A q \in Proposals \ {p} : milestones'[q] = milestones[q]
    <3>1. CASE outcome = "Upheld" /\ set_milestone(p, [m EXCEPT !.status = "Refunded"])
      BY <1>0, <1>set, <2>1, <2>2, <2>5, <2>6, <3>1
      DEF SafeAt, VotesCounted, DecidedByQuorum, PaidByRelease, DisputeSafe, Decided
    <3>2. CASE outcome = "Rejected" /\ set_milestone(p, [m EXCEPT !.status = "Approved"])
      BY <1>0, <1>set, <2>1, <2>2, <2>5, <2>6, <3>2
      DEF SafeAt, VotesCounted, DecidedByQuorum, PaidByRelease, DisputeSafe, Decided
    <3>3. CASE outcome = "Pending" /\ UNCHANGED milestones
      BY <1>0, <2>1, <2>2, <2>5, <2>6, <3>3
      DEF SafeAt, VotesCounted, DecidedByQuorum, PaidByRelease, DisputeSafe, Decided
    <3> QED
      BY <2>4, <3>1, <3>2, <3>3
  <2> QED
    BY <2>1, <2>3, <2>6, <2>7, FocusSafe
<1>4. CASE resolve_expired_dispute(p)
  <2> DEFINE r == [d EXCEPT !.outcome = "TimedOut"]
  <2>1. /\ d.outcome = "Pending" /\ set_dispute(p, r)
        /\ set_milestone(p, [m EXCEPT !.status = d.prior_status])
        /\ UNCHANGED <<config, voted, paid>>
    BY <1>4 DEF resolve_expired_dispute, govVars, calls
  <2>2. m.status = "Disputed" /\ d.prior_status = "Approved"
    BY <1>0, <2>1 DEF SafeAt, DisputeSafe
  <2>3. Initialized
    BY <2>2, PresentInitialized
  <2>4. r.outcome = "TimedOut"
    BY <1>0 DEF DisputeRecord
  <2> HIDE DEF r
  <2>5. /\ disputes'[p] = r
        /\ \A q \in Proposals \ {p} : disputes'[q] = disputes[q]
    BY <1>0, <2>1, SetGet
  <2>6. SafeAt(p)'
    BY <1>0, <1>set, <2>1, <2>2, <2>4, <2>5
    DEF SafeAt, VotesCounted, DecidedByQuorum, PaidByRelease, DisputeSafe, Decided
  <2> QED
    BY <1>set, <2>1, <2>3, <2>5, <2>6, FocusSafe
<1> QED
  BY <1>1, <1>2, <1>3, <1>4 DEF Dispute

\* Every reachable state satisfies the inductive invariant.
THEOREM Safety == Spec => []IndInv
<1>1. Init => IndInv
  BY InitType, InitSafe DEF IndInv
<1>2. IndInv /\ [Next]_vars => IndInv'
  <2> SUFFICES ASSUME IndInv, [Next]_vars PROVE IndInv'
    OBVIOUS
  <2>1. TypeOK'
    BY TypeStep DEF IndInv
  <2>2. NothingYet' /\ \A q \in Proposals : SafeAt(q)'
    <3>1. CASE UNCHANGED <<config, milestones, voted, disputes, paid>>
      <4>1. NothingYet'
        BY <3>1 DEF IndInv, NothingYet, Initialized
      <4> QED
        BY <3>1, <4>1, FrameSafe DEF IndInv
    <3>2. CASE UNCHANGED vars
      BY <3>1, <3>2 DEF vars
    <3>3. CASE CloseLedger
      BY <3>1, <3>3 DEF CloseLedger, govVars, disputeVars, calls
    <3> QED
      BY <3>2, <3>3, GovernSafe, ChangeBudgetSafe, SubmitSafe, VoteSafe, ReleaseSafe,
         DisputeStepSafe
      DEF Next
  <2> QED
    BY <2>1, <2>2 DEF IndInv
<1> QED
  BY <1>1, <1>2, PTL DEF Spec

\* Whatever the approver set, the threshold and the order of calls, the pool
\* pays for a milestone only on a quorum of distinct approvers' votes.
THEOREM QuorumTheorem == Spec => []PaidOnlyByQuorum
<1>1. IndInv => PaidOnlyByQuorum
  <2> SUFFICES ASSUME IndInv, NEW p \in Proposals, paid[p] > 0
               PROVE  /\ voted[p] \subseteq Range(config.approvers)
                      /\ Cardinality(voted[p]) >= config.threshold
    BY DEF PaidOnlyByQuorum
  <2>1. SafeAt(p)
    BY DEF IndInv
  <2> QED
    BY <2>1 DEF SafeAt, VotesCounted, DecidedByQuorum, PaidByRelease, Decided
<1> QED
  BY <1>1, Safety, PTL

\* The contract's released_amount is what the pool has paid, always.
THEOREM BooksTheorem == Spec => []BooksAgree
<1>1. IndInv => BooksAgree
  BY DEF IndInv, SafeAt, PaidByRelease, BooksAgree
<1> QED
  BY <1>1, Safety, PTL

\* Arbitration and release exclude each other, in every reachable state.
THEOREM DisputeTheorem == Spec => []DisputeConsistent
<1>1. IndInv => DisputeConsistent
  <2> SUFFICES ASSUME IndInv, NEW p \in Proposals
               PROVE  /\ disputes[p].outcome = "Pending" <=> milestones[p].status = "Disputed"
                      /\ disputes[p].outcome \in {"Pending", "Upheld"} => paid[p] = 0
                      /\ disputes[p].outcome = "Upheld" => milestones[p].status = "Refunded"
    BY DEF DisputeConsistent
  <2>1. SafeAt(p) /\ paid[p] \in Nat
    BY DEF IndInv, TypeOK
  <2> QED
    BY <2>1 DEF SafeAt, DisputeSafe, PaidByRelease
<1> QED
  BY <1>1, Safety, PTL

-----------------------------------------------------------------------------
(***************************************************************************)
(* The life of a milestone.  Fate(p) lists what one step can do to it:     *)
(* nothing that matters here, a move within the voting phase, a release,   *)
(* or a dispute.  The bonus and the finality of disputes follow from it.   *)
(***************************************************************************)
Undecided == {"Absent", "Proposed", "Rejected"}

\* No dispute is opened or changed, nothing is paid and no refund asked for p.
QuietAt(p) ==
  /\ paid'[p] = paid[p] /\ refund_asked'[p] = refund_asked[p]
  /\ disputes'[p] = disputes[p]

\* The approval, the deadline and the history of the submission stay.
ApprovalKept(p) ==
  /\ milestones'[p].approved_ledger = milestones[p].approved_ledger
  /\ milestones'[p].deadline_ledger = milestones[p].deadline_ledger
  /\ milestones'[p].was_resubmitted = milestones[p].was_resubmitted
  /\ ever_rejected'[p] = ever_rejected[p]

Untouched(p) ==
  /\ milestones'[p].status = milestones[p].status
  /\ ApprovalKept(p) /\ QuietAt(p) /\ bonus_paid'[p] = bonus_paid[p]

Voting(p) ==
  /\ milestones[p].status \in Undecided
  /\ bonus_paid'[p] = bonus_paid[p] /\ QuietAt(p)
  /\ \/ /\ milestones[p].status = "Absent" /\ milestones'[p].status = "Proposed"
        /\ ever_rejected'[p] = ever_rejected[p]
     \/ /\ milestones[p].status # "Absent"
        /\ \/ milestones'[p].status = "Rejected"
           \/ /\ milestones'[p].was_resubmitted
              /\ milestones'[p].status = "Proposed"
           \/ /\ milestones[p].status = "Proposed"
              /\ milestones'[p].status \in {"Proposed", "Approved"}
              /\ milestones'[p].was_resubmitted = milestones[p].was_resubmitted
              /\ ever_rejected'[p] = ever_rejected[p]

Releasing(p) ==
  /\ milestones[p].status \in {"Approved", "PartiallyDisbursed"}
  /\ milestones'[p].status \in {"PartiallyDisbursed", "Disbursed"}
  /\ ApprovalKept(p)
  /\ bonus_paid'[p] # bonus_paid[p] =>
       /\ milestones'[p].status = "Disbursed"
       /\ ~milestones[p].was_resubmitted
       /\ milestones[p].approved_ledger <= milestones[p].deadline_ledger

Disputing(p) ==
  /\ milestones[p].status \in {"Approved", "Disbursed", "Disputed"}
  /\ milestones'[p].status \in {"Approved", "Disputed", "Refunded"}
  /\ milestones[p].status = "Disbursed" => milestones'[p].status = "Refunded"
  /\ ApprovalKept(p) /\ bonus_paid'[p] = bonus_paid[p]

Fate(p) == Untouched(p) \/ Voting(p) \/ Releasing(p) \/ Disputing(p)

\* A record update changes the fields it names and no other.
LEMMA SetStatus ==
  ASSUME TypeOK, NEW p \in Proposals, NEW st, set_milestone(p, [milestones[p] EXCEPT !.status = st])
  PROVE  /\ milestones'[p].status = st
         /\ milestones'[p].approved_ledger = milestones[p].approved_ledger
         /\ milestones'[p].deadline_ledger = milestones[p].deadline_ledger
         /\ milestones'[p].was_resubmitted = milestones[p].was_resubmitted
<1> DEFINE m == milestones[p]
           r == [m EXCEPT !.status = st]
<1>1. m \in MilestoneRecord
  BY DEF TypeOK
<1>2. /\ r.status = st /\ r.approved_ledger = m.approved_ledger
      /\ r.deadline_ledger = m.deadline_ledger /\ r.was_resubmitted = m.was_resubmitted
  <2> HIDE DEF m
  <2> QED
    BY <1>1 DEF MilestoneRecord
<1>3. milestones'[p] = r
  <2> HIDE DEF r
  <2>1. set_milestone(p, r)
    BY DEF r
  <2> QED
    BY <2>1, SetGet
<1> QED
  BY <1>2, <1>3

LEMMA SubmitFate == \A p \in Proposals : IndInv /\ Submit(p) => Fate(p)
<1> SUFFICES ASSUME NEW p \in Proposals, IndInv, Submit(p)
             PROVE  Fate(p)
  OBVIOUS
<1> DEFINE m == milestones[p]
<1>0. TypeOK /\ m \in MilestoneRecord
  BY DEF IndInv, TypeOK
<1>1. ASSUME NEW c \in Addresses, NEW l \in Loans, NEW n \in Amounts, NEW e \in Evidence,
             propose_milestone(c, p, l, n, e)
      PROVE  Fate(p)
  <2> DEFINE r == [NoMilestone EXCEPT !.loan_id = l, !.contractor = c, !.amount = n,
                     !.status = "Proposed", !.deadline_ledger = ledger + DefaultDeadline]
  <2>1. set_milestone(p, r)
    BY <1>1 DEF propose_milestone
  <2>2. r.status = "Proposed"
    BY DEF NoMilestone
  <2> HIDE DEF r
  <2>3. milestones'[p] = r
    BY <1>0, <2>1, SetGet
  <2>4. /\ m.status = "Absent"
        /\ UNCHANGED <<disputes, paid, bonus_paid, refund_asked, ever_rejected>>
    BY <1>1 DEF propose_milestone, disputeVars, calls
  <2> QED
    BY <2>2, <2>3, <2>4 DEF Fate, Voting, QuietAt, Undecided
<1>2. ASSUME NEW c \in Addresses, NEW e \in Evidence, resubmit_milestone(c, p, e)
      PROVE  Fate(p)
  <2> DEFINE r == [m EXCEPT !.status = "Proposed", !.was_resubmitted = TRUE]
  <2>1. set_milestone(p, r)
    BY <1>2 DEF resubmit_milestone
  <2>2. r.status = "Proposed" /\ r.was_resubmitted
    <3> HIDE DEF m
    <3> QED
      BY <1>0 DEF MilestoneRecord
  <2> HIDE DEF r
  <2>3. milestones'[p] = r
    BY <1>0, <2>1, SetGet
  <2>4. /\ m.status = "Rejected"
        /\ UNCHANGED <<disputes, paid, bonus_paid, refund_asked, ever_rejected>>
    BY <1>2 DEF resubmit_milestone, disputeVars, calls
  <2> QED
    BY <2>2, <2>3, <2>4 DEF Fate, Voting, QuietAt, Undecided
<1>3. ASSUME NEW c \in Addresses, NEW d \in 0..MaxLedger, set_milestone_deadline(c, p, d)
      PROVE  Fate(p)
  <2> DEFINE r == [m EXCEPT !.deadline_ledger = d]
  <2>1. set_milestone(p, r)
    BY <1>3 DEF set_milestone_deadline
  <2>2. r.status = m.status /\ r.was_resubmitted = m.was_resubmitted
    <3> HIDE DEF m
    <3> QED
      BY <1>0 DEF MilestoneRecord
  <2> HIDE DEF r
  <2>3. milestones'[p] = r
    BY <1>0, <2>1, SetGet
  <2>4. /\ m.status \in {"Proposed", "Rejected"}
        /\ UNCHANGED <<disputes, paid, bonus_paid, refund_asked, ever_rejected>>
    BY <1>3 DEF set_milestone_deadline, disputeVars, calls
  <2> QED
    BY <2>2, <2>3, <2>4 DEF Fate, Voting, QuietAt, Undecided
<1> QED
  BY <1>1, <1>2, <1>3 DEF Submit

LEMMA VoteFate == \A p \in Proposals : IndInv /\ Vote(p) => Fate(p)
<1> SUFFICES ASSUME NEW p \in Proposals, IndInv, Vote(p)
             PROVE  Fate(p)
  OBVIOUS
<1> DEFINE m == milestones[p]
<1>0. TypeOK /\ m \in MilestoneRecord
  BY DEF IndInv, TypeOK
<1>1. ASSUME NEW a \in Addresses, approve_milestone(a, p)
      PROVE  Fate(p)
  <2> DEFINE v == m.votes + 1
             r == IF v >= config.threshold
                  THEN [m EXCEPT !.votes = v, !.status = "Approved", !.approved_ledger = ledger]
                  ELSE [m EXCEPT !.votes = v]
  <2>1. /\ m.status = "Proposed"
        /\ UNCHANGED <<disputes, paid, bonus_paid, refund_asked, ever_rejected>>
    BY <1>1 DEF approve_milestone, disputeVars, calls
  <2>2. set_milestone(p, r)
    BY <1>1 DEF approve_milestone
  <2>3. r.status \in {"Approved", "Proposed"} /\ r.was_resubmitted = m.was_resubmitted
    <3> HIDE DEF v, m
    <3> QED
      BY <1>0, <2>1 DEF MilestoneRecord
  <2> HIDE DEF r
  <2>4. milestones'[p] = r
    BY <1>0, <2>2, SetGet
  <2> QED
    BY <2>1, <2>3, <2>4 DEF Fate, Voting, QuietAt, Undecided
<1>2. ASSUME NEW a \in Addresses, reject_milestone(a, p)
      PROVE  Fate(p)
  <2> DEFINE r == [m EXCEPT !.votes = 0, !.status = "Rejected"]
  <2>1. m.status = "Proposed" /\ UNCHANGED <<disputes, paid, bonus_paid, refund_asked>>
    BY <1>2 DEF reject_milestone, disputeVars, calls
  <2>2. set_milestone(p, r)
    BY <1>2 DEF reject_milestone
  <2>3. r.status = "Rejected"
    BY <1>0 DEF MilestoneRecord
  <2> HIDE DEF r
  <2>4. milestones'[p] = r
    BY <1>0, <2>2, SetGet
  <2> QED
    BY <2>1, <2>3, <2>4 DEF Fate, Voting, QuietAt, Undecided
<1> QED
  BY <1>1, <1>2 DEF Vote

LEMMA ReleaseFate == \A p \in Proposals : IndInv /\ Release(p) => Fate(p)
<1> SUFFICES ASSUME NEW p \in Proposals, IndInv, Release(p)
             PROVE  Fate(p)
  OBVIOUS
<1> DEFINE m == milestones[p]
<1>0. TypeOK /\ m \in MilestoneRecord /\ bonus_paid \in [Proposals -> Nat]
  BY DEF IndInv, TypeOK
<1>1. CASE release_milestone(p)
  <2> DEFINE won == m.bonus_awarded \/ Bonus(m) > 0
             r == [m EXCEPT !.released_amount = m.amount, !.status = "Disbursed",
                            !.bonus_awarded = won]
  <2>1. /\ m.status \in {"Approved", "PartiallyDisbursed"}
        /\ bonus_paid'[p] = bonus_paid[p] + Bonus(m) /\ ever_rejected' = ever_rejected
    BY <1>0, <1>1 DEF release_milestone, Releasable
  <2>2. set_milestone(p, r)
    BY <1>1 DEF release_milestone
  <2>3. /\ r.status = "Disbursed" /\ r.approved_ledger = m.approved_ledger
        /\ r.deadline_ledger = m.deadline_ledger /\ r.was_resubmitted = m.was_resubmitted
    <3> HIDE DEF won, m
    <3> QED
      BY <1>0 DEF MilestoneRecord
  <2> HIDE DEF r
  <2>4. milestones'[p] = r
    BY <1>0, <2>2, SetGet
  <2>5. ASSUME bonus_paid'[p] # bonus_paid[p]
        PROVE  ~m.was_resubmitted /\ m.approved_ledger <= m.deadline_ledger
    <3>1. m.was_resubmitted \in BOOLEAN /\ m.approved_ledger \in Nat /\ m.deadline_ledger \in Nat
      BY <1>0 DEF MilestoneRecord
    <3>2. Bonus(m) # 0
      BY <1>0, <2>1, <2>5
    <3> QED
      BY <3>1, <3>2 DEF Bonus
  <2> QED
    BY <2>1, <2>3, <2>4, <2>5 DEF Fate, Releasing, ApprovalKept
<1>2. ASSUME NEW n \in Amounts, partially_approve_milestone(p, n)
      PROVE  Fate(p)
  <2> DEFINE released == m.released_amount + n
             status == IF released >= m.amount THEN "Disbursed" ELSE "PartiallyDisbursed"
             r == [m EXCEPT !.released_amount = released, !.status = status]
  <2>1. /\ m.status \in {"Approved", "PartiallyDisbursed"}
        /\ UNCHANGED <<bonus_paid, ever_rejected>>
    BY <1>2 DEF partially_approve_milestone, Releasable
  <2>2. set_milestone(p, r)
    BY <1>2 DEF partially_approve_milestone
  <2>3. status \in {"Disbursed", "PartiallyDisbursed"}
    OBVIOUS
  <2>4. /\ r.status = status /\ r.approved_ledger = m.approved_ledger
        /\ r.deadline_ledger = m.deadline_ledger /\ r.was_resubmitted = m.was_resubmitted
    <3> HIDE DEF released, status, m
    <3> QED
      BY <1>0 DEF MilestoneRecord
  <2> HIDE DEF r, status, released
  <2>5. milestones'[p] = r
    BY <1>0, <2>2, SetGet
  <2> QED
    BY <2>1, <2>3, <2>4, <2>5 DEF Fate, Releasing, ApprovalKept
<1> QED
  BY <1>1, <1>2 DEF Release

\* A milestone under arbitration goes back to the approval it came from.
LEMMA DisputeFate == \A p \in Proposals : IndInv /\ Dispute(p) => Fate(p)
<1> SUFFICES ASSUME NEW p \in Proposals, IndInv, Dispute(p)
             PROVE  Fate(p)
  OBVIOUS
<1> DEFINE m == milestones[p]
           d == disputes[p]
<1>0. TypeOK /\ SafeAt(p)
  BY DEF IndInv
<1>1. ASSUME NEW st \in {"Approved", "Disputed", "Refunded"},
             m.status \in {"Approved", "Disbursed", "Disputed"},
             m.status = "Disbursed" => st = "Refunded",
             set_milestone(p, [m EXCEPT !.status = st]), UNCHANGED <<bonus_paid, ever_rejected>>
      PROVE  Fate(p)
  BY <1>0, <1>1, SetStatus DEF Fate, Disputing, ApprovalKept
<1>2. ASSUME NEW a \in Addresses, dispute_milestone(a, p) PROVE Fate(p)
  BY <1>1, <1>2 DEF dispute_milestone
<1>3. ASSUME NEW a \in Addresses, raise_dispute(a, p) PROVE Fate(p)
  BY <1>1, <1>3 DEF raise_dispute, calls
<1>4. ASSUME d.outcome = "Pending"
      PROVE  m.status = "Disputed" /\ d.prior_status = "Approved"
  BY <1>0, <1>4 DEF SafeAt, DisputeSafe
<1>5. ASSUME NEW a \in Addresses, NEW uphold \in BOOLEAN, vote_dispute(a, p, uphold)
      PROVE  Fate(p)
  <2>1. m.status = "Disputed" /\ d.prior_status = "Approved"
    BY <1>4, <1>5 DEF vote_dispute
  <2>2. \/ set_milestone(p, [m EXCEPT !.status = "Refunded"])
        \/ set_milestone(p, [m EXCEPT !.status = "Approved"])
        \/ UNCHANGED milestones
    BY <1>5, <2>1 DEF vote_dispute
  <2>3. UNCHANGED <<bonus_paid, ever_rejected>>
    BY <1>5 DEF vote_dispute, calls
  <2>4. CASE UNCHANGED milestones
    BY <2>1, <2>3, <2>4 DEF Fate, Disputing, ApprovalKept
  <2> QED
    BY <1>1, <2>1, <2>2, <2>3, <2>4
<1>6. CASE resolve_expired_dispute(p)
  BY <1>1, <1>4, <1>6 DEF resolve_expired_dispute, calls
<1> QED
  BY <1>2, <1>3, <1>5, <1>6 DEF Dispute

\* A budget change may come at any time, but it changes the amount only.
LEMMA ChangeBudgetFate == IndInv /\ ChangeBudget => \A q \in Proposals : Untouched(q)
<1> SUFFICES ASSUME IndInv, ChangeBudget, NEW q \in Proposals
             PROVE  Untouched(q)
  OBVIOUS
<1>0. TypeOK /\ milestones[q] \in MilestoneRecord
  BY DEF IndInv, TypeOK
<1>1. UNCHANGED <<disputes, paid, bonus_paid, refund_asked, ever_rejected>>
  BY DEF ChangeBudget, propose_milestone_budget_change, vote_budget_change, disputeVars, calls
<1>2. CASE milestones'[q] = milestones[q]
  BY <1>1, <1>2 DEF Untouched, ApprovalKept, QuietAt
<1>3. ASSUME NEW n, milestones'[q] = [milestones[q] EXCEPT !.amount = n] PROVE Untouched(q)
  <2> DEFINE m == milestones[q]
             r == [m EXCEPT !.amount = n]
  <2>1. /\ r.status = m.status /\ r.approved_ledger = m.approved_ledger
        /\ r.deadline_ledger = m.deadline_ledger /\ r.was_resubmitted = m.was_resubmitted
    <3> HIDE DEF m
    <3> QED
      BY <1>0 DEF MilestoneRecord
  <2>2. milestones'[q] = r
    BY <1>3
  <2> HIDE DEF r
  <2> QED
    BY <1>1, <2>1, <2>2 DEF Untouched, ApprovalKept, QuietAt
<1>4. ASSUME NEW s \in MilestoneIds, NEW a \in Addresses, vote_budget_change(a, s)
      PROVE  Untouched(q)
  <2> DEFINE p == budget_changes[s].proposal_id
             n == budget_changes[s].new_amount
  <2>1. UNCHANGED milestones \/ set_milestone(p, [milestones[p] EXCEPT !.amount = n])
    BY <1>4 DEF vote_budget_change
  <2>2. milestones'[q] = milestones[q] \/ milestones'[q] = [milestones[q] EXCEPT !.amount = n]
    BY <1>0, <2>1 DEF set_milestone, TypeOK
  <2> QED
    BY <1>2, <1>3, <2>2
<1> QED
  BY <1>2, <1>4 DEF ChangeBudget, propose_milestone_budget_change

\* A call about one milestone leaves the others alone.
LEMMA OthersUntouched ==
  \A p \in Proposals : IndInv /\ (Submit(p) \/ Vote(p) \/ Release(p) \/ Dispute(p)) =>
    \A q \in Proposals \ {p} : Untouched(q)
<1> SUFFICES ASSUME NEW p \in Proposals, IndInv, Submit(p) \/ Vote(p) \/ Release(p) \/ Dispute(p),
                    NEW q \in Proposals \ {p}
             PROVE  Untouched(q)
  OBVIOUS
<1>0. TypeOK
  BY DEF IndInv
<1>1. milestones'[q] = milestones[q]
  <2>1. ASSUME NEW r, set_milestone(p, r) PROVE milestones'[q] = milestones[q]
    BY <1>0, <2>1, SetGet
  <2> QED
    BY <2>1 DEF Submit, Vote, Release, Dispute, propose_milestone, resubmit_milestone,
       set_milestone_deadline, approve_milestone, reject_milestone, release_milestone,
       partially_approve_milestone, dispute_milestone, raise_dispute, vote_dispute,
       resolve_expired_dispute
<1>2. disputes'[q] = disputes[q]
  <2>1. ASSUME NEW d, set_dispute(p, d) PROVE disputes'[q] = disputes[q]
    BY <1>0, <2>1, SetGet
  <2> QED
    BY <2>1 DEF Submit, Vote, Release, Dispute, propose_milestone, resubmit_milestone,
       set_milestone_deadline, approve_milestone, reject_milestone, release_milestone,
       partially_approve_milestone, dispute_milestone, raise_dispute, vote_dispute,
       resolve_expired_dispute, disputeVars
<1>3. /\ paid'[q] = paid[q] /\ bonus_paid'[q] = bonus_paid[q]
      /\ refund_asked'[q] = refund_asked[q] /\ ever_rejected'[q] = ever_rejected[q]
  BY <1>0 DEF TypeOK, Submit, Vote, Release, Dispute, propose_milestone, resubmit_milestone,
     set_milestone_deadline, approve_milestone, reject_milestone, release_milestone,
     partially_approve_milestone, dispute_milestone, raise_dispute, vote_dispute,
     resolve_expired_dispute, calls
<1> QED
  BY <1>1, <1>2, <1>3 DEF Untouched, ApprovalKept, QuietAt

\* Whatever the step, each milestone meets one of the four fates.
LEMMA StepFate == IndInv /\ [Next]_vars => \A p \in Proposals : Fate(p)
<1> SUFFICES ASSUME IndInv, [Next]_vars, NEW p \in Proposals PROVE Fate(p)
  OBVIOUS
<1>1. CASE UNCHANGED <<milestones, disputes, paid, bonus_paid, refund_asked, ever_rejected>>
  BY <1>1 DEF Fate, Untouched, ApprovalKept, QuietAt
<1>2. CASE Govern \/ CloseLedger \/ UNCHANGED vars
  BY <1>1, <1>2 DEF Govern, CloseLedger, vars, initialize, set_min_delay_ledgers,
     set_performance_bonus_bps, set_arbitration_config, fund_bonus_pool, disputeVars, calls
<1>3. CASE ChangeBudget
  BY <1>3, ChangeBudgetFate DEF Fate
<1>4. ASSUME NEW q \in Proposals, Submit(q) \/ Vote(q) \/ Release(q) \/ Dispute(q)
      PROVE  Fate(p)
  <2>1. CASE q = p
    BY <1>4, <2>1, SubmitFate, VoteFate, ReleaseFate, DisputeFate
  <2>2. CASE q # p
    BY <1>4, <2>2, OthersUntouched DEF Fate
  <2> QED
    BY <2>1, <2>2
<1> QED
  BY <1>2, <1>3, <1>4 DEF Next

-----------------------------------------------------------------------------
\* Why a bonus is earned: a rejection leaves a mark on the record that the next
\* submission turns into was_resubmitted, and nothing ever takes that back.
BonusSafe(p) ==
  /\ ever_rejected[p] => /\ milestones[p].status # "Absent"
                         /\ milestones[p].status = "Rejected" \/ milestones[p].was_resubmitted
  /\ bonus_paid[p] > 0 =>
       /\ ~ever_rejected[p]
       /\ milestones[p].approved_ledger <= milestones[p].deadline_ledger
       /\ milestones[p].status \in {"Disbursed", "Refunded"}

LEMMA BonusStep ==
  IndInv /\ IndInv' /\ (\A p \in Proposals : BonusSafe(p)) /\ [Next]_vars =>
    \A p \in Proposals : BonusSafe(p)'
<1> SUFFICES ASSUME IndInv, IndInv', NEW p \in Proposals, BonusSafe(p), [Next]_vars
             PROVE  BonusSafe(p)'
  OBVIOUS
<1>0. /\ bonus_paid[p] \in Nat /\ ever_rejected[p] \in BOOLEAN /\ ever_rejected'[p] \in BOOLEAN
      /\ milestones[p].was_resubmitted \in BOOLEAN
  BY DEF IndInv, TypeOK, MilestoneRecord
<1>1. Fate(p)
  BY StepFate
<1>2. CASE Untouched(p)
  BY <1>2 DEF Untouched, ApprovalKept, BonusSafe
<1>3. CASE Voting(p)
  <2>1. ~(bonus_paid'[p] > 0)
    BY <1>0, <1>3 DEF Voting, BonusSafe, Undecided
  <2>2. milestones'[p].status # "Absent"
    BY <1>3 DEF Voting
  <2>3. ASSUME ever_rejected'[p]
        PROVE  milestones'[p].status = "Rejected" \/ milestones'[p].was_resubmitted
    BY <1>0, <1>3, <2>3 DEF Voting, BonusSafe
  <2> QED
    BY <2>1, <2>2, <2>3 DEF BonusSafe
<1>4. CASE Releasing(p)
  <2>1. bonus_paid[p] = 0
    BY <1>0, <1>4 DEF Releasing, BonusSafe
  <2>2. ASSUME bonus_paid'[p] > 0
        PROVE  /\ ~ever_rejected'[p]
               /\ milestones'[p].approved_ledger <= milestones'[p].deadline_ledger
               /\ milestones'[p].status = "Disbursed"
    <3>1. bonus_paid'[p] # bonus_paid[p]
      BY <2>1, <2>2
    <3> QED
      BY <1>4, <3>1 DEF Releasing, ApprovalKept, BonusSafe
  <2> QED
    BY <1>4, <2>2 DEF Releasing, ApprovalKept, BonusSafe
<1>5. CASE Disputing(p)
  BY <1>5 DEF Disputing, ApprovalKept, BonusSafe
<1> QED
  BY <1>1, <1>2, <1>3, <1>4, <1>5 DEF Fate

\* maybe_award_bonus: over any history of rejections, resubmissions, deadlines,
\* partial releases and budget changes, a bonus goes only to a milestone that was
\* never sent back and was approved by its deadline, and only with its release.
THEOREM BonusTheorem == Spec => []BonusEarned
<1> DEFINE BonusInv == \A p \in Proposals : BonusSafe(p)
<1>1. Init => BonusInv
  BY DEF Init, BonusSafe
<1>2. BonusInv => BonusEarned
  BY DEF BonusSafe, BonusEarned
<1>3. IndInv /\ IndInv' /\ BonusInv /\ [Next]_vars => BonusInv'
  BY BonusStep
<1> QED
  BY <1>1, <1>2, <1>3, Safety, PTL DEF Spec

\* dispute_milestone, vote_dispute, resolve_expired_dispute: a refunded milestone
\* is left alone for ever, and a decided one keeps its approval ledger, so no
\* dispute restarts or shortens the timelock.
THEOREM FinalityTheorem == Spec => DisputesAreFinal
<1>1. ASSUME IndInv, [Next]_vars, NEW p \in Proposals, milestones[p].status = "Refunded"
      PROVE  /\ milestones'[p].status = "Refunded"
             /\ paid'[p] = paid[p]
             /\ refund_asked'[p] = refund_asked[p]
             /\ disputes'[p] = disputes[p]
  BY <1>1, StepFate DEF Fate, Untouched, QuietAt, Voting, Releasing, Disputing, Undecided
<1>2. ASSUME IndInv, [Next]_vars, NEW p \in Proposals, milestones[p].status \notin Undecided
      PROVE  /\ milestones'[p].approved_ledger = milestones[p].approved_ledger
             /\ milestones'[p].status \notin Undecided
  BY <1>2, StepFate DEF Fate, Untouched, ApprovalKept, Voting, Releasing, Disputing, Undecided
<1>3. IndInv /\ [Next]_vars =>
        [\A p \in Proposals :
           /\ milestones[p].status = "Refunded" =>
                /\ milestones'[p].status = "Refunded"
                /\ paid'[p] = paid[p]
                /\ refund_asked'[p] = refund_asked[p]
                /\ disputes'[p] = disputes[p]
           /\ milestones[p].status \notin {"Absent", "Proposed", "Rejected"} =>
                /\ milestones'[p].approved_ledger = milestones[p].approved_ledger
                /\ milestones'[p].status \notin {"Absent", "Proposed", "Rejected"}]_vars
  BY <1>1, <1>2 DEF Undecided
<1> QED
  BY <1>3, Safety, PTL DEF Spec, DisputesAreFinal
=============================================================================
