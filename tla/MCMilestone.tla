----------------------------- MODULE MCMilestone -----------------------------
(***************************************************************************)
(* Milestone for TLC: one milestone of one loan, two approvers of whom one *)
(* also arbitrates, a borrower who is not the contractor.                  *)
(***************************************************************************)
EXTENDS Milestone

CONSTANTS p1, s1, l1, contractor, borrower, a1, a2

MCProposals == {p1}
MCMilestoneIds == {s1}
MCLoans == {l1}
MCAddresses == {contractor, borrower, a1, a2}
MCBorrowerOf == [l \in MCLoans |-> borrower]
MCApproverLists == {<<a1, a2>>}
MCArbitratorLists == {<<a1, a2>>}
MCApprovalThresholds == {0, 2, 3}
MCArbitrationThresholds == {1, 2}
MCAmounts == {0, 1, 2}
MCDelays == {0}
MCWindows == {1}
MCBonusRates == {5000}
=============================================================================
