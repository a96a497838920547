------------------------------ MODULE LoanDesk ------------------------------
(***************************************************************************)
(* The loan desk: the application, decision and review routes of            *)
(* routes/loan.ts, updateApplication and bulkReviewApplications             *)
(* (services/loanStore.ts), the automatic rejection                         *)
(* (services/autoRejectionRuleStore.ts) and the audit trail from which past *)
(* states are rebuilt (services/loanHistory.ts).                            *)
(*                                                                          *)
(* One application is modelled.  Reviewers decide on the version they saw;  *)
(* four writers do not: the request that submitted the application (it      *)
(* holds or auto-rejects what it has already published as Pending), the     *)
(* update to Disbursing that an approval starts and does not wait for, and  *)
(* a bulk decision sent without a version.                                  *)
(***************************************************************************)
EXTENDS Integers, Sequences

CONSTANTS Reviews     \* the decisions sent by reviewers

VARIABLES
  loan,       \* the row: status and version
  desk,       \* the writers in progress
  trail,      \* the statuses the audit trail replays, in order
  lastReview, \* ghost: the last decision of a reviewer that landed
  blind,      \* ghost: the writers that landed on a version they had not seen
  trailCause  \* ghost: what has happened that the trail does not reflect

deskVars == <<loan, desk, trail, lastReview, blind, trailCause>>

\* What each writer requires of the status, what it writes, and whether the
\* UPDATE names the expected version.  /review looks at no status.
Decision == [
  approve       |-> [needs |-> {"Pending"}, to |-> "Approved", guarded |-> TRUE],
  reject        |-> [needs |-> {"Pending"}, to |-> "Rejected", guarded |-> TRUE],
  reviewApprove |-> [needs |-> {}, to |-> "Pending", guarded |-> TRUE],
  reviewReject  |-> [needs |-> {}, to |-> "Rejected", guarded |-> TRUE],
  bulkApprove   |-> [needs |-> {"Pending"}, to |-> "Approved", guarded |-> TRUE],
  bulkReject    |-> [needs |-> {"Pending"}, to |-> "Rejected", guarded |-> TRUE],
  blindApprove  |-> [needs |-> {"Pending"}, to |-> "Approved", guarded |-> FALSE],
  blindReject   |-> [needs |-> {"Pending"}, to |-> "Rejected", guarded |-> FALSE],
  hold          |-> [needs |-> {}, to |-> "MANUAL_REVIEW", guarded |-> FALSE],
  autoReject    |-> [needs |-> {}, to |-> "Rejected", guarded |-> FALSE],
  disburse      |-> [needs |-> {}, to |-> "Disbursing", guarded |-> FALSE]]

ReviewKinds == {"approve", "reject", "reviewApprove", "reviewReject",
                "bulkApprove", "bulkReject", "blindApprove", "blindReject"}
Unguarded == {k \in DOMAIN Decision : ~Decision[k].guarded}
OneTransaction == {"bulkApprove", "bulkReject", "blindApprove", "blindReject",
                   "autoReject"}

Unrecorded == {"creating", "record"}

Submission == <<"apply">>
Disbursement(r) == <<r, "disburse">>
Writers == Reviews \cup {Submission} \cup {Disbursement(r) : r \in Reviews}

\* version: the version the writer decided on; from: the status it read.
Idle == [step |-> "idle", kind |-> "none", version |-> 0, from |-> "none"]
Done == [Idle EXCEPT !.step = "done"]

Init ==
  /\ loan = [status |-> "none", version |-> 0]
  /\ desk = [w \in Writers |-> Idle]
  /\ trail = <<>>
  /\ lastReview = "none"
  /\ blind = {}
  /\ trailCause = {}

-----------------------------------------------------------------------------
(* POST /apply                                                              *)

\* createApplication: the row is there for everyone before its creation is
\* recorded.
Apply ==
  /\ desk[Submission].step = "idle"
  /\ loan' = [status |-> "Pending", version |-> 1]
  /\ desk' = [desk EXCEPT ![Submission] = [Idle EXCEPT !.step = "creating", !.version = 1]]
  /\ UNCHANGED <<trail, lastReview, blind, trailCause>>

RecordLoanCreation ==
  /\ desk[Submission].step = "creating"
  /\ trail' = Append(trail, "Pending")
  /\ desk' = [desk EXCEPT ![Submission].step = "created"]
  /\ UNCHANGED <<loan, lastReview, blind, trailCause>>

\* A matching tax id marks the row for a manual review: the version moves, the
\* status does not.
MarkTaxIdMatch ==
  /\ desk[Submission].step = "created" /\ desk[Submission].kind = "none"
  /\ loan' = [loan EXCEPT !.version = @ + 1]
  /\ desk' = [desk EXCEPT ![Submission].kind = "held", ![Submission].version = @ + 1]
  /\ UNCHANGED <<trail, lastReview, blind, trailCause>>

\* A duplicate applicant goes to MANUAL_REVIEW; otherwise, unless the tax id
\* matched, the rules may reject it; or the request ends.
ApplyOutcome(kind) ==
  /\ desk[Submission].step = "created"
  /\ kind = "autoReject" => desk[Submission].kind = "none"
  /\ desk' = [desk EXCEPT ![Submission] =
       IF kind = "none" THEN Done
       ELSE [@ EXCEPT !.step = "write", !.kind = kind, !.from = loan.status]]
  /\ UNCHANGED <<loan, trail, lastReview, blind, trailCause>>

-----------------------------------------------------------------------------
(* Reviewer decisions                                                       *)

\* The handler's read and the read in updateApplication, in one step: the
\* second repeats the version check, and no status changes without the version.
\* expected is the version the reviewer has on the screen.
Decide(r, kind, expected) ==
  /\ desk[r].step = "idle"
  /\ expected \in 1..loan.version
  /\ LET d == Decision[kind]
         stale == d.guarded /\ expected # loan.version
         wrongState == d.needs # {} /\ loan.status \notin d.needs
     IN desk' = [desk EXCEPT ![r] =
          IF stale \/ wrongState THEN Done
          ELSE [step |-> "write", kind |-> kind, from |-> loan.status,
                version |-> IF d.guarded THEN expected ELSE loan.version]]
  /\ UNCHANGED <<loan, trail, lastReview, blind, trailCause>>

\* The floating updateApplication(id, {status: "Disbursing"}) reads the row.
ReadForDisburse(w) ==
  /\ desk[w].step = "started"
  /\ desk' = [desk EXCEPT ![w].step = "write", ![w].from = loan.status]
  /\ UNCHANGED <<loan, trail, lastReview, blind, trailCause>>

-----------------------------------------------------------------------------
(* The UPDATE and the audit row                                             *)

MatchesAnyVersion(w) == TRUE   \* mutant: the WHERE clause has no version

\* The UPDATE of a guarded writer matches only the version it names.
Matches(w) == Decision[desk[w].kind].guarded => loan.version = desk[w].version

\* recordLoanChange: nothing is written when the status is the one read before.
Owed(w) == desk[w].from # Decision[desk[w].kind].to

AppendTrail(w) ==
  trail' = IF Owed(w) THEN Append(trail, Decision[desk[w].kind].to) ELSE trail

\* Others whose INSERT or UPDATE has landed and whose audit row has not.
Behind(w) == {v \in Writers \ {w} : desk[v].step \in Unrecorded}

UpdateApplication(w) ==
  /\ desk[w].step = "write"
  /\ Matches(w)
  /\ LET kind == desk[w].kind IN
     /\ loan' = [status |-> Decision[kind].to, version |-> loan.version + 1]
     /\ lastReview' = IF kind \in ReviewKinds THEN kind ELSE lastReview
     /\ blind' = IF loan.version # desk[w].version THEN blind \cup {kind} ELSE blind
     /\ IF kind \in OneTransaction
        THEN /\ IF kind = "autoReject"          \* its audit rows carry no changes
                THEN UNCHANGED trail
                ELSE trail' = Append(trail, Decision[kind].to)
             /\ trailCause' = trailCause
                  \cup (IF kind = "autoReject" THEN {"unrecorded"} ELSE {})
                  \cup (IF Behind(w) # {} THEN {"out of order"} ELSE {})
             /\ desk' = [desk EXCEPT ![w] = Done]
        ELSE /\ desk' = [desk EXCEPT ![w].step = "record"]
             /\ UNCHANGED trail
             /\ trailCause' = trailCause
                  \cup (IF Behind(w) # {} THEN {"out of order"} ELSE {})
                  \cup (IF loan.status # desk[w].from THEN {"stale diff"} ELSE {})

\* No row matches: StaleVersionError, a 409 with the current record.
VersionConflict(w) ==
  /\ desk[w].step = "write"
  /\ ~Matches(w)
  /\ desk' = [desk EXCEPT ![w] = Done]
  /\ UNCHANGED <<loan, trail, lastReview, blind, trailCause>>

\* The update throws (any other error); nothing is written.
UpdateFails(w) ==
  /\ desk[w].step = "write"
  /\ desk' = [desk EXCEPT ![w] = Done]
  /\ UNCHANGED <<loan, trail, lastReview, blind, trailCause>>

\* After its audit row an approval starts the update to Disbursing.
RecordLoanChange(w) ==
  /\ desk[w].step = "record"
  /\ AppendTrail(w)
  /\ desk' = IF desk[w].kind = "approve"
             THEN [desk EXCEPT ![w] = Done, ![Disbursement(w)] =
                    [Idle EXCEPT !.step = "started", !.kind = "disburse",
                                 !.version = desk[w].version + 1]]
             ELSE [desk EXCEPT ![w] = Done]
  /\ UNCHANGED <<loan, lastReview, blind, trailCause>>

\* The audit row fails: createApplication or updateApplication throws although
\* its write landed, the request answers 500, and an approval starts no
\* disbursement.
RecordFails(w) ==
  /\ desk[w].step \in Unrecorded
  /\ trailCause' = trailCause \cup {"row failed"}
  /\ desk' = [desk EXCEPT ![w] = Done]
  /\ UNCHANGED <<loan, trail, lastReview, blind>>

Next ==
  \/ Apply
  \/ RecordLoanCreation
  \/ MarkTaxIdMatch
  \/ \E kind \in {"hold", "autoReject", "none"} : ApplyOutcome(kind)
  \/ \E r \in Reviews, kind \in ReviewKinds, expected \in 1..loan.version :
       Decide(r, kind, expected)
  \/ \E w \in Writers :
       \/ ReadForDisburse(w) \/ UpdateApplication(w) \/ VersionConflict(w)
       \/ UpdateFails(w) \/ RecordLoanChange(w) \/ RecordFails(w)

Spec == Init /\ [][Next]_deskVars

-----------------------------------------------------------------------------
Statuses == {"Pending", "MANUAL_REVIEW", "Approved", "Rejected", "Disbursing"}

\* Types of the row, the writers and the trail.
TypeOK ==
  /\ loan.status \in Statuses \cup {"none"} /\ loan.version \in Nat
  /\ \A w \in Writers :
       desk[w].step \in {"idle", "creating", "created", "started", "write", "record", "done"}
  /\ trail \in Seq(Statuses)
  /\ blind \subseteq DOMAIN Decision

\* A decision is taken on the version the reviewer saw, whatever else runs:
\* only the four writers that name no version ever land on another one.  As
\* long as none of them has, the loan is disbursed only where approval was the
\* last word of the reviewers, and a held application has seen no review.
DecisionsStand ==
  /\ blind \subseteq Unguarded
  /\ blind = {} =>
       /\ loan.status = "Disbursing" => lastReview = "approve"
       /\ loan.status = "MANUAL_REVIEW" => lastReview = "none"

\* When no audit row is outstanding, replaying the trail gives the status of
\* the live record ("rebuilds the exact state the API would have returned",
\* services/loanHistory.ts), unless a row failed, two updates recorded out of
\* order, a diff was taken against an overtaken read, or the application was
\* rejected automatically, which records no change set.
TrailReplays ==
  loan.version > 0 /\ trailCause = {} /\ (\A w \in Writers : desk[w].step \notin Unrecorded) =>
    trail[Len(trail)] = loan.status

\* What was decided stands, and the trail says so.
DecisionsOnRecord == DecisionsStand /\ TrailReplays
=============================================================================
