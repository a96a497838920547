------------------------------ MODULE Erasure ------------------------------
(***************************************************************************)
(* Erasure requests under legal hold (services/erasureWorkflow.ts and the   *)
(* routes of routes/erasure.ts), for one wallet.  The store is a map in     *)
(* memory, so a call is one step, except submission, which waits for the    *)
(* query that looks for an active loan.                                     *)
(***************************************************************************)
EXTENDS Integers, FiniteSets

CONSTANTS
  ErasureRequests,  \* request ids
  Holds,            \* hold ids an administrator attaches
  MaxDay            \* bound on the clock

VARIABLES
  day,              \* the clock that holds expire by
  activeLoan,       \* the wallet has a loan that is not settled
  erasures,         \* _requests: step of the submission, status, attached holds
  legalHolds,       \* the holds: lifted or not, expiry
  erased,           \* ghost: the requests executed so far
  circumstances,    \* ghost: what was the case at some execution
  erasureCause      \* ghost: what has happened that a hold does not protect from

Never == MaxDay + 1

\* Every request has one automatic hold at its disposal, named after it.
AllHolds == Holds \cup ErasureRequests
NoHold == [lifted |-> FALSE, expires |-> Never]

Init ==
  /\ day = 0
  /\ activeLoan \in BOOLEAN
  /\ erasures = [r \in ErasureRequests |-> [status |-> "none", holds |-> {}]]
  /\ legalHolds = [h \in AllHolds |-> NoHold]
  /\ erased = {} /\ circumstances = {} /\ erasureCause = {}

\* isHoldActive.
IsHoldActive(h) == ~legalHolds[h].lifted /\ legalHolds[h].expires > day

\* activeHoldsFor.
ActiveHoldsFor(r) == {h \in erasures[r].holds : IsHoldActive(h)}

Exists(r) == erasures[r].status \notin {"none", "checking"}

\* Nothing keeps a completed or rejected request from becoming open again.
Reopening(r) ==
  erasureCause \cup
    (IF erasures[r].status \in {"completed", "rejected"} THEN {"reopened"} ELSE {})

\* submitErasureRequest: an open request is returned instead of a second one.
SubmitErasureRequest(r) ==
  /\ erasures[r].status = "none"
  /\ \A q \in ErasureRequests : erasures[q].status \notin {"pending", "legal_hold"}
  /\ erasures' = [erasures EXCEPT ![r].status = "checking"]
  /\ UNCHANGED <<day, activeLoan, legalHolds, erased, circumstances, erasureCause>>

\* detectAutomaticHolds: an error of its query is logged, and no hold attached.
DetectAutomaticHolds(r, failed) == IF activeLoan /\ ~failed THEN {r} ELSE {}

\* The query answers, and the request is stored.
StoreRequest(r) ==
  /\ erasures[r].status = "checking"
  /\ \E failed \in BOOLEAN :
       /\ erasures' = [erasures EXCEPT ![r] =
            LET holds == DetectAutomaticHolds(r, failed)
            IN [status |-> IF holds = {} THEN "pending" ELSE "legal_hold", holds |-> holds]]
       /\ erasureCause' = erasureCause
            \cup (IF failed THEN {"loan not held"} ELSE {})
            \cup (IF \E q \in ErasureRequests : Exists(q) THEN {"two requests"} ELSE {})
  /\ UNCHANGED <<day, activeLoan, legalHolds, erased, circumstances>>

\* Mutant: only an open request is put under hold.
AttachToOpen(r, h, expires) ==
  /\ Exists(r)
  /\ \A q \in ErasureRequests : h \notin erasures[q].holds
  /\ legalHolds' = [legalHolds EXCEPT ![h] = [lifted |-> FALSE, expires |-> expires]]
  /\ erasures' = [erasures EXCEPT ![r] =
       [status |-> IF @.status = "pending" THEN "legal_hold" ELSE @.status,
        holds |-> @.holds \cup {h}]]
  /\ UNCHANGED <<day, activeLoan, erased, circumstances, erasureCause>>

\* attachLegalHold: of any request, whatever its status.
AttachLegalHold(r, h, expires) ==
  /\ Exists(r)
  /\ \A q \in ErasureRequests : h \notin erasures[q].holds
  /\ legalHolds' = [legalHolds EXCEPT ![h] = [lifted |-> FALSE, expires |-> expires]]
  /\ erasures' = [erasures EXCEPT ![r] = [status |-> "legal_hold", holds |-> @.holds \cup {h}]]
  /\ erasureCause' = Reopening(r)
  /\ UNCHANGED <<day, activeLoan, erased, circumstances>>

\* liftLegalHold: of any request, and again of a hold that is lifted already.
\* The last one makes the request pending, a decided one too.
LiftLegalHold(r, h) ==
  /\ Exists(r) /\ h \in erasures[r].holds
  /\ legalHolds' = [legalHolds EXCEPT ![h].lifted = TRUE]
  /\ erasures' = [erasures EXCEPT ![r].status =
       IF ActiveHoldsFor(r) \ {h} = {} THEN "pending" ELSE @]
  /\ erasureCause' = Reopening(r)
       \cup (IF h \in ErasureRequests THEN {"loan not held"} ELSE {})
  /\ UNCHANGED <<day, activeLoan, erased, circumstances>>

\* decideErasureRequest: looks at the holds, not at the status.
DecideErasureRequest(r, approve) ==
  /\ Exists(r)
  /\ approve => ActiveHoldsFor(r) = {}
  /\ erasures' = [erasures EXCEPT ![r].status = IF approve THEN "approved" ELSE "rejected"]
  /\ erasureCause' = Reopening(r)
  /\ UNCHANGED <<day, activeLoan, legalHolds, erased, circumstances>>

\* executeErasure.
ExecuteErasure(r) ==
  /\ erasures[r].status = "approved"
  /\ erasures' = [erasures EXCEPT ![r].status = "completed"]
  /\ erased' = erased \cup {r}
  /\ circumstances' = circumstances
       \cup (IF ActiveHoldsFor(r) # {} THEN {"held"} ELSE {})
       \cup (IF \E q \in ErasureRequests \ {r} : ActiveHoldsFor(q) # {} THEN {"held elsewhere"} ELSE {})
       \cup (IF activeLoan THEN {"indebted"} ELSE {})
       \cup (IF r \in erased THEN {"erased before"} ELSE {})
  /\ UNCHANGED <<day, activeLoan, legalHolds, erasureCause>>

\* The borrower takes a loan, which nothing here notices, or settles it.
LoanChanges ==
  /\ activeLoan' = ~activeLoan
  /\ erasureCause' = erasureCause \cup
       (IF activeLoan' /\ \E r \in ErasureRequests : Exists(r) THEN {"loan not held"} ELSE {})
  /\ UNCHANGED <<day, erasures, legalHolds, erased, circumstances>>

Tomorrow ==
  /\ day < MaxDay
  /\ day' = day + 1
  /\ UNCHANGED <<activeLoan, erasures, legalHolds, erased, circumstances, erasureCause>>

Next ==
  \/ \E r \in ErasureRequests :
       \/ SubmitErasureRequest(r) \/ StoreRequest(r) \/ ExecuteErasure(r)
       \/ \E h \in Holds, expires \in 1..Never : AttachLegalHold(r, h, expires)
       \/ \E h \in AllHolds : LiftLegalHold(r, h)
       \/ \E approve \in BOOLEAN : DecideErasureRequest(r, approve)
  \/ LoanChanges \/ Tomorrow

-----------------------------------------------------------------------------
\* Types of the requests and the holds.
TypeOK ==
  /\ \A r \in ErasureRequests :
       /\ erasures[r].status \in {"none", "checking", "pending", "legal_hold", "approved",
                                  "completed", "rejected"}
       /\ erasures[r].holds \subseteq AllHolds
  /\ legalHolds \in [AllHolds -> [lifted : BOOLEAN, expires : 1..Never]]

\* Personal data is scrubbed only while nothing requires it.  No request is
\* executed under an active hold of its own ("at least one active hold blocks
\* erasure", erasureWorkflow.ts:13), however holds and decisions follow each
\* other.  A hold on another request of the wallet is passed over only if there
\* are two requests, which an approved request or two overlapping submissions
\* allow; an unsettled loan ("still needed for active debt servicing", :99) only
\* if the query failed, the loan came later or its hold was lifted; and a request
\* is executed twice only if it was reopened.
ErasedOnlyWhenFree ==
  /\ "held" \notin circumstances
  /\ "held elsewhere" \in circumstances => "two requests" \in erasureCause
  /\ "indebted" \in circumstances => "loan not held" \in erasureCause
  /\ "erased before" \in circumstances => "reopened" \in erasureCause
=============================================================================
