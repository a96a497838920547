--------------------------- MODULE ServicingApproval ---------------------------
(***************************************************************************)
(* Transferring the servicing of a high-value loan under the four-eyes     *)
(* rule: backend/src/services/fourEyesApproval.ts, loanServicing.ts and    *)
(* the routes of routes/admin.ts that drive them.                          *)
(*                                                                         *)
(* An admin asks for a transfer; the request waits for a second admin, or  *)
(* expires.  The approving HTTP call then executes the stored payload      *)
(* itself: it schedules a transfer, which a cron job applies to the loan   *)
(* on its effective date.  Another cron job expires overdue requests.      *)
(*                                                                         *)
(* Each database access is an await.  Calls and jobs interleave between    *)
(* accesses, and every update is by id only, so a call acts on what it     *)
(* read and not on what is there.  The model is of one loan; a call        *)
(* carries out at most one decision, and its transfer is keyed by it.      *)
(***************************************************************************)
EXTENDS Naturals, FiniteSets

CONSTANTS
  Requests,    \* approval requests that may be created
  Calls,       \* HTTP calls of approve and reject
  Admins,      \* wallet addresses that pass requireAdmin
  Eligible,    \* eligibleApproverAddresses()
  Servicers,   \* toServicer values
  Servicer0,   \* the loan's servicer at the start
  Expiry,      \* fourEyesApprovalExpiryHours
  MaxNow,      \* bound on time
  None

ASSUME ApprovalAssumption ==
  /\ Eligible \subseteq Admins
  /\ Servicer0 \in Servicers
  /\ Expiry \in Nat \ {0} /\ MaxNow \in Nat
  /\ None \notin Admins \cup Servicers \cup Requests

VARIABLES
  now,         \* Date.now()
  requests,    \* FourEyesApprovalRequest rows
  calls,       \* the calls' local state
  transfers,   \* LoanServicingTransfer rows, by the call that created them
  loan,        \* the loan's servicer of record and whether it is active
  sweep,       \* ids expireDueApprovalRequests has still to expire
  due          \* transfers applyDueServicingTransfers has still to apply

vars == <<now, requests, calls, transfers, loan, sweep, due>>

RequestStatus == {"none", "PENDING", "APPROVED", "REJECTED", "EXPIRED"}
Times == 0..(MaxNow + Expiry)

Request == [status: RequestStatus, requestedBy: Admins \cup {None},
            approvedBy: Admins \cup {None}, executed: BOOLEAN, expiresAt: Times,
            toServicer: Servicers \cup {None}, effectiveDate: Times]

CallPC == {"new", "expire", "approve", "reject", "loan", "scheduled", "create",
           "notify", "done"}
Call == [pc: CallPC, req: Requests \cup {None}, admin: Admins \cup {None},
         from: Servicers \cup {None}]

Transfer == [status: {"none", "SCHEDULED", "COMPLETED"},
             from: Servicers \cup {None}, to: Servicers \cup {None},
             initiatedBy: Admins \cup {None}, effectiveDate: Times]

\* Every row and every local of a call has the shape of its type.
TypeOK ==
  /\ now \in 0..MaxNow
  /\ requests \in [Requests -> Request]
  /\ calls \in [Calls -> Call]
  /\ transfers \in [Calls -> Transfer]
  /\ loan \in [servicer: Servicers, active: BOOLEAN]
  /\ sweep \subseteq Requests
  /\ due \subseteq Calls

Init ==
  /\ now = 0
  /\ requests = [r \in Requests |->
       [status |-> "none", requestedBy |-> None, approvedBy |-> None,
        executed |-> FALSE, expiresAt |-> 0, toServicer |-> None, effectiveDate |-> 0]]
  /\ calls = [c \in Calls |-> [pc |-> "new", req |-> None, admin |-> None, from |-> None]]
  /\ transfers = [c \in Calls |->
       [status |-> "none", from |-> None, to |-> None, initiatedBy |-> None,
        effectiveDate |-> 0]]
  /\ loan = [servicer |-> Servicer0, active |-> TRUE]
  /\ sweep = {}
  /\ due = {}

-----------------------------------------------------------------------------
IsExpired(r) == requests[r].expiresAt <= now
Goto(c, to) == calls' = [calls EXCEPT ![c].pc = to]
Scheduled == {c \in Calls : transfers[c].status = "SCHEDULED"}

\* POST .../servicing-transfer on a loan above the threshold.
CreateApprovalRequest(r, admin, servicer, date) ==
  /\ requests[r].status = "none"
  /\ requests' = [requests EXCEPT ![r] =
       [status |-> "PENDING", requestedBy |-> admin, approvedBy |-> None,
        executed |-> FALSE, expiresAt |-> now + Expiry, toServicer |-> servicer,
        effectiveDate |-> date]]
  /\ UNCHANGED <<now, calls, transfers, loan, sweep, due>>

\* Mutant: the requester may decide.
RequirePending(c, r, admin, decision) ==
  /\ calls[c].pc = "new"
  /\ requests[r].status = "PENDING" /\ ~IsExpired(r)
  /\ admin \in Eligible
  /\ calls' = [calls EXCEPT ![c] = [pc |-> decision, req |-> r, admin |-> admin,
                                    from |-> None]]
  /\ UNCHANGED <<now, requests, transfers, loan, sweep, due>>

\* Mutant: a decided request may be decided again.
RequireNotSelf(c, r, admin, decision) ==
  /\ calls[c].pc = "new"
  /\ requests[r].status # "none" /\ ~IsExpired(r)
  /\ requests[r].requestedBy # admin /\ admin \in Eligible
  /\ calls' = [calls EXCEPT ![c] = [pc |-> decision, req |-> r, admin |-> admin,
                                    from |-> None]]
  /\ UNCHANGED <<now, requests, transfers, loan, sweep, due>>

\* requirePendingAndNotSelf, then isEligibleApprover: one read, and the checks
\* on what it returned.  (A call that any of them refuses changes nothing.)
RequirePendingAndNotSelf(c, r, admin, decision) ==
  /\ calls[c].pc = "new"
  /\ requests[r].status = "PENDING"
  /\ ~IsExpired(r)
  /\ requests[r].requestedBy # admin
  /\ admin \in Eligible
  /\ calls' = [calls EXCEPT ![c] = [pc |-> decision, req |-> r, admin |-> admin,
                                    from |-> None]]
  /\ UNCHANGED <<now, requests, transfers, loan, sweep, due>>

\* The same read, when the request it returned has expired.
FoundExpired(c, r, admin) ==
  /\ calls[c].pc = "new"
  /\ requests[r].status = "PENDING"
  /\ IsExpired(r)
  /\ calls' = [calls EXCEPT ![c] = [pc |-> "expire", req |-> r, admin |-> admin,
                                    from |-> None]]
  /\ UNCHANGED <<now, requests, transfers, loan, sweep, due>>

\* expireOne, on the way out of a refused call.
ExpireOne(c) ==
  /\ calls[c].pc = "expire"
  /\ requests' = [requests EXCEPT ![calls[c].req].status = "EXPIRED"]
  /\ Goto(c, "done")
  /\ UNCHANGED <<now, transfers, loan, sweep, due>>

ApproveRequest(c) ==
  /\ calls[c].pc = "approve"
  /\ requests' = [requests EXCEPT ![calls[c].req].status = "APPROVED",
                                  ![calls[c].req].approvedBy = calls[c].admin]
  /\ Goto(c, "loan")
  /\ UNCHANGED <<now, transfers, loan, sweep, due>>

RejectRequest(c) ==
  /\ calls[c].pc = "reject"
  /\ requests' = [requests EXCEPT ![calls[c].req].status = "REJECTED"]
  /\ Goto(c, "done")
  /\ UNCHANGED <<now, transfers, loan, sweep, due>>

-----------------------------------------------------------------------------
(* executeApprovedRequest: initiateServicingTransfer, then markExecuted.   *)

\* The payload's date is still ahead, and the loan's row allows the transfer.
LoanAllows(c) ==
  LET r == requests[calls[c].req]
  IN  now < r.effectiveDate /\ loan.active /\ loan.servicer # r.toServicer

ReadLoan(c) ==
  /\ calls[c].pc = "loan"
  /\ LoanAllows(c)
  /\ calls' = [calls EXCEPT ![c].pc = "scheduled", ![c].from = loan.servicer]
  /\ UNCHANGED <<now, requests, transfers, loan, sweep, due>>

FindScheduled(c) ==
  /\ calls[c].pc = "scheduled"
  /\ Scheduled = {}
  /\ Goto(c, "create")
  /\ UNCHANGED <<now, requests, transfers, loan, sweep, due>>

CreateTransfer(c) ==
  /\ calls[c].pc = "create"
  /\ LET r == requests[calls[c].req]
     IN  transfers' = [transfers EXCEPT ![c] =
           [status |-> "SCHEDULED", from |-> calls[c].from, to |-> r.toServicer,
            initiatedBy |-> calls[c].admin, effectiveDate |-> r.effectiveDate]]
  /\ Goto(c, "notify")
  /\ UNCHANGED <<now, requests, loan, sweep, due>>

MarkExecuted(c) ==
  /\ calls[c].pc = "notify"
  /\ requests' = [requests EXCEPT ![calls[c].req].executed = TRUE]
  /\ Goto(c, "done")
  /\ UNCHANGED <<now, transfers, loan, sweep, due>>

\* A check refuses the transfer, or a database call or a notification throws:
\* what the call has written so far stays, and it does nothing more.
CallFails(c) ==
  /\ calls[c].pc \notin {"new", "done"}
  /\ Goto(c, "done")
  /\ UNCHANGED <<now, requests, transfers, loan, sweep, due>>

-----------------------------------------------------------------------------
(* The two cron jobs.                                                      *)

FindDueRequests ==
  /\ sweep = {}
  /\ sweep' = {r \in Requests : requests[r].status = "PENDING" /\ IsExpired(r)}
  /\ sweep' # {}
  /\ UNCHANGED <<now, requests, calls, transfers, loan, due>>

\* Mutant: the sweep only logs.
SweepWithoutUpdate(r) ==
  /\ r \in sweep
  /\ sweep' = sweep \ {r}
  /\ UNCHANGED <<now, requests, calls, transfers, loan, due>>

SweepOne(r) ==
  /\ r \in sweep
  /\ requests' = [requests EXCEPT ![r].status = "EXPIRED"]
  /\ sweep' = sweep \ {r}
  /\ UNCHANGED <<now, calls, transfers, loan, due>>

FindDueTransfers ==
  /\ due = {}
  /\ due' = {c \in Scheduled : transfers[c].effectiveDate <= now}
  /\ due' # {}
  /\ UNCHANGED <<now, requests, calls, transfers, loan, sweep>>

\* One transaction per transfer, the earliest effective date first.
ApplyOne(c) ==
  /\ c \in due
  /\ \A d \in due : transfers[c].effectiveDate <= transfers[d].effectiveDate
  /\ loan' = [loan EXCEPT !.servicer = transfers[c].to]
  /\ transfers' = [transfers EXCEPT ![c].status = "COMPLETED"]
  /\ due' = due \ {c}
  /\ UNCHANGED <<now, requests, calls, sweep>>

\* A database error ends a job; its next run starts over.
SweepFails ==
  /\ sweep # {} /\ sweep' = {}
  /\ UNCHANGED <<now, requests, calls, transfers, loan, due>>

ApplyFails ==
  /\ due # {} /\ due' = {}
  /\ UNCHANGED <<now, requests, calls, transfers, loan, sweep>>

\* The loan leaves SERVICEABLE_STATUSES.
LoanCloses ==
  /\ loan.active
  /\ loan' = [loan EXCEPT !.active = FALSE]
  /\ UNCHANGED <<now, requests, calls, transfers, sweep, due>>

TimePasses ==
  /\ now < MaxNow
  /\ now' = now + 1
  /\ UNCHANGED <<requests, calls, transfers, loan, sweep, due>>

CallStep(c) ==
  \/ ExpireOne(c) \/ ApproveRequest(c) \/ RejectRequest(c)
  \/ ReadLoan(c) \/ FindScheduled(c) \/ CreateTransfer(c) \/ MarkExecuted(c)
  \/ CallFails(c)

Sweep == \E r \in Requests : SweepOne(r)
Apply == \E c \in Calls : ApplyOne(c)

Next ==
  \/ \E r \in Requests, a \in Admins, s \in Servicers, d \in 1..MaxNow :
       CreateApprovalRequest(r, a, s, d)
  \/ \E c \in Calls, r \in Requests, a \in Admins :
       \/ \E decision \in {"approve", "reject"} :
            RequirePendingAndNotSelf(c, r, a, decision)
       \/ FoundExpired(c, r, a)
  \/ \E c \in Calls : CallStep(c)
  \/ FindDueRequests \/ Sweep \/ SweepFails
  \/ FindDueTransfers \/ Apply \/ ApplyFails
  \/ LoanCloses \/ TimePasses

\* The event loop finishes every call, cron runs both jobs for ever, and the
\* database does not fail every one of their updates (SF).
Fairness ==
  /\ \A c \in Calls : WF_vars(CallStep(c))
  /\ WF_vars(FindDueRequests) /\ SF_vars(Sweep)
  /\ WF_vars(FindDueTransfers) /\ SF_vars(Apply)

Spec == Init /\ [][Next]_vars /\ Fairness

-----------------------------------------------------------------------------
InFlight(c, r) == calls[c].req = r /\ calls[c].pc \notin {"new", "done"}

\* A decided request that no call and no sweep is still working on.
Settled(r) ==
  /\ requests[r].status \in {"APPROVED", "REJECTED", "EXPIRED"}
  /\ \A c \in Calls : ~InFlight(c, r)
  /\ r \notin sweep

\* Four eyes: every transfer was approved by an eligible admin other than the
\* one who asked for it, and the request still shows that it was approved.  And
\* a request is marked executed only if a transfer with its payload was made: a
\* failure on the way never passes for an execution.
TransfersAreApproved ==
  /\ \A c \in Calls : transfers[c].status # "none" =>
       LET r == requests[calls[c].req]
       IN  /\ transfers[c].initiatedBy \in Eligible \ {r.requestedBy}
           /\ r.approvedBy \in Eligible \ {r.requestedBy}
  /\ \A r \in Requests : requests[r].executed =>
       \E c \in Calls : /\ calls[c].req = r
                        /\ transfers[c].status # "none"
                        /\ transfers[c].to = requests[r].toServicer

\* Once a decided request is no longer being worked on, the decision is final:
\* late calls, a repeated approval or the sweep neither change it nor schedule
\* another transfer for it.
DecisionIsFinal ==
  [][\A r \in Requests : Settled(r) =>
       /\ Settled(r)'
       /\ requests'[r] = requests[r]
       /\ \A c \in Calls : calls'[c].req = r =>
            (transfers'[c].status = "none" <=> transfers[c].status = "none")]_vars

\* A request past its expiry does not stay approvable.
OverdueIsSettled ==
  \A r \in Requests :
    requests[r].status = "PENDING" /\ IsExpired(r) ~> requests[r].status # "PENDING"

\* A scheduled transfer whose date has come is applied to the loan.
DueTransferIsApplied ==
  \A c \in Calls :
    transfers[c].status = "SCHEDULED" /\ transfers[c].effectiveDate <= now
      ~> transfers[c].status = "COMPLETED"

\* The cron jobs settle in the end what time has overtaken.
ServicingSettles == OverdueIsSettled /\ DueTransferIsApplied

\* What the check in initiateServicingTransfer is there for: a loan has at most
\* one scheduled transfer.
OneScheduledTransfer == Cardinality(Scheduled) <= 1
=============================================================================
