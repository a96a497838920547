--------------------------- MODULE BackOfficeProofs ---------------------------
(***************************************************************************)
(* Theorems about three protocols of the backend that guard what its       *)
(* instances and its admins do at the same time: ServicingApproval, for    *)
(* any number of requests, calls, admins and servicers and any expiry,     *)
(* JobLeaderElection, for any number of instances and any interval, and    *)
(* EventPipeline, for any set of events and any batch size, retry limit    *)
(* and queue bound.  They share no state.                                  *)
(*                                                                         *)
(* Servicing.  Every update in the code is by id, and a call acts on what  *)
(* it read before it awaited.  That is safe for the four-eyes rule because *)
(* what the rule compares never changes: the requester and the payload of  *)
(* a request are written once, when it is created, and a call that is      *)
(* under way carries an admin who was checked against that requester.      *)
(*                                                                         *)
(* Election.  Everything rests on HolderIsLocked: a worker that is inside  *)
(* run() and has not lost its lock is the one the database has the lock    *)
(* down for.  So there is at most one such worker, and while it reads the  *)
(* last run and decides to start, no other run that kept its lock is       *)
(* completed.                                                              *)
(*                                                                         *)
(* Pipeline.  Two chains of custody.  From the business change to the      *)
(* queue: what is published was pushed, so what cleanup deletes was        *)
(* pushed.  From the queue on: a job that leaves the list is in the        *)
(* worker's hands until it is settled, requeued or dead-lettered.  For an  *)
(* event that was delivered once and whose counter was deleted, there is   *)
(* one copy of the job, and it is gone when the balances change.           *)
(***************************************************************************)
EXTENDS ServicingApproval, JobLeaderElection, EventPipeline, Induction

Deciding == {"approve", "reject"}
Executing == {"loan", "scheduled", "create", "notify"}

\* An admin who may decide request r.
OtherEyes(r) == Eligible \ {requests[r].requestedBy}

\* A call under way has read a request that exists.
CallsKnowTheirRequest ==
  \A c \in Calls : calls[c].pc # "new" =>
    calls[c].req \in Requests /\ requests[calls[c].req].status # "none"

\* Its admin was checked against the requester, and once it executes, so was
\* the admin the request shows as its approver.
CallsWereChecked ==
  \A c \in Calls :
    /\ calls[c].pc \in Deciding \cup Executing => calls[c].admin \in OtherEyes(calls[c].req)
    /\ calls[c].pc \in Executing => requests[calls[c].req].approvedBy \in OtherEyes(calls[c].req)

\* A transfer was made by a call that got as far as notifying, from the payload.
TransfersHaveACall ==
  \A c \in Calls :
    /\ calls[c].pc = "notify" => transfers[c].status # "none"
    /\ transfers[c].status # "none" =>
         /\ calls[c].pc \in {"notify", "done"}
         /\ transfers[c].to = requests[calls[c].req].toServicer
         /\ transfers[c].initiatedBy \in OtherEyes(calls[c].req)
         /\ requests[calls[c].req].approvedBy \in OtherEyes(calls[c].req)

\* A request is marked executed by a call that made its transfer.
ExecutedHasATransfer ==
  \A r \in Requests : requests[r].executed =>
    \E c \in Calls : /\ calls[c].req = r
                     /\ transfers[c].status # "none"
                     /\ transfers[c].to = requests[r].toServicer

\* A request that exists names a servicer: a transfer has somewhere to go.
NamedServicers ==
  \A r \in Requests : requests[r].status # "none" => requests[r].toServicer \in Servicers

\* The cron jobs work on requests and transfers that exist.
JobsKnowTheirRows ==
  /\ \A r \in sweep : requests[r].status # "none"
  /\ \A c \in due : transfers[c].status # "none"

IndInv ==
  /\ TypeOK
  /\ CallsKnowTheirRequest
  /\ CallsWereChecked
  /\ TransfersHaveACall
  /\ ExecutedHasATransfer
  /\ NamedServicers
  /\ JobsKnowTheirRows

-----------------------------------------------------------------------------
LEMMA InitInd == Init => IndInv
<1> SUFFICES ASSUME Init PROVE IndInv
  OBVIOUS
<1> USE ApprovalAssumption DEF Init
<1>1. 0 \in Times /\ 0 \in 0..MaxNow
  BY DEF Times
<1>2. TypeOK
  BY <1>1 DEF TypeOK, Request, Call, Transfer, RequestStatus, CallPC
<1> QED BY <1>2 DEF IndInv, CallsKnowTheirRequest, CallsWereChecked, TransfersHaveACall,
                    ExecutedHasATransfer, NamedServicers, JobsKnowTheirRows, Deciding, Executing

-----------------------------------------------------------------------------
(* Type correctness.                                                       *)

LEMMA CallsType ==
  ASSUME TypeOK, [Next]_vars
  PROVE  calls' \in [Calls -> Call]
<1> USE ApprovalAssumption DEF TypeOK, Call, CallPC
<1>1. ASSUME NEW c \in Calls, NEW r \in Requests, NEW a \in Admins, NEW d \in Deciding,
             RequirePendingAndNotSelf(c, r, a, d) \/ FoundExpired(c, r, a)
      PROVE  calls' \in [Calls -> Call]
  BY <1>1 DEF RequirePendingAndNotSelf, FoundExpired, Deciding
<1>2. ASSUME NEW c \in Calls, CallStep(c)
      PROVE  calls' \in [Calls -> Call]
  <2>1. ASSUME NEW to \in CallPC, Goto(c, to) PROVE calls' \in [Calls -> Call]
    BY <2>1 DEF Goto
  <2>2. CASE ReadLoan(c)
    <3>1. calls[c] \in Call /\ loan.servicer \in Servicers
      OBVIOUS
    <3>2. [calls[c] EXCEPT !.pc = "scheduled", !.from = loan.servicer] \in Call
      BY <3>1
    <3>3. calls' = [calls EXCEPT ![c] = [calls[c] EXCEPT !.pc = "scheduled", !.from = loan.servicer]]
      BY <2>2 DEF ReadLoan
    <3> QED BY <3>2, <3>3
  <2> QED BY <1>2, <2>1, <2>2 DEF CallStep, ExpireOne, ApproveRequest, RejectRequest,
       FindScheduled, CreateTransfer, MarkExecuted, CallFails
<1>3. CASE UNCHANGED calls
  BY <1>3
<1> QED BY <1>1, <1>2, <1>3 DEF Next, Sweep, Apply, vars, Deciding, CreateApprovalRequest,
     FindDueRequests, SweepOne, SweepFails, FindDueTransfers, ApplyOne, ApplyFails,
     LoanCloses, TimePasses

LEMMA RequestsType ==
  ASSUME TypeOK, CallsKnowTheirRequest, [Next]_vars
  PROVE  requests' \in [Requests -> Request]
<1> USE ApprovalAssumption DEF TypeOK, Request, RequestStatus
<1>1. ASSUME NEW r \in Requests, NEW a \in Admins, NEW s \in Servicers, NEW d \in 1..MaxNow,
             CreateApprovalRequest(r, a, s, d)
      PROVE  requests' \in [Requests -> Request]
  <2>1. now + Expiry \in Times /\ d \in Times
    BY DEF Times
  <2> QED BY <1>1, <2>1 DEF CreateApprovalRequest
<1>2. ASSUME NEW c \in Calls, CallStep(c)
      PROVE  requests' \in [Requests -> Request]
  <2>1. CASE ExpireOne(c)
    BY <2>1 DEF ExpireOne, CallsKnowTheirRequest
  <2>2. CASE ApproveRequest(c)
    <3>1. calls[c].admin \in Admins \cup {None}
      BY DEF Call
    <3>2. calls[c].req \in Requests
      BY <2>2 DEF ApproveRequest, CallsKnowTheirRequest
    <3>3. requests[calls[c].req] \in Request
      BY <3>2
    <3>4. [requests[calls[c].req] EXCEPT !.status = "APPROVED", !.approvedBy = calls[c].admin] \in Request
      BY <3>1, <3>3
    <3>5. requests' = [requests EXCEPT ![calls[c].req] =
            [requests[calls[c].req] EXCEPT !.status = "APPROVED", !.approvedBy = calls[c].admin]]
      BY <2>2, <3>2 DEF ApproveRequest
    <3> QED BY <3>4, <3>5
  <2>3. CASE RejectRequest(c)
    BY <2>3 DEF RejectRequest, CallsKnowTheirRequest
  <2>4. CASE MarkExecuted(c)
    <3>1. calls[c].req \in Requests
      BY <2>4 DEF MarkExecuted, CallsKnowTheirRequest
    <3>2. requests[calls[c].req] \in Request
      BY <3>1
    <3>3. [requests[calls[c].req] EXCEPT !.executed = TRUE] \in Request
      BY <3>2
    <3> QED BY <2>4, <3>3 DEF MarkExecuted
  <2>5. CASE UNCHANGED requests
    BY <2>5
  <2> QED BY <1>2, <2>1, <2>2, <2>3, <2>4, <2>5 DEF CallStep, ReadLoan, FindScheduled,
       CreateTransfer, CallFails
<1>3. ASSUME NEW r \in Requests, SweepOne(r)
      PROVE  requests' \in [Requests -> Request]
  BY <1>3 DEF SweepOne
<1>4. CASE UNCHANGED requests
  BY <1>4
<1> QED BY <1>1, <1>2, <1>3, <1>4 DEF Next, Sweep, Apply, vars, RequirePendingAndNotSelf,
     FoundExpired, FindDueRequests, SweepFails, FindDueTransfers, ApplyOne, ApplyFails,
     LoanCloses, TimePasses

LEMMA TransfersType ==
  ASSUME TypeOK, CallsKnowTheirRequest, [Next]_vars
  PROVE  transfers' \in [Calls -> Transfer]
<1> USE DEF TypeOK, Transfer
<1>1. ASSUME NEW c \in Calls, CreateTransfer(c)
      PROVE  transfers' \in [Calls -> Transfer]
  <2>1. requests[calls[c].req] \in Request
    BY <1>1 DEF CreateTransfer, CallsKnowTheirRequest
  <2>2. calls[c].from \in Servicers \cup {None} /\ calls[c].admin \in Admins \cup {None}
    BY DEF Call
  <2> QED BY <1>1, <2>1, <2>2 DEF CreateTransfer, Request
<1>2. ASSUME NEW c \in Calls, ApplyOne(c)
      PROVE  transfers' \in [Calls -> Transfer]
  BY <1>2 DEF ApplyOne
<1>3. CASE UNCHANGED transfers
  BY <1>3
<1> QED BY <1>1, <1>2, <1>3 DEF Next, CallStep, Sweep, Apply, vars, CreateApprovalRequest,
     RequirePendingAndNotSelf, FoundExpired, ExpireOne, ApproveRequest, RejectRequest, ReadLoan,
     FindScheduled, MarkExecuted, CallFails, FindDueRequests, SweepOne, SweepFails,
     FindDueTransfers, ApplyFails, LoanCloses, TimePasses

\* A transfer that is applied names a servicer, so the loan keeps one.
LEMMA RestType ==
  ASSUME IndInv, [Next]_vars
  PROVE  /\ now' \in 0..MaxNow
         /\ loan' \in [servicer: Servicers, active: BOOLEAN]
         /\ sweep' \subseteq Requests
         /\ due' \subseteq Calls
<1> USE ApprovalAssumption DEF IndInv, TypeOK
<1>1. ASSUME NEW c \in Calls, ApplyOne(c)
      PROVE  loan' \in [servicer: Servicers, active: BOOLEAN]
  <2>1. transfers[c].to \in Servicers
    BY <1>1 DEF ApplyOne, JobsKnowTheirRows, TransfersHaveACall, NamedServicers, CallsKnowTheirRequest
  <2> QED BY <1>1, <2>1 DEF ApplyOne
<1>2. ASSUME NEW c \in Calls, ApplyOne(c)
      PROVE  UNCHANGED <<now, sweep>> /\ due' \subseteq Calls
  BY <1>2 DEF ApplyOne
<1>3. CASE TimePasses
  BY <1>3 DEF TimePasses
<1>4. CASE LoanCloses
  BY <1>4 DEF LoanCloses
<1>5. CASE FindDueRequests \/ SweepFails \/ FindDueTransfers \/ ApplyFails \/ Sweep
  BY <1>5 DEF FindDueRequests, SweepFails, FindDueTransfers, ApplyFails, Sweep, SweepOne, Scheduled
<1>6. CASE UNCHANGED <<now, loan, sweep, due>>
  BY <1>6
<1> QED BY <1>1, <1>2, <1>3, <1>4, <1>5, <1>6 DEF Next, CallStep, Apply, vars,
     CreateApprovalRequest, RequirePendingAndNotSelf, FoundExpired, ExpireOne, ApproveRequest,
     RejectRequest, ReadLoan, FindScheduled, CreateTransfer, MarkExecuted, CallFails

-----------------------------------------------------------------------------
(* What no step ever changes.                                              *)

\* The requester and the payload of a request are written once.
LEMMA RequestsKeep ==
  ASSUME IndInv, [Next]_vars, NEW r \in Requests, requests[r].status # "none"
  PROVE  /\ requests'[r].status # "none"
         /\ requests'[r].requestedBy = requests[r].requestedBy
         /\ requests'[r].toServicer = requests[r].toServicer
         /\ requests'[r].approvedBy = requests[r].approvedBy
              \/ requests'[r].approvedBy \in OtherEyes(r)
<1> DEFINE Kept ==
      /\ requests'[r].status # "none"
      /\ requests'[r].requestedBy = requests[r].requestedBy
      /\ requests'[r].toServicer = requests[r].toServicer
      /\ requests'[r].approvedBy = requests[r].approvedBy \/ requests'[r].approvedBy \in OtherEyes(r)
<1> USE DEF IndInv, TypeOK, Request, OtherEyes
<1>1. ASSUME NEW q \in Requests, NEW a \in Admins, NEW s \in Servicers, NEW d \in 1..MaxNow,
             CreateApprovalRequest(q, a, s, d)
      PROVE  Kept
  BY <1>1 DEF CreateApprovalRequest
<1>2. ASSUME NEW c \in Calls, CallStep(c)
      PROVE  Kept
  <2>1. CASE ExpireOne(c)
    BY <2>1 DEF ExpireOne, CallsKnowTheirRequest
  <2>2. CASE ApproveRequest(c)
    <3>1. calls[c].req \in Requests /\ calls[c].admin \in OtherEyes(calls[c].req)
      BY <2>2 DEF ApproveRequest, CallsKnowTheirRequest, CallsWereChecked, Deciding
    <3> QED BY <2>2, <3>1 DEF ApproveRequest
  <2>3. CASE RejectRequest(c)
    BY <2>3 DEF RejectRequest, CallsKnowTheirRequest
  <2>4. CASE MarkExecuted(c)
    BY <2>4 DEF MarkExecuted, CallsKnowTheirRequest
  <2>5. CASE UNCHANGED requests
    BY <2>5
  <2> QED BY <1>2, <2>1, <2>2, <2>3, <2>4, <2>5 DEF CallStep, ReadLoan, FindScheduled,
       CreateTransfer, CallFails
<1>3. ASSUME NEW q \in Requests, SweepOne(q)
      PROVE  Kept
  BY <1>3 DEF SweepOne
<1>4. CASE UNCHANGED requests
  BY <1>4
<1> QED BY <1>1, <1>2, <1>3, <1>4 DEF Next, Sweep, Apply, vars, RequirePendingAndNotSelf,
     FoundExpired, FindDueRequests, SweepFails, FindDueTransfers, ApplyOne, ApplyFails,
     LoanCloses, TimePasses

\* A call keeps the request and the admin it started with.
LEMMA CallsKeep ==
  ASSUME IndInv, [Next]_vars, NEW c \in Calls, calls[c].pc # "new"
  PROVE  /\ calls'[c].pc # "new"
         /\ calls'[c].req = calls[c].req
         /\ calls'[c].admin = calls[c].admin
<1> USE DEF IndInv, TypeOK, Call
<1>1. ASSUME NEW d \in Calls, NEW to \in CallPC \ {"new"}, Goto(d, to)
      PROVE  /\ calls'[c].pc # "new"
             /\ calls'[c].req = calls[c].req
             /\ calls'[c].admin = calls[c].admin
  BY <1>1 DEF Goto
<1>2. ASSUME NEW d \in Calls, ReadLoan(d)
      PROVE  /\ calls'[c].pc # "new"
             /\ calls'[c].req = calls[c].req
             /\ calls'[c].admin = calls[c].admin
  BY <1>2 DEF ReadLoan
<1>3. ASSUME NEW d \in Calls, CallStep(d)
      PROVE  ReadLoan(d) \/ \E to \in CallPC \ {"new"} : Goto(d, to)
  BY <1>3 DEF CallStep, ExpireOne, ApproveRequest, RejectRequest, FindScheduled, CreateTransfer,
              MarkExecuted, CallFails, CallPC
<1>4. ASSUME NEW d \in Calls, NEW r \in Requests, NEW a \in Admins, NEW to \in Deciding,
             RequirePendingAndNotSelf(d, r, a, to) \/ FoundExpired(d, r, a)
      PROVE  UNCHANGED calls[c]
  BY <1>4 DEF RequirePendingAndNotSelf, FoundExpired
<1>5. CASE UNCHANGED calls
  BY <1>5
<1> QED BY <1>1, <1>2, <1>3, <1>4, <1>5 DEF Next, Sweep, Apply, vars, Deciding,
     CreateApprovalRequest, FindDueRequests, SweepOne, SweepFails, FindDueTransfers, ApplyOne,
     ApplyFails, LoanCloses, TimePasses

\* A transfer is written once; only its status moves on.
LEMMA TransfersKeep ==
  ASSUME IndInv, [Next]_vars, NEW c \in Calls, transfers[c].status # "none"
  PROVE  /\ transfers'[c].status # "none"
         /\ transfers'[c].to = transfers[c].to
         /\ transfers'[c].initiatedBy = transfers[c].initiatedBy
<1> USE DEF IndInv, TypeOK, Transfer
<1>1. ASSUME NEW d \in Calls, CreateTransfer(d)
      PROVE  UNCHANGED transfers[c]
  BY <1>1 DEF CreateTransfer, TransfersHaveACall
<1>2. ASSUME NEW d \in Calls, ApplyOne(d)
      PROVE  /\ transfers'[c].status # "none"
             /\ transfers'[c].to = transfers[c].to
             /\ transfers'[c].initiatedBy = transfers[c].initiatedBy
  BY <1>2 DEF ApplyOne
<1>3. CASE UNCHANGED transfers
  BY <1>3
<1> QED BY <1>1, <1>2, <1>3 DEF Next, CallStep, Sweep, Apply, vars, CreateApprovalRequest,
     RequirePendingAndNotSelf, FoundExpired, ExpireOne, ApproveRequest, RejectRequest, ReadLoan,
     FindScheduled, MarkExecuted, CallFails, FindDueRequests, SweepOne, SweepFails,
     FindDueTransfers, ApplyFails, LoanCloses, TimePasses

-----------------------------------------------------------------------------
(* Where a call can be after a step, and what brought it there.            *)

\* A call enters run-time states only through the checks of its first read.
LEMMA CallEnters ==
  ASSUME IndInv, [Next]_vars, NEW c \in Calls, calls'[c].pc # "new"
  PROVE  \/ calls[c].pc # "new"
         \/ /\ calls'[c].pc \in {"approve", "reject", "expire"}
            /\ calls'[c].req \in Requests
            /\ requests[calls'[c].req].status # "none"
            /\ UNCHANGED <<requests, transfers>>
            /\ calls'[c].pc \in Deciding => calls'[c].admin \in OtherEyes(calls'[c].req)
<1> USE DEF IndInv, TypeOK, Call
<1> SUFFICES ASSUME calls[c].pc = "new"
             PROVE  /\ calls'[c].pc \in {"approve", "reject", "expire"}
                    /\ calls'[c].req \in Requests
                    /\ requests[calls'[c].req].status # "none"
                    /\ UNCHANGED <<requests, transfers>>
                    /\ calls'[c].pc \in Deciding => calls'[c].admin \in OtherEyes(calls'[c].req)
  OBVIOUS
<1>1. calls'[c] # calls[c]
  OBVIOUS
<1>2. ASSUME NEW d \in Calls, CallStep(d)
      PROVE  UNCHANGED calls[c]
  BY <1>2 DEF CallStep, ExpireOne, ApproveRequest, RejectRequest, ReadLoan, FindScheduled,
              CreateTransfer, MarkExecuted, CallFails, Goto
<1>3. PICK d \in Calls, r \in Requests, a \in Admins :
        (\E to \in Deciding : RequirePendingAndNotSelf(d, r, a, to)) \/ FoundExpired(d, r, a)
  BY <1>1, <1>2 DEF Next, Sweep, Apply, vars, Deciding,
     CreateApprovalRequest, FindDueRequests, SweepOne, SweepFails, FindDueTransfers, ApplyOne,
     ApplyFails, LoanCloses, TimePasses
<1>4. d = c
  BY <1>1, <1>3 DEF RequirePendingAndNotSelf, FoundExpired
<1>5. CASE FoundExpired(c, r, a)
  BY <1>5 DEF FoundExpired, Deciding
<1>6. ASSUME NEW to \in Deciding, RequirePendingAndNotSelf(c, r, a, to)
      PROVE  /\ calls'[c].pc \in {"approve", "reject", "expire"}
             /\ calls'[c].req \in Requests
             /\ requests[calls'[c].req].status # "none"
             /\ UNCHANGED <<requests, transfers>>
             /\ calls'[c].admin \in OtherEyes(calls'[c].req)
  BY <1>6 DEF RequirePendingAndNotSelf, Deciding, OtherEyes
<1> QED BY <1>3, <1>4, <1>5, <1>6

\* The code's order: a decision comes first, the execution only after an
\* approval, the notification only after the transfer.
LEMMA CallAdvances ==
  ASSUME IndInv, [Next]_vars, NEW c \in Calls, calls[c].pc # "new"
  PROVE  /\ calls'[c].pc \in Deciding => calls[c].pc \in Deciding
         /\ calls'[c].pc \in Executing =>
              \/ calls[c].pc \in Executing
              \/ calls[c].pc = "approve" /\ requests'[calls[c].req].approvedBy = calls[c].admin
         /\ calls'[c].pc = "notify" => calls[c].pc = "notify" \/ CreateTransfer(c)
         /\ calls[c].pc \in {"notify", "done"} => calls'[c].pc \in {"notify", "done"}
<1> USE DEF IndInv, TypeOK, Call, Deciding, Executing
<1>1. CASE CallStep(c)
  <2>1. CASE ApproveRequest(c)
    BY <2>1 DEF ApproveRequest, Goto, CallsKnowTheirRequest
  <2>2. CASE CreateTransfer(c)
    BY <2>2 DEF CreateTransfer, Goto
  <2>3. CASE ReadLoan(c) \/ FindScheduled(c)
    BY <2>3 DEF ReadLoan, FindScheduled, Goto
  <2>4. CASE ExpireOne(c) \/ RejectRequest(c) \/ MarkExecuted(c) \/ CallFails(c)
    BY <2>4 DEF ExpireOne, RejectRequest, MarkExecuted, CallFails, Goto
  <2> QED BY <1>1, <2>1, <2>2, <2>3, <2>4 DEF CallStep
<1>2. CASE UNCHANGED calls[c]
  BY <1>2
<1>3. ASSUME NEW d \in Calls, CallStep(d), d # c PROVE UNCHANGED calls[c]
  BY <1>3 DEF CallStep, ExpireOne, ApproveRequest, RejectRequest, ReadLoan, FindScheduled,
              CreateTransfer, MarkExecuted, CallFails, Goto
<1>4. ASSUME NEW d \in Calls, NEW r \in Requests, NEW a \in Admins, NEW to \in Deciding,
             RequirePendingAndNotSelf(d, r, a, to) \/ FoundExpired(d, r, a)
      PROVE  UNCHANGED calls[c]
  BY <1>4 DEF RequirePendingAndNotSelf, FoundExpired
<1> QED BY <1>1, <1>2, <1>3, <1>4 DEF Next, Sweep, Apply, vars,
     CreateApprovalRequest, FindDueRequests, SweepOne, SweepFails, FindDueTransfers, ApplyOne,
     ApplyFails, LoanCloses, TimePasses

\* A transfer comes into being by CreateTransfer, with the request's payload.
LEMMA TransferAppears ==
  ASSUME IndInv, [Next]_vars, NEW c \in Calls, transfers[c].status = "none",
         transfers'[c].status # "none"
  PROVE  /\ CreateTransfer(c)
         /\ calls'[c].pc = "notify"
         /\ transfers'[c].to = requests[calls[c].req].toServicer
         /\ transfers'[c].initiatedBy = calls[c].admin
<1> USE DEF IndInv, TypeOK, Transfer
<1>1. ASSUME NEW d \in Calls, ApplyOne(d) PROVE FALSE
  BY <1>1 DEF ApplyOne, JobsKnowTheirRows
<1>2. PICK d \in Calls : CreateTransfer(d)
  BY <1>1 DEF Next, CallStep, Sweep, Apply, vars, CreateApprovalRequest,
     RequirePendingAndNotSelf, FoundExpired, ExpireOne, ApproveRequest, RejectRequest, ReadLoan,
     FindScheduled, MarkExecuted, CallFails, FindDueRequests, SweepOne, SweepFails,
     FindDueTransfers, ApplyFails, LoanCloses, TimePasses
<1>3. d = c
  BY <1>2 DEF CreateTransfer
<1> QED BY <1>2, <1>3 DEF CreateTransfer, Goto, Call

-----------------------------------------------------------------------------
(* The inductive invariant is kept.                                        *)

LEMMA NextKnows == IndInv /\ [Next]_vars => CallsKnowTheirRequest'
<1> SUFFICES ASSUME IndInv, [Next]_vars, NEW c \in Calls, calls'[c].pc # "new"
             PROVE  calls'[c].req \in Requests /\ requests'[calls'[c].req].status # "none"
  BY DEF CallsKnowTheirRequest
<1>1. CASE calls[c].pc # "new"
  BY <1>1, CallsKeep, RequestsKeep DEF IndInv, CallsKnowTheirRequest
<1>2. CASE calls[c].pc = "new"
  BY <1>2, CallEnters
<1> QED BY <1>1, <1>2

LEMMA NextChecked == IndInv /\ [Next]_vars => CallsWereChecked'
<1> SUFFICES ASSUME IndInv, [Next]_vars, NEW c \in Calls
             PROVE  /\ calls'[c].pc \in Deciding \cup Executing =>
                         calls'[c].admin \in OtherEyes(calls[c].req)'
                    /\ calls'[c].pc \in Executing =>
                         requests'[calls'[c].req].approvedBy \in OtherEyes(calls[c].req)'
  BY DEF CallsWereChecked
<1>1. CASE calls[c].pc # "new"
  <2>1. /\ calls'[c].pc # "new"
        /\ calls'[c].req = calls[c].req
        /\ calls'[c].admin = calls[c].admin
    BY <1>1, CallsKeep
  <2>2. calls[c].req \in Requests /\ requests[calls[c].req].status # "none"
    BY <1>1 DEF IndInv, CallsKnowTheirRequest
  <2>3. OtherEyes(calls[c].req)' = OtherEyes(calls[c].req)
    BY <2>1, <2>2, RequestsKeep DEF OtherEyes
  <2>4. \/ requests'[calls[c].req].approvedBy = requests[calls[c].req].approvedBy
        \/ requests'[calls[c].req].approvedBy \in OtherEyes(calls[c].req)
    BY <2>2, RequestsKeep
  <2> QED BY <1>1, <2>1, <2>3, <2>4, CallAdvances DEF IndInv, CallsWereChecked, Deciding, Executing
<1>2. CASE calls[c].pc = "new" /\ calls'[c].pc # "new"
  BY <1>2, CallEnters DEF Deciding, Executing, OtherEyes
<1>3. CASE calls'[c].pc = "new"
  BY <1>3 DEF Deciding, Executing
<1> QED BY <1>1, <1>2, <1>3

LEMMA NextHaveACall == IndInv /\ [Next]_vars => TransfersHaveACall'
<1> SUFFICES ASSUME IndInv, [Next]_vars PROVE TransfersHaveACall'
  OBVIOUS
<1>1. ASSUME NEW c \in Calls, calls'[c].pc = "notify"
      PROVE  transfers'[c].status # "none"
  <2>1. calls[c].pc # "new"
    BY <1>1, CallEnters
  <2>2. calls[c].pc = "notify" \/ CreateTransfer(c)
    BY <1>1, <2>1, CallAdvances
  <2>3. CASE calls[c].pc = "notify"
    BY <2>3, TransfersKeep DEF IndInv, TransfersHaveACall
  <2>4. CASE CreateTransfer(c)
    BY <2>4 DEF CreateTransfer, IndInv, TypeOK
  <2> QED BY <2>2, <2>3, <2>4
<1>2. ASSUME NEW c \in Calls, transfers'[c].status # "none"
      PROVE  /\ calls'[c].pc \in {"notify", "done"}
             /\ transfers'[c].to = requests'[calls'[c].req].toServicer
             /\ transfers'[c].initiatedBy \in OtherEyes(calls[c].req)'
             /\ requests'[calls'[c].req].approvedBy \in OtherEyes(calls[c].req)'
  <2>1. calls[c].pc # "new"
    BY <1>2, TransferAppears DEF IndInv, TransfersHaveACall, CreateTransfer
  <2>2. calls'[c].req = calls[c].req
    BY <2>1, CallsKeep
  <2>3. calls[c].req \in Requests /\ requests[calls[c].req].status # "none"
    BY <2>1 DEF IndInv, CallsKnowTheirRequest
  <2>4. /\ OtherEyes(calls[c].req)' = OtherEyes(calls[c].req)
        /\ requests'[calls'[c].req].toServicer = requests[calls[c].req].toServicer
        /\ \/ requests'[calls'[c].req].approvedBy = requests[calls[c].req].approvedBy
           \/ requests'[calls'[c].req].approvedBy \in OtherEyes(calls[c].req)
    BY <2>2, <2>3, RequestsKeep DEF OtherEyes
  <2>5. CASE transfers[c].status # "none"
    BY <2>1, <2>4, <2>5, TransfersKeep, CallAdvances DEF IndInv, TransfersHaveACall
  <2>6. CASE transfers[c].status = "none"
    <3>1. /\ calls[c].pc = "create"
          /\ calls'[c].pc = "notify"
          /\ transfers'[c].to = requests[calls[c].req].toServicer
          /\ transfers'[c].initiatedBy = calls[c].admin
      BY <1>2, <2>6, TransferAppears DEF CreateTransfer
    <3> QED BY <2>4, <3>1 DEF IndInv, CallsWereChecked, Executing
  <2> QED BY <2>5, <2>6
<1> QED BY <1>1, <1>2 DEF TransfersHaveACall

LEMMA NextExecuted == IndInv /\ [Next]_vars => ExecutedHasATransfer'
<1> SUFFICES ASSUME IndInv, [Next]_vars, NEW r \in Requests, requests'[r].executed
             PROVE  \E c \in Calls : /\ calls'[c].req = r
                                     /\ transfers'[c].status # "none"
                                     /\ transfers'[c].to = requests'[r].toServicer
  BY DEF ExecutedHasATransfer
<1>1. PICK c \in Calls : /\ calls[c].req = r
                         /\ transfers[c].status # "none"
                         /\ transfers[c].to = requests[r].toServicer
  <2>1. CASE requests[r].executed
    BY <2>1 DEF IndInv, ExecutedHasATransfer
  <2>2. CASE ~requests[r].executed
    <3> USE DEF IndInv, TypeOK, Request
    <3>1. ASSUME NEW q \in Requests, NEW a \in Admins, NEW s \in Servicers, NEW d \in 1..MaxNow,
                 CreateApprovalRequest(q, a, s, d)
          PROVE  FALSE
      BY <2>2, <3>1 DEF CreateApprovalRequest
    <3>2. ASSUME NEW c \in Calls, ExpireOne(c) \/ ApproveRequest(c) \/ RejectRequest(c)
          PROVE  FALSE
      BY <2>2, <3>2 DEF ExpireOne, ApproveRequest, RejectRequest
    <3>3. ASSUME NEW q \in Requests, SweepOne(q) PROVE FALSE
      BY <2>2, <3>3 DEF SweepOne
    <3>4. requests' # requests
      BY <2>2
    <3>5. PICK c \in Calls : MarkExecuted(c)
      BY <3>1, <3>2, <3>3, <3>4 DEF Next, CallStep, Sweep, Apply, vars,
         RequirePendingAndNotSelf, FoundExpired, ReadLoan, FindScheduled, CreateTransfer,
         CallFails, FindDueRequests, SweepFails, FindDueTransfers, ApplyOne, ApplyFails,
         LoanCloses, TimePasses
    <3>6. calls[c].req = r /\ calls[c].pc = "notify"
      BY <2>2, <3>5 DEF MarkExecuted
    <3> QED BY <3>6 DEF TransfersHaveACall
  <2> QED BY <2>1, <2>2
<1>2. calls[c].pc # "new" /\ requests[r].status # "none"
  BY <1>1 DEF IndInv, TransfersHaveACall, CallsKnowTheirRequest
<1> QED BY <1>1, <1>2, CallsKeep, RequestsKeep, TransfersKeep

LEMMA NextNamed == IndInv /\ [Next]_vars => NamedServicers'
<1> SUFFICES ASSUME IndInv, [Next]_vars, NEW r \in Requests, requests'[r].status # "none"
             PROVE  requests'[r].toServicer \in Servicers
  BY DEF NamedServicers
<1>1. CASE requests[r].status # "none"
  BY <1>1, RequestsKeep DEF IndInv, NamedServicers
<1>2. CASE requests[r].status = "none"
  <2> USE <1>2 DEF IndInv, TypeOK, Request
  <2>1. ASSUME NEW q \in Requests, NEW a \in Admins, NEW s \in Servicers, NEW d \in 1..MaxNow,
               CreateApprovalRequest(q, a, s, d)
        PROVE  requests'[r].toServicer \in Servicers
    BY <2>1 DEF CreateApprovalRequest
  <2>2. ASSUME NEW c \in Calls,
               ExpireOne(c) \/ ApproveRequest(c) \/ RejectRequest(c) \/ MarkExecuted(c)
        PROVE  FALSE
    <3>1. calls[c].req # r
      BY <2>2 DEF ExpireOne, ApproveRequest, RejectRequest, MarkExecuted, CallsKnowTheirRequest
    <3> QED BY <2>2, <3>1 DEF ExpireOne, ApproveRequest, RejectRequest, MarkExecuted
  <2>3. ASSUME NEW q \in Requests, SweepOne(q) PROVE FALSE
    BY <2>3 DEF SweepOne, JobsKnowTheirRows
  <2>4. CASE UNCHANGED requests
    BY <2>4
  <2> QED BY <2>1, <2>2, <2>3, <2>4 DEF Next, CallStep, Sweep, Apply, vars,
       RequirePendingAndNotSelf, FoundExpired, ReadLoan, FindScheduled, CreateTransfer,
       CallFails, FindDueRequests, SweepFails, FindDueTransfers, ApplyOne, ApplyFails,
       LoanCloses, TimePasses
<1> QED BY <1>1, <1>2

LEMMA NextJobs == IndInv /\ [Next]_vars => JobsKnowTheirRows'
<1> SUFFICES ASSUME IndInv, [Next]_vars PROVE JobsKnowTheirRows'
  OBVIOUS
<1>1. \A r \in sweep' : r \in Requests /\ requests[r].status # "none"
  BY DEF IndInv, TypeOK, JobsKnowTheirRows, Next, CallStep, Sweep, Apply, vars,
     CreateApprovalRequest, RequirePendingAndNotSelf, FoundExpired, ExpireOne, ApproveRequest,
     RejectRequest, ReadLoan, FindScheduled, CreateTransfer, MarkExecuted, CallFails,
     FindDueRequests, SweepOne, SweepFails, FindDueTransfers, ApplyOne, ApplyFails, LoanCloses,
     TimePasses
<1>2. \A c \in due' : c \in Calls /\ transfers[c].status # "none"
  BY DEF IndInv, TypeOK, JobsKnowTheirRows, Next, CallStep, Sweep, Apply, vars,
     CreateApprovalRequest, RequirePendingAndNotSelf, FoundExpired, ExpireOne, ApproveRequest,
     RejectRequest, ReadLoan, FindScheduled, CreateTransfer, MarkExecuted, CallFails,
     FindDueRequests, SweepOne, SweepFails, FindDueTransfers, ApplyOne, ApplyFails, LoanCloses,
     TimePasses, Scheduled
<1> QED BY <1>1, <1>2, RequestsKeep, TransfersKeep DEF JobsKnowTheirRows

\* The invariant behind the theorems below: types, calls that were checked
\* against a requester who never changes, transfers and executions that go
\* back to such a call.
THEOREM ApprovalInvariant == Spec => []IndInv
<1>1. IndInv /\ [Next]_vars => IndInv'
  <2> SUFFICES ASSUME IndInv, [Next]_vars PROVE IndInv'
    OBVIOUS
  <2>1. TypeOK'
    BY CallsType, RequestsType, TransfersType, RestType DEF IndInv, TypeOK
  <2> QED BY <2>1, NextKnows, NextChecked, NextHaveACall, NextExecuted, NextNamed, NextJobs
          DEF IndInv
<1> QED BY InitInd, <1>1, PTL DEF Spec

-----------------------------------------------------------------------------
\* fourEyesApproval.ts, requirePendingAndNotSelf: however the calls and the cron
\* jobs interleave, every transfer was initiated and its request approved by an
\* eligible admin other than the requester, and "executed" means a transfer.
THEOREM FourEyes == Spec => []TransfersAreApproved
<1>1. IndInv => TransfersAreApproved
  BY DEF IndInv, TransfersAreApproved, TransfersHaveACall, ExecutedHasATransfer, OtherEyes
<1> QED BY ApprovalInvariant, <1>1, PTL

\* A settled request keeps its row: whoever could write it is done with it.
LEMMA SettledRow ==
  ASSUME IndInv, [Next]_vars, NEW r \in Requests, Settled(r)
  PROVE  requests'[r] = requests[r]
<1> USE DEF Settled, InFlight, IndInv, TypeOK
<1>1. ASSUME NEW q \in Requests, NEW a \in Admins, NEW s \in Servicers, NEW d \in 1..MaxNow,
             CreateApprovalRequest(q, a, s, d)
      PROVE  requests'[r] = requests[r]
  BY <1>1 DEF CreateApprovalRequest
<1>2. ASSUME NEW c \in Calls,
             ExpireOne(c) \/ ApproveRequest(c) \/ RejectRequest(c) \/ MarkExecuted(c)
      PROVE  requests'[r] = requests[r]
  <2>1. calls[c].req # r
    BY <1>2 DEF ExpireOne, ApproveRequest, RejectRequest, MarkExecuted
  <2> QED BY <1>2, <2>1 DEF ExpireOne, ApproveRequest, RejectRequest, MarkExecuted
<1>3. ASSUME NEW q \in Requests, SweepOne(q)
      PROVE  requests'[r] = requests[r]
  BY <1>3 DEF SweepOne
<1>4. CASE UNCHANGED requests
  BY <1>4
<1> QED BY <1>1, <1>2, <1>3, <1>4 DEF Next, CallStep, Sweep, Apply, vars,
     RequirePendingAndNotSelf, FoundExpired, ReadLoan, FindScheduled, CreateTransfer,
     CallFails, FindDueRequests, SweepFails, FindDueTransfers, ApplyOne, ApplyFails,
     LoanCloses, TimePasses

\* Nobody takes a settled request up again: it is not pending.
LEMMA SettledStays ==
  ASSUME IndInv, [Next]_vars, NEW r \in Requests, Settled(r)
  PROVE  Settled(r)'
<1>1. requests'[r] = requests[r]
  BY SettledRow
<1>2. ASSUME NEW c \in Calls, InFlight(c, r)' PROVE FALSE
  <2>1. CASE calls[c].pc \notin {"new", "done"}
    BY <1>2, <2>1, CallsKeep DEF InFlight, Settled
  <2>2. CASE calls[c].pc = "done"
    <3> USE DEF IndInv, TypeOK, Call
    <3>1. ASSUME NEW d \in Calls, CallStep(d) PROVE UNCHANGED calls[c]
      BY <2>2, <3>1 DEF CallStep, ExpireOne, ApproveRequest, RejectRequest, ReadLoan,
         FindScheduled, CreateTransfer, MarkExecuted, CallFails, Goto
    <3>2. ASSUME NEW d \in Calls, NEW q \in Requests, NEW a \in Admins, NEW to \in Deciding,
                 RequirePendingAndNotSelf(d, q, a, to) \/ FoundExpired(d, q, a)
          PROVE  UNCHANGED calls[c]
      BY <2>2, <3>2 DEF RequirePendingAndNotSelf, FoundExpired
    <3>3. UNCHANGED calls[c]
      BY <3>1, <3>2 DEF Next, Sweep, Apply, vars, Deciding,
         CreateApprovalRequest, FindDueRequests, SweepOne, SweepFails, FindDueTransfers,
         ApplyOne, ApplyFails, LoanCloses, TimePasses
    <3> QED BY <1>2, <2>2, <3>3 DEF InFlight
  <2>3. CASE calls[c].pc = "new"
    <3> USE DEF IndInv, TypeOK, Call
    <3>1. calls'[c] # calls[c]
      BY <1>2, <2>3 DEF InFlight
    <3>2. ASSUME NEW d \in Calls, CallStep(d) PROVE FALSE
      BY <2>3, <3>1, <3>2 DEF CallStep, ExpireOne, ApproveRequest, RejectRequest, ReadLoan,
         FindScheduled, CreateTransfer, MarkExecuted, CallFails, Goto
    <3>3. ASSUME NEW d \in Calls, NEW q \in Requests, NEW a \in Admins, NEW to \in Deciding,
                 RequirePendingAndNotSelf(d, q, a, to) \/ FoundExpired(d, q, a)
          PROVE  FALSE
      BY <1>2, <3>1, <3>3 DEF RequirePendingAndNotSelf, FoundExpired, InFlight, Settled
    <3> QED BY <3>1, <3>2, <3>3 DEF Next, Sweep, Apply, vars, Deciding,
         CreateApprovalRequest, FindDueRequests, SweepOne, SweepFails, FindDueTransfers,
         ApplyOne, ApplyFails, LoanCloses, TimePasses
  <2> QED BY <2>1, <2>2, <2>3
<1>3. r \notin sweep'
  BY DEF Settled, Next, CallStep, Sweep, Apply, vars,
     CreateApprovalRequest, RequirePendingAndNotSelf, FoundExpired, ExpireOne, ApproveRequest,
     RejectRequest, ReadLoan, FindScheduled, CreateTransfer, MarkExecuted, CallFails,
     FindDueRequests, SweepOne, SweepFails, FindDueTransfers, ApplyOne, ApplyFails, LoanCloses,
     TimePasses
<1> QED BY <1>1, <1>2, <1>3 DEF Settled

\* fourEyesApproval.ts updates by id only, whatever status the row has by then;
\* still, once a decided request has no call or sweep under way, nothing changes
\* its row and no transfer is scheduled for it any more.
THEOREM DecisionsAreFinal == Spec => DecisionIsFinal
<1>1. ASSUME IndInv, [Next]_vars, NEW r \in Requests, Settled(r), NEW c \in Calls,
             calls'[c].req = r
      PROVE  transfers'[c].status = "none" <=> transfers[c].status = "none"
  <2>1. CASE transfers[c].status # "none"
    BY <1>1, <2>1, TransfersKeep
  <2>2. ASSUME transfers[c].status = "none", transfers'[c].status # "none" PROVE FALSE
    BY <1>1, <2>2, TransferAppears, SettledStays DEF Settled, InFlight
  <2> QED BY <2>1, <2>2
<1>2. IndInv /\ [Next]_vars =>
        [\A r \in Requests : Settled(r) =>
           /\ Settled(r)'
           /\ requests'[r] = requests[r]
           /\ \A c \in Calls : calls'[c].req = r =>
                (transfers'[c].status = "none" <=> transfers[c].status = "none")]_vars
  BY <1>1, SettledRow, SettledStays
<1> QED BY ApprovalInvariant, <1>2, PTL DEF Spec, DecisionIsFinal

-----------------------------------------------------------------------------
(* The leader election of a scheduled job.                                  *)

\* Inside run(), with the lock never lost.
Leads(w) == pc[w] \notin {"idle", "down"} /\ ~lost[w]

HolderIsLocked == \A w \in Workers : Leads(w) => lock = w

\* What a worker that leads has read is no older than any kept run.
SeenCoversKept ==
  /\ last <= kept
  /\ \A w \in Workers : Leads(w) /\ pc[w] = "checking" => seen[w] <= kept

ElectionInv == ElectionTypeOK /\ HolderIsLocked /\ SeenCoversKept

-----------------------------------------------------------------------------
LEMMA ElectionStart == ElectionInit => ElectionInv
BY ElectionAssumption
   DEF ElectionInit, ElectionInv, ElectionTypeOK, HolderIsLocked, SeenCoversKept, Leads, PC, RowStatus, Ages

\* Ages stay ages, and ageing and taking the younger one keep their order.
LEMMA AgesOrdered ==
  ASSUME NEW a \in Ages, NEW b \in Ages
  PROVE  /\ Younger(a, b) \in Ages /\ Younger(a, b) <= a /\ Younger(a, b) <= b
         /\ Older(a) \in Ages
         /\ a <= b => Older(a) <= Older(b)
BY ElectionAssumption DEF Ages, Younger, Older

LEMMA YoungerOrdered ==
  ASSUME NEW a \in Ages, NEW b \in Ages, NEW c \in Ages, a <= b
  PROVE  Younger(a, c) <= Younger(b, c) /\ Younger(a, c) <= b
BY ElectionAssumption DEF Ages, Younger

\* Types are kept by every step.
LEMMA NextType == ElectionTypeOK /\ [ElectionNext]_electionVars => ElectionTypeOK'
<1> SUFFICES ASSUME ElectionTypeOK, [ElectionNext]_electionVars PROVE ElectionTypeOK'
  OBVIOUS
<1> USE DEF ElectionTypeOK, PC, RowStatus
<1>1. ASSUME NEW w \in Workers,
             Acquire(w) \/ FindLastCompleted(w) \/ SkipRecentlyRun(w)
               \/ LeadershipError(w) \/ Release(w)
      PROVE  ElectionTypeOK'
  BY <1>1 DEF Acquire, FindLastCompleted, SkipRecentlyRun, LeadershipError, Release, MovesTo
<1>7. ASSUME NEW w \in Workers, AbandonRunning(w)
      PROVE  ElectionTypeOK'
  <2>1. ASSUME NEW v \in Workers
        PROVE  [rows[v] EXCEPT !.status = "abandoned"] \in [status: RowStatus, age: Ages]
    OBVIOUS
  <2>2. rows' \in [Workers -> [status: RowStatus, age: Ages]]
    BY <1>7, <2>1 DEF AbandonRunning
  <2> QED BY <1>7, <2>2 DEF AbandonRunning, MovesTo
<1>2. ASSUME NEW w \in Workers, Start(w)
      PROVE  ElectionTypeOK'
  <2>1. 0 \in Ages BY ElectionAssumption DEF Ages
  <2> QED BY <1>2, <2>1 DEF Start, MovesTo
<1>3. ASSUME NEW w \in Workers, FinishSucceeded(w) \/ FinishFailed(w)
      PROVE  ElectionTypeOK'
  <2>1. rows[w].age \in Ages
    OBVIOUS
  <2>2. Younger(last, rows[w].age) \in Ages /\ Younger(kept, rows[w].age) \in Ages
    BY <2>1, AgesOrdered
  <2>3. PICK status \in {"succeeded", "failed"} : Finish(w, status)
    BY <1>3 DEF FinishSucceeded, FinishFailed
  <2>4. rows' \in [Workers -> [status: RowStatus, age: Ages]]
    BY <2>3 DEF Finish
  <2>5. last' \in Ages /\ kept' \in Ages /\ UNCHANGED <<lock, lost, seen>>
    BY <2>2, <2>3 DEF Finish
  <2> QED BY <1>3, <2>4, <2>5 DEF FinishSucceeded, FinishFailed, MovesTo
<1>4. ASSUME NEW w \in Workers,
             FinishSucceededThrows(w) \/ FinishFailedThrows(w) \/ JobReturns(w) \/ JobThrows(w)
               \/ LoseLock(w) \/ Crash(w) \/ Restart(w)
      PROVE  ElectionTypeOK'
  BY <1>4 DEF FinishSucceededThrows, FinishFailedThrows, JobReturns, JobThrows, LoseLock,
              Crash, Restart, MovesTo
<1>5. CASE AgesPass
  <2>1. \A a \in Ages : Older(a) \in Ages BY AgesOrdered
  <2> QED BY <1>5, <2>1 DEF AgesPass
<1>6. CASE UNCHANGED electionVars
  BY <1>6 DEF electionVars
<1> QED BY <1>1, <1>2, <1>3, <1>4, <1>5, <1>6, <1>7 DEF ElectionNext, RunStep

\* Only one worker can lead: the lock is taken when it is free.
LEMMA NextHolder == ElectionTypeOK /\ HolderIsLocked /\ [ElectionNext]_electionVars => HolderIsLocked'
<1> SUFFICES ASSUME ElectionTypeOK, HolderIsLocked, [ElectionNext]_electionVars PROVE HolderIsLocked'
  OBVIOUS
<1> USE ElectionAssumption DEF ElectionTypeOK, HolderIsLocked, Leads
<1>1. ASSUME NEW w \in Workers, Acquire(w) PROVE HolderIsLocked'
  BY <1>1 DEF Acquire, MovesTo
<1>2. ASSUME NEW w \in Workers, RunStep(w) PROVE HolderIsLocked'
  BY <1>2 DEF RunStep, AbandonRunning, FindLastCompleted, SkipRecentlyRun, Start,
              LeadershipError, FinishSucceeded, FinishSucceededThrows, FinishFailed,
              FinishFailedThrows, Release, Finish, MovesTo
<1>3. ASSUME NEW w \in Workers, JobReturns(w) \/ JobThrows(w) \/ LoseLock(w) \/ Crash(w) \/ Restart(w)
      PROVE HolderIsLocked'
  BY <1>3 DEF JobReturns, JobThrows, LoseLock, Crash, Restart, MovesTo
<1>4. CASE AgesPass
  BY <1>4 DEF AgesPass
<1>5. CASE UNCHANGED electionVars
  BY <1>5 DEF electionVars
<1> QED BY <1>1, <1>2, <1>3, <1>4, <1>5 DEF ElectionNext

\* A run that is completed while another worker leads has lost its lock, so it
\* is not counted among the kept ones.
LEMMA NextSeen == ElectionInv /\ [ElectionNext]_electionVars => SeenCoversKept'
<1> SUFFICES ASSUME ElectionInv, [ElectionNext]_electionVars PROVE SeenCoversKept'
  OBVIOUS
<1> USE DEF ElectionInv, ElectionTypeOK, SeenCoversKept, HolderIsLocked, Leads
<1>1. ASSUME NEW w \in Workers,
             AbandonRunning(w) \/ SkipRecentlyRun(w) \/ Start(w) \/ LeadershipError(w)
               \/ FinishSucceededThrows(w) \/ FinishFailedThrows(w) \/ Release(w)
      PROVE SeenCoversKept'
  BY <1>1 DEF AbandonRunning, SkipRecentlyRun, Start, LeadershipError,
              FinishSucceededThrows, FinishFailedThrows, Release, MovesTo
<1>2. ASSUME NEW w \in Workers, FindLastCompleted(w) PROVE SeenCoversKept'
  BY <1>2 DEF FindLastCompleted, MovesTo
<1>3. ASSUME NEW w \in Workers, FinishSucceeded(w) \/ FinishFailed(w)
      PROVE SeenCoversKept'
  <2>1. /\ Younger(last, rows[w].age) <= Younger(kept, rows[w].age)
        /\ Younger(last, rows[w].age) <= kept
    BY YoungerOrdered
  <2>2. last' <= kept'
    BY <1>3, <2>1 DEF FinishSucceeded, FinishFailed, Finish
  <2>3. ASSUME NEW v \in Workers, Leads(v)', pc'[v] = "checking"
        PROVE seen'[v] <= kept'
    <3>1. v # w /\ pc[v] = "checking" /\ ~lost[v] /\ pc[w] \notin {"idle", "down"}
      BY <1>3, <2>3 DEF FinishSucceeded, FinishFailed, Finish, MovesTo
    <3>2. lost[w]
      BY <3>1
    <3> QED BY <1>3, <3>1, <3>2 DEF FinishSucceeded, FinishFailed, Finish
  <2> QED BY <2>2, <2>3
<1>4. ASSUME NEW w \in Workers,
             Acquire(w) \/ JobReturns(w) \/ JobThrows(w) \/ LoseLock(w) \/ Crash(w) \/ Restart(w)
      PROVE SeenCoversKept'
  BY <1>4 DEF Acquire, JobReturns, JobThrows, LoseLock, Crash, Restart, MovesTo
<1>5. CASE AgesPass
  <2>1. \A a, b \in Ages : a <= b => Older(a) <= Older(b)
    BY AgesOrdered
  <2> QED BY <1>5, <2>1 DEF AgesPass
<1>6. CASE UNCHANGED electionVars
  BY <1>6 DEF electionVars
<1> QED BY <1>1, <1>2, <1>3, <1>4, <1>5, <1>6 DEF ElectionNext, RunStep

\* The invariant behind the theorems below: types, the lock belongs to the worker
\* that leads, and what it has read covers every kept run.
THEOREM ElectionInvariant == ElectionSpec => []ElectionInv
<1>1. ElectionInv /\ [ElectionNext]_electionVars => ElectionInv'
  BY NextType, NextHolder, NextSeen DEF ElectionInv
<1> QED BY ElectionStart, <1>1, PTL DEF ElectionSpec

-----------------------------------------------------------------------------
\* Two workers that are both in the job and have both kept their locks are one.
LEMMA OneLeader == ElectionInv => NoOverlapUnlessLost
BY DEF ElectionInv, HolderIsLocked, NoOverlapUnlessLost, Leads, InJob

\* Whoever writes off the run of a worker that leads is at abandonRunning and
\* does not hold the lock that worker holds.
LEMMA WriteOffStep ==
  ElectionInv /\ [ElectionNext]_electionVars =>
    \A w \in Workers :
      InJob(w) /\ ~lost[w] /\ rows[w].status = "running" /\ rows'[w].status = "abandoned"
        => \E v \in Workers \ {w} : lost[v] /\ pc[v] = "locked"
<1> SUFFICES ASSUME ElectionInv, [ElectionNext]_electionVars, NEW w \in Workers, InJob(w), ~lost[w],
                    rows[w].status = "running", rows'[w].status = "abandoned"
             PROVE  \E v \in Workers \ {w} : lost[v] /\ pc[v] = "locked"
  OBVIOUS
<1> USE DEF ElectionInv, ElectionTypeOK
<1>1. PICK v \in Workers : AbandonRunning(v)
  <2>1. ASSUME NEW v \in Workers,
               FindLastCompleted(v) \/ SkipRecentlyRun(v) \/ Start(v) \/ LeadershipError(v)
                 \/ FinishSucceeded(v) \/ FinishSucceededThrows(v) \/ FinishFailed(v)
                 \/ FinishFailedThrows(v) \/ Release(v)
        PROVE  FALSE
    BY <2>1 DEF FindLastCompleted, SkipRecentlyRun, Start, LeadershipError, FinishSucceeded,
                FinishSucceededThrows, FinishFailed, FinishFailedThrows, Release, Finish, MovesTo
  <2>2. ASSUME NEW v \in Workers,
               Acquire(v) \/ JobReturns(v) \/ JobThrows(v) \/ LoseLock(v) \/ Crash(v) \/ Restart(v)
        PROVE  FALSE
    BY <2>2 DEF Acquire, JobReturns, JobThrows, LoseLock, Crash, Restart
  <2>3. CASE AgesPass
    BY <2>3 DEF AgesPass
  <2>4. CASE UNCHANGED electionVars
    BY <2>4 DEF electionVars
  <2> QED BY <2>1, <2>2, <2>3, <2>4 DEF ElectionNext, RunStep
<1>2. pc[v] = "locked" /\ v # w
  BY <1>1 DEF AbandonRunning, MovesTo, InJob
<1>3. lost[v]
  BY <1>2 DEF HolderIsLocked, Leads, InJob
<1> QED BY <1>2, <1>3

\* jobLeaderElection.ts, run(): as long as no lock is lost under way, the job never
\* runs on two instances at once and abandonRunning writes off no run of an
\* instance that is alive.
THEOREM ElectionGuardsRows == ElectionSpec => LockGuardsRows
<1>1. ElectionInv /\ [ElectionNext]_electionVars =>
        [\A w \in Workers :
           InJob(w) /\ ~lost[w] /\ rows[w].status = "running" /\ rows'[w].status = "abandoned"
             => \E v \in Workers \ {w} : lost[v] /\ pc[v] = "locked"]_electionVars
  BY WriteOffStep
<1> QED BY ElectionInvariant, OneLeader, <1>1, PTL
        DEF ElectionSpec, LockGuardsRows, WriteOffNeedsALostLock

\* jobLeaderElection.ts:161, minIntervalMs: a run that starts under the lock starts
\* no sooner than MinInterval after any completed run that kept the lock.
THEOREM ElectionSpacesRuns == ElectionSpec => KeptRunsAreSpaced
<1>1. ElectionInv /\ [ElectionNext]_electionVars =>
        [\A w \in Workers :
           pc[w] = "checking" /\ pc'[w] = "running" /\ ~lost[w] => ~(kept < MinInterval)]_electionVars
  <2> SUFFICES ASSUME ElectionInv, [ElectionNext]_electionVars, NEW w \in Workers, pc[w] = "checking",
                      pc'[w] = "running", ~lost[w]
               PROVE  ~(kept < MinInterval)
    OBVIOUS
  <2> USE DEF ElectionInv, ElectionTypeOK
  <2>1. Start(w)
    <3>1. ASSUME NEW v \in Workers, RunStep(v), ~Start(v) PROVE FALSE
      BY <3>1 DEF RunStep, AbandonRunning, FindLastCompleted, SkipRecentlyRun, LeadershipError,
                  FinishSucceeded, FinishSucceededThrows, FinishFailed, FinishFailedThrows,
                  Release, MovesTo
    <3>2. ASSUME NEW v \in Workers, Start(v) PROVE v = w
      BY <3>2 DEF Start, MovesTo
    <3>3. ASSUME NEW v \in Workers,
                 Acquire(v) \/ JobReturns(v) \/ JobThrows(v) \/ LoseLock(v) \/ Crash(v) \/ Restart(v)
          PROVE  FALSE
      BY <3>3 DEF Acquire, JobReturns, JobThrows, LoseLock, Crash, Restart, MovesTo
    <3>4. ~AgesPass /\ ~UNCHANGED electionVars
      BY DEF AgesPass, electionVars
    <3> QED BY <3>1, <3>2, <3>3, <3>4 DEF ElectionNext
  <2>2. ~(seen[w] < MinInterval) /\ seen[w] <= kept
    BY <2>1 DEF Start, SeenCoversKept, Leads
  <2> QED BY <2>2, ElectionAssumption DEF Ages
<1> QED BY ElectionInvariant, <1>1, PTL DEF ElectionSpec, KeptRunsAreSpaced

-----------------------------------------------------------------------------
(* The outbox, the queue and the worker.                                   *)
(* Sequences.                                                              *)

LEMMA RangeAppend ==
  ASSUME NEW E, NEW s \in Seq(E), NEW e \in E
  PROVE  Append(s, e) \in Seq(E) /\ Range(Append(s, e)) = Range(s) \cup {e}
<1> DEFINE t == Append(s, e)
<1>1. /\ t \in Seq(E) /\ DOMAIN t = 1..(Len(s) + 1) /\ DOMAIN s = 1..Len(s)
      /\ Len(s) \in Nat /\ t[Len(s) + 1] = e /\ \A i \in 1..Len(s) : t[i] = s[i]
  OBVIOUS
<1> HIDE DEF t
<1>2. ASSUME NEW x \in Range(t) PROVE x \in Range(s) \cup {e}
  BY <1>1 DEF Range
<1>3. ASSUME NEW x \in Range(s) \cup {e} PROVE x \in Range(t)
  <2>1. CASE x = e
    <3>1. Len(s) + 1 \in DOMAIN t BY <1>1
    <3> QED BY <1>1, <2>1, <3>1 DEF Range
  <2>2. CASE x \in Range(s)
    <3>1. PICK i \in 1..Len(s) : x = s[i] BY <1>1, <2>2 DEF Range
    <3>2. i \in DOMAIN t /\ t[i] = x BY <1>1, <3>1
    <3> QED BY <3>2 DEF Range
  <2> QED BY <2>1, <2>2
<1> QED BY <1>1, <1>2, <1>3 DEF t

LEMMA InjectiveAppend ==
  ASSUME NEW E, NEW s \in Seq(E), NEW e \in E, e \notin Range(s), IsInjective(s)
  PROVE  IsInjective(Append(s, e))
BY DEF Range, IsInjective

\* k[n] holds, in order, the elements among the first n of s that are not in S.
Filters(k, s, S, n) ==
  k = [i \in 0..n |-> IF i = 0 THEN << >>
                      ELSE IF s[i] \in S THEN k[i - 1] ELSE Append(k[i - 1], s[i])]

LEMMA FilterExists ==
  ASSUME NEW s, NEW S, NEW n \in Nat
  PROVE  \E k : Filters(k, s, S, n)
<1> DEFINE T == {m \in Nat : \E k : Filters(k, s, S, m)}
<1>1. 0 \in T
  <2>1. Filters([i \in 0..0 |-> << >>], s, S, 0)
    BY DEF Filters
  <2> QED BY <2>1
<1>2. ASSUME NEW m \in Nat, m \in T PROVE m + 1 \in T
  <2>1. PICK k : Filters(k, s, S, m)
    BY <1>2
  <2> DEFINE x == IF s[m + 1] \in S THEN k[m] ELSE Append(k[m], s[m + 1])
             h == [i \in 0..(m + 1) |-> IF i = m + 1 THEN x ELSE k[i]]
  <2>2. ASSUME NEW i \in 0..(m + 1)
        PROVE  h[i] = IF i = 0 THEN << >>
                      ELSE IF s[i] \in S THEN h[i - 1] ELSE Append(h[i - 1], s[i])
    <3> HIDE DEF x
    <3>1. CASE i = m + 1
      <4>1. h[i] = x /\ h[i - 1] = k[m] /\ i # 0 /\ i - 1 = m BY <3>1
      <4> HIDE DEF h
      <4> QED BY <3>1, <4>1 DEF x
    <3>2. CASE i \in 0..m
      <4>1. h[i] = k[i] /\ (i # 0 => h[i - 1] = k[i - 1] /\ i - 1 \in 0..m) BY <3>2
      <4>2. k[i] = IF i = 0 THEN << >>
                      ELSE IF s[i] \in S THEN k[i - 1] ELSE Append(k[i - 1], s[i])
         BY <2>1, <3>2 DEF Filters
      <4> HIDE DEF h
      <4> QED BY <4>1, <4>2
    <3> QED BY <3>1, <3>2
  <2>3. Filters(h, s, S, m + 1)
    <3> HIDE DEF x
    <3>1. h = [i \in 0..(m + 1) |-> h[i]]
      OBVIOUS
    <3> HIDE DEF h
    <3> QED BY <2>2, <3>1 DEF Filters
  <2> HIDE DEF h
  <2> QED BY <2>3
<1> HIDE DEF T
<1>3. Nat \subseteq T
  BY <1>1, <1>2, SetInduction
<1> QED BY <1>3 DEF T

LEMMA WithoutFilter ==
  ASSUME NEW s, NEW S, Len(s) \in Nat
  PROVE  \E k : Filters(k, s, S, Len(s)) /\ Without(s, S) = k[Len(s)]
<1> DEFINE D(k) == k = [i \in 0..Len(s) |-> IF i = 0 THEN << >>
                      ELSE IF s[i] \in S THEN k[i - 1] ELSE Append(k[i - 1], s[i])]
           c == CHOOSE k : D(k)
<1>0. \E k : Filters(k, s, S, Len(s)) BY FilterExists
<1>1. \E k : D(k) BY <1>0, Zenon DEF Filters
<1>2. D(c) BY <1>1, Zenon
<1>3. Without(s, S) = c[Len(s)] BY DEF Without
<1> QED BY <1>2, <1>3 DEF Filters

\* What is left is what was there and is not in S, in the order it had.
LEMMA WithoutSpec ==
  ASSUME NEW E, NEW s \in Seq(E), NEW S
  PROVE  /\ Without(s, S) \in Seq(E)
         /\ Range(Without(s, S)) = Range(s) \ S
         /\ IsInjective(s) => IsInjective(Without(s, S))
<1>1. PICK k : Filters(k, s, S, Len(s)) /\ Without(s, S) = k[Len(s)]
  BY WithoutFilter
<1> DEFINE Good(t, n) ==
      /\ t \in Seq(E)
      /\ Range(t) = {s[i] : i \in 1..n} \ S
      /\ IsInjective(s) => IsInjective(t)
    T == {n \in Nat : n <= Len(s) => Good(k[n], n)}
<1>2. 0 \in T
  <2>1. k[0] = << >>
    BY <1>1 DEF Filters
  <2>2. Good(<< >>, 0)
    BY DEF Range, IsInjective
  <2> QED BY <2>1, <2>2
<1>3. ASSUME NEW n \in Nat, n \in T PROVE n + 1 \in T
  <2> SUFFICES ASSUME n + 1 <= Len(s) PROVE Good(k[n + 1], n + 1)
    OBVIOUS
  <2>1. Good(k[n], n) /\ n + 1 \in 1..Len(s) /\ s[n + 1] \in E
    BY <1>3
  <2>2. k[n + 1] = IF s[n + 1] \in S THEN k[n] ELSE Append(k[n], s[n + 1])
    <3>1. n + 1 \in 0..Len(s) /\ n + 1 # 0 /\ (n + 1) - 1 = n
      BY <2>1
    <3>2. \A i \in 0..Len(s) : i # 0 =>
            k[i] = IF s[i] \in S THEN k[i - 1] ELSE Append(k[i - 1], s[i])
      BY <1>1 DEF Filters
    <3> QED BY <3>1, <3>2
  <2>3. {s[i] : i \in 1..(n + 1)} = {s[i] : i \in 1..n} \cup {s[n + 1]}
    <3>1. 1..(n + 1) = (1..n) \cup {n + 1} OBVIOUS
    <3> QED BY <3>1
  <2>4. CASE s[n + 1] \in S
    BY <2>1, <2>2, <2>3, <2>4
  <2>5. CASE s[n + 1] \notin S
    <3> DEFINE t == k[n]
               u == Append(t, s[n + 1])
    <3>1. t \in Seq(E) /\ Range(t) = {s[i] : i \in 1..n} \ S
      BY <2>1
    <3>2. IsInjective(s) => IsInjective(t)
      BY <2>1
    <3> HIDE DEF t
    <3>3. u \in Seq(E) /\ Range(u) = Range(t) \cup {s[n + 1]}
      BY <2>1, <3>1, RangeAppend
    <3>4. ASSUME IsInjective(s) PROVE IsInjective(u)
      <4>1. s[n + 1] \notin Range(t)
        BY <2>1, <3>1, <3>4 DEF IsInjective
      <4> QED BY <2>1, <3>1, <3>2, <3>4, <4>1, InjectiveAppend
    <3> HIDE DEF u
    <3>5. k[n + 1] = u
      BY <2>2, <2>5 DEF u, t
    <3> QED BY <2>3, <2>5, <3>1, <3>3, <3>4, <3>5
  <2> QED BY <2>4, <2>5
<1> HIDE DEF T
<1>4. Len(s) \in T
  BY <1>2, <1>3, SetInduction
<1>5. Good(k[Len(s)], Len(s))
  BY <1>4 DEF T
<1>6. {s[i] : i \in 1..Len(s)} = Range(s)
  BY DEF Range
<1> QED BY <1>1, <1>5, <1>6

LEMMA RangePush ==
  ASSUME NEW E, NEW s \in Seq(E), NEW e \in E
  PROVE  /\ <<e>> \o s \in Seq(E) /\ Len(<<e>> \o s) = Len(s) + 1 /\ Len(s) \in Nat
         /\ (<<e>> \o s)[1] = e /\ \A i \in 1..Len(s) : (<<e>> \o s)[i + 1] = s[i]
         /\ Range(<<e>> \o s) = Range(s) \cup {e}
<1> DEFINE t == <<e>> \o s
<1>1. /\ t \in Seq(E) /\ Len(t) = Len(s) + 1 /\ DOMAIN t = 1..(Len(s) + 1) /\ DOMAIN s = 1..Len(s)
      /\ Len(s) \in Nat /\ t[1] = e /\ \A i \in 1..Len(s) : t[i + 1] = s[i]
  OBVIOUS
<1> HIDE DEF t
<1>2. ASSUME NEW x \in Range(t) PROVE x \in Range(s) \cup {e}
  <2>1. PICK i \in 1..(Len(s) + 1) : x = t[i]
    BY <1>1 DEF Range
  <2>2. CASE i = 1
    BY <1>1, <2>1, <2>2
  <2>3. CASE i # 1
    <3>1. i - 1 \in 1..Len(s) /\ (i - 1) + 1 = i
      BY <1>1, <2>3
    <3>2. x = s[i - 1]
      BY <1>1, <2>1, <3>1
    <3> QED
      BY <1>1, <3>1, <3>2 DEF Range
  <2> QED
    BY <2>2, <2>3
<1>3. ASSUME NEW x \in Range(s) \cup {e} PROVE x \in Range(t)
  <2>1. CASE x = e
    <3>1. 1 \in DOMAIN t
      BY <1>1
    <3> QED
      BY <1>1, <2>1, <3>1 DEF Range
  <2>2. CASE x \in Range(s)
    <3>1. PICK i \in 1..Len(s) : x = s[i]
      BY <1>1, <2>2 DEF Range
    <3>2. i + 1 \in DOMAIN t /\ t[i + 1] = x
      BY <1>1, <3>1
    <3> QED
      BY <3>2 DEF Range
  <2> QED
    BY <2>1, <2>2
<1> QED
  BY <1>1, <1>2, <1>3 DEF t

LEMMA RangePop ==
  ASSUME NEW E, NEW s \in Seq(E), s # << >>
  PROVE  /\ Front(s) \in Seq(E) /\ Last(s) \in E
         /\ Len(Front(s)) = Len(s) - 1 /\ Len(s) \in Nat \ {0}
         /\ \A i \in 1..(Len(s) - 1) : Front(s)[i] = s[i]
         /\ Range(s) = Range(Front(s)) \cup {Last(s)}
<1> DEFINE t == Front(s)
<1>1. Len(s) \in Nat \ {0} /\ DOMAIN s = 1..Len(s)
  OBVIOUS
<1>2. /\ t \in Seq(E) /\ Len(t) = Len(s) - 1 /\ DOMAIN t = 1..(Len(s) - 1)
      /\ \A i \in 1..(Len(s) - 1) : t[i] = s[i]
  BY <1>1 DEF Front
<1>3. Last(s) \in E /\ Last(s) = s[Len(s)]
  BY <1>1 DEF Last
<1> HIDE DEF t
<1>4. 1..Len(s) = (1..(Len(s) - 1)) \cup {Len(s)}
  BY <1>1
<1>5. Range(s) = Range(t) \cup {Last(s)}
  BY <1>1, <1>2, <1>3, <1>4 DEF Range
<1> QED
  BY <1>1, <1>2, <1>3, <1>5 DEF t

LEMMA RangeTail ==
  ASSUME NEW E, NEW s \in Seq(E), s # << >>
  PROVE  Head(s) \in Range(s) /\ Tail(s) \in Seq(E) /\ Range(Tail(s)) \subseteq Range(s)
<1>1. Len(s) \in Nat \ {0} /\ DOMAIN s = 1..Len(s)
  OBVIOUS
<1>2. /\ Tail(s) \in Seq(E) /\ DOMAIN Tail(s) = 1..(Len(s) - 1) /\ Head(s) = s[1]
      /\ \A i \in 1..(Len(s) - 1) : Tail(s)[i] = s[i + 1]
  OBVIOUS
<1> QED
  BY <1>1, <1>2 DEF Range

LEMMA RangePrefix ==
  ASSUME NEW E, NEW s \in Seq(E), NEW n \in 0..Len(s)
  PROVE  SubSeq(s, 1, n) \in Seq(E) /\ Range(SubSeq(s, 1, n)) \subseteq Range(s)
<1>1. Len(s) \in Nat /\ DOMAIN s = 1..Len(s)
  OBVIOUS
<1>2. /\ SubSeq(s, 1, n) \in Seq(E) /\ DOMAIN SubSeq(s, 1, n) = 1..n
      /\ \A i \in 1..n : SubSeq(s, 1, n)[i] = s[i]
  BY <1>1
<1> QED
  BY <1>1, <1>2 DEF Range

\* Element e is in s at most once.
AtMostOnce(s, e) == \A i, j \in DOMAIN s : s[i] = e /\ s[j] = e => i = j

LEMMA OncePush ==
  ASSUME NEW E, NEW s \in Seq(E), NEW e \in E, NEW x \in E, AtMostOnce(s, e),
         x = e => e \notin Range(s)
  PROVE  AtMostOnce(<<x>> \o s, e)
<1> DEFINE t == <<x>> \o s
<1>1. /\ t \in Seq(E) /\ Len(t) = Len(s) + 1 /\ Len(s) \in Nat
      /\ t[1] = x /\ \A i \in 1..Len(s) : t[i + 1] = s[i]
  BY RangePush
<1>2. DOMAIN t = 1..(Len(s) + 1) /\ DOMAIN s = 1..Len(s)
  BY <1>1
<1> HIDE DEF t
<1>3. ASSUME NEW i \in 1..(Len(s) + 1), t[i] = e, i # 1
      PROVE  i - 1 \in 1..Len(s) /\ s[i - 1] = e /\ x # e
  <2>1. i - 1 \in 1..Len(s) /\ (i - 1) + 1 = i
    BY <1>1, <1>3
  <2>2. s[i - 1] = e
    BY <1>1, <1>3, <2>1
  <2> QED
    BY <1>2, <2>1, <2>2 DEF Range
<1>4. ASSUME NEW i \in 1..(Len(s) + 1), NEW j \in 1..(Len(s) + 1), t[i] = e, t[j] = e
      PROVE  i = j
  <2>1. CASE i = 1 \/ j = 1
    BY <1>1, <1>3, <1>4, <2>1
  <2>2. CASE i # 1 /\ j # 1
    <3>1. i - 1 \in DOMAIN s /\ j - 1 \in DOMAIN s /\ s[i - 1] = e /\ s[j - 1] = e
      BY <1>2, <1>3, <1>4, <2>2
    <3>2. i - 1 = j - 1
      BY <3>1 DEF AtMostOnce
    <3> QED
      BY <1>1, <3>2
  <2> QED
    BY <2>1, <2>2
<1> QED
  BY <1>2, <1>4 DEF AtMostOnce, t

LEMMA OnceAppend ==
  ASSUME NEW E, NEW s \in Seq(E), NEW e \in E, NEW x \in E, AtMostOnce(s, e),
         x = e => e \notin Range(s)
  PROVE  AtMostOnce(Append(s, x), e)
<1> DEFINE t == Append(s, x)
<1>1. /\ DOMAIN t = 1..(Len(s) + 1) /\ DOMAIN s = 1..Len(s)
      /\ Len(s) \in Nat /\ t[Len(s) + 1] = x /\ \A i \in 1..Len(s) : t[i] = s[i]
  OBVIOUS
<1> HIDE DEF t
<1>2. ASSUME NEW i \in 1..(Len(s) + 1), t[i] = e, i # Len(s) + 1
      PROVE  i \in 1..Len(s) /\ s[i] = e /\ x # e
  <2>1. i \in 1..Len(s)
    BY <1>1, <1>2
  <2> QED
    BY <1>1, <1>2, <2>1 DEF Range
<1>3. ASSUME NEW i \in 1..(Len(s) + 1), NEW j \in 1..(Len(s) + 1), t[i] = e, t[j] = e
      PROVE  i = j
  BY <1>1, <1>2, <1>3 DEF AtMostOnce
<1> QED
  BY <1>1, <1>3 DEF AtMostOnce, t

LEMMA OncePop ==
  ASSUME NEW E, NEW s \in Seq(E), s # << >>, NEW e \in E, AtMostOnce(s, e)
  PROVE  AtMostOnce(Front(s), e) /\ (Last(s) = e => e \notin Range(Front(s)))
<1> DEFINE t == Front(s)
<1>1. /\ t \in Seq(E) /\ Len(t) = Len(s) - 1 /\ Len(s) \in Nat \ {0}
      /\ \A i \in 1..(Len(s) - 1) : t[i] = s[i]
  BY RangePop
<1>2. DOMAIN t = 1..(Len(s) - 1) /\ DOMAIN s = 1..Len(s)
  BY <1>1
<1> HIDE DEF t
<1>3. \A i \in 1..(Len(s) - 1) : i \in 1..Len(s) /\ i # Len(s)
  BY <1>1
<1>4. Len(s) \in 1..Len(s)
  BY <1>1
<1>5. AtMostOnce(t, e)
  BY <1>1, <1>2, <1>3 DEF AtMostOnce
<1>6. ASSUME Last(s) = e, e \in Range(t) PROVE FALSE
  BY <1>1, <1>2, <1>3, <1>4, <1>6 DEF AtMostOnce, Range, Last
<1> QED
  BY <1>5, <1>6 DEF t

-----------------------------------------------------------------------------
(* The inductive invariant.                                                *)

\* From the business change to the queue.
OutboxCustody ==
  /\ published \subseteq pushed
  /\ Range(outbox) \subseteq business
  /\ business \subseteq Range(outbox) \cup pushed
  /\ Range(relay.rows) \subseteq Range(outbox)
  /\ relay.pc = "mark" => relay.rows # << >> /\ Head(relay.rows) \in pushed

\* From the queue on.
QueueCustody ==
  /\ pushed \subseteq Range(queue) \cup {worker.job} \cup settled \cup dlq
  /\ Range(queue) \subseteq pushed
  /\ worker.job # NoEvent => worker.job \in pushed
  /\ worker.pc = "pop" <=> worker.job = NoEvent
  /\ worker.pc = "ack" => worker.job \in settled

\* An event that was not repeated has one copy of its job, and none that could
\* still change the balances once they have changed.
OneCopy ==
  \A e \in Events \ repeated :
    /\ AtMostOnce(queue, e)
    /\ worker.job = e => e \notin Range(queue)
    /\ applied[e] > 0 => /\ e \in pushed
                         /\ e \notin Range(queue)
                         /\ worker.job = e => worker.pc = "ack"
    /\ applied[e] <= 1

PipelineInv == PipelineTypeOK /\ OutboxCustody /\ QueueCustody /\ OneCopy

LEMMA PipelineStart == PipelineInit => PipelineInv
<1> SUFFICES ASSUME PipelineInit PROVE PipelineInv
  OBVIOUS
<1> USE PipelineAssumption DEF PipelineInit
<1>1. << >> \in Seq(Events) /\ Range(<< >>) = {} /\ IsInjective(<< >>)
  BY DEF Range, IsInjective
<1>2. PipelineTypeOK
  BY <1>1 DEF PipelineTypeOK
<1>3. AtMostOnce(<< >>, << >>) /\ \A e \in Events : AtMostOnce(<< >>, e)
  BY DEF AtMostOnce
<1> QED
  BY <1>1, <1>2, <1>3 DEF PipelineInv, OutboxCustody, QueueCustody, OneCopy

\* The pending rows are the rows that are not published.
LEMMA PendingRows ==
  ASSUME PipelineTypeOK
  PROVE  Pending \in Seq(Events) /\ Range(Pending) = Range(outbox) \ published
BY WithoutSpec DEF PipelineTypeOK, Pending

\* A pass starts with a batch of pending rows.
LEMMA Batch ==
  ASSUME PipelineTypeOK, FindPending
  PROVE  /\ relay' \in [rows: Seq(Events), pc: {"publish", "mark"}]
         /\ Range(relay'.rows) \subseteq Range(outbox)
         /\ relay'.rows # << >> /\ relay'.pc = relay.pc
<1> DEFINE n == IF Len(Pending) < BatchSize THEN Len(Pending) ELSE BatchSize
           batch == SubSeq(Pending, 1, n)
<1>1. Pending \in Seq(Events) /\ Pending # << >> /\ Range(Pending) \subseteq Range(outbox)
  BY PendingRows DEF FindPending
<1>2. Len(Pending) \in Nat \ {0}
  <2> HIDE DEF Pending
  <2> QED
    BY <1>1
<1>3. n \in 0..Len(Pending) /\ n # 0
  BY <1>2, PipelineAssumption
<1>4. batch \in Seq(Events) /\ Range(batch) \subseteq Range(Pending)
  BY <1>1, <1>3, RangePrefix
<1>5. Len(batch) = n
  BY <1>1, <1>2, <1>3
<1>6. batch # << >>
  BY <1>3, <1>4, <1>5
<1>7. relay' = [relay EXCEPT !.rows = batch]
  BY DEF FindPending
<1> HIDE DEF batch
<1> QED
  BY <1>1, <1>4, <1>6, <1>7 DEF PipelineTypeOK

LEMMA NextRowRows ==
  ASSUME PipelineTypeOK, relay.rows # << >>, NextRow
  PROVE  /\ relay' \in [rows: Seq(Events), pc: {"publish", "mark"}]
         /\ Range(relay'.rows) \subseteq Range(relay.rows)
         /\ relay'.pc = "publish"
<1> DEFINE batch == Tail(relay.rows)
<1>1. batch \in Seq(Events) /\ Range(batch) \subseteq Range(relay.rows)
  BY RangeTail DEF PipelineTypeOK
<1>2. relay' = [relay EXCEPT !.rows = batch, !.pc = "publish"]
  BY DEF NextRow
<1> HIDE DEF batch
<1> QED
  BY <1>1, <1>2 DEF PipelineTypeOK

\* A push adds one copy of the job; a second one marks the event as repeated.
LEMMA PushKeeps ==
  ASSUME PipelineTypeOK, QueueCustody, OneCopy, NEW e \in Events, Push(e), UNCHANGED workerVars
  PROVE  /\ queue' \in Seq(Events) /\ repeated' \subseteq Events
         /\ pushed' = pushed \cup {e}
         /\ QueueCustody' /\ OneCopy'
<1>1. queue' = <<e>> \o queue /\ pushed' = pushed \cup {e}
  BY DEF Push
<1>2. repeated' = IF e \in pushed THEN repeated \cup {e} ELSE repeated
  BY DEF Push
<1>3. queue' \in Seq(Events) /\ Range(queue') = Range(queue) \cup {e}
  BY <1>1, RangePush DEF PipelineTypeOK
<1>4. UNCHANGED <<worker, settled, dlq, applied>>
  BY DEF workerVars
<1>5. QueueCustody'
  BY <1>1, <1>3, <1>4 DEF QueueCustody
<1>6. ASSUME NEW f \in Events, f \notin repeated'
      PROVE  /\ AtMostOnce(queue', f)
             /\ worker'.job = f => f \notin Range(queue')
             /\ applied'[f] > 0 => /\ f \in pushed'
                                   /\ f \notin Range(queue')
                                   /\ worker'.job = f => worker'.pc = "ack"
             /\ applied'[f] <= 1
  <2>1. f \notin repeated
    BY <1>2, <1>6
  <2>2. /\ AtMostOnce(queue, f)
        /\ worker.job = f => f \notin Range(queue)
        /\ applied[f] > 0 => /\ f \in pushed
                             /\ f \notin Range(queue)
                             /\ worker.job = f => worker.pc = "ack"
        /\ applied[f] <= 1
    BY <2>1 DEF OneCopy
  <2>3. f = e => e \notin pushed
    BY <1>2, <1>6
  <2>4. f = e => e \notin Range(queue) /\ worker.job # e /\ ~(applied[e] > 0)
    BY <2>2, <2>3, PipelineAssumption DEF QueueCustody
  <2>5. AtMostOnce(queue', f)
    BY <1>1, <2>2, <2>4, OncePush DEF PipelineTypeOK
  <2> QED
    BY <1>1, <1>3, <1>4, <2>2, <2>4, <2>5
<1> QED
  BY <1>1, <1>2, <1>3, <1>5, <1>6 DEF OneCopy, PipelineTypeOK

\* Nothing happens to the queue and the worker.
LEMMA QueueUntouched ==
  ASSUME QueueCustody, OneCopy, UNCHANGED <<queue, pushed, repeated>>, UNCHANGED workerVars
  PROVE  QueueCustody' /\ OneCopy'
BY DEF QueueCustody, OneCopy, workerVars

-----------------------------------------------------------------------------
(* The producers, the relay and the cleanup.                               *)

LEMMA OutboxStep ==
  ASSUME PipelineInv,
         \/ \E e \in Events : EnqueueOutboxEvent(e) \/ OtherRelay(e)
         \/ RelayStep \/ RelayDies
         \/ \E S \in SUBSET Events : Cleanup(S)
  PROVE  PipelineInv'
<1> USE DEF PipelineInv
<1>w. ASSUME UNCHANGED workerVars
      PROVE  /\ worker' \in [job: Events \cup {NoEvent}, pc: {"pop", "handle", "ack", "fail", "requeue"}]
             /\ attempts' \in [Events -> 0..MaxRetryAttempts]
             /\ dlq' \subseteq Events
             /\ applied' \in [Events -> 0..2]
             /\ settled' \subseteq Events
  BY <1>w DEF workerVars, PipelineTypeOK
<1>1. ASSUME NEW e \in Events, EnqueueOutboxEvent(e) PROVE PipelineInv'
  <2>1. /\ e \notin Range(outbox) /\ business' = business \cup {e} /\ outbox' = Append(outbox, e)
        /\ UNCHANGED <<published, relay, queue, pushed, repeated>> /\ UNCHANGED workerVars
    BY <1>1 DEF EnqueueOutboxEvent
  <2>2. outbox' \in Seq(Events) /\ Range(outbox') = Range(outbox) \cup {e} /\ IsInjective(outbox')
    BY <2>1, RangeAppend, InjectiveAppend DEF PipelineTypeOK
  <2>3. PipelineTypeOK'
    BY <1>w, <2>1, <2>2 DEF PipelineTypeOK
  <2>4. OutboxCustody'
    BY <2>1, <2>2 DEF OutboxCustody
  <2> QED
    BY <2>1, <2>3, <2>4, QueueUntouched
<1>2. ASSUME NEW e \in Events, OtherRelay(e) PROVE PipelineInv'
  <2>1. /\ e \in Range(Pending) /\ Push(e) /\ published' = published \cup {e}
        /\ UNCHANGED <<business, outbox, relay>> /\ UNCHANGED workerVars
    BY <1>2 DEF OtherRelay
  <2>2. e \in Range(outbox)
    BY <2>1, PendingRows
  <2>3. /\ queue' \in Seq(Events) /\ repeated' \subseteq Events
        /\ pushed' = pushed \cup {e}
        /\ QueueCustody' /\ OneCopy'
    BY <2>1, PushKeeps
  <2>4. PipelineTypeOK'
    BY <1>w, <2>1, <2>2, <2>3 DEF PipelineTypeOK
  <2>5. OutboxCustody'
    BY <2>1, <2>2, <2>3 DEF OutboxCustody
  <2> QED
    BY <2>3, <2>4, <2>5
<1>3. CASE FindPending
  <2>1. UNCHANGED outboxVars /\ UNCHANGED <<queue, pushed, repeated>> /\ UNCHANGED workerVars
        /\ relay.rows = << >>
    BY <1>3 DEF FindPending
  <2>2. /\ relay' \in [rows: Seq(Events), pc: {"publish", "mark"}]
        /\ Range(relay'.rows) \subseteq Range(outbox)
        /\ relay'.rows # << >> /\ relay'.pc = relay.pc
    BY <1>3, Batch
  <2>3. PipelineTypeOK'
    BY <1>w, <2>1, <2>2 DEF PipelineTypeOK, outboxVars
  <2>4. OutboxCustody'
    BY <2>1, <2>2 DEF OutboxCustody, outboxVars
  <2> QED
    BY <2>1, <2>3, <2>4, QueueUntouched
<1>h. ASSUME relay.rows # << >>
      PROVE  Head(relay.rows) \in Range(relay.rows) /\ Head(relay.rows) \in Events
  <2>1. Head(relay.rows) \in Range(relay.rows) /\ Head(relay.rows) \in Events
    BY <1>h, RangeTail DEF PipelineTypeOK
  <2> QED
    BY <2>1
<1>4. CASE Publish
  <2> DEFINE e == Head(relay.rows)
  <2>1. /\ relay.rows # << >> /\ Push(e) /\ relay' = [relay EXCEPT !.pc = "mark"]
        /\ UNCHANGED outboxVars /\ UNCHANGED workerVars
    BY <1>4 DEF Publish
  <2>2. e \in Events
    BY <1>h, <2>1
  <2>3. /\ queue' \in Seq(Events) /\ repeated' \subseteq Events
        /\ pushed' = pushed \cup {e}
        /\ QueueCustody' /\ OneCopy'
    BY <2>1, <2>2, PushKeeps
  <2>4. /\ relay' \in [rows: Seq(Events), pc: {"publish", "mark"}]
        /\ relay'.rows = relay.rows
    BY <2>1 DEF PipelineTypeOK
  <2>5. PipelineTypeOK'
    BY <1>w, <2>1, <2>2, <2>3, <2>4 DEF PipelineTypeOK, outboxVars
  <2>6. OutboxCustody'
    BY <2>1, <2>3, <2>4 DEF OutboxCustody, outboxVars
  <2> QED
    BY <2>3, <2>5, <2>6
<1>5. CASE PublishFails
  <2> DEFINE e == Head(relay.rows)
  <2>1. /\ relay.rows # << >> /\ NextRow
        /\ UNCHANGED outboxVars /\ UNCHANGED workerVars
    BY <1>5 DEF PublishFails
  <2>2. e \in Events
    BY <1>h, <2>1
  <2>3. /\ queue' \in Seq(Events) /\ repeated' \subseteq Events
        /\ pushed' \in {pushed, pushed \cup {e}}
        /\ QueueCustody' /\ OneCopy'
    <3>1. CASE Push(e)
      BY <2>1, <2>2, <3>1, PushKeeps
    <3>2. CASE UNCHANGED <<queue, pushed, repeated>>
      BY <2>1, <3>2, QueueUntouched DEF PipelineTypeOK
    <3> QED
      BY <1>5, <3>1, <3>2 DEF PublishFails
  <2>4. /\ relay' \in [rows: Seq(Events), pc: {"publish", "mark"}]
        /\ Range(relay'.rows) \subseteq Range(relay.rows) /\ relay'.pc = "publish"
    BY <2>1, NextRowRows
  <2>5. PipelineTypeOK'
    BY <1>w, <2>1, <2>2, <2>3, <2>4 DEF PipelineTypeOK, outboxVars
  <2>6. OutboxCustody'
    BY <2>1, <2>3, <2>4 DEF OutboxCustody, outboxVars
  <2> QED
    BY <2>3, <2>5, <2>6
<1>6. CASE MarkPublished \/ MarkFails
  <2> DEFINE e == Head(relay.rows)
  <2>1. /\ relay.pc = "mark" /\ NextRow /\ published' \in {published, published \cup {e}}
        /\ UNCHANGED <<business, outbox, queue, pushed, repeated>> /\ UNCHANGED workerVars
    BY <1>6 DEF MarkPublished, MarkFails, outboxVars
  <2>2. relay.rows # << >> /\ e \in pushed
    BY <2>1 DEF OutboxCustody
  <2>3. e \in Range(outbox)
    BY <1>h, <2>2 DEF OutboxCustody
  <2>4. /\ relay' \in [rows: Seq(Events), pc: {"publish", "mark"}]
        /\ Range(relay'.rows) \subseteq Range(relay.rows) /\ relay'.pc = "publish"
    BY <2>1, <2>2, NextRowRows
  <2>5. PipelineTypeOK'
    BY <1>w, <2>1, <2>3, <2>4 DEF PipelineTypeOK
  <2>6. OutboxCustody'
    BY <2>1, <2>2, <2>4 DEF OutboxCustody
  <2> QED
    BY <2>1, <2>5, <2>6, QueueUntouched
<1>7. CASE RelayDies
  <2>1. /\ relay' = [rows |-> << >>, pc |-> "publish"] /\ UNCHANGED outboxVars
        /\ UNCHANGED <<queue, pushed, repeated>> /\ UNCHANGED workerVars
    BY <1>7 DEF RelayDies
  <2>2. << >> \in Seq(Events) /\ Range(<< >>) = {}
    BY DEF Range
  <2>3. PipelineTypeOK'
    BY <1>w, <2>1, <2>2 DEF PipelineTypeOK, outboxVars
  <2>4. OutboxCustody'
    BY <2>1, <2>2 DEF OutboxCustody, outboxVars
  <2> QED
    BY <2>1, <2>3, <2>4, QueueUntouched
<1>8. ASSUME NEW S \in SUBSET Events, Cleanup(S) PROVE PipelineInv'
  <2>1. /\ S \subseteq published \ Range(relay.rows)
        /\ outbox' = Without(outbox, S) /\ published' = published \ S
        /\ UNCHANGED <<business, relay, queue, pushed, repeated>> /\ UNCHANGED workerVars
    BY <1>8 DEF Cleanup
  <2>2. outbox' \in Seq(Events) /\ Range(outbox') = Range(outbox) \ S /\ IsInjective(outbox')
    BY <2>1, WithoutSpec DEF PipelineTypeOK
  <2>3. PipelineTypeOK'
    BY <1>w, <2>1, <2>2 DEF PipelineTypeOK
  <2>4. OutboxCustody'
    BY <2>1, <2>2 DEF OutboxCustody
  <2> QED
    BY <2>1, <2>3, <2>4, QueueUntouched
<1> QED
  BY <1>1, <1>2, <1>3, <1>4, <1>5, <1>6, <1>7, <1>8 DEF RelayStep

-----------------------------------------------------------------------------
(* The worker.                                                             *)

WorkerType ==
  /\ queue \in Seq(Events)
  /\ worker \in [job: Events \cup {NoEvent}, pc: {"pop", "handle", "ack", "fail", "requeue"}]
  /\ attempts \in [Events -> 0..MaxRetryAttempts]
  /\ dlq \subseteq Events
  /\ applied \in [Events -> 0..2]
  /\ repeated \subseteq Events /\ settled \subseteq Events

\* The worker leaves the outbox and the relay alone.
LEMMA OutboxUntouched ==
  ASSUME PipelineInv, UNCHANGED outboxVars, UNCHANGED <<relay, pushed>>,
         WorkerType', QueueCustody', OneCopy'
  PROVE  PipelineInv'
BY DEF PipelineInv, PipelineTypeOK, WorkerType, OutboxCustody, outboxVars

LEMMA WorkerStepType ==
  ASSUME PipelineInv, WorkerStep \/ WorkerCrashes \/ \E e \in Events : AttemptsExpire(e)
  PROVE  WorkerType'
<1> USE PipelineAssumption DEF PipelineInv, WorkerType
<1>0. WorkerType
  BY DEF PipelineTypeOK
<1>1. ASSUME worker.pc # "pop" PROVE worker.job \in Events
  BY <1>0, <1>1 DEF QueueCustody
<1>2. CASE Pop
  <2>1. queue \in Seq(Events) /\ queue # << >>
    BY <1>0, <1>2 DEF Pop
  <2>2. Front(queue) \in Seq(Events) /\ Last(queue) \in Events
    BY <2>1, RangePop
  <2> QED
    BY <1>0, <1>2, <2>2 DEF Pop
<1>3. CASE HandleJob
  <2>1. worker.job \in Events
    BY <1>1, <1>3 DEF HandleJob, WorkerIs
  <2>2. worker' \in [job: Events \cup {NoEvent}, pc: {"pop", "handle", "ack", "fail", "requeue"}]
    BY <1>0, <1>3, SMTT(40) DEF HandleJob, WorkerGoto
  <2>3. settled' \subseteq Events /\ UNCHANGED <<queue, attempts, dlq, repeated>>
    BY <1>0, <1>3, <2>1 DEF HandleJob
  <2>4. applied' \in [Events -> 0..2]
    <3>1. \/ UNCHANGED applied
          \/ applied[worker.job] < 2 /\ applied' = [applied EXCEPT ![worker.job] = @ + 1]
      BY <1>3 DEF HandleJob
    <3>2. applied[worker.job] \in 0..2
      BY <1>0, <2>1
    <3>3. applied[worker.job] < 2 => applied[worker.job] + 1 \in 0..2
      BY <3>2
    <3> QED
      BY <1>0, <2>1, <3>1, <3>3
  <2> QED
    BY <1>0, <2>2, <2>3, <2>4
<1>4. CASE Acknowledge
  <2>1. 0 \in 0..MaxRetryAttempts
    OBVIOUS
  <2>2. attempts' \in [Events -> 0..MaxRetryAttempts]
    BY <1>0, <1>4, <2>1 DEF Acknowledge
  <2> QED
    BY <1>0, <1>4, <2>2 DEF Acknowledge, WorkerDone
<1>5. CASE AcknowledgeFails
  <2>1. worker.job \in Events
    BY <1>1, <1>5 DEF AcknowledgeFails, WorkerIs
  <2> QED
    BY <1>0, <1>5, <2>1 DEF AcknowledgeFails, WorkerGoto
<1>6. CASE IncrementJobAttempts
  <2>1. attempts' \in [Events -> 0..MaxRetryAttempts]
    <3> DEFINE n == attempts[worker.job]
               m == IF n < MaxRetryAttempts THEN n + 1 ELSE n
    <3>1. worker.job \in Events
      BY <1>1, <1>6 DEF IncrementJobAttempts, WorkerIs
    <3>2. n \in 0..MaxRetryAttempts
      BY <1>0, <3>1
    <3>3. m \in 0..MaxRetryAttempts
      <4> HIDE DEF n
      <4> QED
        BY <3>2
    <3>4. attempts' = [attempts EXCEPT ![worker.job] = m]
      BY <1>6 DEF IncrementJobAttempts
    <3> HIDE DEF m
    <3> QED
      BY <1>0, <3>3, <3>4
  <2> QED
    BY <1>0, <1>6, <2>1 DEF IncrementJobAttempts, WorkerGoto
<1>7. CASE Requeue
  <2>1. worker.job \in Events
    BY <1>1, <1>7 DEF Requeue, WorkerIs
  <2>2. Append(queue, worker.job) \in Seq(Events)
    BY <1>0, <2>1, RangeAppend
  <2> QED
    BY <1>0, <1>7, <2>2 DEF Requeue, WorkerDone
<1>8. CASE SendToDlq
  <2>1. worker.job \in Events
    BY <1>1, <1>8 DEF SendToDlq, WorkerIs
  <2> QED
    BY <1>0, <1>8, <2>1 DEF SendToDlq, WorkerDone
<1>9. CASE WorkerDrops
  <2>1. worker.job \in Events
    BY <1>1, <1>9 DEF WorkerDrops
  <2> QED
    BY <1>0, <1>9, <2>1 DEF WorkerDrops, WorkerDone
<1>10. CASE WorkerCrashes
  BY <1>0, <1>10 DEF WorkerCrashes, WorkerDone
<1>11. ASSUME NEW e \in Events, AttemptsExpire(e) PROVE WorkerType'
  BY <1>0, <1>11 DEF AttemptsExpire
<1> QED
  BY <1>2, <1>3, <1>4, <1>5, <1>6, <1>7, <1>8, <1>9, <1>10, <1>11 DEF WorkerStep

\* A job leaves the worker's hands for the queue, the dead letters or as settled.
LEMMA WorkerStepCustody ==
  ASSUME PipelineInv, WorkerStep \/ WorkerCrashes \/ \E e \in Events : AttemptsExpire(e)
  PROVE  QueueCustody'
<1> USE PipelineAssumption DEF PipelineInv, PipelineTypeOK, QueueCustody
<1>1. CASE Pop
  <2>1. queue \in Seq(Events) /\ queue # << >>
    BY <1>1 DEF Pop
  <2>2. Last(queue) \in Events /\ Range(queue) = Range(Front(queue)) \cup {Last(queue)}
    BY <2>1, RangePop
  <2> QED
    BY <1>1, <2>2 DEF Pop, WorkerIs
<1>2. CASE HandleJob \/ AcknowledgeFails \/ IncrementJobAttempts
  BY <1>2 DEF HandleJob, AcknowledgeFails, IncrementJobAttempts, WorkerIs, WorkerGoto
<1>3. CASE Requeue
  <2>1. Range(queue') = Range(queue) \cup {worker.job} /\ worker.job \in pushed
    BY <1>3, RangeAppend DEF Requeue, WorkerIs
  <2> QED
    BY <1>3, <2>1 DEF Requeue, WorkerDone, WorkerIs
<1>4. CASE Acknowledge \/ SendToDlq \/ WorkerDrops \/ WorkerCrashes
  BY <1>4 DEF Acknowledge, SendToDlq, WorkerDrops, WorkerCrashes, WorkerDone, WorkerIs
<1>5. ASSUME NEW e \in Events, AttemptsExpire(e) PROVE QueueCustody'
  BY <1>5 DEF AttemptsExpire
<1> QED
  BY <1>1, <1>2, <1>3, <1>4, <1>5 DEF WorkerStep

\* The worker makes no second copy of a job, and a job whose event has changed
\* the balances is only acknowledged.
LEMMA WorkerStepOnce ==
  ASSUME PipelineInv, WorkerStep \/ WorkerCrashes \/ \E e \in Events : AttemptsExpire(e)
  PROVE  OneCopy'
<1> SUFFICES ASSUME NEW e \in Events, e \notin repeated'
             PROVE  /\ AtMostOnce(queue', e)
                    /\ worker'.job = e => e \notin Range(queue')
                    /\ applied'[e] > 0 => /\ e \in pushed'
                                          /\ e \notin Range(queue')
                                          /\ worker'.job = e => worker'.pc = "ack"
                    /\ applied'[e] <= 1
  BY DEF OneCopy
<1> DEFINE Goal ==
      /\ AtMostOnce(queue', e)
      /\ worker'.job = e => e \notin Range(queue')
      /\ applied'[e] > 0 => /\ e \in pushed'
                            /\ e \notin Range(queue')
                            /\ worker'.job = e => worker'.pc = "ack"
      /\ applied'[e] <= 1
<1> USE PipelineAssumption
<1>0. PipelineTypeOK /\ QueueCustody
  BY DEF PipelineInv
<1>1. e \notin repeated
  BY DEF WorkerStep, Pop, HandleJob, Acknowledge, AcknowledgeFails, IncrementJobAttempts, Requeue,
         SendToDlq, WorkerDrops, WorkerCrashes, AttemptsExpire
<1>2. /\ AtMostOnce(queue, e)
      /\ worker.job = e => e \notin Range(queue)
      /\ applied[e] > 0 => /\ e \in pushed
                           /\ e \notin Range(queue)
                           /\ worker.job = e => worker.pc = "ack"
      /\ applied[e] <= 1 /\ applied[e] \in 0..2
  BY <1>1 DEF PipelineInv, OneCopy, PipelineTypeOK
<1>3. CASE Pop
  <2>1. queue \in Seq(Events) /\ queue # << >>
    BY <1>0, <1>3 DEF Pop, PipelineTypeOK
  <2>2. /\ AtMostOnce(Front(queue), e)
        /\ Last(queue) = e => e \notin Range(Front(queue))
        /\ Range(queue) = Range(Front(queue)) \cup {Last(queue)}
    BY <1>2, <2>1, OncePop, RangePop
  <2>3. /\ queue' = Front(queue) /\ worker'.job = Last(queue)
        /\ UNCHANGED <<applied, pushed>>
    BY <1>3 DEF Pop
  <2> QED
    BY <1>2, <2>2, <2>3
<1>4. CASE HandleJob
  <2>1. /\ worker.pc = "handle" /\ UNCHANGED <<queue, pushed>> /\ worker'.job = worker.job
        /\ worker'.pc \in {"fail", "ack"}
        /\ \/ worker'.pc = "fail" /\ UNCHANGED applied
           \/ worker'.pc = "ack" /\ UNCHANGED applied
           \/ worker'.pc = "ack" /\ applied' = [applied EXCEPT ![worker.job] = @ + 1]
    BY <1>0, <1>4 DEF HandleJob, WorkerIs, WorkerGoto, PipelineTypeOK
  <2>2. CASE worker.job # e
    <3>1. applied'[e] = applied[e]
      BY <1>0, <2>1, <2>2 DEF PipelineTypeOK
    <3> QED
      BY <1>2, <2>1, <2>2, <3>1
  <2>3. CASE worker.job = e
    <3>1. applied[e] = 0 /\ e \notin Range(queue) /\ e \in pushed
      BY <1>0, <1>2, <2>1, <2>3 DEF QueueCustody
    <3>2. \/ worker'.pc = "ack" /\ applied'[e] \in {0, 1}
          \/ applied'[e] = 0
      BY <1>0, <2>1, <2>3, <3>1 DEF PipelineTypeOK
    <3> QED
      BY <1>2, <2>1, <2>3, <3>1, <3>2
  <2> QED
    BY <2>2, <2>3
<1>5. CASE AcknowledgeFails \/ IncrementJobAttempts
  <2>1. /\ UNCHANGED <<queue, pushed, applied>> /\ worker'.job = worker.job
        /\ worker.job = e => worker.pc # "ack"
    BY <1>0, <1>5 DEF AcknowledgeFails, IncrementJobAttempts, WorkerIs, WorkerGoto, PipelineTypeOK
  <2> QED
    BY <1>2, <2>1
<1>6. CASE Requeue
  <2>1. /\ worker.pc = "requeue" /\ queue' = Append(queue, worker.job) /\ worker'.job = NoEvent
        /\ UNCHANGED <<pushed, applied>>
    BY <1>6 DEF Requeue, WorkerIs, WorkerDone
  <2>2. worker.job \in Events
    BY <1>0, <2>1 DEF QueueCustody, PipelineTypeOK
  <2>3. Range(queue') = Range(queue) \cup {worker.job} /\ AtMostOnce(queue', e)
    BY <1>0, <1>2, <2>1, <2>2, RangeAppend, OnceAppend DEF PipelineTypeOK
  <2> QED
    BY <1>2, <2>1, <2>3
<1>7. CASE Acknowledge \/ SendToDlq \/ WorkerDrops
  <2>1. UNCHANGED <<queue, pushed, applied>> /\ worker'.job = NoEvent
    BY <1>7 DEF Acknowledge, SendToDlq, WorkerDrops, WorkerDone
  <2> QED
    BY <1>2, <2>1
<1>8. CASE WorkerCrashes
  <2>1. UNCHANGED <<queue, pushed>> /\ applied'[e] = 0 /\ worker'.job = NoEvent
    BY <1>8 DEF WorkerCrashes, WorkerDone
  <2> QED
    BY <1>2, <2>1
<1>9. ASSUME NEW f \in Events, AttemptsExpire(f) PROVE Goal
  <2>1. UNCHANGED <<queue, pushed, applied, worker>>
    BY <1>9 DEF AttemptsExpire
  <2> QED
    BY <1>2, <2>1
<1> QED
  BY <1>3, <1>4, <1>5, <1>6, <1>7, <1>8, <1>9 DEF WorkerStep

LEMMA WorkerSideStep ==
  ASSUME PipelineInv, WorkerStep \/ WorkerCrashes \/ \E e \in Events : AttemptsExpire(e)
  PROVE  PipelineInv'
<1>1. UNCHANGED outboxVars /\ UNCHANGED <<relay, pushed>>
  BY DEF WorkerStep, Pop, HandleJob, Acknowledge, AcknowledgeFails, IncrementJobAttempts, Requeue,
         SendToDlq, WorkerDrops, WorkerCrashes, AttemptsExpire
<1> QED
  BY <1>1, WorkerStepType, WorkerStepCustody, WorkerStepOnce, OutboxUntouched

\* Every reachable state: types, both chains of custody, and one copy of the
\* job of every event that was not repeated.
THEOREM PipelineInvariant == PipelineSpec => []PipelineInv
<1>1. PipelineInv /\ [PipelineNext]_pipelineVars => PipelineInv'
  <2> SUFFICES ASSUME PipelineInv, [PipelineNext]_pipelineVars PROVE PipelineInv'
    OBVIOUS
  <2>1. CASE UNCHANGED pipelineVars
    BY <2>1 DEF PipelineInv, pipelineVars, PipelineTypeOK, OutboxCustody, QueueCustody, OneCopy, Pending
  <2> QED
    BY <2>1, OutboxStep, WorkerSideStep DEF PipelineNext
<1> QED
  BY PipelineStart, <1>1, PTL DEF PipelineSpec

-----------------------------------------------------------------------------
\* transactionalOutbox.ts, eventProducer.ts: whatever throws or dies, and whatever
\* cleanup deletes, an event that was committed is pending or was queued, and a
\* queued job is accounted for.
THEOREM NothingIsLost == PipelineSpec => []NoSilentLoss
<1>1. PipelineInv => NoSilentLoss
  <2> SUFFICES ASSUME PipelineInv PROVE NoSilentLoss
    OBVIOUS
  <2>1. Range(Pending) = Range(outbox) \ published
    BY PendingRows DEF PipelineInv
  <2> QED
    BY <2>1 DEF PipelineInv, OutboxCustody, QueueCustody, NoSilentLoss
<1> QED
  BY PipelineInvariant, <1>1, PTL

\* eventProducer.ts, processNextEvent: the retry path alone never adds an event
\* to the balances twice, for any retry limit and any number of events in flight.
THEOREM RetriesApplyOnce == PipelineSpec => []AppliedTwiceNeedsARepeat
<1>1. PipelineInv => AppliedTwiceNeedsARepeat
  <2> SUFFICES ASSUME PipelineInv, NEW e \in Events, applied[e] > 1, e \notin repeated PROVE FALSE
    BY DEF AppliedTwiceNeedsARepeat
  <2>1. applied[e] <= 1
    BY DEF PipelineInv, OneCopy
  <2>2. applied[e] \in 0..2
    BY DEF PipelineInv, PipelineTypeOK
  <2> QED
    BY <2>1, <2>2
<1> QED
  BY PipelineInvariant, <1>1, PTL

\* The safety half of the refinement: the outbox, the relay and the queue take
\* only steps that Delivery allows.  Nothing is queued that was not committed
\* with its business change, and nothing committed or queued is taken back.
THEOREM OutboxImplementsDelivery ==
  PipelineSpec => AtLeastOnce!Init /\ [][AtLeastOnce!Next]_(AtLeastOnce!vars)
<1>1. PipelineInit => AtLeastOnce!Init
  BY DEF PipelineInit, AtLeastOnce!Init
<1>2. ASSUME PipelineInv, [PipelineNext]_pipelineVars
      PROVE  [AtLeastOnce!Next]_(AtLeastOnce!vars)
  <2> USE DEF AtLeastOnce!Next, AtLeastOnce!Accept, AtLeastOnce!Deliver, AtLeastOnce!vars
  <2>1. CASE UNCHANGED <<business, pushed>>
    BY <2>1
  <2>2. ASSUME NEW e \in Events, EnqueueOutboxEvent(e) PROVE AtLeastOnce!Next
    BY <2>2 DEF EnqueueOutboxEvent
  <2>3. ASSUME NEW e \in Events, OtherRelay(e) PROVE AtLeastOnce!Next
    <3>1. e \in business
      BY <2>3, <1>2, PendingRows DEF OtherRelay, PipelineInv, OutboxCustody
    <3> QED
      BY <2>3, <3>1 DEF OtherRelay, Push
  <2>4. ASSUME Publish \/ PublishFails, ~UNCHANGED <<business, pushed>> PROVE AtLeastOnce!Next
    <3> DEFINE e == Head(relay.rows)
    <3>1. relay.rows # << >> /\ pushed' = pushed \cup {e} /\ UNCHANGED business
      BY <2>4 DEF Publish, PublishFails, Push, outboxVars
    <3>2. e \in Range(relay.rows)
      BY <1>2, <3>1, RangeTail DEF PipelineInv, PipelineTypeOK
    <3>3. e \in business /\ e \in Events
      BY <1>2, <3>2 DEF PipelineInv, OutboxCustody, PipelineTypeOK
    <3> HIDE DEF e
    <3> QED
      BY <3>1, <3>3
  <2> QED
    BY <1>2, <2>1, <2>2, <2>3, <2>4 DEF PipelineNext, RelayStep, WorkerStep, pipelineVars, FindPending,
       MarkPublished, MarkFails, RelayDies, Cleanup, Pop, HandleJob, Acknowledge,
       AcknowledgeFails, IncrementJobAttempts, Requeue, SendToDlq, WorkerDrops, WorkerCrashes,
       AttemptsExpire, outboxVars
<1> QED
  BY PipelineInvariant, <1>1, <1>2, PTL DEF PipelineSpec
=============================================================================
