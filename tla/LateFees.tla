------------------------------ MODULE LateFees ------------------------------
(***************************************************************************)
(* Late fees of one loan: the repayment audit that charges them             *)
(* (jobs/repaymentAudit.ts) and the hardship waivers that credit them       *)
(* (services/feeWaiver.ts).  Both read lateFeeBalance, compute, and write   *)
(* the result in a later statement; a waiver decision marks its request in  *)
(* a statement of its own before that.                                      *)
(*                                                                          *)
(* The audit reads all loans at once and comes to this one after the        *)
(* notifications of the others.  No code of the repository sets the first   *)
(* dueDate or moves it after a payment; the model starts with one set.      *)
(***************************************************************************)
EXTENDS Integers, FiniteSets, Sums

CONSTANTS
  Waivers,      \* hardship requests filed
  Decisions,    \* decideWaiverRequest calls
  LateFee,      \* DEFAULT_LATE_FEE
  MaxMissed     \* 3: misses that make a default

VARIABLES
  account,      \* the loan row: fee, missed, status, due
  audit,        \* the audit between its findMany and this loan
  waivers,      \* table lateFeeWaiverRequest, with the filing in progress
  deciding,     \* the decisions in progress
  charged,      \* ghost: late fees charged
  feeCause      \* ghost: what has happened that the balance does not reflect

feeVars == <<account, audit, waivers, deciding, charged, feeCause>>

NoRun == [step |-> "idle",
          seen |-> [fee |-> 0, missed |-> 0, status |-> "Repaying", due |-> "current"]]
NoDecision == [step |-> "idle", waiver |-> "none", verdict |-> "none", seen |-> 0, amount |-> 0]

\* due: current (dueDate ahead), overdue, grace (gracePeriodEndsAt ahead), expired.
Init ==
  /\ account = [fee |-> 0, missed |-> 0, status |-> "Repaying", due |-> "current"]
  /\ audit = NoRun
  /\ waivers = [w \in Waivers |-> [step |-> "none", waived |-> 0]]
  /\ deciding = [d \in Decisions |-> NoDecision]
  /\ charged = 0
  /\ feeCause = {}

Pending == {w \in Waivers : waivers[w].step = "PENDING"}
Midway == {d \in Decisions : deciding[d].step = "credit"}

TimePasses ==
  /\ account.due \in {"current", "grace"}
  /\ account' = [account EXCEPT !.due = IF @ = "current" THEN "overdue" ELSE "expired"]
  /\ UNCHANGED <<audit, waivers, deciding, charged, feeCause>>

-----------------------------------------------------------------------------
(* runRepaymentAudit                                                        *)

FindActiveLoans ==
  /\ audit.step = "idle"
  /\ account.status = "Repaying"
  /\ account.due \in {"overdue", "expired"}
  /\ audit' = [step |-> "found", seen |-> account]
  /\ UNCHANGED <<account, waivers, deciding, charged, feeCause>>

HandleEnterGracePeriod ==
  /\ audit.step = "found" /\ audit.seen.due = "overdue"
  /\ account' = [account EXCEPT !.due = "grace"]
  /\ audit' = NoRun
  /\ UNCHANGED <<waivers, deciding, charged, feeCause>>

\* The third miss defaults the loan; another one opens the next period.  So the
\* branch for a Repaying loan that has missed three already (handleDefault) is
\* never taken.
HandleMissedPayment ==
  /\ audit.step = "found" /\ audit.seen.due = "expired"
  /\ LET missed == audit.seen.missed + 1 IN
     account' = [fee |-> audit.seen.fee + LateFee, missed |-> missed,
                 status |-> IF missed >= MaxMissed THEN "DEFAULTED" ELSE account.status,
                 due |-> IF missed >= MaxMissed THEN account.due ELSE "current"]
  /\ charged' = charged + LateFee
  /\ feeCause' = IF account.fee # audit.seen.fee THEN feeCause \cup {"stale balance"} ELSE feeCause
  /\ audit' = NoRun
  /\ UNCHANGED <<waivers, deciding>>

\* The update of this loan throws: counted as a failure, tried by the next run.
AuditFails ==
  /\ audit.step = "found"
  /\ audit' = NoRun
  /\ UNCHANGED <<account, waivers, deciding, charged, feeCause>>

-----------------------------------------------------------------------------
(* createWaiverRequest                                                      *)

CheckWaiver(w) ==
  /\ waivers[w].step = "none"
  /\ account.fee > 0
  /\ Pending = {}
  /\ waivers' = [waivers EXCEPT ![w].step = "checked"]
  /\ UNCHANGED <<account, audit, deciding, charged, feeCause>>

CreateWaiver(w) ==
  /\ waivers[w].step = "checked"
  /\ waivers' = [waivers EXCEPT ![w].step = "PENDING"]
  /\ feeCause' = IF Pending # {} THEN feeCause \cup {"filed twice"} ELSE feeCause
  /\ UNCHANGED <<account, audit, deciding, charged>>

-----------------------------------------------------------------------------
(* decideWaiverRequest                                                      *)

\* The request is PENDING and the outstanding fee is read; APPROVED waives all
\* of it, PARTIAL less than that, DENIED nothing.
Decide(d, w, verdict, amount) ==
  /\ deciding[d].step = "idle"
  /\ waivers[w].step = "PENDING"
  /\ CASE verdict = "APPROVED" -> account.fee > 0 /\ amount = account.fee
       [] verdict = "PARTIAL"  -> amount \in 1..account.fee - 1
       [] verdict = "DENIED"   -> amount = 0
  /\ deciding' = [deciding EXCEPT ![d] =
       [step |-> "mark", waiver |-> w, verdict |-> verdict, seen |-> account.fee,
        amount |-> amount]]
  /\ UNCHANGED <<account, audit, waivers, charged, feeCause>>

\* lateFeeWaiverRequest.update by id, with no look at the status.
MarkWaiver(d) ==
  /\ deciding[d].step = "mark"
  /\ LET w == deciding[d].waiver IN
     /\ waivers' = [waivers EXCEPT ![w] =
          [step |-> deciding[d].verdict, waived |-> deciding[d].amount]]
     /\ feeCause' = IF waivers[w].step # "PENDING"
                    THEN feeCause \cup {"decided twice"} ELSE feeCause
  /\ deciding' = [deciding EXCEPT ![d].step = "credit"]
  /\ UNCHANGED <<account, audit, charged>>

CreditFullFee(d) == \* mutant: a partial waiver clears the balance
  /\ deciding[d].step = "credit"
  /\ account' = [account EXCEPT !.fee = IF deciding[d].amount = 0 THEN @ ELSE 0]
  /\ feeCause' = IF account.fee # deciding[d].seen
                 THEN feeCause \cup {"stale balance"} ELSE feeCause
  /\ deciding' = [deciding EXCEPT ![d] = [NoDecision EXCEPT !.step = "done"]]
  /\ UNCHANGED <<audit, waivers, charged>>

CreditLoan(d) ==
  /\ deciding[d].step = "credit"
  /\ account' = [account EXCEPT !.fee = deciding[d].seen - deciding[d].amount]
  /\ feeCause' = IF account.fee # deciding[d].seen
                 THEN feeCause \cup {"stale balance"} ELSE feeCause
  /\ deciding' = [deciding EXCEPT ![d] = [NoDecision EXCEPT !.step = "done"]]
  /\ UNCHANGED <<audit, waivers, charged>>

\* The process stops or the update throws: a decided request without its credit,
\* which a second decision is refused (already_decided).
CreditFails(d) ==
  /\ deciding[d].step = "credit"
  /\ feeCause' = feeCause \cup {"credit failed"}
  /\ deciding' = [deciding EXCEPT ![d] = [NoDecision EXCEPT !.step = "done"]]
  /\ UNCHANGED <<account, audit, waivers, charged>>

Next ==
  \/ TimePasses
  \/ FindActiveLoans \/ HandleEnterGracePeriod \/ HandleMissedPayment
  \/ AuditFails
  \/ \E w \in Waivers : CheckWaiver(w) \/ CreateWaiver(w)
  \/ \E d \in Decisions, w \in Waivers, verdict \in {"APPROVED", "PARTIAL", "DENIED"},
        amount \in 0..account.fee : Decide(d, w, verdict, amount)
  \/ \E d \in Decisions : MarkWaiver(d) \/ CreditLoan(d) \/ CreditFails(d)

Spec == Init /\ [][Next]_feeVars

-----------------------------------------------------------------------------
\* Types of the loan row, the requests and the decisions.
TypeOK ==
  /\ account.fee \in Nat /\ account.missed \in 0..MaxMissed
  /\ account.status \in {"Repaying", "DEFAULTED"}
  /\ account.due \in {"current", "overdue", "grace", "expired"}
  /\ \A w \in Waivers :
       /\ waivers[w].step \in {"none", "checked", "PENDING", "APPROVED", "PARTIAL", "DENIED"}
       /\ waivers[w].waived \in Nat
  /\ \A d \in Decisions : deciding[d].step \in {"idle", "mark", "credit", "done"}

Waived == [w \in Waivers |-> waivers[w].waived]

\* The balance is what was charged less what the decided requests say was
\* waived, at most one request is pending, and a default follows three charged
\* misses, unless the audit or a decision wrote over a balance that had changed
\* since it was read, a request was filed or decided twice at once, or a decision
\* stopped before its credit.
LateFeesReconcile ==
  /\ feeCause \cap {"stale balance", "decided twice", "credit failed"} = {} /\ Midway = {} =>
       account.fee = charged - SumOver(Waived, Waivers)
  /\ "filed twice" \notin feeCause => Cardinality(Pending) <= 1
  /\ account.status = "DEFAULTED" => charged >= MaxMissed * LateFee
=============================================================================
