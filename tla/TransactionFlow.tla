-------------------------- MODULE TransactionFlow --------------------------
(***************************************************************************)
(* A transaction in the web application, from the form to its outcome:      *)
(* building and previewing the envelope and submitting it                   *)
(* (components/DepositModal.tsx; WithdrawModal.tsx does the same),          *)
(* signAndSubmit (lib/soroban-client.ts), and the hook that polls for the   *)
(* result (hooks/useTransactionMonitor.ts).                                 *)
(*                                                                          *)
(* An action is a handler, or what follows an await, with the effects that  *)
(* React runs after it.  React batches the updates of a handler into one    *)
(* render, and the effects of that render see its values: when the hash     *)
(* changes, the modal's effect reads the monitor's state of before, because *)
(* the monitor's own effect has only asked for the reset.                   *)
(*                                                                          *)
(* An envelope is its hash: signing the same one again gives the same hash. *)
(* Until its preview is shown, ok and acknowledged, there is none to submit *)
(* (submit returns).  pollCount only picks a label among the open phases.   *)
(* isConnected and publicKey are taken as one.                              *)
(***************************************************************************)
EXTENDS Integers, FiniteSets

CONSTANTS
  Envelopes,      \* the envelopes that may be built
  Submits,        \* calls of submit that may overlap
  Polls,          \* calls of poll that may overlap
  WalletMayGo     \* bound: whether the wallet may disconnect

VARIABLES
  network,        \* Stellar (external): the state of every envelope
  form,           \* txXdr, once its preview is shown and ok; isConnected
  modal,          \* txPhase, txHash, submitting, canRetry; txError is a reverted transaction's
  submits,        \* the submit calls: step, envelope, came through the dialog
  monitor,        \* the hook's state: phase, pollError, isPolling
  timer,          \* intervalRef
  polls,          \* the poll calls: step, hash, answer; stale is a ghost
  flowCause       \* ghost: what has happened that the outcome shown does not survive

flowVars == <<network, form, modal, submits, monitor, timer, polls, flowCause>>

None == "none"
InitialState == [phase |-> "open", error |-> FALSE, polling |-> TRUE]
NoPoll == [step |-> "idle", hash |-> None, answer |-> "open", stale |-> FALSE]
NoSubmit == [step |-> "idle", xdr |-> None, dialog |-> FALSE]

Init ==
  /\ network = [e \in Envelopes |-> "unbuilt"]
  /\ form = [xdr |-> None, connected |-> TRUE]
  /\ modal = [phase |-> "idle", hash |-> None, submitting |-> FALSE, retry |-> FALSE,
              reverted |-> FALSE]
  /\ submits = [s \in Submits |-> NoSubmit]
  /\ monitor = InitialState /\ timer = FALSE
  /\ polls = [p \in Polls |-> NoPoll]
  /\ flowCause = {}

-----------------------------------------------------------------------------
(* Effects *)

\* Mutant: an error of the monitor is left to the monitor.
OutcomeIgnoringErrors(m, mon) ==
  IF m.phase # "pending" \/ m.hash = None THEN m
  ELSE IF mon.phase = "confirmed" THEN [m EXCEPT !.phase = "success"]
  ELSE IF mon.phase = "failed"
       THEN [m EXCEPT !.phase = "error", !.retry = TRUE, !.reverted = TRUE]
  ELSE m

\* The modal's effect on the outcome, with the monitor's state of this render.
Outcome(m, mon) ==
  IF m.phase # "pending" \/ m.hash = None THEN m
  ELSE IF mon.phase = "confirmed" THEN [m EXCEPT !.phase = "success"]
  ELSE IF mon.phase = "failed" \/ mon.error
       THEN [m EXCEPT !.phase = "error", !.retry = TRUE, !.reverted = (mon.phase = "failed")]
  ELSE m

\* The slot of the next poll (the slots are interchangeable).
NextPoll(p) == polls[p].step = "idle" /\ p = CHOOSE q \in Polls : polls[q].step = "idle"

\* The monitor's effect for a hash: the old interval is cleared, and unless there
\* is no hash the state is reset, a poll made and an interval started.  Polls on
\* their way are not cancelled.
Monitor(hash) ==
  LET old == [p \in Polls |-> [polls[p] EXCEPT !.stale = @ \/ polls[p].step # "idle"]] IN
  IF hash = None
  THEN /\ timer' = FALSE /\ polls' = old
       /\ UNCHANGED monitor
  ELSE /\ timer' = TRUE
       /\ monitor' = InitialState
       /\ \E p \in Polls :
            /\ NextPoll(p)
            /\ polls' = [old EXCEPT ![p] = [NoPoll EXCEPT !.step = "asking", !.hash = hash]]

\* A handler leaves the modal as m.
Render(m) ==
  /\ modal' = Outcome(m, monitor)
  /\ flowCause' = flowCause \cup
       (IF m.hash # modal.hash /\ Outcome(m, monitor) # m THEN {"stale monitor"} ELSE {})
  /\ IF m.hash = modal.hash THEN UNCHANGED <<monitor, timer, polls>> ELSE Monitor(m.hash)

-----------------------------------------------------------------------------
(* Building and previewing *)

\* The amount, the fee, the balance or the price changes: the effect drops the
\* preview and starts a build, which cancels the one before.  A build or a preview
\* that fails leaves nothing to submit either.
Rebuild ==
  /\ form.xdr # None
  /\ form' = [form EXCEPT !.xdr = None]
  /\ UNCHANGED <<network, modal, submits, monitor, timer, polls, flowCause>>

\* A new envelope has been built and its preview shown.  (Which one is not yet a
\* difference.)
Previewed(e) ==
  /\ form.connected
  /\ network[e] = "unbuilt" /\ e = CHOOSE d \in Envelopes : network[d] = "unbuilt"
  /\ network' = [network EXCEPT ![e] = "built"]
  /\ form' = [form EXCEPT !.xdr = e]
  /\ UNCHANGED <<modal, submits, monitor, timer, polls, flowCause>>

\* The wallet goes, which ends a signature that is being waited for, or returns.
WalletLost ==
  /\ WalletMayGo /\ form.connected
  /\ form' = [form EXCEPT !.connected = FALSE]
  /\ modal' = IF modal.phase # "signing" THEN modal
              ELSE [modal EXCEPT !.phase = "error", !.retry = TRUE, !.submitting = FALSE,
                                 !.reverted = FALSE]
  /\ UNCHANGED <<network, submits, monitor, timer, polls, flowCause>>

WalletBack ==
  /\ ~form.connected
  /\ form' = [connected |-> TRUE, xdr |-> None]
  /\ UNCHANGED <<network, modal, submits, monitor, timer, polls, flowCause>>

-----------------------------------------------------------------------------
(* Submitting *)

\* The confirmation dialog stays on top until its submit has ended.
Uncovered == \A s \in Submits : submits[s].step # "idle" => ~submits[s].dialog

\* submit, from the dialog or by "Retry Signature".
Submit(s) ==
  /\ submits[s].step = "idle"
  /\ Uncovered /\ ~modal.submitting
  /\ modal.phase = "idle" \/ (modal.phase = "error" /\ modal.retry)
  /\ form.connected /\ form.xdr # None
  /\ submits' = [submits EXCEPT ![s] =
       [step |-> "signing", xdr |-> form.xdr, dialog |-> modal.phase = "idle"]]
  /\ modal' = [phase |-> "signing", hash |-> None, submitting |-> TRUE, retry |-> FALSE,
               reverted |-> FALSE]
  /\ flowCause' = flowCause \cup
       (IF \E t \in Submits : submits[t].step # "idle" THEN {"two submits"} ELSE {})
  /\ IF modal.hash = None THEN UNCHANGED <<monitor, timer, polls>> ELSE Monitor(None)
  /\ UNCHANGED <<network, form>>

\* The catch of submit: the modal shows an error.  Only a missing extension offers
\* no retry.
SubmitFailed(s, retry) ==
  /\ submits' = [submits EXCEPT ![s] = NoSubmit]
  /\ Render([modal EXCEPT !.phase = "error", !.submitting = FALSE, !.retry = retry,
                          !.reverted = FALSE])
  /\ UNCHANGED <<form>>

SignatureRefused(s, retry) ==
  /\ submits[s].step = "signing"
  /\ SubmitFailed(s, retry)
  /\ UNCHANGED network

\* sendTransaction is refused, before the network has taken the envelope.
SendRefused(s) ==
  /\ submits[s].step = "signing"
  /\ SubmitFailed(s, TRUE)
  /\ UNCHANGED network

\* The envelope is signed and the network has it; one it had before is a
\* duplicate.
Broadcast(s) ==
  LET e == submits[s].xdr IN
  /\ submits[s].step = "signing"
  /\ network' = [network EXCEPT ![e] = IF @ = "built" THEN "sent" ELSE @]
  /\ submits' = [submits EXCEPT ![s].step = "sent"]
  /\ UNCHANGED <<form, modal, monitor, timer, polls, flowCause>>

\* The network's answer is lost, or it comes and submit has its hash.
AnswerLost(s) ==
  /\ submits[s].step = "sent"
  /\ SubmitFailed(s, TRUE)
  /\ UNCHANGED network

Submitted(s) ==
  /\ submits[s].step = "sent"
  /\ submits' = [submits EXCEPT ![s] = NoSubmit]
  /\ Render([modal EXCEPT !.phase = "pending", !.hash = submits[s].xdr, !.submitting = FALSE])
  /\ UNCHANGED <<network, form>>

\* handleTransactionModalClose.
Close ==
  /\ modal.phase \in {"success", "error"}
  /\ Render([modal EXCEPT !.phase = "idle", !.hash = None, !.retry = FALSE, !.reverted = FALSE])
  /\ form' = IF modal.phase = "success"
             THEN [form EXCEPT !.xdr = None] ELSE form
  /\ UNCHANGED <<network, submits>>

\* The ledger takes the transaction.
Applied(e, result) ==
  /\ network[e] = "sent"
  /\ network' = [network EXCEPT ![e] = result]
  /\ UNCHANGED <<form, modal, submits, monitor, timer, polls, flowCause>>

-----------------------------------------------------------------------------
(* Polling *)

\* The interval fires, whether or not a poll is still on its way.
IntervalFires(p) ==
  /\ timer /\ NextPoll(p)
  /\ polls' = [polls EXCEPT ![p] = [NoPoll EXCEPT !.step = "asking", !.hash = modal.hash]]
  /\ flowCause' = flowCause \cup
       (IF \E q \in Polls : polls[q].step # "idle" THEN {"overlap"} ELSE {})
  /\ UNCHANGED <<network, form, modal, submits, monitor, timer>>

\* The data-saver setting changes: the monitor's effect is run anew.
ToggleDataSaver ==
  /\ modal.hash # None
  /\ Monitor(modal.hash)
  /\ UNCHANGED <<network, form, modal, submits, flowCause>>

\* mapToUiPhase of the status the server sees, which may be out of date when the
\* answer arrives.
MapToUiPhase(status) ==
  CASE status = "SUCCESS" -> "confirmed" [] status = "FAILED" -> "failed" [] OTHER -> "open"

Serve(p) ==
  /\ polls[p].step = "asking"
  /\ polls' = [polls EXCEPT ![p].step = "answered", ![p].hash = None,
                                 ![p].answer = MapToUiPhase(network[polls[p].hash])]
  /\ UNCHANGED <<network, form, modal, submits, monitor, timer, flowCause>>

\* What a poll reports is taken, whichever hash it was made for; a terminal phase
\* or an error stops the interval, whichever hash that is for.
Report(p, state) ==
  /\ monitor' = state
  /\ modal' = Outcome(modal, state)
  /\ timer' = (timer /\ state.polling)
  /\ polls' = [polls EXCEPT ![p] = NoPoll]
  /\ flowCause' = flowCause \cup (IF polls[p].stale THEN {"late answer"} ELSE {})
  /\ UNCHANGED <<network, form, submits>>

PollAnswered(p) ==
  /\ polls[p].step = "answered"
  /\ Report(p, [phase |-> polls[p].answer, error |-> FALSE, polling |-> polls[p].answer = "open"])

PollFailed(p) ==
  /\ polls[p].step = "asking"
  /\ Report(p, [monitor EXCEPT !.error = TRUE, !.polling = FALSE])

Next ==
  \/ Rebuild \/ WalletLost \/ WalletBack \/ Close \/ ToggleDataSaver
  \/ \E e \in Envelopes :
       \/ Previewed(e)
       \/ \E result \in {"SUCCESS", "FAILED"} : Applied(e, result)
  \/ \E s \in Submits :
       \/ Submit(s) \/ Broadcast(s) \/ SendRefused(s) \/ AnswerLost(s) \/ Submitted(s)
       \/ \E retry \in BOOLEAN : SignatureRefused(s, retry)
  \/ \E p \in Polls : IntervalFires(p) \/ Serve(p) \/ PollAnswered(p) \/ PollFailed(p)

Spec == Init /\ [][Next]_flowVars

-----------------------------------------------------------------------------
\* Types of the form, the modal, the monitor and the calls.
TypeOK ==
  /\ network \in [Envelopes -> {"unbuilt", "built", "sent", "SUCCESS", "FAILED"}]
  /\ form \in [xdr : Envelopes \cup {None}, connected : BOOLEAN]
  /\ modal \in [phase : {"idle", "signing", "pending", "success", "error"},
                hash : Envelopes \cup {None}, submitting : BOOLEAN, retry : BOOLEAN,
                reverted : BOOLEAN]
  /\ monitor \in [phase : {"open", "confirmed", "failed"}, error : BOOLEAN, polling : BOOLEAN]

\* "The network accepted the transaction" (TransactionModal.tsx:68) is shown only
\* for one that succeeded, and "The transaction reverted on-chain."
\* (DepositModal.tsx:168) only for one that failed, unless the modal took the
\* monitor's state of an earlier transaction, or the monitor an answer to an earlier
\* poll.  The modal cannot be closed while it is pending ("Locked while pending",
\* :311), so it is being polled for then, unless a second submit was made before
\* the first had ended; and a monitor that says it is polling has an interval or a
\* poll left, unless answers came late or overlapped.  Nothing is said of the other
\* errors: a poll may fail, or an answer be lost, while the transaction succeeds.
OutcomeShownIsReal ==
  /\ modal.phase = "success" /\ flowCause \cap {"stale monitor", "late answer"} = {} =>
       network[modal.hash] = "SUCCESS"
  /\ modal.phase = "error" /\ modal.reverted
       /\ flowCause \cap {"stale monitor", "late answer"} = {} =>
       network[modal.hash] = "FAILED"
  /\ modal.phase = "pending" /\ "two submits" \notin flowCause => timer /\ modal.hash # None
  /\ modal.hash # None /\ monitor.polling /\ flowCause \cap {"late answer", "overlap"} = {} => timer
=============================================================================
