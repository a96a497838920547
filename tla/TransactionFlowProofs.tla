------------------------ MODULE TransactionFlowProofs ------------------------
(***************************************************************************)
(* Why the outcome a modal shows is real, for any set of envelopes and any *)
(* number of calls of submit and poll that overlap.                        *)
(*                                                                         *)
(* A poll is fresh until the monitor's effect is run again.  A fresh poll  *)
(* was made for the hash the modal has, so what it brings is true of that  *)
(* transaction; and a submit that is alone finds no hash in the modal, so  *)
(* the hash it leaves is a change, which starts the polling.               *)
(***************************************************************************)
EXTENDS TransactionFlow, TLAPS

\* The name of no envelope is no envelope's name.
EnvelopesAreNamed == None \notin Envelopes

Modals == [phase : {"idle", "signing", "pending", "success", "error"},
           hash : Envelopes \cup {None}, submitting : BOOLEAN, retry : BOOLEAN,
           reverted : BOOLEAN]
Monitors == [phase : {"open", "confirmed", "failed"}, error : BOOLEAN, polling : BOOLEAN]
PollCalls == [step : {"idle", "asking", "answered"}, hash : Envelopes \cup {None},
              answer : {"open", "confirmed", "failed"}, stale : BOOLEAN]
SubmitCalls == [step : {"idle", "signing", "sent"}, xdr : Envelopes \cup {None},
                dialog : BOOLEAN]

FlowTypes ==
  /\ network \in [Envelopes -> {"unbuilt", "built", "sent", "SUCCESS", "FAILED"}]
  /\ form \in [xdr : Envelopes \cup {None}, connected : BOOLEAN]
  /\ modal \in Modals
  /\ monitor \in Monitors
  /\ timer \in BOOLEAN
  /\ polls \in [Polls -> PollCalls]
  /\ submits \in [Submits -> SubmitCalls]
  /\ \A s \in Submits : submits[s].step # "idle" => submits[s].xdr # None

\* The network has settled an envelope; a phase of the monitor is right about it, and
\* so is what the modal shows.
Settled(e, result) == e # None /\ network[e] = result
Right(phase, e) ==
  /\ phase = "confirmed" => Settled(e, "SUCCESS")
  /\ phase = "failed" => Settled(e, "FAILED")
Reverted(m) == m.phase = "error" /\ m.reverted
RightlyShown(m) ==
  /\ m.phase = "success" => Settled(m.hash, "SUCCESS")
  /\ Reverted(m) => Settled(m.hash, "FAILED")

Fresh(p) == polls[p].step # "idle" /\ ~polls[p].stale
Busy(s) == submits[s].step # "idle"

\* There is an interval only for a hash; and a fresh poll is about that hash.
PollsAsked ==
  /\ timer => modal.hash # None
  /\ \A p \in Polls : Fresh(p) =>
       /\ modal.hash # None
       /\ polls[p].step = "asking" => polls[p].hash = modal.hash
       /\ polls[p].step = "answered" => Right(polls[p].answer, modal.hash)
  /\ \A p \in Polls : polls[p].step = "asking" => polls[p].hash # None

\* So the monitor knows of a success or a failure only when it is one, and so does
\* the modal, which may have asked the monitor too early.
MonitorTrue ==
  "late answer" \notin flowCause =>
    (modal.hash # None => Right(monitor.phase, modal.hash))

OutcomeTrue ==
  flowCause \cap {"stale monitor", "late answer"} = {} => RightlyShown(modal)

\* A submit that is alone has cleared the hash.
SubmitsAlone ==
  "two submits" \notin flowCause =>
    /\ \A s, t \in Submits : Busy(s) /\ Busy(t) => s = t
    /\ \A s \in Submits : Busy(s) => modal.hash = None
    /\ modal.phase = "pending" => timer

\* A single poll is under way, and only while there is an interval, which the
\* monitor knows to have stopped.
PollsAlone ==
  flowCause \cap {"late answer", "overlap"} = {} =>
    /\ \A p, q \in Polls : Fresh(p) /\ Fresh(q) => p = q
    /\ \A p \in Polls : Fresh(p) => timer
    /\ modal.hash # None /\ monitor.polling => timer

FlowInv == FlowTypes /\ PollsAsked /\ MonitorTrue /\ OutcomeTrue /\ SubmitsAlone /\ PollsAlone

-----------------------------------------------------------------------------
(* The pieces of a step.                                                   *)

\* What the network has taken for good stays so.
NetworkMoves ==
  /\ network' \in [Envelopes -> {"unbuilt", "built", "sent", "SUCCESS", "FAILED"}]
  /\ \A e \in Envelopes : network[e] \in {"SUCCESS", "FAILED"} => network'[e] = network[e]

\* What is right of the modal's envelope stays right.
LEMMA SettledStays ==
  ASSUME FlowTypes, NetworkMoves, modal'.hash = modal.hash
  PROVE  /\ Settled(modal.hash, "SUCCESS") => Settled(modal.hash, "SUCCESS")'
         /\ Settled(modal.hash, "FAILED") => Settled(modal.hash, "FAILED")'
         /\ \A phase : Right(phase, modal.hash) => Right(phase, modal.hash)'
<1>1. /\ Settled(modal.hash, "SUCCESS") => Settled(modal.hash, "SUCCESS")'
      /\ Settled(modal.hash, "FAILED") => Settled(modal.hash, "FAILED")'
  BY DEF Settled, NetworkMoves, FlowTypes, Modals
<1>2. ASSUME NEW phase, Right(phase, modal.hash) PROVE Right(phase, modal.hash)'
  BY <1>1, <1>2, Zenon DEF Right
<1> QED
  BY <1>1, <1>2

\* The effect on the outcome leaves the hash, and takes a modal that is pending to
\* success or to a reverted transaction when the monitor has seen one, or to another
\* error; it leaves it pending only while the monitor has seen none of them.
LEMMA OutcomeOf ==
  ASSUME NEW m \in Modals, NEW mon \in Monitors
  PROVE  LET n == Outcome(m, mon) IN
         /\ n \in Modals /\ n.hash = m.hash
         /\ n.phase = "success" =>
              m.phase = "success" \/ (m.phase = "pending" /\ m.hash # None /\ mon.phase = "confirmed")
         /\ n.phase = "pending" =>
              m.phase = "pending" /\ (m.hash = None \/ (mon.phase = "open" /\ ~mon.error))
         /\ Reverted(n) =>
              Reverted(m) \/ (m.phase = "pending" /\ m.hash # None /\ mon.phase = "failed")
BY DEF Outcome, Modals, Monitors, Reverted

\* The monitor's effect: no poll made before is fresh, and the interval runs if
\* there is a hash.
Restarted(hash) ==
  /\ timer' = (hash # None)
  /\ monitor' \in Monitors
  /\ hash # None => monitor' = InitialState
  /\ polls' \in [Polls -> PollCalls]
  /\ \A p \in Polls : Fresh(p)' => /\ hash # None
                                   /\ polls'[p].step = "asking" /\ polls'[p].hash = hash
  /\ \A p, q \in Polls : Fresh(p)' /\ Fresh(q)' => p = q
  /\ \A p \in Polls : polls'[p].step = "asking" => polls'[p].hash # None

LEMMA MonitorRestarts ==
  ASSUME FlowTypes, PollsAsked, NEW hash \in Envelopes \cup {None}, Monitor(hash)
  PROVE  Restarted(hash)
<1> DEFINE Old(p) == [polls[p] EXCEPT !.stale = @ \/ polls[p].step # "idle"]
           old == [p \in Polls |-> Old(p)]
           new == [NoPoll EXCEPT !.step = "asking", !.hash = hash]
<1>1. ASSUME NEW p \in Polls
      PROVE  /\ Old(p) \in PollCalls /\ Old(p).step = polls[p].step /\ Old(p).hash = polls[p].hash
             /\ Old(p).step # "idle" => Old(p).stale
  BY DEF FlowTypes, PollCalls
<1>2. old \in [Polls -> PollCalls] /\ \A p \in Polls : old[p] = Old(p)
  BY <1>1, Zenon
<1>3. ASSUME NEW p \in Polls, Old(p).step = "asking" PROVE Old(p).hash # None
  BY <1>1, <1>3 DEF PollsAsked
<1>4. CASE hash = None
  <2>1. timer' = FALSE /\ polls' = old /\ UNCHANGED monitor
    BY <1>4 DEF Monitor
  <2>2. monitor' \in Monitors
    BY <2>1 DEF FlowTypes
  <2> HIDE DEF Old, old
  <2>3. ASSUME NEW p \in Polls PROVE ~Fresh(p)' /\ (polls'[p].step = "asking" => polls'[p].hash # None)
    <3>1. polls'[p] = Old(p)
      BY <2>1, <1>2, Zenon
    <3> QED
      BY <3>1, <1>1, <1>3, Zenon DEF Fresh
  <2> QED
    BY <1>2, <1>4, <2>1, <2>2, <2>3, Zenon DEF Restarted
<1>5. CASE hash # None
  <2>1. timer' = TRUE /\ monitor' = InitialState
    BY <1>5 DEF Monitor
  <2>2. PICK n \in Polls : polls' = [old EXCEPT ![n] = new]
    BY <1>5 DEF Monitor
  <2>3. /\ new \in PollCalls /\ new.step = "asking" /\ new.hash = hash
    BY DEF PollCalls, NoPoll
  <2>4. monitor' \in Monitors
    BY <2>1 DEF InitialState, Monitors
  <2> HIDE DEF Old, old, new
  <2>5. polls' \in [Polls -> PollCalls] /\ \A p \in Polls : polls'[p] = IF p = n THEN new ELSE Old(p)
    BY <1>2, <2>2, <2>3
  <2>6. ASSUME NEW p \in Polls
        PROVE  /\ Fresh(p)' => p = n /\ polls'[p].step = "asking" /\ polls'[p].hash = hash
               /\ polls'[p].step = "asking" => polls'[p].hash # None
    BY <2>5, <2>3, <1>1, <1>3, <1>5 DEF Fresh
  <2> QED
    BY <1>5, <2>1, <2>4, <2>5, <2>6, Zenon DEF Restarted
<1> QED
  BY <1>4, <1>5

\* After it the modal's hash is that of the interval and the one fresh poll.
LEMMA RestartIsTrue ==
  ASSUME modal'.hash \in Envelopes \cup {None}, Restarted(modal'.hash)
  PROVE  PollsAsked' /\ MonitorTrue' /\ PollsAlone'
<1>1. PollsAsked'
  BY DEF Restarted, PollsAsked
<1>2. MonitorTrue'
  <2>1. modal'.hash # None => monitor'.phase = "open"
    BY DEF Restarted, InitialState
  <2> QED
    BY <2>1 DEF MonitorTrue, Right
<1>3. PollsAlone'
  BY DEF Restarted, PollsAlone
<1> QED
  BY <1>1, <1>2, <1>3

\* A step that leaves hash, monitor and polls alone.
LEMMA PollsStay ==
  ASSUME FlowTypes, PollsAsked, MonitorTrue, PollsAlone, NetworkMoves,
         UNCHANGED <<monitor, timer, polls>>, modal'.hash = modal.hash,
         flowCause \subseteq flowCause'
  PROVE  PollsAsked' /\ MonitorTrue' /\ PollsAlone'
<1>1. \A phase : Right(phase, modal.hash) => Right(phase, modal.hash)'
  BY SettledStays
<1>2. \A p \in Polls : Fresh(p)' = Fresh(p)
  BY DEF Fresh
<1>3. PollsAsked'
  BY <1>1, <1>2, Zenon DEF PollsAsked
<1>4. MonitorTrue'
  BY <1>1, Zenon DEF MonitorTrue
<1>5. PollsAlone'
  BY <1>2, Zenon DEF PollsAlone
<1> QED
  BY <1>3, <1>4, <1>5

-----------------------------------------------------------------------------
(* The handlers.                                                           *)

\* Without a hash of its own a render leaves monitor and polls alone; with one it
\* restarts them, and an outcome it shows then was taken from a stale monitor.
LEMMA RenderIsTrue ==
  ASSUME FlowInv, NetworkMoves, NEW m \in Modals, m.phase # "success", ~Reverted(m), Render(m)
  PROVE  /\ modal' \in Modals /\ modal'.hash = m.hash
         /\ modal'.phase = "pending" => m.phase = "pending"
         /\ monitor' \in Monitors /\ timer' \in BOOLEAN /\ polls' \in [Polls -> PollCalls]
         /\ flowCause \subseteq flowCause'
         /\ m.hash # modal.hash => timer' = (m.hash # None)
         /\ m.hash = modal.hash => timer' = timer
         /\ PollsAsked' /\ MonitorTrue' /\ PollsAlone' /\ OutcomeTrue'
<1> DEFINE n == Outcome(m, monitor)
<1>0. FlowTypes /\ PollsAsked /\ MonitorTrue /\ PollsAlone
  BY DEF FlowInv
<1>1. /\ n \in Modals /\ n.hash = m.hash
      /\ n.phase = "success" => m.phase = "pending" /\ m.hash # None /\ monitor.phase = "confirmed"
      /\ Reverted(n) => m.phase = "pending" /\ m.hash # None /\ monitor.phase = "failed"
      /\ n.phase = "pending" => m.phase = "pending"
  <2>1. monitor \in Monitors
    BY <1>0 DEF FlowTypes
  <2> QED
    BY <2>1, OutcomeOf
<1>2. modal' = n
  BY DEF Render
<1>3. /\ flowCause \subseteq flowCause'
      /\ m.hash # modal.hash /\ n # m => "stale monitor" \in flowCause'
  BY DEF Render
<1>4. m.hash \in Envelopes \cup {None}
  BY DEF Modals
<1>5. CASE m.hash # modal.hash
  <2>1. Restarted(m.hash)
    <3>1. Monitor(m.hash)
      BY <1>5 DEF Render
    <3> QED
      BY <3>1, <1>0, <1>4, MonitorRestarts
  <2>2. PollsAsked' /\ MonitorTrue' /\ PollsAlone'
    BY <2>1, <1>1, <1>2, <1>4, RestartIsTrue
  <2>3. OutcomeTrue'
    <3> SUFFICES ASSUME "stale monitor" \notin flowCause' PROVE RightlyShown(modal)'
      BY DEF OutcomeTrue
    <3>1. n = m
      BY <1>3, <1>5
    <3> QED
      BY <3>1, <1>2 DEF RightlyShown, Reverted
  <2>4. monitor' \in Monitors /\ timer' = (m.hash # None) /\ polls' \in [Polls -> PollCalls]
    BY <2>1, Zenon DEF Restarted
  <2> HIDE DEF n
  <2> QED
    BY <1>1, <1>2, <1>3, <1>5, <2>2, <2>3, <2>4
<1>6. CASE m.hash = modal.hash
  <2>1. UNCHANGED <<monitor, timer, polls>>
    BY <1>6 DEF Render
  <2>2. PollsAsked' /\ MonitorTrue' /\ PollsAlone'
    BY <2>1, <1>0, <1>1, <1>2, <1>3, <1>6, PollsStay
  <2>3. OutcomeTrue'
    <3> SUFFICES ASSUME "late answer" \notin flowCause' PROVE RightlyShown(modal)'
      BY DEF OutcomeTrue
    <3>1. modal.hash # None => Right(monitor.phase, modal.hash)
      BY <1>0, <1>3 DEF MonitorTrue
    <3>2. /\ Settled(modal.hash, "SUCCESS") => Settled(modal.hash, "SUCCESS")'
          /\ Settled(modal.hash, "FAILED") => Settled(modal.hash, "FAILED")'
      BY <1>0, <1>1, <1>2, <1>6, SettledStays
    <3>3. /\ n.phase = "success" => Settled(modal.hash, "SUCCESS")
          /\ Reverted(n) => Settled(modal.hash, "FAILED")
      BY <3>1, <1>1, <1>6 DEF Right
    <3>4. Reverted(modal)' = Reverted(n) /\ modal'.phase = n.phase
      BY <1>2 DEF Reverted
    <3> HIDE DEF n
    <3> QED
      BY <3>2, <3>3, <3>4 DEF RightlyShown
  <2>4. monitor' \in Monitors /\ timer' \in BOOLEAN /\ timer' = timer /\ polls' \in [Polls -> PollCalls]
    BY <2>1, <1>0 DEF FlowTypes
  <2> HIDE DEF n
  <2> QED
    BY <1>1, <1>2, <1>3, <1>6, <2>2, <2>3, <2>4
<1> QED
  BY <1>5, <1>6

\* One submit ends, with a render.
LEMMA SubmitEnds ==
  ASSUME FlowInv, NEW s \in Submits, Busy(s), submits' = [submits EXCEPT ![s] = NoSubmit],
         NEW m \in Modals, Render(m),
         \/ m.phase = "error" /\ m.hash = modal.hash /\ ~m.reverted
         \/ m.phase = "pending" /\ m.hash # None,
         UNCHANGED <<network, form>>
  PROVE  FlowInv'
<1>0. FlowTypes /\ SubmitsAlone
  BY DEF FlowInv
<1>1. NetworkMoves
  BY <1>0 DEF NetworkMoves, FlowTypes
<1>2. /\ submits' \in [Submits -> SubmitCalls]
      /\ \A t \in Submits : Busy(t)' => t # s /\ Busy(t)
      /\ \A t \in Submits : Busy(t)' => submits'[t].xdr # None
  <2>1. NoSubmit \in SubmitCalls /\ NoSubmit.step = "idle"
    BY DEF NoSubmit, SubmitCalls
  <2> HIDE DEF NoSubmit
  <2>2. /\ submits' \in [Submits -> SubmitCalls] /\ submits'[s] = NoSubmit
        /\ \A t \in Submits \ {s} : submits'[t] = submits[t]
    BY <2>1, <1>0 DEF FlowTypes
  <2> QED
    BY <2>1, <2>2, <1>0 DEF Busy, FlowTypes
<1>3. /\ modal' \in Modals /\ modal'.hash = m.hash
      /\ modal'.phase = "pending" => m.phase = "pending"
      /\ monitor' \in Monitors /\ timer' \in BOOLEAN /\ polls' \in [Polls -> PollCalls]
      /\ flowCause \subseteq flowCause'
      /\ m.hash # modal.hash => timer' = (m.hash # None)
      /\ PollsAsked' /\ MonitorTrue' /\ PollsAlone' /\ OutcomeTrue'
  BY <1>1, RenderIsTrue DEF Reverted
<1>4. FlowTypes'
  BY <1>0, <1>2, <1>3 DEF FlowTypes, Busy
<1>5. SubmitsAlone'
  <2> SUFFICES ASSUME "two submits" \notin flowCause'
               PROVE  /\ \A t \in Submits : ~Busy(t)'
                      /\ modal'.phase = "pending" => timer'
    BY DEF SubmitsAlone
  <2>1. /\ \A t, u \in Submits : Busy(t) /\ Busy(u) => t = u
        /\ modal.hash = None
    BY <1>0, <1>3 DEF SubmitsAlone
  <2>2. \A t \in Submits : ~Busy(t)'
    BY <2>1, <1>2
  <2>3. ASSUME modal'.phase = "pending" PROVE timer'
    BY <2>1, <2>3, <1>3
  <2> QED
    BY <2>2, <2>3
<1> QED
  BY <1>3, <1>4, <1>5 DEF FlowInv

LEMMA SubmitStarts ==
  ASSUME FlowInv, NEW s \in Submits, Submit(s)
  PROVE  FlowInv'
<1>0. FlowTypes /\ SubmitsAlone /\ PollsAsked /\ MonitorTrue /\ PollsAlone
  BY DEF FlowInv
<1>1. NetworkMoves /\ flowCause \subseteq flowCause'
  BY <1>0 DEF NetworkMoves, FlowTypes, Submit
<1> DEFINE b == [step |-> "signing", xdr |-> form.xdr, dialog |-> modal.phase = "idle"]
<1>2. b \in SubmitCalls /\ b.xdr # None /\ submits' = [submits EXCEPT ![s] = b]
  BY <1>0 DEF Submit, FlowTypes, SubmitCalls
<1>3. /\ submits' \in [Submits -> SubmitCalls]
      /\ \A t \in Submits \ {s} : submits'[t] = submits[t]
      /\ submits'[s] = b
  <2> HIDE DEF b
  <2> QED
    BY <1>2, <1>0 DEF FlowTypes
<1>4. modal' \in Modals /\ modal'.hash = None /\ modal'.phase = "signing"
  BY DEF Submit, Modals
<1>5. /\ monitor' \in Monitors /\ timer' \in BOOLEAN /\ polls' \in [Polls -> PollCalls]
      /\ PollsAsked' /\ MonitorTrue' /\ PollsAlone'
  <2>1. CASE modal.hash = None
    <3>1. UNCHANGED <<monitor, timer, polls>>
      BY <2>1 DEF Submit
    <3>2. PollsAsked' /\ MonitorTrue' /\ PollsAlone'
      BY <3>1, <2>1, <1>0, <1>1, <1>4, PollsStay
    <3> QED
      BY <3>1, <3>2, <1>0 DEF FlowTypes
  <2>2. CASE modal.hash # None
    <3>1. Restarted(None)
      <4>1. Monitor(None)
        BY <2>2 DEF Submit
      <4> QED
        BY <4>1, <1>0, MonitorRestarts
    <3>2. PollsAsked' /\ MonitorTrue' /\ PollsAlone'
      BY <3>1, <1>4, RestartIsTrue
    <3> QED
      BY <3>1, <3>2 DEF Restarted
  <2> QED
    BY <2>1, <2>2
<1>6. FlowTypes'
  BY <1>0, <1>2, <1>3, <1>4, <1>5 DEF FlowTypes, Submit
<1>7. OutcomeTrue'
  BY <1>4 DEF OutcomeTrue, RightlyShown, Reverted
<1>8. SubmitsAlone'
  <2> SUFFICES ASSUME "two submits" \notin flowCause'
               PROVE  \A t \in Submits : Busy(t)' => t = s
    BY <1>4 DEF SubmitsAlone
  <2>1. \A t \in Submits : ~Busy(t)
    BY DEF Submit, Busy
  <2> QED
    BY <2>1, <1>3 DEF Busy
<1> QED
  BY <1>5, <1>6, <1>7, <1>8 DEF FlowInv

\* Closing a modal that has come to an end.
LEMMA CloseIsTrue == FlowInv /\ Close => FlowInv'
<1> SUFFICES ASSUME FlowInv, Close PROVE FlowInv'
  OBVIOUS
<1> DEFINE m == [modal EXCEPT !.phase = "idle", !.hash = None, !.retry = FALSE, !.reverted = FALSE]
<1>0. FlowTypes /\ SubmitsAlone
  BY DEF FlowInv
<1>1. NetworkMoves /\ network' = network /\ submits' = submits
  BY <1>0 DEF NetworkMoves, FlowTypes, Close
<1>2. m \in Modals /\ m.phase = "idle" /\ m.hash = None /\ Render(m)
  BY <1>0 DEF Close, FlowTypes, Modals
<1>3. form' \in [xdr : Envelopes \cup {None}, connected : BOOLEAN]
  BY <1>0 DEF Close, FlowTypes
<1> HIDE DEF m
<1>4. /\ modal' \in Modals /\ modal'.hash = None
      /\ modal'.phase # "pending"
      /\ monitor' \in Monitors /\ timer' \in BOOLEAN /\ polls' \in [Polls -> PollCalls]
      /\ flowCause \subseteq flowCause'
      /\ PollsAsked' /\ MonitorTrue' /\ PollsAlone' /\ OutcomeTrue'
  BY <1>1, <1>2, RenderIsTrue DEF Reverted
<1>5. FlowTypes'
  BY <1>0, <1>1, <1>3, <1>4 DEF FlowTypes
<1>6. SubmitsAlone'
  BY <1>0, <1>1, <1>4 DEF SubmitsAlone, Busy
<1> QED
  BY <1>4, <1>5, <1>6 DEF FlowInv

\* A step beside the modal and the monitor: the form, the wallet, the network and a
\* submit under way.
LEMMA BesideTheModal ==
  ASSUME FlowInv, NetworkMoves, UNCHANGED <<monitor, timer, polls, flowCause>>,
         form' \in [xdr : Envelopes \cup {None}, connected : BOOLEAN],
         submits' \in [Submits -> SubmitCalls],
         \A s \in Submits : Busy(s)' => Busy(s) /\ submits'[s].xdr # None,
         modal' \in Modals, modal'.hash = modal.hash,
         \/ modal'.phase = modal.phase /\ modal'.reverted = modal.reverted
         \/ modal'.phase = "error" /\ ~modal'.reverted
  PROVE  FlowInv'
<1>0. FlowTypes /\ PollsAsked /\ MonitorTrue /\ OutcomeTrue /\ SubmitsAlone /\ PollsAlone
  BY DEF FlowInv
<1>1. PollsAsked' /\ MonitorTrue' /\ PollsAlone'
  BY <1>0, PollsStay
<1>2. FlowTypes'
  BY <1>0 DEF FlowTypes, NetworkMoves, Busy
<1>3. OutcomeTrue'
  <2>2. /\ Settled(modal.hash, "SUCCESS") => Settled(modal.hash, "SUCCESS")'
        /\ Settled(modal.hash, "FAILED") => Settled(modal.hash, "FAILED")'
    BY <1>0, SettledStays
  <2>3. /\ modal'.phase = "success" => modal.phase = "success"
        /\ Reverted(modal)' => Reverted(modal)
    BY DEF Reverted
  <2>4. RightlyShown(modal) => RightlyShown(modal)'
    BY <2>2, <2>3 DEF RightlyShown
  <2> QED
    BY <2>4, <1>0 DEF OutcomeTrue
<1>4. SubmitsAlone'
  BY <1>0 DEF SubmitsAlone
<1> QED
  BY <1>1, <1>2, <1>3, <1>4 DEF FlowInv

LEMMA FormSteps ==
  ASSUME EnvelopesAreNamed, FlowInv,
         \/ Rebuild \/ WalletLost \/ WalletBack
         \/ \E e \in Envelopes : \/ Previewed(e)
                                 \/ \E result \in {"SUCCESS", "FAILED"} : Applied(e, result)
         \/ \E s \in Submits : Broadcast(s)
  PROVE  FlowInv'
<1>0. FlowTypes
  BY DEF FlowInv
<1>1. \A s \in Submits : Busy(s) => submits[s].xdr # None
  BY <1>0 DEF FlowTypes, Busy
<1>2. CASE Rebuild \/ WalletLost \/ WalletBack
  <2>1. UNCHANGED <<network, submits, monitor, timer, polls, flowCause>>
    BY <1>2 DEF Rebuild, WalletLost, WalletBack
  <2>2. NetworkMoves
    BY <2>1, <1>0 DEF NetworkMoves, FlowTypes
  <2>3. /\ form' \in [xdr : Envelopes \cup {None}, connected : BOOLEAN]
        /\ modal' \in Modals /\ modal'.hash = modal.hash
        /\ \/ modal'.phase = modal.phase /\ modal'.reverted = modal.reverted
           \/ modal'.phase = "error" /\ ~modal'.reverted
    <3>1. form \in [xdr : Envelopes \cup {None}, connected : BOOLEAN] /\ modal \in Modals
      BY <1>0 DEF FlowTypes
    <3>2. CASE Rebuild
      BY <3>1, <3>2 DEF Rebuild
    <3>3. CASE WalletLost
      BY <3>1, <3>3 DEF WalletLost, Modals
    <3>4. CASE WalletBack
      BY <3>1, <3>4 DEF WalletBack
    <3> QED
      BY <1>2, <3>2, <3>3, <3>4
  <2>4. submits' \in [Submits -> SubmitCalls] /\ \A s \in Submits : Busy(s)' = Busy(s)
    BY <2>1, <1>0 DEF FlowTypes, Busy
  <2> QED
    BY <2>1, <2>2, <2>3, <2>4, <1>1, BesideTheModal
<1>3. ASSUME NEW e \in Envelopes, NEW status \in {"built", "sent", "SUCCESS", "FAILED"},
             network[e] \notin {"SUCCESS", "FAILED"}, network' = [network EXCEPT ![e] = status],
             UNCHANGED <<modal, monitor, timer, polls, flowCause>>,
             form' \in [xdr : Envelopes \cup {None}, connected : BOOLEAN],
             submits' \in [Submits -> SubmitCalls],
             \A s \in Submits : Busy(s)' => Busy(s) /\ submits'[s].xdr # None
      PROVE  FlowInv'
  <2>1. NetworkMoves
    BY <1>0, <1>3 DEF NetworkMoves, FlowTypes
  <2>2. modal' \in Modals
    BY <1>0, <1>3 DEF FlowTypes
  <2> QED
    BY <2>1, <2>2, <1>3, BesideTheModal
<1>4. ASSUME NEW e \in Envelopes, Previewed(e) PROVE FlowInv'
  <2>1. /\ network[e] \notin {"SUCCESS", "FAILED"} /\ network' = [network EXCEPT ![e] = "built"]
        /\ UNCHANGED <<modal, submits, monitor, timer, polls, flowCause>>
    BY <1>4 DEF Previewed
  <2>2. /\ form' \in [xdr : Envelopes \cup {None}, connected : BOOLEAN]
        /\ submits' \in [Submits -> SubmitCalls]
    BY <1>0, <1>4 DEF Previewed, FlowTypes
  <2> QED
    BY <2>1, <2>2, <1>1, <1>3 DEF Busy
<1>5. ASSUME NEW e \in Envelopes, NEW result \in {"SUCCESS", "FAILED"}, Applied(e, result)
      PROVE  FlowInv'
  <2>1. /\ network[e] \notin {"SUCCESS", "FAILED"} /\ network' = [network EXCEPT ![e] = result]
        /\ UNCHANGED <<form, modal, submits, monitor, timer, polls, flowCause>>
    BY <1>5 DEF Applied
  <2>2. /\ form' \in [xdr : Envelopes \cup {None}, connected : BOOLEAN]
        /\ submits' \in [Submits -> SubmitCalls]
    BY <2>1, <1>0 DEF FlowTypes
  <2> QED
    BY <2>1, <2>2, <1>1, <1>3 DEF Busy
<1>6. ASSUME NEW s \in Submits, Broadcast(s) PROVE FlowInv'
  <2> DEFINE e == submits[s].xdr
             b == [submits[s] EXCEPT !.step = "sent"]
  <2>1. e \in Envelopes
    BY <1>0, <1>1, <1>6 DEF Broadcast, FlowTypes, SubmitCalls, Busy
  <2>2. /\ UNCHANGED <<form, modal, monitor, timer, polls, flowCause>>
        /\ network' = [network EXCEPT ![e] = IF @ = "built" THEN "sent" ELSE @]
        /\ submits' = [submits EXCEPT ![s] = b]
    BY <1>6 DEF Broadcast
  <2>3. b \in SubmitCalls /\ b.step = "sent" /\ b.xdr = e
    BY <1>0 DEF FlowTypes, SubmitCalls
  <2>4. Busy(s)
    BY <1>6 DEF Broadcast, Busy
  <2> HIDE DEF b, e
  <2>5. /\ submits' \in [Submits -> SubmitCalls] /\ submits'[s] = b
        /\ \A t \in Submits \ {s} : submits'[t] = submits[t]
    BY <2>2, <2>3, <1>0 DEF FlowTypes
  <2>6. \A t \in Submits : Busy(t)' => Busy(t) /\ submits'[t].xdr # None
    BY <2>1, <2>3, <2>4, <2>5, <1>1 DEF Busy, EnvelopesAreNamed
  <2>7. NetworkMoves
    BY <2>1, <2>2, <1>0 DEF NetworkMoves, FlowTypes
  <2>8. /\ form' \in [xdr : Envelopes \cup {None}, connected : BOOLEAN]
        /\ modal' \in Modals /\ modal' = modal
    BY <2>2, <1>0 DEF FlowTypes
  <2> QED
    BY <2>2, <2>5, <2>6, <2>7, <2>8, BesideTheModal
<1> QED
  BY <1>2, <1>4, <1>5, <1>6

\* The ends of a submit.
LEMMA SubmitSteps ==
  ASSUME EnvelopesAreNamed, FlowInv, NEW s \in Submits,
         \/ SendRefused(s) \/ AnswerLost(s) \/ Submitted(s)
         \/ \E retry \in BOOLEAN : SignatureRefused(s, retry)
  PROVE  FlowInv'
<1>0. modal \in Modals /\ (Busy(s) => submits[s].xdr # None) /\ submits[s] \in SubmitCalls
  BY DEF FlowInv, FlowTypes, Busy
<1>1. ASSUME NEW retry \in BOOLEAN, SubmitFailed(s, retry), UNCHANGED network, Busy(s)
      PROVE  FlowInv'
  <2> DEFINE m == [modal EXCEPT !.phase = "error", !.submitting = FALSE, !.retry = retry,
                              !.reverted = FALSE]
  <2>1. m \in Modals /\ m.phase = "error" /\ m.hash = modal.hash /\ ~m.reverted
    BY <1>0 DEF Modals
  <2>2. submits' = [submits EXCEPT ![s] = NoSubmit] /\ Render(m) /\ UNCHANGED form
    BY <1>1 DEF SubmitFailed
  <2> HIDE DEF m
  <2> QED
    BY <2>1, <2>2, <1>1, SubmitEnds
<1>2. CASE Submitted(s)
  <2> DEFINE m == [modal EXCEPT !.phase = "pending", !.hash = submits[s].xdr, !.submitting = FALSE]
  <2>1. Busy(s)
    BY <1>2 DEF Submitted, Busy
  <2>2. m \in Modals /\ m.phase = "pending" /\ m.hash # None
    BY <1>0, <2>1 DEF Modals, SubmitCalls
  <2>3. submits' = [submits EXCEPT ![s] = NoSubmit] /\ Render(m) /\ UNCHANGED <<network, form>>
    BY <1>2 DEF Submitted
  <2> HIDE DEF m
  <2> QED
    BY <2>1, <2>2, <2>3, SubmitEnds
<1>3. CASE SendRefused(s)
  <2>1. SubmitFailed(s, TRUE) /\ UNCHANGED network /\ Busy(s)
    BY <1>3 DEF SendRefused, Busy
  <2> QED
    BY <2>1, <1>1
<1>4. CASE AnswerLost(s)
  <2>1. SubmitFailed(s, TRUE) /\ UNCHANGED network /\ Busy(s)
    BY <1>4 DEF AnswerLost, Busy
  <2> QED
    BY <2>1, <1>1
<1>5. ASSUME NEW retry \in BOOLEAN, SignatureRefused(s, retry) PROVE FlowInv'
  <2>1. SubmitFailed(s, retry) /\ UNCHANGED network /\ Busy(s)
    BY <1>5 DEF SignatureRefused, Busy
  <2> QED
    BY <2>1, <1>1
<1> QED
  BY <1>2, <1>3, <1>4, <1>5

-----------------------------------------------------------------------------
(* The polls.                                                              *)

\* One poll changes, and nothing that was shown.
LEMMA PollMoves ==
  ASSUME FlowTypes, NEW p \in Polls, NEW b \in PollCalls, polls' = [polls EXCEPT ![p] = b]
  PROVE  /\ polls' \in [Polls -> PollCalls] /\ polls'[p] = b
         /\ \A q \in Polls \ {p} : polls'[q] = polls[q]
BY DEF FlowTypes

\* Nothing shown changes.
LEMMA ShownStays ==
  ASSUME FlowInv, UNCHANGED <<network, form, modal, submits>>, flowCause \subseteq flowCause',
         timer' = timer
  PROVE  OutcomeTrue' /\ SubmitsAlone'
<1>1. OutcomeTrue'
  BY DEF FlowInv, OutcomeTrue, RightlyShown, Reverted, Settled
<1>2. SubmitsAlone'
  BY DEF FlowInv, SubmitsAlone, Busy
<1> QED
  BY <1>1, <1>2

LEMMA IntervalIsTrue ==
  ASSUME FlowInv, NEW p \in Polls, IntervalFires(p)
  PROVE  FlowInv'
<1> DEFINE b == [NoPoll EXCEPT !.step = "asking", !.hash = modal.hash]
<1>0. FlowTypes /\ PollsAsked /\ MonitorTrue /\ PollsAlone
  BY DEF FlowInv
<1>1. /\ UNCHANGED <<network, form, modal, submits, monitor, timer>>
      /\ timer /\ polls' = [polls EXCEPT ![p] = b]
      /\ flowCause \subseteq flowCause'
      /\ "overlap" \notin flowCause' => \A q \in Polls : polls[q].step = "idle"
  BY DEF IntervalFires
<1>2. modal.hash # None
  BY <1>0, <1>1 DEF PollsAsked
<1>3. b \in PollCalls /\ b.step = "asking" /\ b.hash = modal.hash
  BY <1>0 DEF FlowTypes, Modals, PollCalls, NoPoll
<1> HIDE DEF b
<1>4. /\ polls' \in [Polls -> PollCalls] /\ polls'[p] = b
      /\ \A q \in Polls \ {p} : polls'[q] = polls[q]
  BY <1>0, <1>1, <1>3, PollMoves
<1>5. FlowTypes'
  BY <1>0, <1>1, <1>4 DEF FlowTypes
<1>6. PollsAsked'
  <2>1. \A phase : Right(phase, modal.hash)' = Right(phase, modal.hash)
    BY <1>1 DEF Right, Settled
  <2> QED
    BY <2>1, <1>0, <1>1, <1>2, <1>3, <1>4 DEF PollsAsked, Fresh
<1>7. MonitorTrue'
  BY <1>0, <1>1 DEF MonitorTrue, Right, Settled
<1>8. PollsAlone'
  <2> SUFFICES ASSUME flowCause' \cap {"late answer", "overlap"} = {}
               PROVE  \A q \in Polls : Fresh(q)' => q = p
    BY <1>1 DEF PollsAlone
  <2> QED
    BY <1>1, <1>4 DEF Fresh
<1> QED
  BY <1>1, <1>5, <1>6, <1>7, <1>8, ShownStays DEF FlowInv

LEMMA ServeIsTrue ==
  ASSUME FlowInv, NEW p \in Polls, Serve(p)
  PROVE  FlowInv'
<1> DEFINE b == [polls[p] EXCEPT !.step = "answered", !.hash = None,
                                 !.answer = MapToUiPhase(network[polls[p].hash])]
<1>0. FlowTypes /\ PollsAsked /\ MonitorTrue /\ PollsAlone
  BY DEF FlowInv
<1>1. /\ UNCHANGED <<network, form, modal, submits, monitor, timer, flowCause>>
      /\ polls[p].step = "asking"
      /\ polls' = [polls EXCEPT ![p] = b]
  BY DEF Serve
<1>2. /\ MapToUiPhase(network[polls[p].hash]) \in {"open", "confirmed", "failed"}
      /\ Right(MapToUiPhase(network[polls[p].hash]), polls[p].hash)
  BY <1>0, <1>1 DEF MapToUiPhase, Right, Settled, PollsAsked
<1>3. /\ b \in PollCalls /\ b.step = "answered" /\ b.stale = polls[p].stale
      /\ Right(b.answer, polls[p].hash)
  BY <1>0, <1>2 DEF FlowTypes, PollCalls
<1> HIDE DEF b
<1>4. /\ polls' \in [Polls -> PollCalls] /\ polls'[p] = b
      /\ \A q \in Polls \ {p} : polls'[q] = polls[q]
  BY <1>0, <1>1, <1>3, PollMoves
<1>5. \A q \in Polls : Fresh(q)' = Fresh(q)
  BY <1>1, <1>3, <1>4 DEF Fresh
<1>6. FlowTypes'
  BY <1>0, <1>1, <1>4 DEF FlowTypes
<1>7. PollsAsked'
  <2>1. \A phase : Right(phase, modal.hash)' = Right(phase, modal.hash)
    BY <1>1 DEF Right, Settled
  <2> QED
    BY <2>1, <1>0, <1>1, <1>3, <1>4, <1>5 DEF PollsAsked
<1>8. MonitorTrue'
  BY <1>0, <1>1 DEF MonitorTrue, Right, Settled
<1>9. PollsAlone'
  BY <1>0, <1>1, <1>5, Zenon DEF PollsAlone
<1> QED
  BY <1>1, <1>6, <1>7, <1>8, <1>9, ShownStays DEF FlowInv

LEMMA ToggleIsTrue == FlowInv /\ ToggleDataSaver => FlowInv'
<1> SUFFICES ASSUME FlowInv, ToggleDataSaver PROVE FlowInv'
  OBVIOUS
<1>0. FlowTypes /\ PollsAsked
  BY DEF FlowInv
<1>1. UNCHANGED <<network, form, modal, submits, flowCause>> /\ modal.hash # None
  BY DEF ToggleDataSaver
<1>2. modal.hash \in Envelopes \cup {None} /\ modal'.hash = modal.hash
  BY <1>0, <1>1 DEF FlowTypes, Modals
<1>3. Restarted(modal.hash)
  BY <1>0, <1>2, MonitorRestarts DEF ToggleDataSaver
<1>4. PollsAsked' /\ MonitorTrue' /\ PollsAlone'
  BY <1>2, <1>3, RestartIsTrue
<1>5. FlowTypes'
  BY <1>0, <1>1, <1>3 DEF FlowTypes, Restarted
<1>6. OutcomeTrue'
  BY <1>1 DEF FlowInv, OutcomeTrue, RightlyShown, Reverted, Settled
<1>7. SubmitsAlone'
  BY <1>1, <1>3 DEF FlowInv, SubmitsAlone, Busy, Restarted
<1> QED
  BY <1>4, <1>5, <1>6, <1>7 DEF FlowInv

\* What a poll brings is true of the modal's transaction if the poll is fresh, and
\* what ends the interval ends the waiting.
LEMMA ReportIsTrue ==
  ASSUME FlowInv, NEW p \in Polls, polls[p].step # "idle", NEW state \in Monitors,
         Report(p, state),
         state.phase = monitor.phase \/ (~polls[p].stale => Right(state.phase, modal.hash)),
         ~state.polling => state.phase # "open" \/ state.error
  PROVE  FlowInv'
<1>0. FlowTypes /\ PollsAsked /\ MonitorTrue /\ OutcomeTrue /\ SubmitsAlone /\ PollsAlone
  BY DEF FlowInv
<1>1. /\ monitor' = state /\ modal' = Outcome(modal, state)
      /\ timer' = (timer /\ state.polling)
      /\ polls' = [polls EXCEPT ![p] = NoPoll]
      /\ flowCause \subseteq flowCause'
      /\ polls[p].stale => "late answer" \in flowCause'
      /\ UNCHANGED <<network, form, submits>>
  BY DEF Report
<1>2. /\ modal' \in Modals /\ modal'.hash = modal.hash
      /\ modal'.phase = "success" =>
           modal.phase = "success"
           \/ (modal.phase = "pending" /\ modal.hash # None /\ state.phase = "confirmed")
      /\ modal'.phase = "pending" =>
           modal.phase = "pending" /\ (modal.hash = None \/ (state.phase = "open" /\ ~state.error))
      /\ Reverted(modal)' =>
           Reverted(modal)
           \/ (modal.phase = "pending" /\ modal.hash # None /\ state.phase = "failed")
  <2> DEFINE n == Outcome(modal, state)
  <2>1. modal \in Modals /\ modal' = n
    BY <1>0, <1>1 DEF FlowTypes
  <2>2. Reverted(modal)' = Reverted(n)
    BY <2>1 DEF Reverted
  <2> QED
    BY <2>1, <2>2, OutcomeOf
<1>3. NoPoll \in PollCalls /\ NoPoll.step = "idle"
  BY DEF NoPoll, PollCalls
<1> HIDE DEF NoPoll
<1>4. /\ polls' \in [Polls -> PollCalls] /\ polls'[p] = NoPoll
      /\ \A q \in Polls \ {p} : polls'[q] = polls[q]
  BY <1>0, <1>1, <1>3, PollMoves
<1>5. \A q \in Polls : Fresh(q)' => q # p /\ Fresh(q)
  BY <1>3, <1>4 DEF Fresh
<1>6. timer \in BOOLEAN /\ state.polling \in BOOLEAN
  BY <1>0 DEF FlowTypes, Monitors
<1>7. FlowTypes'
  BY <1>0, <1>1, <1>2, <1>4, <1>6 DEF FlowTypes
<1>8. /\ \A phase : Right(phase, modal.hash) => Right(phase, modal.hash)'
      /\ Settled(modal.hash, "SUCCESS") => Settled(modal.hash, "SUCCESS")'
      /\ Settled(modal.hash, "FAILED") => Settled(modal.hash, "FAILED")'
  <2>1. NetworkMoves
    BY <1>0, <1>1 DEF NetworkMoves, FlowTypes
  <2> QED
    BY <2>1, <1>0, <1>2, SettledStays
<1>9. PollsAsked'
  BY <1>0, <1>1, <1>2, <1>3, <1>4, <1>5, <1>6, <1>8 DEF PollsAsked
<1>10. MonitorTrue'
  BY <1>0, <1>1, <1>2, <1>8 DEF MonitorTrue
<1>11. OutcomeTrue'
  <2> SUFFICES ASSUME flowCause' \cap {"stale monitor", "late answer"} = {}
               PROVE  RightlyShown(modal)'
    BY DEF OutcomeTrue
  <2>1. RightlyShown(modal) /\ (modal.hash # None => Right(state.phase, modal.hash))
    BY <1>0, <1>1 DEF OutcomeTrue, MonitorTrue
  <2> QED
    BY <2>1, <1>2, <1>8 DEF RightlyShown, Right
<1>12. SubmitsAlone'
  BY <1>0, <1>1, <1>2, <1>6 DEF SubmitsAlone, PollsAsked, Busy
<1>13. PollsAlone'
  BY <1>0, <1>1, <1>2, <1>5, <1>6 DEF PollsAlone, Fresh
<1> QED
  BY <1>7, <1>9, <1>10, <1>11, <1>12, <1>13 DEF FlowInv

LEMMA AnswerIsTrue ==
  ASSUME FlowInv, NEW p \in Polls, PollAnswered(p) \/ PollFailed(p)
  PROVE  FlowInv'
<1>0. FlowTypes /\ PollsAsked /\ polls[p] \in PollCalls /\ monitor \in Monitors
  BY DEF FlowInv, FlowTypes
<1>1. CASE PollAnswered(p)
  <2> DEFINE state == [phase |-> polls[p].answer, error |-> FALSE,
                       polling |-> polls[p].answer = "open"]
  <2>1. state \in Monitors /\ state.phase = polls[p].answer
        /\ (~state.polling => state.phase # "open")
    BY <1>0 DEF Monitors, PollCalls
  <2>2. Report(p, state) /\ polls[p].step = "answered"
    BY <1>1 DEF PollAnswered
  <2> HIDE DEF state
  <2>3. ~polls[p].stale => Right(state.phase, modal.hash)
    BY <2>1, <2>2, <1>0 DEF PollsAsked, Fresh
  <2> QED
    BY <2>1, <2>2, <2>3, ReportIsTrue
<1>2. CASE PollFailed(p)
  <2> DEFINE state == [monitor EXCEPT !.error = TRUE, !.polling = FALSE]
  <2>1. state \in Monitors /\ state.phase = monitor.phase /\ state.error
    BY <1>0 DEF Monitors
  <2>2. Report(p, state) /\ polls[p].step = "asking"
    BY <1>2 DEF PollFailed
  <2> HIDE DEF state
  <2> QED
    BY <2>1, <2>2, ReportIsTrue
<1> QED
  BY <1>1, <1>2

-----------------------------------------------------------------------------
(* All steps.                                                              *)

LEMMA FlowStart == Init => FlowInv
<1> SUFFICES ASSUME Init PROVE FlowInv
  OBVIOUS
<1>1. FlowTypes
  BY DEF Init, FlowTypes, Modals, Monitors, PollCalls, SubmitCalls, NoPoll, NoSubmit, InitialState
<1>2. PollsAsked /\ PollsAlone
  BY DEF Init, PollsAsked, PollsAlone, Fresh, NoPoll, NoSubmit
<1>3. MonitorTrue /\ OutcomeTrue /\ SubmitsAlone
  BY DEF Init, MonitorTrue, OutcomeTrue, RightlyShown, Reverted, SubmitsAlone, Busy, NoSubmit
<1> QED
  BY <1>1, <1>2, <1>3 DEF FlowInv

LEMMA FlowStep ==
  ASSUME EnvelopesAreNamed, FlowInv,
         [Next]_<<network, form, modal, submits, monitor, timer, polls, flowCause>>
  PROVE  FlowInv'
<1>1. CASE UNCHANGED <<network, form, modal, submits, monitor, timer, polls, flowCause>>
  BY <1>1 DEF FlowInv, FlowTypes, PollsAsked, MonitorTrue, OutcomeTrue, SubmitsAlone, PollsAlone,
              Fresh, Busy, Settled, Right, RightlyShown, Reverted
<1>2. ASSUME NEW s \in Submits, Submit(s) PROVE FlowInv'
  BY <1>2, SubmitStarts
<1>3. ASSUME NEW p \in Polls,
             IntervalFires(p) \/ Serve(p) \/ PollAnswered(p) \/ PollFailed(p)
      PROVE  FlowInv'
  BY <1>3, IntervalIsTrue, ServeIsTrue, AnswerIsTrue
<1> QED
  BY <1>1, <1>2, <1>3, CloseIsTrue, ToggleIsTrue, FormSteps, SubmitSteps, Zenon DEF Next

\* What the user is shown of a transaction, in any order of builds, submits, polls
\* and answers, follows from the invariant.
LEMMA FlowShown == FlowInv => OutcomeShownIsReal
<1> SUFFICES ASSUME FlowInv PROVE OutcomeShownIsReal
  OBVIOUS
<1>1. flowCause \cap {"stale monitor", "late answer"} = {} =>
        /\ modal.phase = "success" => network[modal.hash] = "SUCCESS"
        /\ modal.phase = "error" /\ modal.reverted => network[modal.hash] = "FAILED"
  BY DEF FlowInv, OutcomeTrue, RightlyShown, Reverted, Settled
<1>2. modal.phase = "pending" /\ "two submits" \notin flowCause => timer /\ modal.hash # None
  BY DEF FlowInv, SubmitsAlone, PollsAsked
<1>3. modal.hash # None /\ monitor.polling
      /\ flowCause \cap {"late answer", "overlap"} = {} => timer
  BY DEF FlowInv, PollsAlone
<1> QED
  BY <1>1, <1>2, <1>3 DEF OutcomeShownIsReal
=============================================================================
