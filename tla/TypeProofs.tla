----------------------------- MODULE TypeProofs -----------------------------
(***************************************************************************)
(* The type invariant of MCComponents.  The invariants of ServiceProofs    *)
(* and ContractProofs imply the types of some parts as they stand; of the  *)
(* others they say what their property needs, and what the types ask       *)
(* beyond that is proved to be kept here: HookRest, FeeRest, VaultRest,    *)
(* StakeRest, CommitteeRest, QuorumRest and BridgeRest.                    *)
(***************************************************************************)
EXTENDS ServiceProofs, ContractProofs

-----------------------------------------------------------------------------
(* Parts whose invariant is enough.                                        *)

LEMMA ServicesTyped ==
  /\ IdemInv => Idem!TypeOK
  /\ StopInv => Stop!TypeOK
  /\ RpcInv => Rpc!TypeOK
  /\ EraseInv => Erase!TypeOK
  /\ IndexInv => Index!TypeOK
<1>1. IdemInv => Idem!TypeOK
  BY Zenon DEF IdemInv
<1>2. StopInv => Stop!TypeOK
  BY Zenon DEF StopInv, StopTypes
<1>3. RpcInv => Rpc!TypeOK
  BY DEF RpcInv, RpcTypes, RpcCall, Rpc!TypeOK
<1>4. EraseInv => Erase!TypeOK
  BY DEF EraseInv, ErasureTypes, Erase!TypeOK
<1>5. IndexInv => Index!TypeOK
  BY DEF IndexInv, IndexTypes, IndexLoops, EventHashes, Index!TypeOK
<1> QED
  BY <1>1, <1>2, <1>3, <1>4, <1>5, Zenon

LEMMA AuditTyped == AuditInv => Audit!TypeOK
<1> SUFFICES ASSUME AuditInv PROVE Audit!TypeOK
  OBVIOUS
<1>1. auditClock \in 0..AuditEnd
  BY DEF AuditInv, AuditTypes
<1>2. ASSUME NEW c \in Audit!Calls
      PROVE  /\ auditCalls[c].step \in {"idle", "lookup", "create", "done"}
             /\ auditCalls[c].at \in 0..auditClock
             /\ auditCalls[c].prev \in Audit!Hashes
  <2>1. auditCalls[c] \in AuditCalls /\ auditCalls[c].at <= auditClock
    BY <1>2 DEF AuditInv, AuditTypes
  <2> QED
    BY <1>1, <2>1, ComponentAssumption DEF AuditCalls, ComponentAssumption
<1>3. ASSUME NEW r \in auditRows
      PROVE  /\ r.event \in Audit!Calls /\ r.at \in 0..auditClock
             /\ r.meta \in Audit!Metadata
             /\ r.hash = Audit!NoHash <=> r.prev = Audit!NoHash
  <2>1. r \in AuditRows /\ r.at <= auditClock /\ (r.hash = Audit!NoHash <=> r.prev = Audit!NoHash)
    BY <1>3 DEF AuditInv, AuditTypes
  <2> QED
    BY <1>1, <2>1, ComponentAssumption DEF AuditRows, Audit!Metadata, ComponentAssumption
<1> QED
  BY <1>1, <1>2, <1>3, Zenon DEF Audit!TypeOK

LEMMA EscrowTyped == SavingsAssumption /\ EscrowInv => Goal!TypeOK
<1> SUFFICES ASSUME SavingsAssumption, EscrowInv PROVE Goal!TypeOK
  OBVIOUS
<1>1. now \in Nat /\ yieldShares \in Nat
  <2>1. now \in 1..GoalTerms.end /\ GoalTerms.end \in Nat \ {0}
    BY DEF EscrowInv, SavedVault, SavingsAssumption
  <2>2. vaultHeld \in [{"escrow", "investor"} -> Nat] /\ yieldShares = vaultHeld["escrow"]
    BY DEF EscrowInv, SavedVault, SavedBooks
  <2> QED
    BY <2>1, <2>2
<1>2. ASSUME NEW g \in Pair
      PROVE  /\ goals[g].deposited \in Nat /\ goals[g].shares \in Nat /\ goals[g].stranded \in Nat
             /\ goals[g].state \in {"open", "released", "withdrawn"}
             /\ goals[g].asked \in Nat \cup {Goal!Never} /\ goals[g].activity \in Nat \cup {Goal!Never}
  <2>1. GoalFields(goals[g])
    BY <1>2 DEF EscrowInv, SavedTypes, GoalTable
  <2> QED
    BY <2>1 DEF GoalFields
<1> QED
  BY <1>1, <1>2, Zenon DEF EscrowInv, SavedTypes, Goal!TypeOK

LEMMA FlowTyped ==
  /\ FlowP!FlowInv => Flow!TypeOK
  /\ AgainP!FlowInv => Again!TypeOK
<1>1. FlowP!FlowInv => Flow!TypeOK
  BY DEF FlowP!FlowInv, FlowP!FlowTypes, FlowP!Modals, FlowP!Monitors, FlowP!None, Flow!TypeOK,
     Flow!None
<1>2. AgainP!FlowInv => Again!TypeOK
  BY DEF AgainP!FlowInv, AgainP!FlowTypes, AgainP!Modals, AgainP!Monitors, AgainP!None,
     Again!TypeOK, Again!None
<1> QED
  BY <1>1, <1>2

LEMMA BelowIsBetween ==
  ASSUME NEW n \in Nat, NEW bound \in Nat, n < bound PROVE n \in 0..(bound - 1)
OBVIOUS

LEMMA WalletTyped ==
  ASSUME WalletAssumption, WalletInv PROVE Wallet!TypeOK
<1>1. extension \in Pair \cup {"none"} /\ session \in WalletSessions
  BY DEF WalletInv, WalletTypes
<1>2. idle.age \in 0..(IdleTimeout - 1) /\ idle.warned \in BOOLEAN
  <2>1. idle \in [age : Nat, warned : BOOLEAN] /\ idle.age < IdleTimeout
    BY Zenon DEF WalletInv, WalletTypes, IdleTrue
  <2>2. IdleTimeout \in Nat
    BY WalletTimes
  <2>3. idle.age \in Nat /\ idle.warned \in BOOLEAN
    BY <2>1
  <2> QED
    BY <2>1, <2>2, <2>3, BelowIsBetween, Zenon
<1>3. /\ session.key \in Pair \cup {"ledger key", "none"}
      /\ session.balance \in Pair \cup {"ledger key", "none"}
      /\ session.type \in {"none", "stellar", "ledger", "evm"} /\ session.others \subseteq {"evm"}
  BY <1>1 DEF WalletSessions, WalletKeys
<1> QED
  BY <1>1, <1>2, <1>3, Zenon DEF Wallet!TypeOK, Wallet!None

\* The kinds that land on an unseen version are kinds of decisions.
LEMMA DeskTyped == DeskInv => Desk!TypeOK
<1> SUFFICES ASSUME DeskInv PROVE Desk!TypeOK
  OBVIOUS
<1>1. /\ loan.status \in Desk!Statuses \cup {"none"} /\ loan.version \in Nat
      /\ trail \in Seq(Desk!Statuses)
  BY DEF DeskInv, DeskTypes
<1>2. ASSUME NEW w \in Desk!Writers
      PROVE  desk[w].step \in {"idle", "creating", "created", "started", "write", "record", "done"}
  <2>1. desk[w] \in DeskEntry
    BY <1>2 DEF DeskInv, DeskTypes
  <2> QED
    BY <2>1 DEF DeskEntry, DeskSteps
<1>3. blind \subseteq DOMAIN Desk!Decision
  BY Zenon DEF DeskInv, Desk!DecisionsStand, Desk!Unguarded
<1> QED
  BY <1>1, <1>2, <1>3, Zenon DEF Desk!TypeOK

-----------------------------------------------------------------------------
(* Webhooks: the attempts of a job stay below the last one, and no time noted  *)
(* lies ahead of the clock.                                                    *)

HookTimes(t) == {Hook!Never} \cup 0..t
HookJobFine(b, t) == b.made \in 0..(HookTries - 1) /\ b.at \in HookTimes(t) /\ b.read \in HookTimes(t)

HookRest ==
  /\ hookClock \in Nat /\ subscription.since \in HookTimes(hookClock)
  /\ \A j \in Pair : HookJobFine(jobs[j], hookClock)
  /\ deadLetters \subseteq Pair

LEMMA HookRestStart == LimitsAssumption /\ Hook!Init => HookRest
BY DEF LimitsAssumption, Hook!Init, Hook!NewJob, Hook!Never, HookRest, HookTimes, HookJobFine

\* One job changes, and with it perhaps the subscription.
LEMMA HookMoveFine ==
  ASSUME HookTypes, HookRest, NEW j \in Pair, NEW b, jobs' = [jobs EXCEPT ![j] = b],
         HookJobFine(b, hookClock), hookClock' = hookClock,
         subscription'.since \in HookTimes(hookClock), deadLetters' \subseteq Pair
  PROVE  HookRest'
<1>1. ASSUME NEW k \in Pair PROVE jobs'[k] = jobs[k] \/ jobs'[k] = b
  BY <1>1 DEF HookTypes
<1> QED
  BY <1>1, Zenon DEF HookRest

\* The fields that a change of step, time or reading leaves alone.
LEMMA HookFieldsFine ==
  ASSUME NEW r \in HookJob, NEW t \in Nat, NEW n \in HookTimes(t), HookJobFine(r, t)
  PROVE  /\ \A s : HookJobFine([r EXCEPT !.step = s], t)
         /\ \A s : HookJobFine([r EXCEPT !.step = s, !.at = n], t)
         /\ \A s : HookJobFine([r EXCEPT !.step = s, !.read = n], t)
BY DEF HookJob, HookJobFine

LEMMA HookThrownFine ==
  ASSUME LimitsAssumption, HookTypes, HookRest, NEW j \in Pair
  PROVE  HookJobFine(Hook!Thrown(j), hookClock)
<1>1. jobs[j] \in HookJob /\ HookJobFine(jobs[j], hookClock) /\ hookClock \in Nat
  BY DEF HookTypes, HookRest
<1>2. CASE Hook!IsLastAttempt(j)
  BY <1>1, <1>2, HookFieldsFine DEF Hook!Thrown, HookTimes
<1>3. CASE ~Hook!IsLastAttempt(j)
  <2>1. jobs[j].made + 1 \in 0..(HookTries - 1)
    BY <1>1, <1>3 DEF Hook!IsLastAttempt, HookJobFine, LimitsAssumption
  <2> QED
    BY <1>3, <2>1 DEF Hook!Thrown, Hook!NewJob, HookJobFine, HookTimes
<1> QED
  BY <1>2, <1>3

LEMMA HookRestKept ==
  ASSUME LimitsAssumption, HookInv, HookRest, [Hook!Next]_hookPart
  PROVE  HookRest'
<1> USE DEF HookInv
<1>0. hookClock \in Nat /\ HookTries \in Nat \ {0}
  BY DEF HookRest, LimitsAssumption
<1>1. ASSUME NEW j \in Pair,
             \/ Hook!DispatchEvent(j) \/ Hook!EnqueueFails(j)
             \/ \E success \in BOOLEAN : Hook!AttemptPost(j, success)
             \/ Hook!RecordDelivery(j) \/ Hook!RecordDeliveryFails(j)
             \/ Hook!RecordSuccess(j) \/ Hook!ReadStreak(j) \/ Hook!WriteStreak(j)
             \/ Hook!EndOfJob(j) \/ Hook!RecordOutcomeFails(j) \/ Hook!Stalled(j)
             \/ Hook!DecryptFails(j)
      PROVE  HookRest'
  <2>1. /\ jobs[j] \in HookJob /\ HookJobFine(jobs[j], hookClock) /\ jobs \in [Pair -> HookJob]
        /\ subscription \in HookSubscription /\ subscription.since \in HookTimes(hookClock)
        /\ deadLetters \subseteq Pair
    BY DEF HookTypes, HookRest
  <2>2. /\ hookClock \in HookTimes(hookClock) /\ Hook!Never \in HookTimes(hookClock)
        /\ jobs[j].at \in HookTimes(hookClock) /\ jobs[j].read \in HookTimes(hookClock)
    BY <1>0, <2>1 DEF HookTimes, HookJobFine
  <2>3. hookClock' = hookClock
    BY <1>1, Zenon DEF Hook!DispatchEvent, Hook!EnqueueFails, Hook!AttemptPost, Hook!RecordDelivery,
       Hook!RecordDeliveryFails, Hook!RecordSuccess, Hook!ReadStreak, Hook!WriteStreak,
       Hook!EndOfJob, Hook!RecordOutcomeFails, Hook!Stalled, Hook!DecryptFails
  <2>4. \E b : jobs' = [jobs EXCEPT ![j] = b] /\ HookJobFine(b, hookClock)
    <3>1. ASSUME NEW s, jobs' = [jobs EXCEPT ![j].step = s]
          PROVE  \E b : jobs' = [jobs EXCEPT ![j] = b] /\ HookJobFine(b, hookClock)
      <4>1. jobs' = [jobs EXCEPT ![j] = [jobs[j] EXCEPT !.step = s]]
        BY <2>1, <3>1
      <4>2. HookJobFine([jobs[j] EXCEPT !.step = s], hookClock)
        BY <1>0, <2>1, <2>2, HookFieldsFine, Zenon
      <4> QED
        BY <4>1, <4>2, Zenon
    <3>2. ASSUME NEW success \in BOOLEAN, Hook!AttemptPost(j, success)
          PROVE  \E b : jobs' = [jobs EXCEPT ![j] = b] /\ HookJobFine(b, hookClock)
      <4>1. PICK s : jobs' = [jobs EXCEPT ![j].step = s, ![j].at = hookClock]
        BY <3>2, Zenon DEF Hook!AttemptPost
      <4>2. jobs' = [jobs EXCEPT ![j] = [jobs[j] EXCEPT !.step = s, !.at = hookClock]]
        BY <2>1, <4>1
      <4>3. HookJobFine([jobs[j] EXCEPT !.step = s, !.at = hookClock], hookClock)
        BY <1>0, <2>1, <2>2, HookFieldsFine, Zenon
      <4> QED
        BY <4>2, <4>3, Zenon
    <3>3. ASSUME Hook!ReadStreak(j)
          PROVE  \E b : jobs' = [jobs EXCEPT ![j] = b] /\ HookJobFine(b, hookClock)
      <4> DEFINE b == [jobs[j] EXCEPT !.step = "count", !.read = subscription.since]
      <4>1. jobs' = [jobs EXCEPT ![j] = b]
        BY <2>1, <3>3 DEF Hook!ReadStreak
      <4>2. HookJobFine(b, hookClock)
        BY <1>0, <2>1, <2>2, HookFieldsFine, Zenon
      <4> QED
        BY <4>1, <4>2, Zenon
    <3>4. ASSUME Hook!RecordDelivery(j)
          PROVE  \E b : jobs' = [jobs EXCEPT ![j] = b] /\ HookJobFine(b, hookClock)
      <4>1. \/ jobs' = [jobs EXCEPT ![j].step = "success"] \/ jobs' = [jobs EXCEPT ![j].step = "dlq"]
            \/ jobs' = [jobs EXCEPT ![j] = Hook!Thrown(j)]
        BY <2>1, <3>4 DEF Hook!RecordDelivery
      <4> QED
        BY <3>1, <4>1, HookThrownFine, Zenon
    <3>5. ASSUME Hook!Stalled(j)
          PROVE  \E b : jobs' = [jobs EXCEPT ![j] = b] /\ HookJobFine(b, hookClock)
      <4> DEFINE b == [Hook!NewJob EXCEPT !.step = "queued", !.made = jobs[j].made]
      <4>1. jobs' = [jobs EXCEPT ![j] = b]
        BY <3>5, Zenon DEF Hook!Stalled
      <4>2. HookJobFine(b, hookClock)
        BY <2>1, <2>2 DEF Hook!NewJob, HookJobFine
      <4> QED
        BY <4>1, <4>2, Zenon
    <3>6. CASE Hook!RecordDeliveryFails(j) \/ Hook!DecryptFails(j)
      BY <3>6, HookThrownFine, Zenon DEF Hook!RecordDeliveryFails, Hook!DecryptFails
    <3> QED
      BY <1>1, <3>1, <3>2, <3>3, <3>4, <3>5, <3>6, Zenon DEF Hook!DispatchEvent, Hook!EnqueueFails,
         Hook!RecordSuccess, Hook!WriteStreak, Hook!EndOfJob, Hook!RecordOutcomeFails, Hook!Step
  <2>5. subscription'.since \in HookTimes(hookClock)
    <3>1. CASE subscription' = subscription
      BY <2>1, <3>1, Zenon
    <3>2. CASE Hook!RecordSuccess(j)
      BY <2>1, <2>2, <3>2 DEF Hook!RecordSuccess, HookSubscription
    <3>3. CASE Hook!WriteStreak(j)
      <4>1. PICK since \in HookTimes(hookClock) :
               subscription' = [subscription EXCEPT !.fails = @ + 1, !.since = since]
        BY <2>2, <3>3, Zenon DEF Hook!WriteStreak
      <4> QED
        BY <2>1, <4>1 DEF HookSubscription
    <3> QED
      BY <1>1, <3>1, <3>2, <3>3, Zenon DEF Hook!DispatchEvent, Hook!EnqueueFails, Hook!AttemptPost,
         Hook!RecordDelivery, Hook!RecordDeliveryFails, Hook!ReadStreak, Hook!EndOfJob,
         Hook!RecordOutcomeFails, Hook!Stalled, Hook!DecryptFails
  <2>6. deadLetters' = deadLetters \/ deadLetters' = deadLetters \cup {j}
    BY <1>1, Zenon DEF Hook!DispatchEvent, Hook!EnqueueFails, Hook!AttemptPost, Hook!RecordDelivery,
       Hook!RecordDeliveryFails, Hook!RecordSuccess, Hook!ReadStreak, Hook!WriteStreak,
       Hook!EndOfJob, Hook!RecordOutcomeFails, Hook!Stalled, Hook!DecryptFails
  <2>7. deadLetters' \subseteq Pair
    BY <1>1, <2>1, <2>6
  <2>8. PICK b : jobs' = [jobs EXCEPT ![j] = b] /\ HookJobFine(b, hookClock)
    BY <2>4
  <2> QED
    BY <1>1, <2>3, <2>5, <2>7, <2>8, HookMoveFine, Zenon
<1>2. ASSUME UNCHANGED <<hookClock, jobs, deadLetters>>,
             subscription'.since \in {Hook!Never, subscription.since}
      PROVE  HookRest'
  <2>1. Hook!Never \in HookTimes(hookClock)
    BY DEF HookTimes
  <2> QED
    BY <1>2, <2>1, Zenon DEF HookRest
<1>3. subscription \in HookSubscription
  BY DEF HookTypes
<1>4. ASSUME Hook!SweepPauses
      PROVE  HookRest'
  BY <1>2, <1>3, <1>4 DEF Hook!SweepPauses, HookSubscription
<1>5. ASSUME NEW status \in {"active", "paused", "revoked"}, Hook!UpdateSubscriptionStatus(status)
      PROVE  HookRest'
  BY <1>2, <1>3, <1>5 DEF Hook!UpdateSubscriptionStatus, HookSubscription
<1>6. CASE Hook!SweepFinds \/ UNCHANGED hookPart
  BY <1>2, <1>6 DEF Hook!SweepFinds, hookPart
<1>7. CASE Hook!HookTick
  <2>1. HookTimes(hookClock) \subseteq HookTimes(hookClock')
    BY <1>0, <1>7 DEF Hook!HookTick, HookTimes
  <2>2. hookClock' \in Nat
    BY <1>0, <1>7 DEF Hook!HookTick
  <2>3. UNCHANGED <<subscription, jobs, deadLetters>>
    BY <1>7 DEF Hook!HookTick
  <2> QED
    BY <2>1, <2>2, <2>3 DEF HookRest, HookJobFine
<1> QED
  BY <1>1, <1>4, <1>5, <1>6, <1>7, Zenon DEF Hook!Next

LEMMA HookTyped == HookInv /\ HookRest => Hook!TypeOK
<1> SUFFICES ASSUME HookInv, HookRest PROVE Hook!TypeOK
  OBVIOUS
<1>1. /\ subscription.status \in {"active", "paused", "revoked"} /\ subscription.fails \in Nat
      /\ \A j \in Pair : jobs[j].step \in HookSteps
  BY DEF HookInv, HookTypes, HookSubscription, HookJob
<1> QED
  BY <1>1, Zenon DEF HookRest, HookTimes, HookJobFine, HookSteps, Hook!TypeOK, Hook!Never

-----------------------------------------------------------------------------
(* Late fees: no more misses than make a default, and only a loan that is being *)
(* repaid is audited.                                                           *)

FeeRest ==
  /\ account.missed <= FeeMisses
  /\ account.status = "Repaying" => account.missed < FeeMisses
  /\ audit.step = "found" => account.status = "Repaying"

LEMMA FeeRestStart == LimitsAssumption /\ Fees!Init => FeeRest
BY DEF LimitsAssumption, Fees!Init, Fees!NoRun, FeeRest

LEMMA FeeRestKept ==
  ASSUME FeeAssumption, LimitsAssumption, FeeInv, FeeRest, [Fees!Next]_feesPart
  PROVE  FeeRest'
<1>0. account \in FeeAccounts /\ audit \in [step : {"idle", "found"}, seen : FeeAccounts]
  BY DEF FeeInv, FeeTypes
<1>1. CASE /\ account'.missed = account.missed /\ account'.status = account.status
           /\ audit' \in {audit, Fees!NoRun} \/ account.status = "Repaying"
  <2>1. Fees!NoRun.step = "idle"
    BY DEF Fees!NoRun
  <2> QED
    BY <1>1, <2>1, Zenon DEF FeeRest
<1>2. CASE Fees!TimePasses \/ Fees!HandleEnterGracePeriod
  <2>1. (\E d : account' = [account EXCEPT !.due = d]) /\ audit' \in {audit, Fees!NoRun}
    BY <1>2, Zenon DEF Fees!TimePasses, Fees!HandleEnterGracePeriod
  <2>2. account'.missed = account.missed /\ account'.status = account.status
    BY <1>0, <2>1 DEF FeeAccounts
  <2> QED
    BY <1>1, <2>1, <2>2, Zenon
<1>3. ASSUME NEW d \in Rulings, Fees!CreditLoan(d)
      PROVE  FeeRest'
  <2>1. (\E n : account' = [account EXCEPT !.fee = n]) /\ audit' = audit
    BY <1>3, Zenon DEF Fees!CreditLoan
  <2>2. account'.missed = account.missed /\ account'.status = account.status
    BY <1>0, <2>1 DEF FeeAccounts
  <2> QED
    BY <1>1, <2>1, <2>2
<1>4. CASE Fees!HandleMissedPayment
  <2>1. /\ audit.step = "found" /\ audit.seen.missed = account.missed /\ account.missed \in Nat
        /\ FeeMisses \in Nat
    BY <1>0, <1>4 DEF Fees!HandleMissedPayment, FeeInv, MissesCharged, FeeAccounts, FeeAssumption
  <2>2. account.status = "Repaying" /\ account.missed < FeeMisses
    BY <2>1, Zenon DEF FeeRest
  <2>3. PICK n \in Nat : n = account.missed + 1
    BY <2>1
  <2>4. n <= FeeMisses
    BY <2>1, <2>2, <2>3
  <2>5. /\ account'.missed = n
        /\ account'.status = (IF n >= FeeMisses THEN "DEFAULTED" ELSE account.status)
        /\ audit' = Fees!NoRun
    BY <1>4, <2>1, <2>3 DEF Fees!HandleMissedPayment
  <2>6. account'.status = "Repaying" => n < FeeMisses
    BY <2>1, <2>5
  <2> QED
    BY <2>4, <2>5, <2>6 DEF FeeRest, Fees!NoRun
<1>5. CASE \/ UNCHANGED feesPart \/ Fees!FindActiveLoans \/ Fees!AuditFails
           \/ \E w : Fees!CheckWaiver(w) \/ Fees!CreateWaiver(w)
           \/ \E d, w, verdict, amount : Fees!Decide(d, w, verdict, amount)
           \/ \E d : Fees!MarkWaiver(d) \/ Fees!CreditFails(d)
  <2>1. account' = account /\ (audit' \in {audit, Fees!NoRun} \/ account.status = "Repaying")
    BY <1>5, Zenon DEF Fees!FindActiveLoans, Fees!AuditFails, Fees!CheckWaiver, Fees!CreateWaiver,
       Fees!Decide, Fees!MarkWaiver, Fees!CreditFails, feesPart
  <2> QED
    BY <1>1, <2>1, Zenon
<1> QED
  BY <1>2, <1>3, <1>4, <1>5, Zenon DEF Fees!Next

LEMMA FeesTyped ==
  ASSUME FeeAssumption, FeeInv, FeeRest PROVE Fees!TypeOK
<1>1. /\ account \in FeeAccounts /\ waivers \in [Pair -> FeeWaivers]
      /\ deciding \in [Rulings -> FeeDecisions] /\ FeeMisses \in Nat
  BY DEF FeeInv, FeeTypes, FeeAssumption
<1>2. account.missed \in 0..FeeMisses
  BY <1>1 DEF FeeRest, FeeAccounts
<1>3. /\ account.fee \in Nat /\ account.status \in {"Repaying", "DEFAULTED"}
      /\ account.due \in {"current", "overdue", "grace", "expired"}
  BY <1>1 DEF FeeAccounts
<1>4. ASSUME NEW w \in Pair
      PROVE  /\ waivers[w].step \in {"none", "checked", "PENDING", "APPROVED", "PARTIAL", "DENIED"}
             /\ waivers[w].waived \in Nat
  <2>1. waivers[w] \in FeeWaivers
    BY <1>1, <1>4
  <2> QED
    BY <2>1 DEF FeeWaivers, Verdicts
<1>5. ASSUME NEW d \in Rulings PROVE deciding[d].step \in {"idle", "mark", "credit", "done"}
  <2>1. deciding[d] \in FeeDecisions
    BY <1>1, <1>5
  <2> QED
    BY <2>1 DEF FeeDecisions
<1> QED
  BY <1>2, <1>3, <1>4, <1>5, Zenon DEF Fees!TypeOK

-----------------------------------------------------------------------------
(* The yield vault: what is paid out of the queue is covered.              *)

VaultQueue == [to : Pair, amount : Nat]
VaultRecovery == [address : Pair \cup {Vault!Nobody}, pending : Pair \cup {Vault!Nobody}, after : Nat]

VaultRest ==
  /\ vault.liquidity \in Nat /\ vault.threshold \in Nat \cup {Vault!NoThreshold}
  /\ waiting \in Seq(VaultQueue)
  /\ recovery \in [Pair -> VaultRecovery]

LEMMA VaultRestStart == Vault!Init => VaultRest
BY DEF Vault!Init, VaultRest, VaultRecovery

\* A bounded set of natural numbers that is not empty has a greatest element.
LEMMA Greatest ==
  ASSUME NEW N \in Nat, NEW S, S \subseteq 0..N, S # {}
  PROVE  \E x \in S : \A y \in S : x >= y
<1> DEFINE T == {N - x : x \in S}
<1>0. ASSUME NEW x \in S PROVE N - x \in Nat
  <2>1. x \in 0..N
    OBVIOUS
  <2> QED
    BY <2>1
<1>1. T \subseteq Nat /\ T # {}
  BY <1>0
<1>2. PICK t \in T : \A u \in T : t <= u
  BY <1>1, WellOrdered
<1>3. PICK x \in S : t = N - x
  OBVIOUS
<1>4. ASSUME NEW y \in S PROVE x >= y
  <2>1. N - y \in T /\ t <= N - y
    BY <1>2
  <2> QED
    <3>1. x \in 0..N /\ y \in 0..N
      OBVIOUS
    <3> QED
      BY <1>3, <2>1, <3>1
<1> QED
  BY <1>4

\* process_withdrawal_queue pays no more than there is.
LEMMA VaultPays ==
  ASSUME VaultRest, Vault!ProcessWithdrawalQueue
  PROVE  VaultRest'
<1> DEFINE N == Len(waiting)
           S == {k \in 0..N : Vault!Asked[k] <= vault.liquidity}
           top == CHOOSE x \in S : \A y \in S : x >= y
<1>1. waiting \in Seq(VaultQueue) /\ N \in Nat /\ vault.liquidity \in Nat
  BY DEF VaultRest
<1>2. ASSUME NEW n \in 0..N PROVE Vault!Asked[n] \in Nat /\ (n = 0 => Vault!Asked[n] = 0)
  <2> DEFINE f == [k \in 1..n |-> waiting[k].amount]
  <2>1. ASSUME NEW k \in 1..n PROVE f[k] \in Nat
    <3>1. k \in 1..Len(waiting)
      BY <1>1
    <3>2. waiting[k] \in VaultQueue
      BY <1>1, <3>1
    <3> QED
      BY <3>2 DEF VaultQueue
  <2>2. IsFiniteSet(1..n)
    BY FS_Interval
  <2>3. Vault!Asked[n] = SumOver(f, 1..n)
    BY Zenon DEF Vault!Asked, Vault!SumOver, SumOver, Vault!MapThenSumSet, MapThenSumSet,
       Vault!MapThenFoldSet, MapThenFoldSet
  <2> HIDE DEF f
  <2>4. SumOver(f, 1..n) \in Nat
    BY <2>1, <2>2, SumBounds, Zenon
  <2>5. n = 0 => \A k \in 1..n : f[k] = 0
    OBVIOUS
  <2>6. n = 0 => SumOver(f, 1..n) = 0
    BY <2>2, <2>5, SumZero, Zenon
  <2> QED
    BY <2>3, <2>4, <2>6, Zenon
<1>3. 0 \in S /\ S \subseteq 0..N
  BY <1>1, <1>2
<1>4. top \in S
  <2> HIDE DEF S
  <2>1. \E x \in S : \A y \in S : x >= y
    BY <1>1, <1>3, Greatest
  <2> QED
    BY <2>1
<1>5. /\ vault' = [vault EXCEPT !.liquidity = @ - Vault!Asked[top]]
      /\ waiting' = SubSeq(waiting, top + 1, Len(waiting)) /\ recovery' = recovery
  BY DEF Vault!ProcessWithdrawalQueue, Vault!Max, Max
<1> HIDE DEF top
<1>6. PICK a \in Nat : a = Vault!Asked[top] /\ a <= vault.liquidity
  BY <1>2, <1>4
<1>7. vault.liquidity - a \in Nat
  BY <1>1, <1>6
<1>8. waiting' \in Seq(VaultQueue)
  BY <1>1, <1>4, <1>5
<1> QED
  BY <1>5, <1>6, <1>7, <1>8 DEF VaultRest

LEMMA VaultRestKept ==
  ASSUME VaultAssumption, VaultInv, VaultRest, [Vault!Next]_vaultPart
  PROVE  VaultRest'
<1>P. /\ vault \in [shares : Nat, assets : Nat, last : 0..VaultEnd,
                    liquidity : Nat, threshold : Nat \cup {Vault!NoThreshold}]
      /\ vault.liquidity \in Nat /\ vault.threshold \in Nat \cup {Vault!NoThreshold}
      /\ waiting \in Seq(VaultQueue) /\ recovery \in [Pair -> VaultRecovery]
  BY DEF VaultInv, VaultTotals, VaultRest
<1>A. /\ Vault!Accrued.liquidity = vault.liquidity /\ Vault!Accrued.threshold = vault.threshold
      /\ Vault!Accrued \in [shares : Nat, assets : Nat, last : 0..VaultEnd,
                            liquidity : Nat, threshold : Nat \cup {Vault!NoThreshold}]
  <2>1. Vault!Accrued.liquidity = vault.liquidity /\ Vault!Accrued.threshold = vault.threshold
    BY <1>P DEF Vault!Accrued
  <2>2. VaultTotals(Vault!Accrued)
    BY VaultAccrues
  <2> QED
    BY <1>P, <2>1, <2>2 DEF VaultTotals
<1>1. CASE UNCHANGED <<vault, waiting, recovery>>
  BY <1>1, Zenon DEF VaultRest
<1>2. CASE Vault!BatchHarvest
  BY <1>2, <1>P, <1>A DEF Vault!BatchHarvest, VaultRest
<1>3. ASSUME NEW i \in Pair, NEW amount \in Invested, Vault!Deposit(i, amount)
      PROVE  VaultRest'
  <2>1. PICK m : vault' = [Vault!Accrued EXCEPT !.shares = @ + m, !.assets = @ + amount,
                                                !.liquidity = @ + amount]
    BY <1>3, Zenon DEF Vault!Deposit
  <2>2. UNCHANGED <<waiting, recovery>> /\ amount \in Nat
    BY <1>3 DEF Vault!Deposit, VaultAssumption
  <2>3. vault'.liquidity = vault.liquidity + amount /\ vault'.threshold = vault.threshold
    BY <1>A, <2>1
  <2> QED
    BY <1>P, <2>2, <2>3 DEF VaultRest
<1>4. ASSUME NEW i \in Pair, NEW n \in 1..held[i], Vault!Withdraw(i, n)
      PROVE  VaultRest'
  <2>1. vault' = Vault!Burnt(Vault!Accrued, n) /\ UNCHANGED <<waiting, recovery>>
    BY <1>4, Zenon DEF Vault!Withdraw
  <2>2. vault'.liquidity = vault.liquidity /\ vault'.threshold = vault.threshold
    BY <1>A, <2>1 DEF Vault!Burnt
  <2> QED
    BY <1>P, <2>1, <2>2 DEF VaultRest
<1>5. ASSUME NEW i \in Pair, NEW n \in 1..held[i], Vault!RequestWithdrawal(i, n)
      PROVE  VaultRest'
  <2> DEFINE w == Vault!Accrued
             amount == Vault!AssetsFor(w, n)
             b == Vault!Burnt(w, n)
  <2>1. amount \in Nat
    <3>1. n <= w.shares
      BY <1>5, Zenon DEF Vault!RequestWithdrawal
    <3>2. held[i] \in Nat
      BY DEF VaultInv
    <3>3. w.shares \in Nat \ {0} /\ n * w.assets \in Nat
      BY <1>A, <3>1, <3>2
    <3>4. (n * w.assets) \div w.shares \in Nat
      BY <3>3, Quotient
    <3> QED
      BY <3>4 DEF Vault!AssetsFor
  <2>2. b.liquidity = vault.liquidity /\ b.threshold = vault.threshold
    BY <1>A DEF Vault!Burnt
  <2>3. DOMAIN b = {"shares", "assets", "last", "liquidity", "threshold"}
    BY <1>A DEF Vault!Burnt
  <2>4. Vault!Max0(vault.liquidity - amount) \in Nat
    BY <1>P, <2>1 DEF Vault!Max0
  <2>5. vault' = b \/ vault' = [b EXCEPT !.liquidity = Vault!Max0(@ - amount)]
    BY <1>5, Zenon DEF Vault!RequestWithdrawal
  <2>6. waiting' = waiting \/ waiting' = Append(waiting, [to |-> i, amount |-> amount])
    BY <1>5, Zenon DEF Vault!RequestWithdrawal
  <2>7. recovery' = recovery
    BY <1>5, Zenon DEF Vault!RequestWithdrawal
  <2> HIDE DEF amount, b
  <2>8. vault'.liquidity \in Nat /\ vault'.threshold = vault.threshold
    BY <1>P, <2>2, <2>3, <2>4, <2>5
  <2>9. waiting' \in Seq(VaultQueue)
    <3>1. [to |-> i, amount |-> amount] \in VaultQueue
      BY <2>1 DEF VaultQueue
    <3>2. Append(waiting, [to |-> i, amount |-> amount]) \in Seq(VaultQueue)
      BY <1>P, <3>1
    <3> QED
      BY <1>P, <2>6, <3>2, Zenon
  <2> QED
    BY <1>P, <2>7, <2>8, <2>9 DEF VaultRest
<1>6. ASSUME NEW amount \in Invested, Vault!AddLiquidity(amount) \/ Vault!SetWithdrawalThreshold(amount)
      PROVE  VaultRest'
  <2>1. amount \in Nat
    BY <1>6 DEF VaultAssumption
  <2> QED
    BY <1>P, <1>6, <2>1 DEF Vault!AddLiquidity, Vault!SetWithdrawalThreshold, VaultRest
<1>7. ASSUME NEW i \in Pair,
             \/ \E address \in Pair : Vault!SetRecoveryAddress(i, address)
             \/ Vault!RequestRecovery(i) \/ Vault!CancelRecovery(i) \/ Vault!ExecuteRecovery(i)
      PROVE  VaultRest'
  <2>1. UNCHANGED <<vault, waiting>>
    BY <1>7, Zenon DEF Vault!SetRecoveryAddress, Vault!RequestRecovery, Vault!CancelRecovery,
       Vault!ExecuteRecovery
  <2>2. recovery[i] \in VaultRecovery /\ ledger + RecoveryDelay \in Nat /\ 0 \in Nat
    BY <1>P DEF VaultInv, VaultAssumption
  <2>3. \E r \in VaultRecovery : recovery' = [recovery EXCEPT ![i] = r]
    <3>1. CASE \E address \in Pair : Vault!SetRecoveryAddress(i, address)
      BY <2>2, <3>1 DEF Vault!SetRecoveryAddress, VaultRecovery
    <3>2. CASE Vault!RequestRecovery(i)
      <4> DEFINE r == [recovery[i] EXCEPT !.pending = recovery[i].address, !.after = ledger + RecoveryDelay]
      <4>1. recovery' = [recovery EXCEPT ![i] = r]
        BY <1>P, <3>2 DEF Vault!RequestRecovery
      <4>2. r \in VaultRecovery
        BY <2>2 DEF VaultRecovery
      <4> QED
        BY <4>1, <4>2, Zenon
    <3>3. CASE Vault!CancelRecovery(i) \/ Vault!ExecuteRecovery(i)
      <4> DEFINE r == [recovery[i] EXCEPT !.pending = Vault!Nobody, !.after = 0]
      <4>1. recovery' = [recovery EXCEPT ![i] = r]
        BY <1>P, <3>3 DEF Vault!CancelRecovery, Vault!ExecuteRecovery
      <4>2. r \in VaultRecovery
        BY <2>2 DEF VaultRecovery
      <4> QED
        BY <4>1, <4>2, Zenon
    <3> QED
      BY <1>7, <3>1, <3>2, <3>3, Zenon
  <2>4. recovery' \in [Pair -> VaultRecovery]
    BY <1>P, <2>3
  <2> QED
    BY <1>P, <2>1, <2>4, Zenon DEF VaultRest
<1>8. CASE UNCHANGED vaultPart \/ Vault!Tick
  BY <1>1, <1>8, Zenon DEF vaultPart, Vault!Tick
<1> QED
  BY <1>2, <1>3, <1>4, <1>5, <1>6, <1>7, <1>8, VaultPays, Zenon DEF Vault!Next

LEMMA VaultTyped == VaultInv /\ VaultRest => Vault!TypeOK
<1> SUFFICES ASSUME VaultInv, VaultRest, NEW v, v = vault PROVE Vault!TypeOK
  OBVIOUS
<1>1. ledger \in Nat /\ vault.last \in Nat /\ vault.last <= ledger
  BY DEF VaultInv, VaultTotals
<1>2. vault \in [shares : Nat, assets : Nat, last : Nat, liquidity : Nat,
                 threshold : Nat \cup {Vault!NoThreshold}]
  BY <1>1 DEF VaultInv, VaultTotals, VaultRest
<1> QED
  BY <1>1, <1>2, Zenon DEF VaultInv, VaultRest, VaultQueue, VaultRecovery, Vault!TypeOK

-----------------------------------------------------------------------------
(* The staking pool: the flag of a reward that crossed to another pool.    *)

StakeRest == crossed \in BOOLEAN

LEMMA StakeRestStart == Staking!Init => StakeRest
BY DEF Staking!Init, StakeRest

LEMMA StakeRestKept ==
  ASSUME StakeRest, [Staking!Next]_stakingPart
  PROVE  StakeRest'
<1>1. crossed' = crossed \/ (\E b : crossed' = (crossed \/ b = TRUE))
  <2>1. ASSUME NEW t \in PoolTokens, NEW n \in Rewarded, NEW own \in BOOLEAN,
               Staking!DistributeRewards(t, n, own)
        PROVE  \E b : crossed' = (crossed \/ b = TRUE)
    <3>1. PICK f : crossed' = (crossed \/ own \/ \E u \in PoolTokens \ {t} : f[u] > 0)
      BY <2>1, Zenon DEF Staking!DistributeRewards
    <3>2. PICK b : b = (own \/ \E u \in PoolTokens \ {t} : f[u] > 0)
      OBVIOUS
    <3>3. (b = TRUE) = (own \/ \E u \in PoolTokens \ {t} : f[u] > 0)
      BY <3>2, Zenon
    <3> QED
      BY <3>1, <3>3, Zenon
  <2> QED
    BY <2>1, Zenon DEF Staking!Next, stakingPart, Staking!AddToken, Staking!RemoveToken, Staking!Stake,
       Staking!Unstake, Staking!ClaimRewards
<1> QED
  BY <1>1, Zenon DEF StakeRest

LEMMA StakingTyped == StakeInv /\ StakeRest => Staking!TypeOK
BY Zenon DEF StakeInv, StakeTypes, StakeRest, Staking!TypeOK

-----------------------------------------------------------------------------
(* The committee: only proposals that exist are marked.                    *)

CommitteeRest ==
  /\ minStake \in Nat /\ stakingPool \in BOOLEAN
  /\ shrunk \subseteq DOMAIN proposals

LEMMA CommitteeRestStart == Committee!Init => CommitteeRest
<1> SUFFICES ASSUME Committee!Init PROVE CommitteeRest
  OBVIOUS
<1>1. minStake \in Nat
  BY DEF Committee!Init
<1>2. stakingPool = FALSE /\ shrunk = {}
  BY Zenon DEF Committee!Init
<1> QED
  BY <1>1, <1>2, Zenon DEF CommitteeRest

LEMMA CommitteeRestKept ==
  ASSUME CommitteeInv, CommitteeRest, [Committee!Next]_governancePart
  PROVE  CommitteeRest'
<1>0. proposals \in Seq(Ballots)
  BY DEF CommitteeInv, CommitteeTypes
<1>1. minStake' \in Nat /\ stakingPool' \in BOOLEAN
  <2>1. minStake' \in {minStake, 0, 1}
    BY DEF Committee!Next, Committee!SubmitProposal, Committee!AddSigner, Committee!RemoveSigner,
       Committee!RevokeDelegation, Committee!Delegate, Committee!Vote, Committee!ExecuteProposal,
       Committee!Veto, Committee!SetStakingPool, Committee!SetMinStakeToSubmit, governancePart
  <2>2. stakingPool' = stakingPool \/ stakingPool' = TRUE
    BY Zenon DEF Committee!Next, Committee!SubmitProposal, Committee!AddSigner, Committee!RemoveSigner,
       Committee!RevokeDelegation, Committee!Delegate, Committee!Vote, Committee!ExecuteProposal,
       Committee!Veto, Committee!SetStakingPool, Committee!SetMinStakeToSubmit, governancePart
  <2>3. stakingPool' \in BOOLEAN
    BY <2>2, Zenon DEF CommitteeRest
  <2>4. minStake' \in Nat
    BY <2>1 DEF CommitteeRest
  <2> QED
    BY <2>3, <2>4
<1>2. DOMAIN proposals \subseteq DOMAIN proposals'
  <2>1. \/ proposals' = proposals \/ (\E p : proposals' = Append(proposals, p))
        \/ \E id, p : proposals' = [proposals EXCEPT ![id] = p]
        \/ \E id, s : proposals' = [proposals EXCEPT ![id].status = s]
    BY Zenon DEF Committee!Next, Committee!SubmitProposal, Committee!AddSigner, Committee!RemoveSigner,
       Committee!RevokeDelegation, Committee!Delegate, Committee!Vote, Committee!ExecuteProposal,
       Committee!Veto, Committee!SetStakingPool, Committee!SetMinStakeToSubmit, governancePart
  <2>2. ASSUME NEW p, proposals' = Append(proposals, p) PROVE DOMAIN proposals \subseteq DOMAIN proposals'
    <3>1. PICK n \in Nat : n = Len(proposals) /\ DOMAIN proposals = 1..n
      BY <1>0
    <3>2. DOMAIN proposals' = 1..(n + 1)
      BY <1>0, <2>2, <3>1
    <3> QED
      BY <3>1, <3>2
  <2>3. (\E id, p : proposals' = [proposals EXCEPT ![id] = p]) => DOMAIN proposals' = DOMAIN proposals
    OBVIOUS
  <2>4. (\E id, s : proposals' = [proposals EXCEPT ![id].status = s])
          => DOMAIN proposals' = DOMAIN proposals
    OBVIOUS
  <2> QED
    BY <2>1, <2>2, <2>3, <2>4
<1>3. shrunk' \subseteq shrunk \cup DOMAIN proposals
  BY DEF Committee!Next, Committee!SubmitProposal, Committee!AddSigner, Committee!RemoveSigner,
     Committee!RevokeDelegation, Committee!Delegate, Committee!Vote, Committee!ExecuteProposal,
     Committee!Veto, Committee!SetStakingPool, Committee!SetMinStakeToSubmit, governancePart
<1> QED
  BY <1>1, <1>2, <1>3 DEF CommitteeRest

LEMMA CommitteeTyped == CommitteeInv /\ CommitteeRest => Committee!TypeOK
BY Zenon DEF CommitteeInv, CommitteeTypes, CommitteeRest, Ballots, Delegations, Committee!TypeOK,
   Committee!NoDelegate

-----------------------------------------------------------------------------
(* The multisig validator: every threshold can be met.                     *)

ThresholdMet(x) == x.threshold \in 0..Multisig!Total(x.weights, Pair)

QuorumFine(q) ==
  /\ q = [signers |-> q.signers, threshold |-> q.threshold, cooldown |-> q.cooldown,
          rotated |-> q.rotated]
  /\ q.signers \in SUBSET Pair /\ q.threshold \in Nat /\ q.threshold <= Cardinality(q.signers)
  /\ q.rotated = Multisig!Unset => q.signers = {}

QuorumRest ==
  /\ \A a \in Treasuries : ThresholdMet(accounts[a])
  /\ QuorumFine(quorum)

LEMMA QuorumCards == \A S : Multisig!Cardinality(S) = Cardinality(S)
BY Zenon DEF Multisig!Cardinality, Cardinality

LEMMA QuorumCounts ==
  ASSUME FeeAssumption, NEW S \in SUBSET Pair, NEW k \in Pair
  PROVE  /\ Cardinality(S) \in Nat /\ Cardinality(S \cup {k}) \in Nat
         /\ Cardinality(S \cup {k}) >= Cardinality(S)
         /\ k \in S => Cardinality(S \ {k}) = Cardinality(S) - 1
<1>1. IsFiniteSet(S) /\ IsFiniteSet(S \cup {k})
  BY FS_Subset DEF FeeAssumption
<1>2. Cardinality(S) \in Nat /\ Cardinality(S \cup {k}) \in Nat
  BY <1>1, FS_CardinalityType
<1>3. k \in S => Cardinality(S \ {k}) = Cardinality(S) - 1
  BY <1>1, FS_RemoveElement
<1>4. Cardinality(S \cup {k}) >= Cardinality(S)
  BY <1>1, <1>2, FS_AddElement
<1> QED
  BY <1>2, <1>3, <1>4

LEMMA TotalCounts ==
  ASSUME FeeAssumption, NEW f, \A k \in Pair : f[k] \in Nat
  PROVE  Multisig!Total(f, Pair) \in Nat
<1>1. IsFiniteSet(Pair)
  BY DEF FeeAssumption
<1>2. SumOver(f, Pair) \in Nat
  BY <1>1, SumBounds, Zenon
<1>3. Multisig!Total(f, Pair) = SumOver(f, Pair)
  BY Zenon DEF Multisig!Total, SumOver, Multisig!MapThenSumSet, MapThenSumSet,
     Multisig!MapThenFoldSet, MapThenFoldSet
<1> QED
  BY <1>2, <1>3, Zenon

LEMMA QuorumRestStart == FeeAssumption /\ Multisig!Init => QuorumRest
<1> SUFFICES ASSUME FeeAssumption, Multisig!Init PROVE QuorumRest
  OBVIOUS
<1>1. ASSUME NEW a \in Treasuries PROVE ThresholdMet(accounts[a])
  <2> DEFINE f == [k \in Pair |-> 0]
  <2>1. accounts[a].threshold = 0 /\ accounts[a].weights = f
    BY DEF Multisig!Init
  <2>2. \A k \in Pair : f[k] \in Nat
    OBVIOUS
  <2> HIDE DEF f
  <2>3. PICK n \in Nat : n = Multisig!Total(f, Pair)
    BY <2>2, TotalCounts, Zenon
  <2>4. 0 \in 0..n
    OBVIOUS
  <2> QED
    BY <2>1, <2>3, <2>4, Zenon DEF ThresholdMet
<1>2. Cardinality({}) = 0
  BY FS_EmptySet
<1>3. QuorumFine(quorum)
  BY <1>2 DEF Multisig!Init, QuorumFine
<1> QED
  BY <1>1, <1>3 DEF QuorumRest

LEMMA QuorumRestKept ==
  ASSUME FeeAssumption, MultisigInv, QuorumRest, [Multisig!Next]_multisigPart
  PROVE  QuorumRest'
<1>0. /\ accounts \in [Treasuries -> [weights : [Pair -> 0..KeyWeight], threshold : Int,
                                      delay : Delays \cup {Multisig!Unset}]]
      /\ sequence \in Nat /\ sequence # Multisig!Unset
  BY DEF MultisigInv, MultisigTypes, Multisig!Unset
<1> DEFINE S == quorum.signers
           t == quorum.threshold
           c == quorum.cooldown
           r == quorum.rotated
<1>q. /\ quorum = [signers |-> S, threshold |-> t, cooldown |-> c, rotated |-> r]
      /\ S \in SUBSET Pair /\ t \in Nat
      /\ t <= Cardinality(S) /\ (r = Multisig!Unset => S = {})
  BY Zenon DEF QuorumRest, QuorumFine
<1> HIDE DEF S, t, c, r
<1>f. ASSUME NEW T \in SUBSET Pair, NEW u \in Nat, NEW d, NEW s, u <= Cardinality(T),
             s = Multisig!Unset => T = {},
             quorum' = [signers |-> T, threshold |-> u, cooldown |-> d, rotated |-> s]
      PROVE  QuorumFine(quorum')
  BY <1>f DEF QuorumFine
<1>1. \A a \in Treasuries : ThresholdMet(accounts'[a])
  <2>1. CASE accounts' = accounts
    BY <2>1, Zenon DEF QuorumRest
  <2>2. ASSUME NEW a \in Treasuries, NEW weights \in [Pair -> 0..KeyWeight], NEW threshold,
               Multisig!ConfigureAccount(a, weights, threshold)
        PROVE  \A b \in Treasuries : ThresholdMet(accounts'[b])
    <3>1. /\ threshold \in 1..Multisig!Total(weights, Pair)
          /\ accounts' = [accounts EXCEPT ![a].weights = weights, ![a].threshold = threshold]
      BY <2>2, Zenon DEF Multisig!ConfigureAccount
    <3>2. /\ accounts'[a].weights = weights /\ accounts'[a].threshold = threshold
          /\ \A b \in Treasuries \ {a} : accounts'[b] = accounts[b]
      BY <1>0, <3>1
    <3>3. threshold \in 0..Multisig!Total(weights, Pair)
      BY <3>1
    <3> QED
      BY <3>2, <3>3, Zenon DEF QuorumRest, ThresholdMet
  <2>3. ASSUME NEW a \in Treasuries, NEW delay \in Delays, Multisig!ConfigureTimelock(a, delay)
        PROVE  \A b \in Treasuries : ThresholdMet(accounts'[b])
    <3>1. accounts' = [accounts EXCEPT ![a].delay = delay]
      BY <2>3, Zenon DEF Multisig!ConfigureTimelock
    <3>2. ASSUME NEW b \in Treasuries
          PROVE  accounts'[b].weights = accounts[b].weights /\ accounts'[b].threshold = accounts[b].threshold
      BY <1>0, <3>1, <3>2
    <3> QED
      BY <3>2, Zenon DEF QuorumRest, ThresholdMet
  <2> QED
    BY <2>1, <2>2, <2>3, Zenon DEF Multisig!Next, Multisig!ApproveAction, Multisig!Submit,
       Multisig!ExecuteAction, Multisig!ConfigureSigners, Multisig!SetThreshold, Multisig!AddSigner,
       Multisig!RemoveSigner, Multisig!SetRotationCooldown, Multisig!CloseLedger, multisigPart
<1>2. QuorumFine(quorum')
  <2>1. CASE quorum' = quorum
    BY <2>1, Zenon DEF QuorumRest
  <2>2. ASSUME NEW T \in SUBSET Pair, NEW u, Multisig!ConfigureSigners(T, u)
        PROVE  QuorumFine(quorum')
    <3>1. u \in 1..Cardinality(T)
      BY <2>2, QuorumCards, Zenon DEF Multisig!ConfigureSigners
    <3>2. u \in Nat /\ u <= Cardinality(T)
      BY <3>1
    <3>3. quorum' = [signers |-> T, threshold |-> u, cooldown |-> c, rotated |-> sequence]
      BY <1>q, <2>2 DEF Multisig!ConfigureSigners
    <3> QED
      BY <1>0, <1>f, <3>2, <3>3, Zenon
  <2>3. ASSUME NEW u, Multisig!SetThreshold(u)
        PROVE  QuorumFine(quorum')
    <3>1. u \in 1..Cardinality(S)
      <4>1. quorum.signers = S
        BY <1>q
      <4> QED
        BY <2>3, <4>1, QuorumCards, Zenon DEF Multisig!SetThreshold
    <3>2. u \in Nat /\ u <= Cardinality(S)
      BY <3>1
    <3>3. quorum' = [signers |-> S, threshold |-> u, cooldown |-> c, rotated |-> r]
      BY <1>q, <2>3 DEF Multisig!SetThreshold
    <3> QED
      BY <1>q, <1>f, <3>2, <3>3, Zenon
  <2>4. ASSUME NEW k \in Pair, Multisig!AddSigner(k)
        PROVE  QuorumFine(quorum')
    <3>1. t <= Cardinality(S \cup {k})
      <4>1. /\ Cardinality(S) \in Nat /\ Cardinality(S \cup {k}) \in Nat
            /\ Cardinality(S \cup {k}) >= Cardinality(S)
        BY <1>q, QuorumCounts, Zenon
      <4> QED
        BY <1>q, <4>1
    <3>2. quorum' = [signers |-> S \cup {k}, threshold |-> t, cooldown |-> c, rotated |-> sequence]
      BY <1>q, <2>4 DEF Multisig!AddSigner
    <3>3. S \cup {k} \in SUBSET Pair
      BY <1>q
    <3> QED
      BY <1>0, <1>q, <1>f, <3>1, <3>2, <3>3, Zenon
  <2>5. ASSUME NEW k \in Pair, Multisig!RemoveSigner(k)
        PROVE  QuorumFine(quorum')
    <3>1. k \in S /\ Cardinality(S) - 1 >= t
      <4>1. quorum.signers = S /\ quorum.threshold = t
        BY <1>q
      <4>2. Multisig!Cardinality(S) = Cardinality(S)
        BY QuorumCards, Zenon
      <4> QED
        BY <2>5, <4>1, <4>2 DEF Multisig!RemoveSigner
    <3>2. t <= Cardinality(S \ {k})
      <4>1. Cardinality(S \ {k}) = Cardinality(S) - 1
        BY <1>q, <3>1, QuorumCounts, Zenon
      <4> QED
        BY <3>1, <4>1
    <3>3. quorum' = [signers |-> S \ {k}, threshold |-> t, cooldown |-> c, rotated |-> sequence]
      BY <1>q, <2>5 DEF Multisig!RemoveSigner
    <3>4. S \ {k} \in SUBSET Pair
      BY <1>q
    <3> QED
      BY <1>0, <1>q, <1>f, <3>2, <3>3, <3>4, Zenon
  <2>6. ASSUME NEW d, Multisig!SetRotationCooldown(d)
        PROVE  QuorumFine(quorum')
    <3>1. quorum' = [signers |-> S, threshold |-> t, cooldown |-> d, rotated |-> r]
      BY <1>q, <2>6 DEF Multisig!SetRotationCooldown
    <3> QED
      BY <1>q, <1>f, <3>1, Zenon
  <2> QED
    BY <2>1, <2>2, <2>3, <2>4, <2>5, <2>6, Zenon DEF Multisig!Next, Multisig!ApproveAction,
       Multisig!Submit, Multisig!ExecuteAction, Multisig!ConfigureAccount, Multisig!ConfigureTimelock,
       Multisig!CloseLedger, multisigPart
<1> QED
  BY <1>1, <1>2, Zenon DEF QuorumRest

LEMMA MultisigTyped == MultisigInv /\ QuorumRest => Multisig!TypeOK
<1> SUFFICES ASSUME MultisigInv, QuorumRest PROVE Multisig!TypeOK
  OBVIOUS
<1>1. ASSUME NEW a \in Treasuries
      PROVE  accounts[a].threshold \in 0..Multisig!Total(accounts[a].weights, Pair)
  BY <1>1, Zenon DEF QuorumRest, ThresholdMet
<1>2. \A a \in Treasuries : accounts[a].delay \in Delays \cup {Multisig!Unset}
  BY DEF MultisigInv, MultisigTypes
<1>3. \A p \in Proposed :
        /\ bundles[p].state \in {"none", "Pending", "Locked", "Executed"}
        /\ bundles[p].ready \in Nat /\ bundles[p].expiry \in Nat
  BY DEF MultisigInv, MultisigTypes
<1>4. /\ quorum.threshold <= Multisig!Cardinality(quorum.signers)
      /\ quorum.rotated = Multisig!Unset => quorum.signers = {}
  BY QuorumCards, Zenon DEF QuorumRest, QuorumFine
<1> QED
  BY <1>1, <1>2, <1>3, <1>4, Zenon DEF Multisig!TypeOK

-----------------------------------------------------------------------------
(* The bridge: caps, chains and amounts are the configured ones, and a window *)
(* does not start ahead of the clock.                                         *)

BridgeCaps == DailyCaps \cup {0}

BridgeRest ==
  /\ bridge.cap \in BridgeCaps /\ bridge.pending.cap \in BridgeCaps
  /\ bridge.start \in {Bridge!NotStarted} \cup 0..tick
  /\ bridge.chains \subseteq Foreign
  /\ \A id \in 1..Len(operations) : operations[id].amount \in Bridged

LEMMA BridgeRestStart == Bridge!Init => BridgeRest
BY DEF Bridge!Init, Bridge!NoPending, BridgeRest, BridgeCaps

\* What the types ask of the configuration v, with the clock at t.
BridgeFine(v, t) ==
  /\ v.cap \in BridgeCaps /\ v.pending.cap \in BridgeCaps
  /\ v.start \in {Bridge!NotStarted} \cup 0..t /\ v.chains \subseteq Foreign

\* One field of the configuration changes.
LEMMA BridgeSets ==
  ASSUME NEW v, BridgeRecord(v), NEW t, BridgeFine(v, t)
  PROVE  /\ \A x : BridgeFine([v EXCEPT !.paused = x], t)
         /\ \A x : BridgeFine([v EXCEPT !.delay = x], t)
         /\ \A x : BridgeFine([v EXCEPT !.locked = x], t)
         /\ \A x : BridgeFine([v EXCEPT !.burned = x], t)
         /\ \A x \in SUBSET Foreign : BridgeFine([v EXCEPT !.chains = x], t)
         /\ \A x \in BridgeCaps : BridgeFine([v EXCEPT !.cap = x], t)
         /\ \A x \in BridgeCaps : \A y : BridgeFine([v EXCEPT !.pending = [cap |-> x, after |-> y]], t)
         /\ BridgeFine([v EXCEPT !.cap = v.pending.cap, !.pending = Bridge!NoPending], t)
<1>0. DOMAIN v = {"paused", "chains", "locked", "minted", "burned", "cap", "delay", "pending",
                  "start", "volume"}
  BY DEF BridgeRecord
<1>1. /\ \A x : BridgeFine([v EXCEPT !.paused = x], t)
      /\ \A x : BridgeFine([v EXCEPT !.delay = x], t)
  BY <1>0 DEF BridgeFine
<1>2. /\ \A x : BridgeFine([v EXCEPT !.locked = x], t)
      /\ \A x : BridgeFine([v EXCEPT !.burned = x], t)
  BY <1>0 DEF BridgeFine
<1>3. ASSUME NEW x \in SUBSET Foreign PROVE BridgeFine([v EXCEPT !.chains = x], t)
  BY <1>0, <1>3 DEF BridgeFine
<1>4. ASSUME NEW x \in BridgeCaps PROVE BridgeFine([v EXCEPT !.cap = x], t)
  BY <1>0, <1>4 DEF BridgeFine
<1>5. ASSUME NEW x \in BridgeCaps, NEW y
      PROVE  BridgeFine([v EXCEPT !.pending = [cap |-> x, after |-> y]], t)
  BY <1>0, <1>5 DEF BridgeFine
<1>6. BridgeFine([v EXCEPT !.cap = v.pending.cap, !.pending = Bridge!NoPending], t)
  BY <1>0 DEF BridgeFine, Bridge!NoPending, BridgeCaps
<1> QED
  BY <1>1, <1>2, <1>3, <1>4, <1>5, <1>6, Zenon

LEMMA BridgeParts ==
  /\ BridgeInv /\ BridgeRest => BridgeRecord(bridge) /\ BridgeFine(bridge, tick)
  /\ BridgeRest /\ BridgeFine(bridge', tick) /\ UNCHANGED <<tick, operations>> => BridgeRest'
<1>1. BridgeInv /\ BridgeRest => BridgeRecord(bridge) /\ BridgeFine(bridge, tick)
  BY Zenon DEF BridgeInv, BridgeTypes, BridgeRest, BridgeFine
<1>2. BridgeRest /\ BridgeFine(bridge', tick) /\ UNCHANGED <<tick, operations>> => BridgeRest'
  BY Zenon DEF BridgeRest, BridgeFine
<1> QED
  BY <1>1, <1>2, Zenon

\* An operation is stored.
LEMMA BridgeStoresFine ==
  ASSUME BridgeInv, BridgeRest, NEW amount \in Bridged, NEW status,
         operations' = Append(operations, [amount |-> amount, status |-> status]),
         BridgeFine(bridge', tick), tick' = tick
  PROVE  BridgeRest'
<1>1. operations \in Seq([amount : Nat, status : {"locked", "burned", "completed"}])
  BY DEF BridgeInv, BridgeTypes
<1>2. PICK n \in Nat : n = Len(operations)
  BY <1>1
<1>3. Len(operations') = n + 1
  BY <1>1, <1>2
<1>4. ASSUME NEW id \in 1..(n + 1) PROVE operations'[id].amount \in Bridged
  <2>1. CASE id \in 1..n
    <3>1. operations'[id] = operations[id]
      BY <1>1, <1>2, <2>1
    <3> QED
      BY <1>2, <2>1, <3>1, Zenon DEF BridgeRest
  <2>2. CASE id = n + 1
    <3>1. operations'[id] = [amount |-> amount, status |-> status]
      BY <1>1, <1>2, <2>2
    <3>2. [amount |-> amount, status |-> status].amount = amount
      BY Zenon
    <3> QED
      BY <3>1, <3>2, Zenon
  <2>3. id \in 1..n \/ id = n + 1
    BY <1>2
  <2> QED
    BY <2>1, <2>2, <2>3, Zenon
<1> QED
  BY <1>3, <1>4, Zenon DEF BridgeRest, BridgeFine

LEMMA BridgeMinted ==
  ASSUME BridgeInv, BridgeRest, NEW id \in DOMAIN operations, Bridge!Mint(id)
  PROVE  BridgeRest'
<1>0. /\ operations \in Seq([amount : Nat, status : {"locked", "burned", "completed"}])
      /\ tick \in Nat
  BY DEF BridgeInv, BridgeTypes
<1>1. tick' = tick /\ operations' = [operations EXCEPT ![id].status = "completed"]
  BY Zenon DEF Bridge!Mint
<1>2. \/ \E m : bridge' = [bridge EXCEPT !.minted = m]
      \/ \E m, v : bridge' = [[bridge EXCEPT !.volume = v] EXCEPT !.minted = m]
      \/ \E m, v : \E s \in {bridge.start, tick} :
           bridge' = [[bridge EXCEPT !.volume = v, !.start = s] EXCEPT !.minted = m]
  <2>1. PICK m : bridge' = [Bridge!Recorded(operations[id].amount) EXCEPT !.minted = m]
    BY Zenon DEF Bridge!Mint
  <2>2. CASE Bridge!Recorded(operations[id].amount) = bridge
    BY <2>1, <2>2, Zenon
  <2>3. ASSUME Bridge!Recorded(operations[id].amount) # bridge
        PROVE  \E v : \E s \in {bridge.start, tick} :
                 Bridge!Recorded(operations[id].amount) = [bridge EXCEPT !.volume = v, !.start = s]
    BY <2>3, Zenon DEF Bridge!Recorded
  <2> QED
    BY <2>1, <2>2, <2>3, Zenon
<1>3. UNCHANGED <<bridge.cap, bridge.pending, bridge.chains>> /\ bridge'.start \in {bridge.start, tick}
  BY <1>2 DEF BridgeInv, BridgeTypes, BridgeRecord
<1>4. bridge'.start \in {Bridge!NotStarted} \cup 0..tick
  BY <1>0, <1>3 DEF BridgeRest
<1>5. Len(operations') = Len(operations)
  BY <1>0, <1>1
<1>6. ASSUME NEW j \in 1..Len(operations) PROVE operations'[j].amount = operations[j].amount
  BY <1>0, <1>1
<1> QED
  BY <1>1, <1>3, <1>4, <1>5, <1>6, Zenon DEF BridgeRest

LEMMA BridgeRestKept ==
  ASSUME BridgeInv, BridgeRest, [Bridge!Next]_bridgePart
  PROVE  BridgeRest'
<1>0. BridgeRecord(bridge) /\ BridgeFine(bridge, tick)
  BY BridgeParts, Zenon
<1>s. /\ \A x : BridgeFine([bridge EXCEPT !.paused = x], tick)
      /\ \A x : BridgeFine([bridge EXCEPT !.delay = x], tick)
      /\ \A x : BridgeFine([bridge EXCEPT !.locked = x], tick)
      /\ \A x : BridgeFine([bridge EXCEPT !.burned = x], tick)
      /\ \A x \in SUBSET Foreign : BridgeFine([bridge EXCEPT !.chains = x], tick)
      /\ \A x \in BridgeCaps : BridgeFine([bridge EXCEPT !.cap = x], tick)
      /\ \A x \in BridgeCaps : \A y :
           BridgeFine([bridge EXCEPT !.pending = [cap |-> x, after |-> y]], tick)
      /\ BridgeFine([bridge EXCEPT !.cap = bridge.pending.cap, !.pending = Bridge!NoPending], tick)
  BY <1>0, BridgeSets, Zenon
<1>r. ASSUME BridgeFine(bridge', tick), UNCHANGED <<tick, operations>> PROVE BridgeRest'
  BY <1>r, BridgeParts, Zenon
<1>1. CASE UNCHANGED bridgePart
  BY <1>0, <1>1, <1>r DEF bridgePart
<1>2. ASSUME NEW paused, Bridge!SetPaused(paused) PROVE BridgeRest'
  BY <1>2, <1>r, <1>s, Zenon DEF Bridge!SetPaused
<1>3. ASSUME NEW chain \in Foreign,
             Bridge!AddSupportedChain(chain) \/ Bridge!RemoveSupportedChain(chain)
      PROVE  BridgeRest'
  <2>1. PICK x \in SUBSET Foreign : bridge' = [bridge EXCEPT !.chains = x]
    <3>1. /\ bridge.chains \cup {chain} \in SUBSET Foreign
          /\ bridge.chains \ {chain} \in SUBSET Foreign
      BY DEF BridgeRest
    <3> QED
      BY <1>3, <3>1 DEF Bridge!AddSupportedChain, Bridge!RemoveSupportedChain
  <2>2. UNCHANGED <<tick, operations>>
    BY <1>3, Zenon DEF Bridge!AddSupportedChain, Bridge!RemoveSupportedChain
  <2>3. BridgeFine(bridge', tick)
    BY <1>s, <2>1, Zenon
  <2> QED
    BY <1>r, <2>2, <2>3, Zenon
<1>4. ASSUME NEW chain, NEW amount \in Bridged, Bridge!Lock(amount, chain) \/ Bridge!Burn(amount, chain)
      PROVE  BridgeRest'
  <2>1. PICK status : operations' = Append(operations, [amount |-> amount, status |-> status])
    BY <1>4, Zenon DEF Bridge!Lock, Bridge!Burn, Bridge!Store
  <2>2. tick' = tick
    BY <1>4, Zenon DEF Bridge!Lock, Bridge!Burn
  <2>3. PICK x : \/ bridge' = [bridge EXCEPT !.locked = x]
                 \/ bridge' = [bridge EXCEPT !.burned = x]
    BY <1>4, Zenon DEF Bridge!Lock, Bridge!Burn
  <2>4. BridgeFine(bridge', tick)
    BY <1>s, <2>3, Zenon
  <2> QED
    BY <2>1, <2>2, <2>4, BridgeStoresFine, Zenon
<1>5. ASSUME NEW cap \in DailyCaps, Bridge!SetDailyCap(cap) \/ Bridge!ProposeDailyCapIncrease(cap)
      PROVE  BridgeRest'
  <2>1. cap \in BridgeCaps
    BY DEF BridgeCaps
  <2>2. UNCHANGED <<tick, operations>>
    BY <1>5, Zenon DEF Bridge!SetDailyCap, Bridge!ProposeDailyCapIncrease
  <2>3. PICK y : \/ bridge' = [bridge EXCEPT !.cap = cap]
                 \/ bridge' = [bridge EXCEPT !.pending = [cap |-> cap, after |-> y]]
    BY <1>5, Zenon DEF Bridge!SetDailyCap, Bridge!ProposeDailyCapIncrease
  <2>4. /\ BridgeFine([bridge EXCEPT !.cap = cap], tick)
        /\ BridgeFine([bridge EXCEPT !.pending = [cap |-> cap, after |-> y]], tick)
    BY <1>s, <2>1, Zenon
  <2>5. BridgeFine(bridge', tick)
    BY <2>3, <2>4, Zenon
  <2> QED
    BY <1>r, <2>2, <2>5, Zenon
<1>6. CASE Bridge!ExecuteDailyCapIncrease
  BY <1>6, <1>r, <1>s, Zenon DEF Bridge!ExecuteDailyCapIncrease
<1>7. ASSUME NEW delay, Bridge!SetCapChangeDelay(delay) PROVE BridgeRest'
  BY <1>7, <1>r, <1>s, Zenon DEF Bridge!SetCapChangeDelay
<1>8. CASE Bridge!Tick
  <2>1. tick \in Nat
    BY DEF BridgeInv, BridgeTypes
  <2>2. tick' = tick + 1 /\ UNCHANGED <<bridge, operations>>
    BY <1>8, Zenon DEF Bridge!Tick
  <2>3. 0..tick \subseteq 0..tick'
    BY <2>1, <2>2
  <2> QED
    BY <2>2, <2>3 DEF BridgeRest
<1> QED
  BY <1>1, <1>2, <1>3, <1>4, <1>5, <1>6, <1>7, <1>8, BridgeMinted, Zenon DEF Bridge!Next

LEMMA BridgeTyped == BridgeInv /\ BridgeRest => Bridge!TypeOK
<1> SUFFICES ASSUME BridgeInv, BridgeRest PROVE Bridge!TypeOK
  OBVIOUS
<1>1. operations \in Seq([amount : Nat, status : {"locked", "burned", "completed"}])
  BY DEF BridgeInv, BridgeTypes
<1>2. DOMAIN operations = 1..Len(operations)
  BY <1>1
<1>3. ASSUME NEW id \in 1..Len(operations)
      PROVE  operations[id].status \in {"locked", "burned", "completed"}
  <2>1. operations[id] \in [amount : Nat, status : {"locked", "burned", "completed"}]
    BY <1>1, <1>3, OperationOf, Zenon
  <2> QED
    BY <2>1
<1>4. {bridge.cap, bridge.pending.cap} \subseteq DailyCaps \cup {0}
  BY DEF BridgeRest, BridgeCaps
<1> QED
  BY <1>2, <1>3, <1>4, Zenon DEF BridgeRest, Bridge!TypeOK

-----------------------------------------------------------------------------
(* Every part together.                                                       *)

\* The invariant of the part that was picked, and what its types ask beyond it.
Typed ==
  /\ part = "audit" => AuditInv
  /\ part = "index" => IndexInv
  /\ part = "desk" => DeskInv
  /\ part = "idempotency" => IdemInv
  /\ part = "hook" => HookInv /\ HookRest
  /\ part = "stop" => StopInv
  /\ part = "fees" => FeeInv /\ FeeRest
  /\ part = "vault" => VaultInv /\ VaultRest
  /\ part = "staking" => StakeInv /\ StakeRest
  /\ part = "governance" => CommitteeInv /\ CommitteeRest
  /\ part = "escrow" => EscrowInv
  /\ part = "multisig" => MultisigInv /\ QuorumRest
  /\ part = "bridge" => BridgeInv /\ BridgeRest
  /\ part = "rpc" => RpcInv
  /\ part = "erasure" => EraseInv
  /\ part = "wallet" => WalletInv
  /\ part = "flow" => FlowP!FlowInv
  /\ part = "resubmit" => AgainP!FlowInv

LEMMA VaultInvStart == VaultAssumption /\ Vault!Init => VaultInv
BY DEF VaultAssumption, Vault!Init, VaultInv, VaultTotals

LEMMA TypedStart == Init => Typed
<1> SUFFICES ASSUME Init PROVE Typed
  OBVIOUS
<1>0. FlowP!EnvelopesAreNamed /\ AgainP!EnvelopesAreNamed
  BY WalletAssumption DEF FlowP!EnvelopesAreNamed, AgainP!EnvelopesAreNamed, FlowP!None, AgainP!None
<1>i. /\ Audit!Init /\ Index!Init /\ Desk!Init /\ Idem!Init /\ Hook!Init /\ Stop!Init
      /\ Fees!Init /\ Vault!Init /\ Staking!Init /\ Committee!Init /\ Goal!Init
      /\ Multisig!Init /\ Bridge!Init /\ Rpc!Init /\ Erase!Init /\ Wallet!Init
      /\ part = "flow" => Flow!Init
      /\ part = "resubmit" => Again!Init
  BY Zenon DEF Init
<1>1. part = "audit" => AuditInv
  BY <1>i, AuditStarts, ComponentAssumption, Zenon
<1>2. part = "index" => IndexInv
  BY <1>i, IndexStarts, IndexAssumption, Zenon
<1>3. part = "desk" => DeskInv
  BY <1>i, DeskStart, DeskAssumption, Zenon
<1>4. part = "idempotency" => IdemInv
  BY <1>i, IdemStart, Zenon
<1>5. part = "hook" => HookInv /\ HookRest
  BY <1>i, HookStart, HookRestStart, LimitsAssumption, Zenon
<1>6. part = "stop" => StopInv
  BY <1>i, StopStart, Zenon
<1>7. part = "fees" => FeeInv /\ FeeRest
  BY <1>i, FeeStart, FeeRestStart, FeeAssumption, LimitsAssumption, Zenon
<1>8. part = "vault" => VaultInv /\ VaultRest
  BY <1>i, VaultInvStart, VaultRestStart, VaultAssumption, Zenon
<1>9. part = "staking" => StakeInv /\ StakeRest
  BY <1>i, StakingStart, StakeRestStart, StakingAssumption, Zenon
<1>10. part = "governance" => CommitteeInv /\ CommitteeRest
  BY <1>i, CommitteeStart, CommitteeRestStart, CommitteeAssumption, Zenon
<1>11. part = "escrow" => EscrowInv
  BY <1>i, EscrowStarts, FeeAssumption, SavingsAssumption, Zenon
<1>12. part = "multisig" => MultisigInv /\ QuorumRest
  BY <1>i, MultisigStart, QuorumRestStart, ComponentAssumption, FeeAssumption, Zenon
<1>13. part = "bridge" => BridgeInv /\ BridgeRest
  BY <1>i, BridgeStart, BridgeRestStart, Zenon
<1>14. part = "rpc" => RpcInv
  BY <1>i, RpcStart, ComponentAssumption, Zenon
<1>15. part = "erasure" => EraseInv
  BY <1>i, EraseStart, ComponentAssumption, Zenon
<1>16. part = "wallet" => WalletInv
  BY <1>i, WalletStart, WalletAssumption, Zenon
<1>17. part = "flow" => FlowP!FlowInv
  BY <1>i, FlowKept, <1>0, Zenon
<1>18. part = "resubmit" => AgainP!FlowInv
  BY <1>i, AgainKept, <1>0, Zenon
<1> QED
  BY <1>1, <1>2, <1>3, <1>4, <1>5, <1>6, <1>7, <1>8, <1>9,
     <1>10, <1>11, <1>12, <1>13, <1>14, <1>15, <1>16, <1>17, <1>18, Zenon DEF Typed

LEMMA TypedStep ==
  ASSUME Typed, [Next]_allVars
  PROVE  Typed'
<1>0. FlowP!EnvelopesAreNamed /\ AgainP!EnvelopesAreNamed
  BY WalletAssumption DEF FlowP!EnvelopesAreNamed, AgainP!EnvelopesAreNamed, FlowP!None, AgainP!None
<1>1. ASSUME part' = "audit" PROVE AuditInv'
  <2>1. /\ AuditInv
        /\ [Audit!Next]_auditPart
    BY <1>1, StepsOfServices, Zenon DEF Typed
  <2> QED
    BY <2>1, AuditKept, ComponentAssumption, Zenon
<1>2. ASSUME part' = "index" PROVE IndexInv'
  <2>1. /\ IndexInv
        /\ [Index!Next]_indexPart
    BY <1>2, StepsOfServices, Zenon DEF Typed
  <2> QED
    BY <2>1, IndexKept, IndexAssumption, Zenon
<1>3. ASSUME part' = "desk" PROVE DeskInv'
  <2>1. /\ DeskInv
        /\ [Desk!Next]_deskPart
    BY <1>3, StepsOfServices, Zenon DEF Typed
  <2> QED
    BY <2>1, DeskStep, DeskAssumption, Zenon
<1>4. ASSUME part' = "idempotency" PROVE IdemInv'
  <2>1. /\ IdemInv
        /\ [Idem!Next]_idemPart
    BY <1>4, StepsOfServices, Zenon DEF Typed
  <2> QED
    BY <2>1, IdemStep, ComponentAssumption, Zenon
<1>5. ASSUME part' = "hook" PROVE HookInv' /\ HookRest'
  <2>1. /\ HookInv /\ HookRest
        /\ [Hook!Next]_hookPart
    BY <1>5, StepsOfServices, Zenon DEF Typed
  <2> QED
    BY <2>1, HookStep, HookRestKept, LimitsAssumption, Zenon
<1>6. ASSUME part' = "stop" PROVE StopInv'
  <2>1. /\ StopInv
        /\ [Stop!Next]_stopPart
    BY <1>6, StepsOfServices, Zenon DEF Typed
  <2> QED
    BY <2>1, StopStep, ComponentAssumption, Zenon
<1>7. ASSUME part' = "fees" PROVE FeeInv' /\ FeeRest'
  <2>1. /\ FeeInv /\ FeeRest
        /\ [Fees!Next]_feesPart
    BY <1>7, StepsOfServices, Zenon DEF Typed
  <2> QED
    BY <2>1, FeeStep, FeeRestKept, FeeAssumption, LimitsAssumption, Zenon
<1>8. ASSUME part' = "vault" PROVE VaultInv' /\ VaultRest'
  <2>1. /\ VaultInv /\ VaultRest
        /\ [Vault!Next]_vaultPart
    BY <1>8, StepsOfContracts, Zenon DEF Typed
  <2> QED
    BY <2>1, VaultStep, VaultRestKept, VaultAssumption, Zenon
<1>9. ASSUME part' = "staking" PROVE StakeInv' /\ StakeRest'
  <2>1. /\ StakeInv /\ StakeRest
        /\ [Staking!Next]_stakingPart
    BY <1>9, StepsOfContracts, Zenon DEF Typed
  <2> QED
    BY <2>1, StakeStep, StakeRestKept, StakingAssumption, Zenon
<1>10. ASSUME part' = "governance" PROVE CommitteeInv' /\ CommitteeRest'
  <2>1. /\ CommitteeInv /\ CommitteeRest
        /\ [Committee!Next]_governancePart
    BY <1>10, StepsOfContracts, Zenon DEF Typed
  <2> QED
    BY <2>1, CommitteeStep, CommitteeRestKept, CommitteeAssumption, Zenon
<1>11. ASSUME part' = "escrow" PROVE EscrowInv'
  <2>1. /\ EscrowInv
        /\ [Goal!Next]_escrowPart
    BY <1>11, StepsOfContracts, Zenon DEF Typed
  <2> QED
    BY <2>1, EscrowKept, FeeAssumption, SavingsAssumption, Zenon
<1>12. ASSUME part' = "multisig" PROVE MultisigInv' /\ QuorumRest'
  <2>1. /\ MultisigInv /\ QuorumRest
        /\ [Multisig!Next]_multisigPart
    BY <1>12, StepsOfContracts, Zenon DEF Typed
  <2> QED
    BY <2>1, MultisigStep, QuorumRestKept, ComponentAssumption, FeeAssumption, Zenon
<1>13. ASSUME part' = "bridge" PROVE BridgeInv' /\ BridgeRest'
  <2>1. /\ BridgeInv /\ BridgeRest
        /\ [Bridge!Next]_bridgePart
    BY <1>13, StepsOfContracts, Zenon DEF Typed
  <2> QED
    BY <2>1, BridgeStep, BridgeRestKept, BridgeAssumption, Zenon
<1>14. ASSUME part' = "rpc" PROVE RpcInv'
  <2>1. /\ RpcInv
        /\ [Rpc!Next]_rpcPart
    BY <1>14, StepsOfServices, Zenon DEF Typed
  <2> QED
    BY <2>1, RpcStep, ComponentAssumption, Zenon
<1>15. ASSUME part' = "erasure" PROVE EraseInv'
  <2>1. /\ EraseInv
        /\ [Erase!Next]_erasurePart
    BY <1>15, StepsOfServices, Zenon DEF Typed
  <2> QED
    BY <2>1, EraseStep, ComponentAssumption, Zenon
<1>16. ASSUME part' = "wallet" PROVE WalletInv'
  <2>1. /\ WalletInv
        /\ [Wallet!Next]_walletPart
    BY <1>16, StepsOfServices, Zenon DEF Typed
  <2> QED
    BY <2>1, WalletStep, WalletAssumption, Zenon
<1>17. ASSUME part' = "flow" PROVE FlowP!FlowInv'
  <2>1. /\ FlowP!FlowInv
        /\ [Flow!Next]_flowPart
    BY <1>17, StepsOfServices, Zenon DEF Typed
  <2> QED
    BY <2>1, FlowKept, <1>0, Zenon
<1>18. ASSUME part' = "resubmit" PROVE AgainP!FlowInv'
  <2>1. /\ AgainP!FlowInv
        /\ [Again!Next]_flowPart
    BY <1>18, StepsOfServices, Zenon DEF Typed
  <2> QED
    BY <2>1, AgainKept, <1>0, Zenon
<1> QED
  BY <1>1, <1>2, <1>3, <1>4, <1>5, <1>6, <1>7, <1>8, <1>9,
     <1>10, <1>11, <1>12, <1>13, <1>14, <1>15, <1>16, <1>17, <1>18, Zenon DEF Typed

LEMMA TypedShown == Typed => TypeOK
<1> SUFFICES ASSUME Typed PROVE TypeOK
  OBVIOUS
<1>1. part = "audit" => Audit!TypeOK
  BY AuditTyped, Zenon DEF Typed
<1>2. part = "index" => Index!TypeOK
  BY ServicesTyped, Zenon DEF Typed
<1>3. part = "desk" => Desk!TypeOK
  BY DeskTyped, Zenon DEF Typed
<1>4. part = "idempotency" => Idem!TypeOK
  BY ServicesTyped, Zenon DEF Typed
<1>5. part = "hook" => Hook!TypeOK
  BY HookTyped, Zenon DEF Typed
<1>6. part = "stop" => Stop!TypeOK
  BY ServicesTyped, Zenon DEF Typed
<1>7. part = "fees" => Fees!TypeOK
  BY FeesTyped, FeeAssumption, Zenon DEF Typed
<1>8. part = "vault" => Vault!TypeOK
  BY VaultTyped, Zenon DEF Typed
<1>9. part = "staking" => Staking!TypeOK
  BY StakingTyped, Zenon DEF Typed
<1>10. part = "governance" => Committee!TypeOK
  BY CommitteeTyped, Zenon DEF Typed
<1>11. part = "escrow" => Goal!TypeOK
  BY EscrowTyped, SavingsAssumption, Zenon DEF Typed
<1>12. part = "multisig" => Multisig!TypeOK
  BY MultisigTyped, Zenon DEF Typed
<1>13. part = "bridge" => Bridge!TypeOK
  BY BridgeTyped, Zenon DEF Typed
<1>14. part = "rpc" => Rpc!TypeOK
  BY ServicesTyped, Zenon DEF Typed
<1>15. part = "erasure" => Erase!TypeOK
  BY ServicesTyped, Zenon DEF Typed
<1>16. part = "wallet" => Wallet!TypeOK
  BY WalletTyped, WalletAssumption, Zenon DEF Typed
<1>17. part = "flow" => Flow!TypeOK
  BY FlowTyped, Zenon DEF Typed
<1>18. part = "resubmit" => Again!TypeOK
  BY FlowTyped, Zenon DEF Typed
<1> QED
  BY <1>1, <1>2, <1>3, <1>4, <1>5, <1>6, <1>7, <1>8, <1>9,
     <1>10, <1>11, <1>12, <1>13, <1>14, <1>15, <1>16, <1>17, <1>18, Zenon DEF TypeOK

\* Every part keeps its types, for every value of the constants: the code declares its
\* records and enumerations (TypeScript interfaces, Rust structs and enums) and no
\* handler stores a value outside them, whatever calls overlap and in whatever order.
THEOREM TypesTheorem == Spec => []TypeOK
BY TypedStart, TypedStep, TypedShown, PTL DEF Spec
=============================================================================
