--------------------------- MODULE ContractProofs ---------------------------
(***************************************************************************)
(* Proofs about the contracts that are modelled one module each: the       *)
(* multisig validator, the yield vault, the governance, the staking pool,  *)
(* the bridge adapter and the savings escrow, with the inductive           *)
(* invariants MultisigInv, VaultInv, CommitteeInv, StakeInv, BridgeInv and *)
(* EscrowInv.                                                              *)
(***************************************************************************)
EXTENDS MCComponents, Induction

\* What a step does to the contract that was picked, and that it picks no other.
LEMMA StepsOfContracts ==
  ASSUME [Next]_allVars
  PROVE  /\ part' = part
         /\ part = "escrow" => [Goal!Next]_escrowPart
         /\ part = "governance" => [Committee!Next]_governancePart
         /\ part = "staking" => [Staking!Next]_stakingPart
         /\ part = "bridge" => [Bridge!Next]_bridgePart
         /\ part = "vault" => [Vault!Next]_vaultPart
         /\ part # "vault" => UNCHANGED vaultPart
         /\ part = "multisig" => [Multisig!Next]_multisigPart
         /\ part # "multisig" => UNCHANGED multisigPart
<1>1. CASE UNCHANGED allVars
  BY <1>1 DEF allVars
<1>2. CASE Next
  BY <1>2, Zenon DEF Next, Only
<1> QED
  BY <1>1, <1>2

-----------------------------------------------------------------------------
(* The multisig validator: what is executed is what was approved.          *)

\* The clock, the timelocks and the proposals.
MultisigTypes ==
  /\ sequence \in Nat
  /\ accounts \in [Treasuries -> [weights : [Pair -> 0..KeyWeight], threshold : Int,
                                  delay : Delays \cup {Multisig!Unset}]]
  /\ bundles \in [Proposed -> [state : {"none", "Pending", "Locked", "Executed"}, ready : Nat,
                               expiry : Nat, actions : Bundled \cup {"none"}]]
  /\ agreed \in [Proposed -> [actions : Bundled \cup {"none"}, from : Nat \cup {Multisig!Unset}]]

\* A locked proposal holds the actions that were agreed to and waits as long.
LockedAsAgreed(p) ==
  bundles[p].state = "Locked" =>
    /\ bundles[p].actions = agreed[p].actions
    /\ bundles[p].ready = agreed[p].from

MultisigInv == MultisigTypes /\ \A p \in Proposed : LockedAsAgreed(p)

LEMMA MultisigStart == ComponentAssumption /\ Multisig!Init => MultisigInv
BY DEF ComponentAssumption, Multisig!Init, Multisig!Unset, MultisigInv, MultisigTypes, LockedAsAgreed

LEMMA MultisigSubmit ==
  ASSUME ComponentAssumption, MultisigInv, NEW p \in Proposed, NEW actions \in Bundled,
         NEW expiry \in 0..LastSequence, Multisig!Submit(p, actions, expiry)
  PROVE  MultisigInv'
<1>1. PICK last \in Nat : last = IF expiry = 0 THEN sequence + Lifetime ELSE expiry
  BY DEF ComponentAssumption, MultisigInv, MultisigTypes
<1> DEFINE b == [state |-> "Pending", ready |-> 0, actions |-> actions, expiry |-> last]
           g == [actions |-> "none", from |-> Multisig!Unset]
<1>2. /\ bundles' = [bundles EXCEPT ![p] = b] /\ agreed' = [agreed EXCEPT ![p] = g]
      /\ UNCHANGED <<sequence, accounts, quorum>>
  BY <1>1 DEF Multisig!Submit
<1>3. b.state = "Pending" /\ b \in [state : {"none", "Pending", "Locked", "Executed"}, ready : Nat,
                               expiry : Nat, actions : Bundled \cup {"none"}]
      /\ g \in [actions : Bundled \cup {"none"}, from : Nat \cup {Multisig!Unset}]
  BY <1>1
<1> HIDE DEF b, g
<1>4. MultisigTypes'
  BY <1>2, <1>3 DEF MultisigInv, MultisigTypes
<1>5. ASSUME NEW q \in Proposed PROVE LockedAsAgreed(q)'
  <2>1. /\ q = p => bundles'[q] = b
        /\ q # p => bundles'[q] = bundles[q] /\ agreed'[q] = agreed[q]
    BY <1>2 DEF MultisigInv, MultisigTypes
  <2> QED
    BY <1>3, <2>1 DEF MultisigInv, LockedAsAgreed
<1> QED
  BY <1>4, <1>5 DEF MultisigInv

LEMMA MultisigApprove ==
  ASSUME ComponentAssumption, MultisigInv, NEW a \in Treasuries, NEW p \in Proposed,
         NEW keys \in SUBSET Pair, Multisig!ApproveAction(a, p, keys)
  PROVE  MultisigInv'
<1>1. PICK ready \in Nat : ready = sequence + accounts[a].delay
  BY DEF ComponentAssumption, MultisigInv, MultisigTypes, Multisig!ApproveAction, Multisig!Unset
<1> DEFINE g == [actions |-> bundles[p].actions, from |-> ready]
<1>2. /\ bundles' = [bundles EXCEPT ![p].state = "Locked", ![p].ready = ready]
      /\ agreed' = [agreed EXCEPT ![p] = g]
      /\ UNCHANGED <<sequence, accounts, quorum>>
  BY <1>1 DEF Multisig!ApproveAction
<1>3. /\ g \in [actions : Bundled \cup {"none"}, from : Nat \cup {Multisig!Unset}]
      /\ g.actions = bundles[p].actions /\ g.from = ready
  BY <1>1 DEF MultisigInv, MultisigTypes
<1> HIDE DEF g
<1>4. MultisigTypes'
  <2> DEFINE B == [state : {"none", "Pending", "Locked", "Executed"}, ready : Nat,
                   expiry : Nat, actions : Bundled \cup {"none"}]
  <2>1. bundles \in [Proposed -> B]
    BY DEF MultisigInv, MultisigTypes
  <2>2. PICK b \in B : b = [bundles[p] EXCEPT !.state = "Locked", !.ready = ready]
    BY <2>1
  <2>3. bundles' = [bundles EXCEPT ![p] = b]
    BY <1>2, <2>1, <2>2
  <2>4. bundles' \in [Proposed -> B]
    BY <2>1, <2>3
  <2> QED
    BY <1>2, <1>3, <2>4 DEF MultisigInv, MultisigTypes
<1>5. ASSUME NEW q \in Proposed PROVE LockedAsAgreed(q)'
  <2>1. /\ q = p => /\ bundles'[q].actions = bundles[p].actions
                    /\ bundles'[q].ready = ready /\ agreed'[q] = g
        /\ q # p => bundles'[q] = bundles[q] /\ agreed'[q] = agreed[q]
    BY <1>2 DEF MultisigInv, MultisigTypes
  <2> QED
    BY <1>3, <2>1 DEF MultisigInv, LockedAsAgreed
<1> QED
  BY <1>4, <1>5 DEF MultisigInv

LEMMA MultisigExecute ==
  ASSUME MultisigInv, NEW p \in Proposed, Multisig!ExecuteAction(p)
  PROVE  MultisigInv'
<1>1. /\ bundles' = [bundles EXCEPT ![p].state = "Executed"]
      /\ UNCHANGED <<sequence, accounts, quorum, agreed>>
  BY DEF Multisig!ExecuteAction
<1>2. MultisigTypes'
  BY <1>1 DEF MultisigInv, MultisigTypes
<1>3. \A q \in Proposed : /\ q = p => bundles'[q].state = "Executed"
                         /\ q # p => bundles'[q] = bundles[q]
  BY <1>1 DEF MultisigInv, MultisigTypes
<1> QED
  BY <1>1, <1>2, <1>3 DEF MultisigInv, LockedAsAgreed

\* The accounts and the admin's signer set change; the proposals do not.
LEMMA MultisigRest ==
  ASSUME ComponentAssumption, MultisigInv, UNCHANGED <<bundles, agreed>>,
         sequence' \in Nat,
         accounts' \in [Treasuries -> [weights : [Pair -> 0..KeyWeight], threshold : Int,
                                        delay : Delays \cup {Multisig!Unset}]]
  PROVE  MultisigInv'
BY DEF MultisigInv, MultisigTypes, LockedAsAgreed

LEMMA MultisigStep ==
  ASSUME ComponentAssumption, MultisigInv, [Multisig!Next]_multisigPart
  PROVE  MultisigInv'
<1> DEFINE A == [Treasuries -> [weights : [Pair -> 0..KeyWeight], threshold : Int,
                               delay : Delays \cup {Multisig!Unset}]]
<1>0. accounts \in A /\ sequence \in Nat
  BY DEF MultisigInv, MultisigTypes
<1>1. ASSUME NEW a \in Treasuries, NEW weights \in [Pair -> 0..KeyWeight], NEW threshold,
             Multisig!ConfigureAccount(a, weights, threshold)
      PROVE  MultisigInv'
  <2>1. /\ accounts' = [accounts EXCEPT ![a].weights = weights, ![a].threshold = threshold]
        /\ UNCHANGED <<sequence, bundles, agreed>> /\ threshold \in Int
    BY <1>1 DEF Multisig!ConfigureAccount
  <2>2. accounts' \in A
    BY <1>0, <2>1
  <2> QED
    BY <1>0, <2>1, <2>2, MultisigRest
<1>2. ASSUME NEW a \in Treasuries, NEW delay \in Delays, Multisig!ConfigureTimelock(a, delay)
      PROVE  MultisigInv'
  <2>1. /\ accounts' = [accounts EXCEPT ![a].delay = delay]
        /\ UNCHANGED <<sequence, bundles, agreed>>
    BY <1>2 DEF Multisig!ConfigureTimelock
  <2>2. accounts' \in A
    BY <1>0, <2>1
  <2> QED
    BY <1>0, <2>1, <2>2, MultisigRest
<1>3. ASSUME \/ \E set, threshold : Multisig!ConfigureSigners(set, threshold)
             \/ \E threshold : Multisig!SetThreshold(threshold)
             \/ \E k : Multisig!AddSigner(k) \/ Multisig!RemoveSigner(k)
             \/ \E cooldown : Multisig!SetRotationCooldown(cooldown)
             \/ Multisig!CloseLedger \/ UNCHANGED multisigPart
      PROVE  MultisigInv'
  <2>1. /\ UNCHANGED <<accounts, bundles, agreed>>
        /\ sequence' = sequence \/ sequence' = sequence + 1
    BY <1>3 DEF Multisig!ConfigureSigners, Multisig!SetThreshold, Multisig!AddSigner,
       Multisig!RemoveSigner, Multisig!SetRotationCooldown, Multisig!CloseLedger, multisigPart
  <2> QED
    BY <1>0, <2>1, MultisigRest
<1> QED
  BY <1>1, <1>2, <1>3, MultisigSubmit, MultisigApprove, MultisigExecute, Zenon DEF Multisig!Next

\* A proposal executes what was approved, neither before the delay in force then
\* nor after its expiry, for any accounts, keys, weights and delays, whatever is
\* resubmitted, approved again or reconfigured in between (execute_action of the
\* multisig validator).
THEOREM MultisigTheorem == Spec => ExecutedAsAgreed
<1> DEFINE Inv == part = "multisig" => MultisigInv
           Agreed == \A p \in Proposed :
             bundles[p].state # "Executed" /\ bundles'[p].state = "Executed" =>
               /\ bundles[p].actions = agreed[p].actions
               /\ agreed[p].from # Multisig!Unset /\ sequence >= agreed[p].from
               /\ sequence <= bundles[p].expiry
<1>1. Init => Inv
  BY MultisigStart, ComponentAssumption, Zenon DEF Init
<1>2. Inv /\ [Next]_allVars => Inv'
  <2> SUFFICES ASSUME Inv, [Next]_allVars, part' = "multisig" PROVE MultisigInv'
    BY Zenon
  <2>1. part = "multisig" /\ [Multisig!Next]_multisigPart
    BY StepsOfContracts, Zenon
  <2> QED
    BY <2>1, MultisigStep, ComponentAssumption
<1>3. ASSUME MultisigInv, [Multisig!Next]_multisigPart, NEW p \in Proposed,
             bundles[p].state # "Executed", bundles'[p].state = "Executed"
      PROVE  /\ bundles[p].actions = agreed[p].actions
             /\ agreed[p].from # Multisig!Unset /\ sequence >= agreed[p].from
             /\ sequence <= bundles[p].expiry
  <2>0. bundles' # bundles
    BY <1>3
  <2>1. CASE Multisig!ExecuteAction(p)
    <3>1. /\ bundles[p].state = "Locked" /\ ~(sequence > bundles[p].expiry)
          /\ sequence >= bundles[p].ready
      BY <2>1 DEF Multisig!ExecuteAction, Multisig!IsExpired
    <3>2. /\ bundles[p].actions = agreed[p].actions /\ bundles[p].ready = agreed[p].from
          /\ sequence \in Nat /\ bundles[p].ready \in Nat /\ bundles[p].expiry \in Nat
      BY <1>3, <3>1 DEF MultisigInv, MultisigTypes, LockedAsAgreed
    <3> QED
      BY <3>1, <3>2 DEF Multisig!Unset
  <2>2. ASSUME NEW q \in Proposed, Multisig!ExecuteAction(q), q # p PROVE FALSE
    BY <1>3, <2>2 DEF Multisig!ExecuteAction, MultisigInv, MultisigTypes
  <2>3. ASSUME NEW q \in Proposed, NEW actions, NEW expiry, Multisig!Submit(q, actions, expiry)
        PROVE  FALSE
    BY <1>3, <2>3 DEF Multisig!Submit, MultisigInv, MultisigTypes
  <2>4. ASSUME NEW a, NEW q \in Proposed, NEW keys, Multisig!ApproveAction(a, q, keys)
        PROVE  FALSE
    BY <1>3, <2>4 DEF Multisig!ApproveAction, MultisigInv, MultisigTypes
  <2>5. \/ \E q \in Proposed : Multisig!ExecuteAction(q)
        \/ \E actions, expiry : \E q \in Proposed : Multisig!Submit(q, actions, expiry)
        \/ \E a, keys : \E q \in Proposed : Multisig!ApproveAction(a, q, keys)
    BY <1>3, <2>0, Zenon DEF Multisig!Next, Multisig!ConfigureAccount, Multisig!ConfigureTimelock,
       Multisig!ConfigureSigners, Multisig!SetThreshold, Multisig!AddSigner,
       Multisig!RemoveSigner, Multisig!SetRotationCooldown, Multisig!CloseLedger, multisigPart
  <2> QED
    BY <2>1, <2>2, <2>3, <2>4, <2>5, Zenon
<1>4. Inv /\ [Next]_allVars => [Agreed]_(Multisig!msVars)
  <2> SUFFICES ASSUME Inv, [Next]_allVars PROVE Agreed \/ UNCHANGED multisigPart
    BY Zenon DEF Multisig!msVars, multisigPart
  <2>1. CASE part = "multisig"
    <3>1. MultisigInv /\ [Multisig!Next]_multisigPart
      BY <2>1, StepsOfContracts, Zenon
    <3>2. Agreed
      BY <1>3, <3>1, Zenon
    <3> QED
      BY <3>2
  <2>2. CASE part # "multisig"
    BY <2>2, StepsOfContracts, Zenon
  <2> QED
    BY <2>1, <2>2
<1> QED
  BY <1>1, <1>2, <1>4, PTL DEF Spec, ExecutedAsAgreed, Multisig!ExecutedAsAgreed

-----------------------------------------------------------------------------
(* The yield vault: nobody's call lowers what a share of the others is      *)
(* worth.                                                                   *)

\* The totals, of which the liquidity and the threshold may be anything.
VaultTotals(v) ==
  v \in [shares : Nat, assets : Nat, last : 0..VaultEnd,
         liquidity : {v.liquidity}, threshold : {v.threshold}]

VaultInv ==
  /\ ledger \in 0..VaultEnd
  /\ VaultTotals(vault) /\ vault.last <= ledger
  /\ held \in [Pair -> Nat]

\* Whole divisions lose less than one: the quotient times the divisor is not
\* above the dividend.
LEMMA Quotient ==
  ASSUME NEW x \in Nat, NEW d \in Nat \ {0}
  PROVE  /\ x \div d \in Nat
         /\ (x \div d) * d <= x
         /\ x \div d <= x
<1> DEFINE q == x \div d
<1>1. q \in Nat /\ q * d <= x
  OBVIOUS
<1> HIDE DEF q
<1>2. q <= q * d
  BY <1>1
<1>3. q * d \in Nat
  BY <1>1
<1>4. q <= x
  BY <1>1, <1>2, <1>3
<1> QED
  BY <1>1, <1>4 DEF q

LEMMA Monotone ==
  ASSUME NEW a \in Nat, NEW b \in Nat, NEW c \in Nat, a <= b
  PROVE  a * c <= b * c /\ a * c \in Nat /\ b * c \in Nat /\ a * c = c * a
OBVIOUS

\* Growth by a factor of at least one.
LEMMA Grows ==
  ASSUME NEW a \in Nat, NEW f \in Nat, NEW s \in Nat \ {0}, f >= s
  PROVE  (a * f) \div s \in Nat /\ (a * f) \div s >= a
<1>1. PICK k \in Nat : f = s + k
  <2> f - s \in Nat /\ f = s + (f - s)
    OBVIOUS
  <2> QED
    OBVIOUS
<1>2. a * f = a * s + a * k
  BY <1>1
<1>3. a * k \in Nat /\ a * s \in Nat
  OBVIOUS
<1> DEFINE q == (a * f) \div s
<1>4. a * f \in Nat
  OBVIOUS
<1>5. q \in Nat /\ a * f < (q + 1) * s
  BY <1>4
<1> HIDE DEF q
<1>6. a * s < (q + 1) * s
  BY <1>2, <1>3, <1>5
<1>7. ASSUME q < a PROVE FALSE
  <2>1. (q + 1) * s <= a * s
    BY <1>5, <1>7, Monotone
  <2> QED
    BY <1>3, <1>5, <1>6, <2>1
<1> QED
  BY <1>5, <1>7 DEF q

\* Shares minted for an amount at the price of the vault, rounded down, do not
\* lower the price: the vault had s shares of b assets, which were a before interest.
LEMMA MintKeepsPrice ==
  ASSUME NEW a \in Nat, NEW b \in Nat, NEW s \in Nat \ {0}, NEW n \in Nat, NEW m \in Nat,
         a <= b, b = 0 \/ m = (n * s) \div b
  PROVE  (b + n) * s >= a * (s + m)
<1>1. a * s \in Nat /\ b * s \in Nat /\ n * s \in Nat /\ a * m \in Nat /\ b * m \in Nat
      /\ a * s <= b * s /\ a * m <= b * m /\ b * m = m * b
  BY Monotone
<1>2. (b + n) * s = b * s + n * s /\ a * (s + m) = a * s + a * m
  OBVIOUS
<1>3. b * m <= n * s
  <2>1. CASE b = 0
    BY <1>1, <2>1
  <2>2. CASE b # 0
    BY <1>1, <2>2, Quotient
  <2> QED
    BY <2>1, <2>2
<1> QED
  BY <1>1, <1>2, <1>3

\* Nor do n shares that are burned for their part of the assets, rounded down.
LEMMA BurnKeepsPrice ==
  ASSUME NEW a \in Nat, NEW b \in Nat, NEW s \in Nat \ {0}, NEW n \in 0..s, a <= b
  PROVE  /\ s - n \in Nat /\ b - (n * b) \div s \in Nat
         /\ (b - (n * b) \div s) * s >= a * (s - n)
<1> DEFINE q == (n * b) \div s
<1>1. n * b \in Nat /\ b * s \in Nat /\ a * s \in Nat /\ b * n \in Nat /\ a * n \in Nat
      /\ n * b = b * n /\ s - n \in Nat
  OBVIOUS
<1>2. q \in Nat /\ q * s <= n * b
  BY <1>1, Quotient
<1> HIDE DEF q
<1>3. q * s \in Nat /\ (b - q) * s = b * s - q * s /\ b * (s - n) = b * s - b * n
  BY <1>2
<1>4. a * (s - n) <= b * (s - n)
  BY <1>1, Monotone
<1>5. q <= b
  <2>1. CASE b < q
    <3>1. b + 1 <= q /\ b + 1 \in Nat
      BY <1>2, <2>1
    <3>2. (b + 1) * s <= q * s /\ (b + 1) * s = b * s + s
      BY <1>2, <3>1, Monotone
    <3>3. n * b <= s * b /\ s * b = b * s
      BY Monotone
    <3> QED
      BY <1>1, <1>2, <1>3, <3>2, <3>3
  <2> QED
    BY <1>2, <2>1
<1>6. (b - q) * s >= a * (s - n)
  <2>1. a * (s - n) \in Nat /\ b * (s - n) \in Nat
    BY <1>1
  <2> QED
    BY <1>1, <1>2, <1>3, <1>4, <2>1
<1> QED
  BY <1>1, <1>2, <1>5, <1>6 DEF q

\* Interest: the periods that have passed are whole, and the assets grow.
LEMMA VaultAccrues ==
  ASSUME VaultAssumption, VaultInv
  PROVE  /\ VaultTotals(Vault!Accrued) /\ Vault!Accrued.last <= ledger
         /\ Vault!Accrued.shares = vault.shares
         /\ Vault!Accrued.assets >= vault.assets
<1> DEFINE n == Vault!Periods
<1>1. /\ vault.shares \in Nat /\ vault.assets \in Nat /\ vault.last \in 0..VaultEnd
      /\ ledger \in 0..VaultEnd /\ vault.last <= ledger /\ VaultEnd \in Nat
  BY DEF VaultInv, VaultTotals, VaultAssumption
<1>2. /\ n \in Nat /\ n * HarvestPeriod <= ledger - vault.last /\ n <= ledger - vault.last
      /\ n * HarvestPeriod \in Nat
  <2>1. ledger - vault.last \in Nat /\ HarvestPeriod \in Nat \ {0}
    BY <1>1 DEF VaultAssumption
  <2>2. n = (ledger - vault.last) \div HarvestPeriod
    BY DEF Vault!Periods
  <2>3. /\ n \in Nat /\ n * HarvestPeriod <= ledger - vault.last /\ n <= ledger - vault.last
    BY <2>1, <2>2, Quotient, Zenon
  <2> HIDE DEF n
  <2> QED
    BY <2>1, <2>3
<1> DEFINE last == vault.last + n * HarvestPeriod
           assets == (vault.assets * Growth[n]) \div GrowthScale
<1>3. Vault!Accrued = IF n = 0 THEN vault
                      ELSE [vault EXCEPT !.last = last, !.assets = assets]
  BY DEF Vault!Accrued, VaultInv, VaultTotals
<1> HIDE DEF n
<1>4. last \in 0..VaultEnd /\ last <= ledger
  BY <1>1, <1>2
<1>5. CASE n = 0
  BY <1>1, <1>3, <1>5 DEF VaultInv
<1>6. CASE n # 0
  <2>1. n \in 1..VaultEnd
    BY <1>1, <1>2, <1>6
  <2>2. assets \in Nat /\ assets >= vault.assets
    <3>1. Growth[n] \in Nat /\ Growth[n] >= GrowthScale /\ GrowthScale \in Nat \ {0}
      BY <2>1 DEF VaultAssumption
    <3> QED
      BY <1>1, <3>1, Grows
  <2> HIDE DEF last, assets
  <2>3. Vault!Accrued = [vault EXCEPT !.last = last, !.assets = assets]
    BY <1>3, <1>6
  <2> QED
    BY <1>1, <1>4, <2>2, <2>3 DEF VaultInv, VaultTotals
<1> QED
  BY <1>5, <1>6

\* What a share is worth after a step is not less than before.
WorthKept ==
  vault.shares > 0 /\ vault'.shares > 0 =>
    vault'.assets * vault.shares >= vault.assets * vault'.shares

LEMMA VaultHarvests ==
  ASSUME VaultAssumption, VaultInv, Vault!BatchHarvest
  PROVE  VaultInv' /\ WorthKept
<1> DEFINE w == Vault!Accrued
<1>1. /\ VaultTotals(w) /\ w.last <= ledger /\ w.shares = vault.shares
      /\ w.assets >= vault.assets
  BY VaultAccrues
<1>2. vault' = w /\ ledger' = ledger /\ held' = held
  BY DEF Vault!BatchHarvest
<1> HIDE DEF w
<1>3. VaultInv'
  BY <1>1, <1>2 DEF VaultInv, VaultTotals
<1>4. w.assets * vault.shares >= vault.assets * vault.shares
  BY <1>1, Monotone DEF VaultInv, VaultTotals
<1> QED
  BY <1>1, <1>2, <1>3, <1>4 DEF WorthKept

LEMMA VaultMints ==
  ASSUME VaultAssumption, VaultInv, NEW i \in Pair, NEW amount \in Invested,
         Vault!Deposit(i, amount)
  PROVE  VaultInv' /\ WorthKept
<1> DEFINE w == Vault!Accrued
           m == Vault!SharesFor(w, amount)
<1>1. /\ VaultTotals(w) /\ w.last <= ledger /\ w.shares = vault.shares
      /\ w.assets >= vault.assets
  BY VaultAccrues
<1>2. /\ m > 0
      /\ vault' = [w EXCEPT !.shares = @ + m, !.assets = @ + amount, !.liquidity = @ + amount]
      /\ held' = [held EXCEPT ![i] = @ + m] /\ ledger' = ledger
  BY DEF Vault!Deposit
<1>3. m = IF w.shares = 0 \/ w.assets = 0 THEN amount ELSE (amount * w.shares) \div w.assets
  BY DEF Vault!SharesFor
<1> HIDE DEF w, m
<1>4. /\ vault.shares \in Nat /\ vault.assets \in Nat /\ w.assets \in Nat /\ amount \in Nat
  BY <1>1 DEF VaultInv, VaultTotals, VaultAssumption
<1>5. m \in Nat
  <2>1. amount * vault.shares \in Nat
    BY <1>4
  <2>2. CASE w.shares = 0 \/ w.assets = 0
    BY <1>3, <1>4, <2>2
  <2>3. CASE ~(w.shares = 0 \/ w.assets = 0)
    BY <1>1, <1>3, <1>4, <2>1, <2>3, Quotient
  <2> QED
    BY <2>2, <2>3
<1>6. vault'.shares = vault.shares + m /\ vault'.assets = w.assets + amount
  BY <1>1, <1>2 DEF VaultTotals
<1>7. VaultInv'
  <2>1. held' \in [Pair -> Nat]
    BY <1>2, <1>5 DEF VaultInv
  <2>2. /\ vault'.shares \in Nat /\ vault'.assets \in Nat /\ vault'.last = w.last
        /\ vault' = [w EXCEPT !.shares = vault'.shares, !.assets = vault'.assets,
                              !.liquidity = vault'.liquidity]
    BY <1>1, <1>2, <1>4, <1>5, <1>6 DEF VaultTotals
  <2>3. VaultTotals(vault')
    BY <1>1, <2>2 DEF VaultTotals
  <2> QED
    BY <1>1, <1>2, <2>1, <2>2, <2>3 DEF VaultInv, VaultTotals
<1>8. ASSUME vault.shares > 0
      PROVE  (w.assets + amount) * vault.shares >= vault.assets * (vault.shares + m)
  <2>1. w.assets = 0 \/ m = (amount * vault.shares) \div w.assets
    BY <1>1, <1>3, <1>4, <1>8
  <2>2. PICK s \in Nat : s = vault.shares
    BY <1>4
  <2>3. PICK a \in Nat : a = vault.assets
    BY <1>4
  <2>4. PICK b \in Nat : b = w.assets
    BY <1>4
  <2>5. s \in Nat \ {0} /\ a <= b
    BY <1>1, <1>8, <2>2, <2>3, <2>4
  <2>6. b = 0 \/ m = (amount * s) \div b
    BY <2>1, <2>2, <2>4, Zenon
  <2>7. (b + amount) * s >= a * (s + m)
    BY <1>4, <1>5, <2>3, <2>4, <2>5, <2>6, MintKeepsPrice, Zenon
  <2> QED
    BY <2>2, <2>3, <2>4, <2>7, Zenon
<1> QED
  BY <1>6, <1>7, <1>8 DEF WorthKept

\* Shares burned for their part of the assets; the liquidity may change too.
LEMMA VaultBurns ==
  ASSUME VaultAssumption, VaultInv, NEW i \in Pair, NEW n \in 1..held[i],
         n <= Vault!Accrued.shares,
         NEW liquidity,
         \/ vault' = Vault!Burnt(Vault!Accrued, n)
         \/ vault' = [Vault!Burnt(Vault!Accrued, n) EXCEPT !.liquidity = liquidity],
         held' = [held EXCEPT ![i] = @ - n], ledger' = ledger
  PROVE  VaultInv' /\ WorthKept
<1> DEFINE w == Vault!Accrued
           a == (n * w.assets) \div w.shares
           b == Vault!Burnt(w, n)
<1>1. /\ VaultTotals(w) /\ w.last <= ledger /\ w.shares = vault.shares
      /\ w.assets >= vault.assets
  BY VaultAccrues
<1>2. /\ held[i] \in Nat /\ vault.shares \in Nat /\ vault.assets \in Nat /\ w.assets \in Nat
  BY <1>1 DEF VaultInv, VaultTotals
<1>3. b = [w EXCEPT !.shares = w.shares - n, !.assets = w.assets - a]
  BY <1>1 DEF Vault!Burnt, Vault!AssetsFor, VaultTotals
<1>4. vault' = b \/ vault' = [b EXCEPT !.liquidity = liquidity]
  OBVIOUS
<1>5. n <= w.shares
  OBVIOUS
<1> HIDE DEF w
<1>6. /\ vault.shares \in Nat \ {0} /\ n \in 0..vault.shares /\ n \in Nat
  BY <1>1, <1>2, <1>5
<1>7. /\ w.shares - n \in Nat /\ w.assets - a \in Nat
      /\ (w.assets - a) * vault.shares >= vault.assets * (w.shares - n)
  BY <1>1, <1>2, <1>6, BurnKeepsPrice
<1> HIDE DEF a, b
<1>8. /\ vault'.shares = w.shares - n /\ vault'.assets = w.assets - a /\ vault'.last = w.last
      /\ VaultTotals(vault')
  <2>1. VaultTotals(b) /\ b.shares = w.shares - n /\ b.assets = w.assets - a /\ b.last = w.last
    BY <1>1, <1>3, <1>7 DEF VaultTotals
  <2> QED
    BY <1>4, <2>1 DEF VaultTotals
<1>9. held' \in [Pair -> Nat]
  BY <1>2, <1>6 DEF VaultInv
<1> QED
  BY <1>1, <1>7, <1>8, <1>9 DEF VaultInv, WorthKept, VaultTotals

\* The calls that leave the shares and the assets as they are.
LEMMA VaultRests ==
  ASSUME VaultInv,
         vault' = vault \/ (\E x : vault' = [vault EXCEPT !.liquidity = x])
                       \/ (\E x : vault' = [vault EXCEPT !.threshold = x]),
         held' \in [Pair -> Nat],
         ledger' \in 0..VaultEnd, ledger <= ledger'
  PROVE  VaultInv' /\ WorthKept
<1>0. /\ vault.shares \in Nat /\ vault.assets \in Nat /\ vault.last \in 0..VaultEnd
      /\ vault.last <= ledger /\ ledger \in 0..VaultEnd
  BY DEF VaultInv, VaultTotals
<1>1. /\ vault'.shares = vault.shares /\ vault'.assets = vault.assets
      /\ vault'.last = vault.last /\ VaultTotals(vault')
  BY DEF VaultInv, VaultTotals
<1>2. vault.last <= ledger'
  BY <1>0
<1>3. VaultInv'
  BY <1>1, <1>2 DEF VaultInv, VaultTotals
<1>4. vault.assets * vault.shares >= vault.assets * vault.shares
  BY <1>0, Monotone
<1> QED
  BY <1>1, <1>3, <1>4 DEF WorthKept

LEMMA VaultStep ==
  ASSUME VaultAssumption, VaultInv, [Vault!Next]_vaultPart
  PROVE  VaultInv' /\ WorthKept
<1>0. /\ ledger \in 0..VaultEnd /\ ledger <= ledger /\ held \in [Pair -> Nat]
      /\ VaultEnd \in Nat
  BY DEF VaultInv, VaultAssumption
<1>1. CASE UNCHANGED vaultPart \/ Vault!Tick
  <2>1. /\ vault' = vault /\ held' = held
        /\ ledger' = ledger \/ (ledger < VaultEnd /\ ledger' = ledger + 1)
    BY <1>1 DEF Vault!Tick, vaultPart
  <2>2. ledger' \in 0..VaultEnd /\ ledger <= ledger'
    BY <1>0, <2>1
  <2> QED
    BY <1>0, <2>1, <2>2, VaultRests
<1>2. ASSUME NEW i \in Pair, NEW n \in 1..held[i], Vault!Withdraw(i, n)
      PROVE  VaultInv' /\ WorthKept
  <2>1. /\ n <= Vault!Accrued.shares /\ vault' = Vault!Burnt(Vault!Accrued, n)
        /\ held' = [held EXCEPT ![i] = @ - n] /\ ledger' = ledger
    BY <1>2, Zenon DEF Vault!Withdraw
  <2> QED
    BY <2>1, VaultBurns
<1>3. ASSUME NEW i \in Pair, NEW n \in 1..held[i], Vault!RequestWithdrawal(i, n)
      PROVE  VaultInv' /\ WorthKept
  <2> DEFINE b == Vault!Burnt(Vault!Accrued, n)
  <2>1. /\ n <= Vault!Accrued.shares
        /\ vault' = b \/ \E x : vault' = [b EXCEPT !.liquidity = x]
        /\ held' = [held EXCEPT ![i] = @ - n] /\ ledger' = ledger
    <3> HIDE DEF b
    <3> QED
      BY <1>3, Zenon DEF Vault!RequestWithdrawal, b
  <2>2. PICK liquidity : vault' = b \/ vault' = [b EXCEPT !.liquidity = liquidity]
    BY <2>1, Zenon
  <2> QED
    BY <2>1, <2>2, VaultBurns
<1>4. CASE \/ Vault!ProcessWithdrawalQueue
           \/ \E amount : Vault!AddLiquidity(amount) \/ Vault!SetWithdrawalThreshold(amount)
           \/ \E i, address : Vault!SetRecoveryAddress(i, address)
           \/ \E i : Vault!RequestRecovery(i) \/ Vault!CancelRecovery(i)
  <2>1. /\ UNCHANGED <<ledger, held>>
        /\ \/ vault' = vault
           \/ \E x : vault' = [vault EXCEPT !.liquidity = x]
           \/ \E x : vault' = [vault EXCEPT !.threshold = x]
    BY <1>4, Zenon DEF Vault!ProcessWithdrawalQueue, Vault!AddLiquidity,
       Vault!SetWithdrawalThreshold, Vault!SetRecoveryAddress, Vault!RequestRecovery,
       Vault!CancelRecovery
  <2>2. held' \in [Pair -> Nat] /\ ledger' \in 0..VaultEnd /\ ledger <= ledger'
    BY <1>0, <2>1
  <2> QED
    BY <2>1, <2>2, VaultRests, Zenon
<1>5. ASSUME NEW i \in Pair, Vault!ExecuteRecovery(i)
      PROVE  VaultInv' /\ WorthKept
  <2>1. PICK to : /\ held' = [held EXCEPT ![i] = 0, ![to] = @ + held[i]]
                  /\ UNCHANGED <<ledger, vault>>
    BY <1>5 DEF Vault!ExecuteRecovery
  <2>2. held' \in [Pair -> Nat]
    <3>1. held' = [j \in Pair |-> held'[j]]
      BY <1>0, <2>1
    <3>2. ASSUME NEW j \in Pair PROVE held'[j] \in Nat
      <4>1. held[i] \in Nat /\ held[j] \in Nat
        BY <1>0
      <4>2. j # to => held'[j] = IF j = i THEN 0 ELSE held[j]
        BY <1>0, <2>1
      <4>3. j = to => held'[j] \in {held[i], held[j] + held[i]}
        BY <1>0, <2>1
      <4> QED
        BY <4>1, <4>2, <4>3
    <3> QED
      BY <3>1, <3>2
  <2> QED
    BY <1>0, <2>1, <2>2, VaultRests
<1> QED
  BY <1>1, <1>2, <1>3, <1>4, <1>5, VaultHarvests, VaultMints, Zenon DEF Vault!Next

\* No call of the vault lowers what a share is worth: deposits, withdrawals, the
\* queue, takeovers and interest, with their roundings, for any investors, amounts,
\* periods and growth that is not below one (contracts/yield-vault).
THEOREM VaultTheorem == Spec => SharePriceNeverFalls
<1> DEFINE Inv == part = "vault" => VaultInv
<1>1. Init => Inv
  <2>1. VaultAssumption /\ Vault!Init => VaultInv
    BY DEF VaultAssumption, Vault!Init, VaultInv, VaultTotals
  <2> QED
    BY <2>1, VaultAssumption, Zenon DEF Init
<1>2. Inv /\ [Next]_allVars => Inv'
  <2> SUFFICES ASSUME Inv, [Next]_allVars, part' = "vault" PROVE VaultInv'
    BY Zenon
  <2>1. part = "vault" /\ [Vault!Next]_vaultPart
    BY StepsOfContracts, Zenon
  <2> QED
    BY <2>1, VaultStep, VaultAssumption
<1>3. Inv /\ [Next]_allVars => [WorthKept]_(Vault!vaultVars)
  <2> SUFFICES ASSUME Inv, [Next]_allVars PROVE WorthKept \/ UNCHANGED vaultPart
    BY Zenon DEF Vault!vaultVars, vaultPart
  <2>1. CASE part = "vault"
    BY <2>1, StepsOfContracts, VaultStep, VaultAssumption, Zenon
  <2>2. CASE part # "vault"
    BY <2>2, StepsOfContracts, Zenon
  <2> QED
    BY <2>1, <2>2
<1> QED
  BY <1>1, <1>2, <1>3, PTL DEF Spec, SharePriceNeverFalls, Vault!SharePriceNeverFalls, WorthKept

-----------------------------------------------------------------------------
(* The governance: a member's voice counts once.                           *)

Delegations == [Triple -> Triple \cup {"none"}]
Ballots == [status : {"Open", "Passed", "Rejected", "Executed"}, count : Nat,
            voters : SUBSET Triple]
Rolls == [signers : SUBSET Triple, delegation : Delegations]

\* Delegations do not form chains, and only signers delegate.
InOrder(r) ==
  /\ \A m \in Triple : r.delegation[m] # "none" =>
       m \in r.signers /\ r.delegation[m] # m /\ r.delegation[r.delegation[m]] = "none"

\* Who speaks for itself, and the members that m speaks for.
Speaker(r, m) == ~(m \in r.signers /\ r.delegation[m] \in r.signers)
Followers(r, m) == {s \in r.signers : r.delegation[s] = m}
SpeaksFor(r, m) == {m} \cup IF m \in r.signers THEN Followers(r, m) ELSE {}
SpokenFor(r, S) == UNION {SpeaksFor(r, m) : m \in S}

Powers(r) == [m \in r.signers |-> (IF r.delegation[m] \in r.signers THEN 0 ELSE 1)
                                  + Cardinality(Followers(r, m))]
PowerIn(r, m) == IF m \in r.signers THEN Powers(r)[m] ELSE 1

\* Nobody who has delegated its vote to a signer has followers.
LEMMA FollowersOfSpeakers ==
  ASSUME CommitteeAssumption, NEW r \in Rolls, InOrder(r), NEW m \in Triple,
         m \in r.signers, r.delegation[m] \in r.signers
  PROVE  Followers(r, m) = {}
BY DEF CommitteeAssumption, InOrder, Followers, Rolls, Delegations

\* A vote has the power of the members it speaks for.
LEMMA PowerIsVoices ==
  ASSUME CommitteeAssumption, NEW r \in Rolls, InOrder(r), NEW m \in Triple,
         PowerIn(r, m) > 0
  PROVE  /\ Speaker(r, m)
         /\ IsFiniteSet(SpeaksFor(r, m)) /\ SpeaksFor(r, m) \subseteq Triple
         /\ PowerIn(r, m) = Cardinality(SpeaksFor(r, m))
         /\ PowerIn(r, m) \in Nat
<1>0. r.signers \subseteq Triple /\ IsFiniteSet(Triple)
  BY DEF CommitteeAssumption, Rolls
<1>1. SpeaksFor(r, m) \subseteq Triple
  BY <1>0 DEF SpeaksFor, Followers
<1>2. IsFiniteSet(SpeaksFor(r, m))
  BY <1>0, <1>1, FS_Subset
<1>3. CASE m \notin r.signers
  <2>1. SpeaksFor(r, m) = {m} /\ Speaker(r, m) /\ PowerIn(r, m) = 1
    BY <1>3 DEF SpeaksFor, Speaker, PowerIn
  <2>2. Cardinality({m}) = 1
    BY FS_Singleton
  <2> QED
    BY <1>1, <1>2, <2>1, <2>2
<1>4. CASE m \in r.signers
  <2> DEFINE F == Followers(r, m)
  <2>1. F \subseteq Triple /\ m \notin F
    BY <1>0 DEF Followers, InOrder, CommitteeAssumption
  <2>2. IsFiniteSet(F) /\ Cardinality(F) \in Nat
    BY <1>0, <2>1, FS_Subset, FS_CardinalityType
  <2>3. PowerIn(r, m) = (IF r.delegation[m] \in r.signers THEN 0 ELSE 1) + Cardinality(F)
    BY <1>4 DEF PowerIn, Powers
  <2>4. SpeaksFor(r, m) = F \cup {m}
    BY <1>4 DEF SpeaksFor
  <2>5. Speaker(r, m)
    <3> SUFFICES ASSUME r.delegation[m] \in r.signers PROVE FALSE
      BY DEF Speaker
    <3>1. F = {}
      BY <1>4, FollowersOfSpeakers
    <3>2. Cardinality(F) = 0
      BY <3>1, FS_EmptySet
    <3> HIDE DEF F
    <3> QED
      BY <2>3, <3>2
  <2> HIDE DEF F
  <2>6. Cardinality(F \cup {m}) = Cardinality(F) + 1
    BY <2>1, <2>2, FS_AddElement
  <2>7. PowerIn(r, m) = 1 + Cardinality(F)
    BY <1>4, <2>3, <2>5 DEF Speaker
  <2> QED
    BY <1>1, <1>2, <2>2, <2>4, <2>5, <2>6, <2>7
<1> QED
  BY <1>3, <1>4

\* Two who speak for themselves speak for different members.
LEMMA VoicesApart ==
  ASSUME CommitteeAssumption, NEW r \in Rolls, InOrder(r), NEW m \in Triple, NEW n \in Triple,
         m # n, Speaker(r, m), Speaker(r, n)
  PROVE  SpeaksFor(r, m) \cap SpeaksFor(r, n) = {}
BY DEF SpeaksFor, Speaker, Followers, Rolls, Delegations

\* One more speaker adds those it speaks for.
LEMMA VoiceAdded ==
  ASSUME CommitteeAssumption, NEW r \in Rolls, InOrder(r), NEW S \in SUBSET Triple,
         NEW m \in Triple, m \notin S, \A n \in S : Speaker(r, n), PowerIn(r, m) > 0
  PROVE  /\ Cardinality(SpokenFor(r, S \cup {m})) = Cardinality(SpokenFor(r, S)) + PowerIn(r, m)
         /\ Cardinality(SpokenFor(r, S)) \in Nat
<1> DEFINE U == SpokenFor(r, S)
           V == SpeaksFor(r, m)
<1>1. /\ Speaker(r, m) /\ IsFiniteSet(V) /\ PowerIn(r, m) = Cardinality(V)
      /\ PowerIn(r, m) \in Nat
  BY PowerIsVoices
<1>2. U \subseteq Triple
  BY DEF SpokenFor, SpeaksFor, Followers, Rolls
<1>3. IsFiniteSet(U) /\ Cardinality(U) \in Nat
  BY <1>2, FS_Subset, FS_CardinalityType DEF CommitteeAssumption
<1>4. SpokenFor(r, S \cup {m}) = U \cup V
  <2> HIDE DEF V
  <2>1. \A x : x \in SpokenFor(r, S \cup {m}) <=> x \in U \/ x \in SpeaksFor(r, m)
    BY Zenon DEF SpokenFor
  <2> QED
    BY <2>1, Zenon DEF V
<1>5. U \cap V = {}
  <2>1. \A n \in S : SpeaksFor(r, n) \cap V = {}
    BY <1>1, VoicesApart
  <2> HIDE DEF V
  <2> QED
    BY <2>1 DEF SpokenFor
<1> HIDE DEF U, V
<1>6. Cardinality(U \cup V) = Cardinality(U) + Cardinality(V) - Cardinality(U \cap V)
  BY <1>1, <1>3, FS_Union
<1>7. Cardinality({}) = 0
  BY FS_EmptySet
<1>8. Cardinality(U \cup V) = Cardinality(U) + PowerIn(r, m)
  <2>1. Cardinality(V) \in Nat /\ Cardinality(V) = PowerIn(r, m)
    BY <1>1
  <2>2. Cardinality(U \cap V) = 0
    BY <1>5, <1>7, Zenon
  <2>3. Cardinality(U \cup V) = Cardinality(U) + Cardinality(V)
    BY <1>3, <1>6, <2>1, <2>2
  <2> QED
    BY <2>1, <2>3, Zenon
<1> QED
  BY <1>3, <1>4, <1>8, Zenon DEF U

LEMMA CommitteeCards == \A S : Committee!Cardinality(S) = Cardinality(S)
BY Zenon DEF Committee!Cardinality, Cardinality

Sitting == [signers |-> signers, delegation |-> delegation]

\* Enough votes for the committee as it is.
Needed(n) == (n * ApprovalBps + 9999) \div 10000
Enough(p) == p.count >= Needed(Cardinality(signers))

CommitteeTypes ==
  /\ signers \in SUBSET Triple /\ delegation \in Delegations
  /\ proposals \in Seq(Ballots) /\ roll \in Seq(Rolls)
  /\ Len(roll) = Len(proposals) /\ Len(power) = Len(proposals)

\* The snapshot of a proposal is that of its roll, those who voted on it speak for
\* themselves, and the count is the number of members they speak for.
CountTrue(id) ==
  /\ InOrder(roll[id])
  /\ power[id] = Powers(roll[id])
  /\ \A m \in proposals[id].voters : Speaker(roll[id], m)
  /\ proposals[id].count = Cardinality(SpokenFor(roll[id], proposals[id].voters))

\* What still waits has not enough votes, unless the committee has shrunk.
WaitsRightly(id) ==
  proposals[id].status = "Open" /\ proposals[id].voters # {} /\ Enough(proposals[id])
    => id \in shrunk

CommitteeInv ==
  /\ CommitteeTypes /\ InOrder(Sitting)
  /\ \A id \in 1..Len(proposals) : CountTrue(id) /\ WaitsRightly(id)

\* The definitions of the model, in those terms.
LEMMA SnapshotIsPowers ==
  ASSUME CommitteeTypes
  PROVE  Committee!BuildPowerSnapshot = Powers(Sitting)
<1>1. ASSUME NEW m \in signers
      PROVE  Committee!Cardinality(Committee!Delegators(m, signers, delegation))
               = Cardinality(Followers(Sitting, m))
  <2>1. Committee!Delegators(m, signers, delegation) = Followers(Sitting, m)
    BY DEF Committee!Delegators, Followers, Sitting
  <2> QED
    BY <2>1, CommitteeCards, Zenon
<1> QED
  BY <1>1 DEF Committee!BuildPowerSnapshot, Powers, Sitting

LEMMA SnapshotPowerIs ==
  ASSUME NEW id \in 1..Len(proposals), NEW m, CountTrue(id)
  PROVE  Committee!SnapshotPower(id, m) = PowerIn(roll[id], m)
<1>1. DOMAIN power[id] = roll[id].signers
  BY DEF CountTrue, Powers
<1> QED
  BY <1>1 DEF CountTrue, Committee!SnapshotPower, PowerIn

LEMMA NeededGrows ==
  ASSUME CommitteeAssumption, NEW n \in Nat
  PROVE  Needed(n) \in Nat /\ Needed(n + 1) >= Needed(n)
<1>1. n * ApprovalBps \in Nat /\ (n + 1) * ApprovalBps = n * ApprovalBps + ApprovalBps
      /\ ApprovalBps \in Nat
  BY DEF CommitteeAssumption
<1> DEFINE a == n * ApprovalBps
           b == (n + 1) * ApprovalBps
<1> HIDE DEF a, b
<1>2. a \in Nat /\ b \in Nat /\ b >= a
  BY <1>1 DEF a, b
<1>3. (a + 9999) \div 10000 \in Nat /\ (b + 9999) \div 10000 >= (a + 9999) \div 10000
  BY <1>2
<1> QED
  BY <1>3 DEF a, b, Needed

LEMMA CommitteeStart == CommitteeAssumption /\ Committee!Init => CommitteeInv
BY DEF CommitteeAssumption, Committee!Init, CommitteeInv, CommitteeTypes, InOrder, Sitting,
   Delegations, Committee!NoDelegate

\* A proposal that is left as it is stays right when the committee keeps its size
\* or grows, or its shrinking is noted.
LEMMA CountKept ==
  ASSUME NEW id, CountTrue(id), roll'[id] = roll[id], power'[id] = power[id],
         proposals'[id].voters = proposals[id].voters, proposals'[id].count = proposals[id].count
  PROVE  CountTrue(id)'
BY DEF CountTrue

LEMMA CommitteeSubmit ==
  ASSUME CommitteeAssumption, CommitteeInv, NEW m \in Triple, Committee!SubmitProposal(m)
  PROVE  CommitteeInv'
<1> DEFINE p == [status |-> "Open", count |-> 0, voters |-> {}]
<1>1. /\ proposals' = Append(proposals, p) /\ power' = Append(power, Powers(Sitting))
      /\ roll' = Append(roll, Sitting)
      /\ UNCHANGED <<signers, delegation, shrunk>>
  BY SnapshotIsPowers DEF Committee!SubmitProposal, CommitteeInv, Sitting
<1>2. p \in Ballots /\ Sitting \in Rolls /\ Sitting' = Sitting
  BY <1>1 DEF Ballots, Sitting, Rolls, CommitteeInv, CommitteeTypes
<1>2a. p.voters = {} /\ p.count = 0
  OBVIOUS
<1>2b. PICK n \in Nat : n = Len(proposals)
  BY DEF CommitteeInv, CommitteeTypes
<1>3. /\ n = Len(proposals) /\ Len(roll) = n /\ Len(power) = n /\ proposals \in Seq(Ballots)
      /\ roll \in Seq(Rolls)
  BY <1>2b DEF CommitteeInv, CommitteeTypes
<1> HIDE DEF p
<1>4. /\ proposals' \in Seq(Ballots) /\ Len(proposals') = n + 1 /\ proposals'[n + 1] = p
      /\ \A id \in 1..n : proposals'[id] = proposals[id]
  BY <1>1, <1>2, <1>3
<1>5. /\ roll' \in Seq(Rolls) /\ Len(roll') = n + 1 /\ roll'[n + 1] = Sitting
      /\ \A id \in 1..n : roll'[id] = roll[id]
  BY <1>1, <1>2, <1>3
<1>6. /\ Len(power') = n + 1 /\ power'[n + 1] = Powers(Sitting)
      /\ \A id \in 1..n : power'[id] = power[id]
  BY <1>1, <1>3
<1>7. CommitteeTypes'
  BY <1>1, <1>4, <1>5, <1>6 DEF CommitteeInv, CommitteeTypes
<1>8. InOrder(Sitting)'
  BY <1>2 DEF CommitteeInv, InOrder
<1>9. ASSUME NEW id \in 1..n PROVE CountTrue(id)' /\ WaitsRightly(id)'
  <2>1. CountTrue(id) /\ WaitsRightly(id)
    BY <1>3 DEF CommitteeInv
  <2>2. /\ proposals'[id] = proposals[id] /\ roll'[id] = roll[id] /\ power'[id] = power[id]
    BY <1>4, <1>5, <1>6
  <2>3. CountTrue(id)'
    BY <2>1, <2>2, CountKept
  <2>4. WaitsRightly(id)'
    BY <1>1, <2>1, <2>2 DEF WaitsRightly, Enough
  <2> QED
    BY <2>3, <2>4
<1>10. CountTrue(n + 1)' /\ WaitsRightly(n + 1)'
  <2>1. SpokenFor(Sitting, {}) = {} /\ Cardinality({}) = 0
    BY FS_EmptySet DEF SpokenFor
  <2>2. InOrder(Sitting)
    BY DEF CommitteeInv
  <2>3. CountTrue(n + 1)'
    BY <1>2a, <1>4, <1>5, <1>6, <2>1, <2>2 DEF CountTrue
  <2> QED
    BY <1>2a, <1>4, <2>3 DEF WaitsRightly
<1>11. \A id \in 1..Len(proposals') : id \in 1..n \/ id = n + 1
  BY <1>3, <1>4
<1> QED
  BY <1>7, <1>8, <1>9, <1>10, <1>11, Zenon DEF CommitteeInv

LEMMA CommitteeVote ==
  ASSUME CommitteeAssumption, CommitteeInv, NEW m \in Triple, NEW id \in DOMAIN proposals,
         Committee!Vote(m, id)
  PROVE  CommitteeInv'
<1>0. /\ id \in 1..Len(proposals) /\ proposals \in Seq(Ballots) /\ roll \in Seq(Rolls)
      /\ roll[id] \in Rolls /\ proposals[id] \in Ballots
      /\ Len(roll) = Len(proposals)
  BY DEF CommitteeInv, CommitteeTypes
<1>1. CountTrue(id)
  BY <1>0 DEF CommitteeInv
<1> DEFINE w == PowerIn(roll[id], m)
           count == proposals[id].count + w
           voters == proposals[id].voters \cup {m}
           status == IF count >= Committee!RequiredVotes THEN "Passed" ELSE "Open"
           p == [status |-> status, count |-> count, voters |-> voters]
<1>2. /\ m \notin proposals[id].voters /\ w > 0
      /\ proposals' = [proposals EXCEPT ![id] = p]
      /\ UNCHANGED <<signers, delegation, power, roll, shrunk>>
  <2>1. Committee!SnapshotPower(id, m) = w
    BY <1>0, <1>1, SnapshotPowerIs
  <2> QED
    BY <2>1 DEF Committee!Vote
<1>3. /\ w \in Nat /\ Speaker(roll[id], m)
  BY <1>0, <1>1, <1>2, PowerIsVoices DEF CountTrue
<1>4. Cardinality(SpokenFor(roll[id], voters)) = Cardinality(SpokenFor(roll[id], proposals[id].voters)) + w
  BY <1>0, <1>1, <1>2, VoiceAdded DEF CountTrue, Ballots
<1>5. count \in Nat
  BY <1>0, <1>3 DEF Ballots
<1>6. Committee!RequiredVotes = Needed(Cardinality(signers))
  <2>1. Committee!Cardinality(signers) = Cardinality(signers)
    BY CommitteeCards, Zenon
  <2> QED
    BY <2>1 DEF Committee!RequiredVotes, Needed
<1>7. p \in Ballots /\ p.count = count /\ p.voters = voters
      /\ (p.status = "Open" => ~(count >= Needed(Cardinality(signers))))
  BY <1>0, <1>5, <1>6 DEF Ballots
<1> HIDE DEF p, w, count, voters, status
<1>8. /\ proposals' \in Seq(Ballots) /\ Len(proposals') = Len(proposals) /\ proposals'[id] = p
      /\ \A j \in 1..Len(proposals) : j # id => proposals'[j] = proposals[j]
  BY <1>0, <1>2, <1>7
<1>9. CommitteeTypes' /\ InOrder(Sitting)'
  BY <1>2, <1>8 DEF CommitteeInv, CommitteeTypes, InOrder, Sitting
<1>10. CountTrue(id)'
  <2>1. \A n \in voters : Speaker(roll[id], n)
    BY <1>1, <1>3 DEF CountTrue, voters
  <2>2. count = Cardinality(SpokenFor(roll[id], voters))
    BY <1>1, <1>4 DEF count, CountTrue
  <2>3. roll'[id] = roll[id] /\ power'[id] = power[id] /\ proposals'[id] = p
    BY <1>2, <1>8
  <2> QED
    BY <1>1, <1>7, <2>1, <2>2, <2>3, Zenon DEF CountTrue
<1>11. WaitsRightly(id)'
  BY <1>2, <1>7, <1>8 DEF WaitsRightly, Enough
<1>12. ASSUME NEW j \in 1..Len(proposals), j # id PROVE CountTrue(j)' /\ WaitsRightly(j)'
  <2>1. CountTrue(j) /\ WaitsRightly(j)
    BY DEF CommitteeInv
  <2>2. proposals'[j] = proposals[j] /\ roll' = roll /\ power' = power
    BY <1>2, <1>8, <1>12
  <2>3. CountTrue(j)'
    BY <2>1, <2>2, CountKept
  <2>4. WaitsRightly(j)'
    BY <1>2, <2>1, <2>2 DEF WaitsRightly, Enough
  <2> QED
    BY <2>3, <2>4
<1> QED
  BY <1>8, <1>9, <1>10, <1>11, <1>12, Zenon DEF CommitteeInv

\* A proposal that is executed or vetoed keeps its votes and waits no more.
LEMMA CommitteeCloses ==
  ASSUME CommitteeInv, NEW id \in DOMAIN proposals,
         NEW status \in {"Executed", "Rejected"},
         proposals' = [proposals EXCEPT ![id].status = status],
         UNCHANGED <<signers, delegation, power, roll, shrunk>>
  PROVE  CommitteeInv'
<1>0. /\ proposals \in Seq(Ballots) /\ id \in 1..Len(proposals) /\ proposals[id] \in Ballots
  BY DEF CommitteeInv, CommitteeTypes
<1> DEFINE p == [proposals[id] EXCEPT !.status = status]
<1>1. /\ p \in Ballots /\ p.status # "Open" /\ p.count = proposals[id].count
      /\ p.voters = proposals[id].voters
  BY <1>0 DEF Ballots
<1>2. proposals' = [proposals EXCEPT ![id] = p]
  BY <1>0
<1> HIDE DEF p
<1>3. /\ proposals' \in Seq(Ballots) /\ Len(proposals') = Len(proposals) /\ proposals'[id] = p
      /\ \A j \in 1..Len(proposals) : j # id => proposals'[j] = proposals[j]
  BY <1>0, <1>1, <1>2
<1>4. CommitteeTypes' /\ InOrder(Sitting)'
  BY <1>3 DEF CommitteeInv, CommitteeTypes, InOrder, Sitting
<1>5. ASSUME NEW j \in 1..Len(proposals) PROVE CountTrue(j)' /\ WaitsRightly(j)'
  <2>1. CountTrue(j) /\ WaitsRightly(j)
    BY DEF CommitteeInv
  <2>2. /\ proposals'[j].voters = proposals[j].voters /\ proposals'[j].count = proposals[j].count
        /\ proposals'[j].status = proposals[j].status \/ proposals'[j].status # "Open"
    BY <1>1, <1>3
  <2>3. CountTrue(j)'
    BY <2>1, <2>2, CountKept
  <2>4. WaitsRightly(j)'
    BY <2>1, <2>2 DEF WaitsRightly, Enough
  <2> QED
    BY <2>3, <2>4
<1> QED
  BY <1>3, <1>4, <1>5, Zenon DEF CommitteeInv

\* The committee or its delegations change; the proposals and their rolls do not.
LEMMA CommitteeChanges ==
  ASSUME CommitteeInv, UNCHANGED <<proposals, power, roll>>,
         signers' \in SUBSET Triple, delegation' \in Delegations, InOrder(Sitting)',
         \A id \in 1..Len(proposals) : WaitsRightly(id)'
  PROVE  CommitteeInv'
<1>1. CommitteeTypes'
  BY DEF CommitteeInv, CommitteeTypes
<1>2. \A id \in 1..Len(proposals) : CountTrue(id)'
  BY CountKept DEF CommitteeInv
<1> QED
  BY <1>1, <1>2, Zenon DEF CommitteeInv

LEMMA CommitteeJoins ==
  ASSUME CommitteeAssumption, CommitteeInv, NEW m \in Triple, Committee!AddSigner(m)
  PROVE  CommitteeInv'
<1>1. /\ m \notin signers /\ signers' = signers \cup {m}
      /\ UNCHANGED <<delegation, proposals, power, roll, shrunk>>
  BY DEF Committee!AddSigner
<1>2. signers \in SUBSET Triple /\ proposals \in Seq(Ballots)
  BY DEF CommitteeInv, CommitteeTypes
<1>3. /\ Cardinality(signers) \in Nat /\ Cardinality(signers') = Cardinality(signers) + 1
  <2>1. IsFiniteSet(signers)
    BY <1>2, FS_Subset DEF CommitteeAssumption
  <2> QED
    BY <1>1, <2>1, FS_AddElement, FS_CardinalityType
<1>4. Needed(Cardinality(signers)) \in Nat /\ Needed(Cardinality(signers')) \in Nat
      /\ Needed(Cardinality(signers')) >= Needed(Cardinality(signers))
  <2>1. \A n \in Nat : Needed(n) \in Nat /\ Needed(n + 1) >= Needed(n)
    BY NeededGrows
  <2> QED
    BY <1>3, <2>1
<1>5. ASSUME NEW id \in 1..Len(proposals) PROVE WaitsRightly(id)'
  <2>1. WaitsRightly(id)
    BY DEF CommitteeInv
  <2>2. proposals[id].count \in Nat
    <3>1. proposals[id] \in Ballots
      BY <1>2
    <3> QED
      BY <3>1 DEF Ballots
  <2>3. proposals[id].count >= Needed(Cardinality(signers')) =>
          proposals[id].count >= Needed(Cardinality(signers))
    BY <1>4, <2>2
  <2> QED
    BY <1>1, <2>1, <2>3, Zenon DEF WaitsRightly, Enough
<1>6. InOrder(Sitting)'
  BY <1>1 DEF CommitteeInv, InOrder, Sitting
<1>7. signers' \in SUBSET Triple /\ delegation' \in Delegations
  BY <1>1 DEF CommitteeInv, CommitteeTypes
<1> QED
  BY <1>1, <1>5, <1>6, <1>7, CommitteeChanges

LEMMA CommitteeLeaves ==
  ASSUME CommitteeInv, NEW m \in Triple, Committee!RemoveSigner(m)
  PROVE  CommitteeInv'
<1>1. /\ signers' = signers \ {m} /\ delegation' = [delegation EXCEPT ![m] = "none"]
      /\ shrunk' = shrunk \cup {id \in DOMAIN proposals : proposals[id].status = "Open"}
      /\ UNCHANGED <<proposals, power, roll>>
  BY DEF Committee!RemoveSigner, Committee!NoDelegate
<1>2. signers \in SUBSET Triple /\ delegation \in Delegations /\ proposals \in Seq(Ballots)
  BY DEF CommitteeInv, CommitteeTypes
<1>3. signers' \in SUBSET Triple /\ delegation' \in Delegations
  BY <1>1, <1>2 DEF Delegations
<1>4. InOrder(Sitting)'
  BY <1>1, <1>2 DEF CommitteeInv, InOrder, Sitting, Delegations
<1>5. \A id \in 1..Len(proposals) : WaitsRightly(id)'
  BY <1>1, <1>2 DEF WaitsRightly
<1> QED
  BY <1>1, <1>3, <1>4, <1>5, CommitteeChanges

\* A delegation made or revoked.
LEMMA CommitteeDelegates ==
  ASSUME CommitteeAssumption, CommitteeInv, NEW m \in Triple,
         \/ \E to \in Triple : Committee!Delegate(m, to)
         \/ Committee!RevokeDelegation(m)
  PROVE  CommitteeInv'
<1>0. UNCHANGED <<signers, proposals, power, roll, shrunk>>
  BY DEF Committee!Delegate, Committee!RevokeDelegation
<1>1. signers \in SUBSET Triple /\ delegation \in Delegations
  BY DEF CommitteeInv, CommitteeTypes
<1>2. ASSUME Committee!RevokeDelegation(m)
      PROVE  delegation' \in Delegations /\ InOrder(Sitting)'
  <2>1. delegation' = [delegation EXCEPT ![m] = "none"]
    BY <1>2 DEF Committee!RevokeDelegation, Committee!NoDelegate
  <2>2. \A n \in Triple : delegation[n] # "none" =>
          n \in signers /\ delegation[n] # n /\ delegation[delegation[n]] = "none"
    BY DEF CommitteeInv, InOrder, Sitting
  <2>3. delegation' \in Delegations
    BY <1>1, <2>1 DEF Delegations
  <2>4. \A n \in Triple : delegation'[n] # "none" =>
          n \in signers /\ delegation'[n] # n /\ delegation'[delegation'[n]] = "none"
    BY <1>1, <2>1, <2>2 DEF Delegations
  <2> QED
    BY <1>0, <2>3, <2>4 DEF InOrder, Sitting
<1>3. ASSUME NEW to \in Triple, Committee!Delegate(m, to)
      PROVE  delegation' \in Delegations /\ InOrder(Sitting)'
  <2>1. /\ m \in signers /\ to \in signers /\ m # to
        /\ delegation[m] = "none" /\ delegation[to] = "none"
        /\ \A s \in signers : delegation[s] # m
        /\ delegation' = [delegation EXCEPT ![m] = to]
    BY <1>3 DEF Committee!Delegate, Committee!Delegators, Committee!NoDelegate
  <2>2. delegation' \in Delegations
    BY <1>1, <2>1 DEF Delegations
  <2>3. \A n \in Triple : delegation[n] # "none" =>
          n \in signers /\ delegation[n] # n /\ delegation[delegation[n]] = "none"
    BY DEF CommitteeInv, InOrder, Sitting
  <2>4. ASSUME NEW n \in Triple, delegation'[n] # "none"
        PROVE  n \in signers /\ delegation'[n] # n /\ delegation'[delegation'[n]] = "none"
    <3>1. CASE n = m
      BY <1>1, <2>1, <3>1 DEF Delegations
    <3>2. CASE n # m
      <4>1. delegation'[n] = delegation[n] /\ delegation[n] # m /\ delegation[n] \in Triple
        BY <1>1, <2>1, <2>3, <2>4, <3>2 DEF Delegations
      <4> QED
        BY <1>1, <2>1, <2>3, <2>4, <4>1 DEF Delegations
    <3> QED
      BY <3>1, <3>2
  <2> QED
    BY <1>0, <2>2, <2>4 DEF InOrder, Sitting
<1>4. delegation' \in Delegations /\ InOrder(Sitting)' => CommitteeInv'
  <2> SUFFICES ASSUME delegation' \in Delegations, InOrder(Sitting)' PROVE CommitteeInv'
    OBVIOUS
  <2>1. \A id \in 1..Len(proposals) : WaitsRightly(id)'
    BY <1>0 DEF CommitteeInv, WaitsRightly, Enough
  <2> QED
    BY <1>0, <1>1, <2>1, CommitteeChanges
<1> QED
  BY <1>2, <1>3, <1>4, Zenon

LEMMA CommitteeStep ==
  ASSUME CommitteeAssumption, CommitteeInv, [Committee!Next]_governancePart
  PROVE  CommitteeInv'
<1>1. CASE \/ UNCHANGED governancePart \/ Committee!SetStakingPool
           \/ \E min : Committee!SetMinStakeToSubmit(min)
  <2>1. UNCHANGED <<signers, delegation, proposals, power, roll, shrunk>>
    BY <1>1 DEF governancePart, Committee!SetStakingPool, Committee!SetMinStakeToSubmit
  <2>2. \A id \in 1..Len(proposals) : WaitsRightly(id)'
    BY <2>1 DEF CommitteeInv, WaitsRightly, Enough
  <2>3. signers' \in SUBSET Triple /\ delegation' \in Delegations /\ InOrder(Sitting)'
    BY <2>1 DEF CommitteeInv, CommitteeTypes, InOrder, Sitting
  <2> QED
    BY <2>1, <2>2, <2>3, CommitteeChanges
<1>2. ASSUME NEW m \in Triple, NEW id \in DOMAIN proposals, Committee!ExecuteProposal(m, id)
      PROVE  CommitteeInv'
  <2>1. /\ proposals' = [proposals EXCEPT ![id].status = "Executed"]
        /\ UNCHANGED <<signers, delegation, power, roll, shrunk>>
    BY <1>2 DEF Committee!ExecuteProposal
  <2> QED
    BY <2>1, CommitteeCloses
<1>3. ASSUME NEW id \in DOMAIN proposals, Committee!Veto(id)
      PROVE  CommitteeInv'
  <2>1. /\ proposals' = [proposals EXCEPT ![id].status = "Rejected"]
        /\ UNCHANGED <<signers, delegation, power, roll, shrunk>>
    BY <1>3 DEF Committee!Veto
  <2> QED
    BY <2>1, CommitteeCloses
<1> QED
  BY <1>1, <1>2, <1>3, CommitteeSubmit, CommitteeVote, CommitteeJoins, CommitteeLeaves,
     CommitteeDelegates, Zenon DEF Committee!Next

LEMMA CommitteeShown ==
  ASSUME CommitteeAssumption, CommitteeInv
  PROVE  Committee!OneVoiceEach
<1>1. Committee!NoChains
  BY DEF CommitteeInv, InOrder, Sitting, Committee!NoChains, Committee!NoDelegate
<1>2. ASSUME NEW id \in DOMAIN proposals
      PROVE  /\ \A m, n \in proposals[id].voters :
                  m # n => Committee!Voices(id, m) \cap Committee!Voices(id, n) = {}
             /\ proposals[id].count
                  = Committee!Cardinality(UNION {Committee!Voices(id, m) : m \in proposals[id].voters})
             /\ proposals[id].status = "Open" /\ proposals[id].voters # {}
                /\ proposals[id].count >= Committee!RequiredVotes => id \in shrunk
  <2>1. /\ id \in 1..Len(proposals) /\ roll[id] \in Rolls /\ proposals[id].voters \subseteq Triple
        /\ CountTrue(id) /\ WaitsRightly(id)
    <3>1. /\ proposals \in Seq(Ballots) /\ roll \in Seq(Rolls) /\ Len(roll) = Len(proposals)
          /\ \A j \in 1..Len(proposals) : CountTrue(j) /\ WaitsRightly(j)
      BY Zenon DEF CommitteeInv, CommitteeTypes
    <3>2. id \in 1..Len(proposals) /\ proposals[id] \in Ballots /\ roll[id] \in Rolls
      BY <3>1
    <3>3. proposals[id].voters \subseteq Triple
      BY <3>2 DEF Ballots
    <3> QED
      BY <3>1, <3>2, <3>3
  <2>2. \A m : Committee!Voices(id, m) = SpeaksFor(roll[id], m)
    BY Zenon DEF Committee!Voices, Committee!Delegators, SpeaksFor, Followers
  <2>3. ASSUME NEW m \in proposals[id].voters, NEW n \in proposals[id].voters, m # n
        PROVE  SpeaksFor(roll[id], m) \cap SpeaksFor(roll[id], n) = {}
    BY <2>1, <2>3, VoicesApart DEF CountTrue
  <2>4. UNION {Committee!Voices(id, m) : m \in proposals[id].voters}
          = SpokenFor(roll[id], proposals[id].voters)
    BY <2>2, Zenon DEF SpokenFor
  <2>5. Committee!RequiredVotes = Needed(Cardinality(signers))
    <3>1. Committee!Cardinality(signers) = Cardinality(signers)
      BY CommitteeCards, Zenon
    <3> QED
      BY <3>1 DEF Committee!RequiredVotes, Needed
  <2>6. proposals[id].count
          = Committee!Cardinality(UNION {Committee!Voices(id, m) : m \in proposals[id].voters})
    <3>1. proposals[id].count = Cardinality(SpokenFor(roll[id], proposals[id].voters))
      BY <2>1 DEF CountTrue
    <3> QED
      BY <2>4, <3>1, CommitteeCards, Zenon
  <2>7. \A m, n \in proposals[id].voters :
          m # n => Committee!Voices(id, m) \cap Committee!Voices(id, n) = {}
    BY <2>2, <2>3, Zenon
  <2> QED
    BY <2>1, <2>5, <2>6, <2>7 DEF WaitsRightly, Enough
<1> QED
  BY <1>1, <1>2, Zenon DEF Committee!OneVoiceEach

\* Nobody's voice counts twice on a proposal, for any committee, quorum and number
\* of proposals, whatever members delegate, revoke, join and leave while it is open
\* (contracts/governance).
THEOREM CommitteeTheorem == Spec => []OneVoiceEach
<1> DEFINE Inv == part = "governance" => CommitteeInv
<1>1. Init => Inv
  BY CommitteeStart, CommitteeAssumption, Zenon DEF Init
<1>2. Inv /\ [Next]_allVars => Inv'
  <2> SUFFICES ASSUME Inv, [Next]_allVars, part' = "governance" PROVE CommitteeInv'
    BY Zenon
  <2>1. part = "governance" /\ [Committee!Next]_governancePart
    BY StepsOfContracts, Zenon
  <2> QED
    BY <2>1, CommitteeStep, CommitteeAssumption
<1>3. Inv => OneVoiceEach
  BY CommitteeShown, CommitteeAssumption, Zenon DEF OneVoiceEach
<1> QED
  BY <1>1, <1>2, <1>3, PTL DEF Spec

-----------------------------------------------------------------------------
(* The staking pool: the totals are the positions, and the pool can pay.    *)

\* A part n of m that is not all of it, rounded down.
LEMMA PartOf ==
  ASSUME NEW x \in Nat, NEW m \in Nat \ {0}, NEW n \in 0..m
  PROVE  /\ (x * n) \div m \in Nat
         /\ (x * n) \div m <= x
         /\ n = m => (x * n) \div m = x
         /\ n < m /\ x > 0 => (x * n) \div m < x
<1> DEFINE q == (x * n) \div m
<1>0. x * n \in Nat /\ x * m \in Nat
  OBVIOUS
<1>1. q \in Nat /\ q * m <= x * n
  BY <1>0, Quotient
<1> HIDE DEF q
<1>2. x * n <= x * m
  <2>1. n * x <= m * x /\ n * x = x * n /\ m * x = x * m
    BY Monotone
  <2> QED
    BY <2>1
<1>3. ASSUME q > x PROVE FALSE
  <2>1. (x + 1) * m <= q * m /\ (x + 1) * m = x * m + m
    BY <1>1, <1>3, Monotone
  <2> QED
    BY <1>0, <1>1, <1>2, <2>1
<1>4. ASSUME n < m, x > 0, q = x PROVE FALSE
  <2>1. n + 1 <= m /\ n + 1 \in Nat
    BY <1>4
  <2>2. (n + 1) * x <= m * x /\ (n + 1) * x = n * x + x /\ n * x = x * n /\ m * x = x * m
    BY <2>1, Monotone
  <2> QED
    BY <1>0, <1>1, <1>4, <2>2
<1>5. n = m => q = x
  <2>1. (x * m) \div m = x
    OBVIOUS
  <2> QED
    BY <2>1 DEF q
<1> QED
  BY <1>1, <1>3, <1>4, <1>5 DEF q

StakesOf(t) == [s \in Pair |-> stakes[s][t]]

StakeTypes ==
  /\ supported \in SUBSET PoolTokens
  /\ deposited \in [PoolTokens -> Nat] /\ rewards \in [PoolTokens -> Nat]
  /\ funds \in [PoolTokens -> Nat] /\ net \in [PoolTokens -> Int]
  /\ totalShares \in Nat /\ shares \in [Pair -> Nat]
  /\ stakes \in [Pair -> [PoolTokens -> Nat]]

\* The totals are the sums of the positions.
StakesAddUp ==
  /\ totalShares = SumOver(shares, Pair)
  /\ \A t \in PoolTokens : deposited[t] = SumOver(StakesOf(t), Pair)

\* The pool of a token can pay its deposits, and its rewards unless some came in
\* another token.
PoolPays(t) ==
  /\ t \notin supported => deposited[t] = 0
  /\ funds[t] = deposited[t] + net[t]
  /\ ~crossed => net[t] >= rewards[t]

\* Who has shares has a deposit, and the other way round.
HasBoth(s) == shares[s] > 0 <=> \E t \in PoolTokens : stakes[s][t] > 0

StakeInv ==
  /\ StakeTypes /\ StakesAddUp
  /\ \A t \in PoolTokens : PoolPays(t)
  /\ \A s \in Pair : HasBoth(s)

\* A staker's shares and deposits are part of the totals.
LEMMA PartOfTotals ==
  ASSUME StakingAssumption, StakeInv
  PROVE  \A s \in Pair : /\ shares[s] <= totalShares
                        /\ \A t \in PoolTokens : stakes[s][t] <= deposited[t]
<1>1. /\ shares \in [Pair -> Nat] /\ stakes \in [Pair -> [PoolTokens -> Nat]]
      /\ totalShares = SumOver(shares, Pair)
      /\ \A t \in PoolTokens : deposited[t] = SumOver(StakesOf(t), Pair)
      /\ IsFiniteSet(Pair)
  BY DEF StakeInv, StakeTypes, StakesAddUp, StakingAssumption
<1>2. \A s \in Pair : shares[s] <= totalShares
  <2>1. \A s \in Pair : shares[s] \in Nat
    BY <1>1
  <2> QED
    BY <1>1, <2>1, SumBounds
<1>3. ASSUME NEW t \in PoolTokens PROVE \A s \in Pair : stakes[s][t] <= deposited[t]
  <2>1. \A s \in Pair : StakesOf(t)[s] \in Nat /\ StakesOf(t)[s] = stakes[s][t]
    BY <1>1 DEF StakesOf
  <2>2. \A s \in Pair : StakesOf(t)[s] <= SumOver(StakesOf(t), Pair)
    BY <1>1, <2>1, SumBounds
  <2> QED
    BY <1>1, <2>1, <2>2
<1> QED
  BY <1>2, <1>3

\* When one staker's shares and deposits change, the sums change by as much.
LEMMA SumsFollow ==
  ASSUME StakingAssumption, StakeInv, StakeTypes', NEW s \in Pair,
         \A r \in Pair : r # s => shares'[r] = shares[r] /\ stakes'[r] = stakes[r],
         totalShares' = totalShares - shares[s] + shares'[s],
         \A t \in PoolTokens : deposited'[t] = deposited[t] - stakes[s][t] + stakes'[s][t]
  PROVE  StakesAddUp'
<1>0. IsFiniteSet(Pair)
  BY DEF StakingAssumption
<1>1. SumOver(shares', Pair) = SumOver(shares, Pair) - shares[s] + shares'[s]
  <2>1. \A r \in Pair : shares[r] \in Nat /\ shares'[r] \in Nat
    BY DEF StakeInv, StakeTypes
  <2>2. \A r \in Pair : shares[r] \in Int /\ shares'[r] \in Int
    BY <2>1
  <2>3. \A r \in Pair : r # s => shares'[r] = shares[r]
    OBVIOUS
  <2> QED
    BY <1>0, <2>2, <2>3, SumUpdate
<1>2. ASSUME NEW t \in PoolTokens
      PROVE  SumOver(StakesOf(t)', Pair) = SumOver(StakesOf(t), Pair) - stakes[s][t] + stakes'[s][t]
  <2> DEFINE f == StakesOf(t)
             e == StakesOf(t)'
  <2>1. \A r \in Pair : f[r] = stakes[r][t] /\ e[r] = stakes'[r][t]
    BY DEF StakesOf
  <2>2. \A r \in Pair : stakes[r][t] \in Nat /\ stakes'[r][t] \in Nat
    BY DEF StakeInv, StakeTypes
  <2>3. \A r \in Pair : f[r] \in Int /\ e[r] \in Int
    BY <2>1, <2>2
  <2>4. \A r \in Pair : r # s => e[r] = f[r]
    BY <2>1
  <2> HIDE DEF f, e
  <2>5. SumOver(e, Pair) = SumOver(f, Pair) - f[s] + e[s]
    BY <1>0, <2>3, <2>4, SumUpdate
  <2>6. SumOver(e, Pair) = SumOver(f, Pair) - stakes[s][t] + stakes'[s][t]
    BY <2>1, <2>5
  <2> QED
    BY <2>6 DEF f, e
<1>3. totalShares = SumOver(shares, Pair)
      /\ \A t \in PoolTokens : deposited[t] = SumOver(StakesOf(t), Pair)
  BY DEF StakeInv, StakesAddUp
<1>4. totalShares' = SumOver(shares', Pair)
  BY <1>1, <1>3
<1>5. ASSUME NEW t \in PoolTokens PROVE deposited'[t] = SumOver(StakesOf(t)', Pair)
  BY <1>2, <1>3
<1> QED
  BY <1>4, <1>5 DEF StakesAddUp

\* When no position changes, neither do the sums.
LEMMA SumsStay ==
  ASSUME StakesAddUp, UNCHANGED <<totalShares, shares, stakes, deposited>>
  PROVE  StakesAddUp'
BY DEF StakesAddUp, StakesOf

LEMMA StakingStart == StakingAssumption /\ Staking!Init => StakeInv
<1> SUFFICES ASSUME StakingAssumption, Staking!Init PROVE StakeInv
  OBVIOUS
<1>1. StakeTypes /\ (\A t \in PoolTokens : PoolPays(t)) /\ (\A s \in Pair : HasBoth(s))
  BY DEF Staking!Init, StakeTypes, PoolPays, HasBoth
<1>2. IsFiniteSet(Pair)
  BY DEF StakingAssumption
<1>3. totalShares = 0 /\ \A s \in Pair : shares[s] = 0
  BY DEF Staking!Init
<1>4. SumOver(shares, Pair) = 0
  BY <1>2, <1>3, SumZero
<1>5. ASSUME NEW t \in PoolTokens PROVE deposited[t] = SumOver(StakesOf(t), Pair)
  <2>1. deposited[t] = 0 /\ \A s \in Pair : StakesOf(t)[s] = 0
    BY DEF Staking!Init, StakesOf
  <2>2. SumOver(StakesOf(t), Pair) = 0
    BY <1>2, <2>1, SumZero
  <2> QED
    BY <2>1, <2>2
<1> QED
  BY <1>1, <1>3, <1>4, <1>5 DEF StakeInv, StakesAddUp

LEMMA StakeAdds ==
  ASSUME StakingAssumption, StakeInv, NEW s \in Pair, NEW t \in PoolTokens,
         NEW amount \in Staked, Staking!Stake(s, t, amount)
  PROVE  StakeInv'
<1> DEFINE rate == Staking!ComputeExchangeRate(totalShares, deposited[t])
           minted == Staking!SharesForDeposit(amount, rate)
<1>0. /\ amount \in Nat \ {0} /\ RateUnit \in Nat \ {0}
      /\ totalShares \in Nat /\ deposited[t] \in Nat
      /\ shares \in [Pair -> Nat] /\ stakes \in [Pair -> [PoolTokens -> Nat]]
      /\ deposited \in [PoolTokens -> Nat] /\ funds \in [PoolTokens -> Nat]
  BY DEF StakingAssumption, StakeInv, StakeTypes
<1>1. rate \in Nat
  <2>1. rate = IF deposited[t] = 0 THEN RateUnit ELSE (totalShares * RateUnit) \div deposited[t]
    BY DEF Staking!ComputeExchangeRate
  <2>2. totalShares * RateUnit \in Nat
    BY <1>0
  <2> HIDE DEF rate
  <2>3. deposited[t] # 0 => (totalShares * RateUnit) \div deposited[t] \in Nat
    BY <1>0, <2>2, Quotient
  <2> QED
    BY <1>0, <2>1, <2>3
<1>2. minted \in Nat
  <2>1. minted = (amount * rate) \div RateUnit
    BY DEF Staking!SharesForDeposit
  <2> HIDE DEF rate, minted
  <2>2. amount * rate \in Nat
    BY <1>0, <1>1
  <2> QED
    BY <1>0, <2>1, <2>2, Quotient
<1>3. /\ t \in supported /\ minted > 0
      /\ totalShares' = totalShares + minted
      /\ deposited' = [deposited EXCEPT ![t] = @ + amount]
      /\ shares' = [shares EXCEPT ![s] = @ + minted]
      /\ stakes' = [stakes EXCEPT ![s][t] = @ + amount]
      /\ funds' = [funds EXCEPT ![t] = @ + amount]
      /\ UNCHANGED <<supported, rewards, net, crossed>>
  BY DEF Staking!Stake
<1> HIDE DEF minted, rate
<1>4. /\ shares' \in [Pair -> Nat] /\ shares'[s] = shares[s] + minted
      /\ \A r \in Pair : r # s => shares'[r] = shares[r]
  BY <1>0, <1>2, <1>3
<1>5. /\ deposited' \in [PoolTokens -> Nat] /\ deposited'[t] = deposited[t] + amount
      /\ \A u \in PoolTokens : u # t => deposited'[u] = deposited[u]
      /\ funds' \in [PoolTokens -> Nat] /\ funds'[t] = funds[t] + amount
      /\ \A u \in PoolTokens : u # t => funds'[u] = funds[u]
  BY <1>0, <1>3
<1>6. /\ stakes' \in [Pair -> [PoolTokens -> Nat]]
      /\ stakes'[s][t] = stakes[s][t] + amount
      /\ \A u \in PoolTokens : u # t => stakes'[s][u] = stakes[s][u]
      /\ \A r \in Pair : r # s => stakes'[r] = stakes[r]
  <2> DEFINE g == [stakes[s] EXCEPT ![t] = @ + amount]
  <2>1. /\ g \in [PoolTokens -> Nat] /\ g[t] = stakes[s][t] + amount
        /\ \A u \in PoolTokens : u # t => g[u] = stakes[s][u]
    BY <1>0
  <2>2. stakes' = [stakes EXCEPT ![s] = g]
    BY <1>0, <1>3
  <2> HIDE DEF g
  <2> QED
    BY <1>0, <2>1, <2>2
<1>7. StakeTypes'
  BY <1>0, <1>2, <1>3, <1>4, <1>5, <1>6 DEF StakeInv, StakeTypes
<1>8. StakesAddUp'
  <2>1. totalShares' = totalShares - shares[s] + shares'[s]
    BY <1>0, <1>2, <1>3, <1>4
  <2>2. ASSUME NEW u \in PoolTokens
        PROVE  deposited'[u] = deposited[u] - stakes[s][u] + stakes'[s][u]
    <3>1. deposited[u] \in Nat /\ stakes[s][u] \in Nat
      BY <1>0
    <3>2. CASE u = t
      BY <1>0, <1>5, <1>6, <3>1, <3>2
    <3>3. CASE u # t
      BY <1>5, <1>6, <3>1, <3>3
    <3> QED
      BY <3>2, <3>3
  <2> QED
    BY <1>4, <1>6, <1>7, <2>1, <2>2, SumsFollow
<1>9. ASSUME NEW u \in PoolTokens PROVE PoolPays(u)'
  <2>1. PoolPays(u) /\ funds[u] \in Nat /\ deposited[u] \in Nat /\ net[u] \in Int
    BY DEF StakeInv, StakeTypes
  <2>2. CASE u = t
    BY <1>0, <1>3, <1>5, <2>1, <2>2 DEF PoolPays
  <2>3. CASE u # t
    BY <1>3, <1>5, <2>1, <2>3 DEF PoolPays
  <2> QED
    BY <2>2, <2>3
<1>10. ASSUME NEW r \in Pair PROVE HasBoth(r)'
  <2>1. HasBoth(r)
    BY DEF StakeInv
  <2>2. CASE r = s
    <3>1. shares'[s] > 0 /\ stakes'[s][t] > 0
      BY <1>0, <1>2, <1>3, <1>4, <1>6
    <3> QED
      BY <2>2, <3>1 DEF HasBoth
  <2>3. CASE r # s
    BY <1>4, <1>6, <2>1, <2>3 DEF HasBoth
  <2> QED
    BY <2>2, <2>3
<1> QED
  BY <1>7, <1>8, <1>9, <1>10 DEF StakeInv

LEMMA StakeTakes ==
  ASSUME StakingAssumption, StakeInv, NEW s \in Pair, NEW n \in 1..shares[s],
         Staking!Unstake(s, n)
  PROVE  StakeInv'
<1> DEFINE back == [t \in PoolTokens |->
                      IF t \in supported THEN (stakes[s][t] * n) \div shares[s] ELSE 0]
           left == [t \in PoolTokens |-> stakes[s][t] - back[t]]
<1>0. /\ totalShares \in Nat /\ shares \in [Pair -> Nat]
      /\ stakes \in [Pair -> [PoolTokens -> Nat]]
      /\ deposited \in [PoolTokens -> Nat] /\ funds \in [PoolTokens -> Nat]
      /\ net \in [PoolTokens -> Int]
  BY DEF StakeInv, StakeTypes
<1>1. /\ \A t \in PoolTokens : back[t] <= funds[t]
      /\ stakes' = [stakes EXCEPT ![s] = left]
      /\ deposited' = [t \in PoolTokens |-> deposited[t] - back[t]]
      /\ funds' = [t \in PoolTokens |-> funds[t] - back[t]]
      /\ shares' = [shares EXCEPT ![s] = @ - n]
      /\ totalShares' = totalShares - n
      /\ UNCHANGED <<supported, rewards, net, crossed>>
  BY <1>0, Zenon DEF Staking!Unstake
<1>2. /\ shares[s] \in Nat \ {0} /\ n \in 0..shares[s] /\ n > 0 /\ shares[s] <= totalShares
  BY <1>0, PartOfTotals
<1>3. ASSUME NEW t \in PoolTokens
      PROVE  /\ back[t] \in Nat /\ back[t] <= stakes[s][t]
             /\ n = shares[s] => back[t] = stakes[s][t]
             /\ n < shares[s] /\ stakes[s][t] > 0 => back[t] < stakes[s][t]
             /\ t \notin supported => back[t] = 0
  <2>1. stakes[s][t] \in Nat
    BY <1>0
  <2>2. CASE t \in supported
    <3>1. back[t] = (stakes[s][t] * n) \div shares[s]
      BY <2>2
    <3> HIDE DEF back, left
    <3> QED
      BY <1>2, <2>1, <2>2, <3>1, PartOf
  <2>3. CASE t \notin supported
    <3>1. back[t] = 0
      BY <2>3
    <3>2. stakes[s][t] = 0
      <4>1. deposited[t] = 0 /\ stakes[s][t] <= deposited[t]
        BY <2>3, PartOfTotals DEF StakeInv, PoolPays
      <4> QED
        BY <2>1, <4>1
    <3> HIDE DEF back, left
    <3> QED
      BY <3>1, <3>2
  <2> QED
    BY <2>2, <2>3
<1>4. left \in [PoolTokens -> Nat] /\ \A t \in PoolTokens : left[t] = stakes[s][t] - back[t]
  <2>1. \A t \in PoolTokens : stakes[s][t] \in Nat /\ back[t] \in Nat /\ back[t] <= stakes[s][t]
    BY <1>0, <1>3
  <2> HIDE DEF back
  <2> QED
    BY <2>1
<1> HIDE DEF back, left
<1>5. /\ shares' \in [Pair -> Nat] /\ shares'[s] = shares[s] - n
      /\ \A r \in Pair : r # s => shares'[r] = shares[r]
  BY <1>0, <1>1, <1>2
<1>6. /\ stakes' \in [Pair -> [PoolTokens -> Nat]] /\ stakes'[s] = left
      /\ \A r \in Pair : r # s => stakes'[r] = stakes[r]
  BY <1>0, <1>1, <1>4
<1>7. ASSUME NEW t \in PoolTokens
      PROVE  /\ deposited'[t] = deposited[t] - back[t] /\ deposited'[t] \in Nat
             /\ funds'[t] = funds[t] - back[t] /\ funds'[t] \in Nat
  <2>1. deposited[t] \in Nat /\ funds[t] \in Nat /\ stakes[s][t] \in Nat
        /\ stakes[s][t] <= deposited[t]
    BY <1>0, PartOfTotals
  <2>2. back[t] \in Nat /\ back[t] <= stakes[s][t] /\ back[t] <= funds[t]
    BY <1>1, <1>3
  <2>3. deposited'[t] = deposited[t] - back[t] /\ funds'[t] = funds[t] - back[t]
    BY <1>1
  <2> QED
    BY <2>1, <2>2, <2>3
<1>8. StakeTypes'
  <2>1. deposited' \in [PoolTokens -> Nat] /\ funds' \in [PoolTokens -> Nat]
    BY <1>1, <1>7
  <2>2. totalShares' \in Nat
    BY <1>0, <1>1, <1>2
  <2> QED
    BY <1>1, <1>5, <1>6, <2>1, <2>2 DEF StakeInv, StakeTypes
<1>9. StakesAddUp'
  <2>1. totalShares' = totalShares - shares[s] + shares'[s]
    BY <1>0, <1>1, <1>2, <1>5
  <2>2. ASSUME NEW t \in PoolTokens
        PROVE  deposited'[t] = deposited[t] - stakes[s][t] + stakes'[s][t]
    <3>1. deposited[t] \in Nat /\ stakes[s][t] \in Nat /\ back[t] \in Nat
      BY <1>0, <1>3
    <3>2. stakes'[s][t] = stakes[s][t] - back[t] /\ deposited'[t] = deposited[t] - back[t]
      BY <1>4, <1>6, <1>7
    <3> QED
      BY <3>1, <3>2
  <2> QED
    BY <1>5, <1>6, <1>8, <2>1, <2>2, SumsFollow
<1>10. ASSUME NEW t \in PoolTokens PROVE PoolPays(t)'
  <2>1. PoolPays(t) /\ funds[t] \in Nat /\ deposited[t] \in Nat /\ net[t] \in Int
    BY DEF StakeInv, StakeTypes
  <2>2. back[t] \in Nat /\ (t \notin supported => back[t] = 0)
    BY <1>3
  <2>3. deposited'[t] = deposited[t] - back[t] /\ funds'[t] = funds[t] - back[t]
    BY <1>7
  <2>4. (t \notin supported => deposited'[t] = 0) /\ funds'[t] = deposited'[t] + net[t]
    BY <2>1, <2>2, <2>3 DEF PoolPays
  <2> QED
    BY <1>1, <2>1, <2>4, Zenon DEF PoolPays
<1>11. ASSUME NEW r \in Pair PROVE HasBoth(r)'
  <2>1. HasBoth(r) /\ HasBoth(s)
    BY DEF StakeInv
  <2>2. CASE r # s
    BY <1>5, <1>6, <2>1, <2>2 DEF HasBoth
  <2>3. ASSUME n = shares[s] PROVE HasBoth(s)'
    <3>1. shares'[s] = 0
      BY <1>2, <1>5, <2>3
    <3>2. \A t \in PoolTokens : left[t] = 0
      BY <1>0, <1>3, <1>4, <2>3
    <3> QED
      BY <1>6, <3>1, <3>2 DEF HasBoth
  <2>4. ASSUME n < shares[s] PROVE HasBoth(s)'
    <3>1. shares'[s] > 0
      BY <1>2, <1>5, <2>4
    <3>2. PICK t \in PoolTokens : stakes[s][t] > 0
      BY <1>2, <2>1 DEF HasBoth
    <3>3. left[t] > 0
      <4>1. stakes[s][t] \in Nat /\ back[t] \in Nat /\ back[t] < stakes[s][t]
        BY <1>0, <1>3, <2>4, <3>2
      <4> QED
        BY <1>4, <4>1
    <3> QED
      BY <1>6, <3>1, <3>3 DEF HasBoth
  <2>5. n = shares[s] \/ n < shares[s]
    BY <1>2
  <2> QED
    BY <2>2, <2>3, <2>4, <2>5
<1> QED
  BY <1>8, <1>9, <1>10, <1>11 DEF StakeInv

\* The calls that move rewards and leave the positions as they are.
LEMMA RewardsMove ==
  ASSUME StakeInv, UNCHANGED <<deposited, totalShares, shares, stakes>>,
         supported' \in SUBSET PoolTokens,
         rewards' \in [PoolTokens -> Nat], funds' \in [PoolTokens -> Nat],
         net' \in [PoolTokens -> Int],
         \A t \in PoolTokens : PoolPays(t)'
  PROVE  StakeInv'
<1>1. StakeTypes' /\ StakesAddUp'
  BY SumsStay DEF StakeInv, StakeTypes
<1>2. \A s \in Pair : HasBoth(s)'
  BY DEF StakeInv, HasBoth
<1> QED
  BY <1>1, <1>2 DEF StakeInv

LEMMA StakeClaims ==
  ASSUME StakingAssumption, StakeInv, NEW s \in Pair, Staking!ClaimRewards(s)
  PROVE  StakeInv'
<1> DEFINE claim == [t \in PoolTokens |-> IF t \in supported
                                      THEN (rewards[t] * shares[s]) \div totalShares ELSE 0]
<1>0. /\ totalShares \in Nat /\ shares[s] \in Nat /\ rewards \in [PoolTokens -> Nat]
      /\ funds \in [PoolTokens -> Nat] /\ net \in [PoolTokens -> Int]
      /\ supported \in SUBSET PoolTokens
  BY DEF StakeInv, StakeTypes
<1>1. /\ shares[s] > 0
      /\ \A t \in PoolTokens : claim[t] <= funds[t]
      /\ rewards' = [t \in PoolTokens |-> rewards[t] - claim[t]]
      /\ funds' = [t \in PoolTokens |-> funds[t] - claim[t]]
      /\ net' = [t \in PoolTokens |-> net[t] - claim[t]]
      /\ UNCHANGED <<supported, deposited, totalShares, shares, stakes, crossed>>
  BY Zenon DEF Staking!ClaimRewards
<1>2. totalShares \in Nat \ {0} /\ shares[s] \in 0..totalShares
  <2>1. shares[s] <= totalShares
    BY PartOfTotals
  <2> QED
    BY <1>0, <1>1, <2>1
<1>3. ASSUME NEW t \in PoolTokens PROVE claim[t] \in Nat /\ claim[t] <= rewards[t]
  <2>1. rewards[t] \in Nat
    BY <1>0
  <2>2. claim[t] = IF t \in supported THEN (rewards[t] * shares[s]) \div totalShares ELSE 0
    OBVIOUS
  <2> HIDE DEF claim
  <2>3. /\ (rewards[t] * shares[s]) \div totalShares \in Nat
        /\ (rewards[t] * shares[s]) \div totalShares <= rewards[t]
    BY <1>2, <2>1, PartOf
  <2> QED
    BY <2>1, <2>2, <2>3
<1> HIDE DEF claim
<1>4. ASSUME NEW t \in PoolTokens
      PROVE  rewards'[t] \in Nat /\ funds'[t] \in Nat /\ net'[t] \in Int /\ PoolPays(t)'
  <2>1. /\ rewards[t] \in Nat /\ funds[t] \in Nat /\ net[t] \in Int /\ deposited[t] \in Nat
        /\ claim[t] \in Nat /\ claim[t] <= rewards[t] /\ claim[t] <= funds[t]
    BY <1>0, <1>1, <1>3 DEF StakeInv, StakeTypes
  <2>2. /\ rewards'[t] = rewards[t] - claim[t] /\ funds'[t] = funds[t] - claim[t]
        /\ net'[t] = net[t] - claim[t]
    BY <1>1
  <2>3. PoolPays(t)
    BY DEF StakeInv
  <2>4. /\ funds[t] = deposited[t] + net[t] => funds'[t] = deposited[t] + net'[t]
        /\ net[t] >= rewards[t] => net'[t] >= rewards'[t]
    BY <2>1, <2>2
  <2>5. PoolPays(t)'
    BY <1>1, <2>3, <2>4, Zenon DEF PoolPays
  <2> QED
    BY <2>1, <2>2, <2>5
<1>5. /\ rewards' \in [PoolTokens -> Nat] /\ funds' \in [PoolTokens -> Nat]
      /\ net' \in [PoolTokens -> Int]
  BY <1>1, <1>4
<1> QED
  BY <1>0, <1>1, <1>4, <1>5, RewardsMove

LEMMA Cancels ==
  ASSUME NEW a \in Nat \ {0}, NEW x \in Nat, NEW y \in Nat, a * x <= y * a
  PROVE  x <= y
<1>1. ASSUME y < x PROVE FALSE
  <2>1. y + 1 <= x /\ y + 1 \in Nat
    BY <1>1
  <2>2. (y + 1) * a <= x * a /\ x * a = a * x /\ (y + 1) * a = y * a + a /\ y * a \in Nat
    BY <2>1, Monotone
  <2>3. a * x \in Nat
    OBVIOUS
  <2> QED
    BY <2>2, <2>3
<1> QED
  BY <1>1

LEMMA StakeDistributes ==
  ASSUME StakingAssumption, StakeInv, NEW token \in PoolTokens, NEW total \in Rewarded,
         NEW own \in BOOLEAN, Staking!DistributeRewards(token, total, own)
  PROVE  StakeInv'
<1> DEFINE funded == {t \in supported : deposited[t] > 0}
           all == SumOver(deposited, funded)
           alloc == [t \in funded |-> (total * deposited[t]) \div all]
           dust == total - SumOver(alloc, funded)
           credit == [t \in PoolTokens |-> IF t \notin funded THEN 0
                        ELSE alloc[t] + IF t = Staking!Min(funded) THEN dust ELSE 0]
           brought == IF own THEN 0 ELSE total
<1>0. /\ rewards \in [PoolTokens -> Nat] /\ funds \in [PoolTokens -> Nat]
      /\ net \in [PoolTokens -> Int] /\ deposited \in [PoolTokens -> Nat]
      /\ supported \in SUBSET PoolTokens /\ total \in Nat
  BY DEF StakeInv, StakeTypes, StakingAssumption
<1>1. \A f, S : Staking!SumOver(f, S) = SumOver(f, S)
  BY Zenon DEF Staking!SumOver, SumOver, Staking!MapThenSumSet, MapThenSumSet,
     Staking!MapThenFoldSet, MapThenFoldSet
<1>2. /\ funded # {}
      /\ rewards' = [t \in PoolTokens |-> rewards[t] + credit[t]]
      /\ funds' = [funds EXCEPT ![token] = @ + brought]
      /\ net' = [net EXCEPT ![token] = @ + brought]
      /\ crossed' = (crossed \/ own \/ \E t \in PoolTokens \ {token} : credit[t] > 0)
      /\ UNCHANGED <<supported, deposited, totalShares, shares, stakes>>
  BY <1>1, Zenon DEF Staking!DistributeRewards
<1>3. IsFiniteSet(funded) /\ funded \subseteq PoolTokens
  <2>1. funded \subseteq PoolTokens
    BY <1>0
  <2> HIDE DEF funded
  <2> QED
    BY <2>1, FS_Subset DEF StakingAssumption
<1>4. \A t \in funded : deposited[t] \in Nat \ {0}
  BY <1>0
<1> HIDE DEF funded
<1>5. all \in Nat \ {0} /\ \A t \in funded : deposited[t] <= all
  <2>1. all \in Nat /\ \A t \in funded : deposited[t] <= all
    BY <1>3, <1>4, SumBounds
  <2>2. PICK t \in funded : TRUE
    BY <1>2
  <2>3. deposited[t] \in Nat \ {0} /\ deposited[t] <= all
    BY <1>4, <2>1, <2>2
  <2> HIDE DEF all
  <2>4. all # 0
    BY <2>1, <2>3
  <2> QED
    BY <2>1, <2>4
<1>6. ASSUME NEW t \in funded PROVE alloc[t] \in Nat /\ all * alloc[t] <= total * deposited[t]
  <2>1. alloc[t] = (total * deposited[t]) \div all
    OBVIOUS
  <2>2. total * deposited[t] \in Nat
    BY <1>0, <1>4
  <2> HIDE DEF alloc, all
  <2>3. alloc[t] \in Nat /\ alloc[t] * all <= total * deposited[t]
    BY <1>5, <2>1, <2>2, Quotient
  <2> QED
    BY <1>5, <2>3
<1> DEFINE given == SumOver(alloc, funded)
<1>7. given \in Nat /\ \A t \in funded : alloc[t] <= given
  <2>1. \A t \in funded : alloc[t] \in Nat
    BY <1>6
  <2> HIDE DEF alloc
  <2> QED
    BY <1>3, <2>1, SumBounds
<1>8. given <= total
  <2>1. \A t \in funded : /\ alloc[t] \in Nat /\ deposited[t] \in Nat
                         /\ all * alloc[t] <= total * deposited[t]
    BY <1>4, <1>6
  <2>2. all \in Nat
    BY <1>5
  <2> HIDE DEF alloc
  <2>3. all * SumOver(alloc, funded) <= total * SumOver(deposited, funded)
    <3> HIDE DEF all
    <3> QED
      BY <1>0, <1>3, <2>1, <2>2, SumsCompare
  <2>4. all * given <= total * all
    BY <2>3
  <2> HIDE DEF given, all
  <2> QED
    BY <1>0, <1>5, <1>7, <2>4, Cancels
<1>9. ASSUME NEW t \in PoolTokens PROVE credit[t] \in Nat /\ credit[t] <= total
  <2>1. credit[t] = IF t \notin funded THEN 0
                    ELSE alloc[t] + IF t = Staking!Min(funded) THEN total - given ELSE 0
    OBVIOUS
  <2>2. t \in funded => alloc[t] \in Nat /\ alloc[t] <= given
    BY <1>6, <1>7
  <2> HIDE DEF credit, alloc, given, dust, all
  <2>3. CASE t \notin funded
    BY <1>0, <2>1, <2>3
  <2>4. CASE t \in funded
    <3>1. alloc[t] \in Nat /\ alloc[t] <= given
      BY <2>2, <2>4
    <3>2. credit[t] = alloc[t] \/ credit[t] = alloc[t] + (total - given)
      BY <2>1, <2>4, <3>1
    <3> QED
      BY <1>0, <1>7, <1>8, <3>1, <3>2
  <2> QED
    BY <2>3, <2>4
<1>10. brought \in Nat /\ (~own => brought = total)
  BY <1>0
<1> HIDE DEF credit, alloc, given, dust, all, brought
<1>11. ASSUME NEW t \in PoolTokens PROVE PoolPays(t)'
  <2>1. /\ rewards[t] \in Nat /\ funds[t] \in Nat /\ net[t] \in Int /\ deposited[t] \in Nat
        /\ credit[t] \in Nat /\ credit[t] <= total
    BY <1>0, <1>9
  <2>2. rewards'[t] = rewards[t] + credit[t]
    BY <1>2
  <2>3. PoolPays(t)
    BY DEF StakeInv
  <2>4. CASE t = token
    <3>1. funds'[t] = funds[t] + brought /\ net'[t] = net[t] + brought
      BY <1>0, <1>2, <2>4
    <3>2. /\ funds[t] = deposited[t] + net[t] => funds'[t] = deposited[t] + net'[t]
          /\ ~own /\ net[t] >= rewards[t] => net'[t] >= rewards'[t]
      BY <1>0, <1>10, <2>1, <2>2, <3>1
    <3>3. ~crossed' => ~crossed /\ ~own
      BY <1>2, Zenon
    <3> QED
      BY <1>2, <2>3, <3>2, <3>3, Zenon DEF PoolPays
  <2>5. CASE t # token
    <3>1. funds'[t] = funds[t] /\ net'[t] = net[t]
      BY <1>0, <1>2, <2>5
    <3>2. ASSUME ~crossed' PROVE ~crossed /\ rewards'[t] = rewards[t]
      <4>1. ~crossed /\ ~(credit[t] > 0)
        BY <1>2, <2>5, <3>2, Zenon
      <4>2. credit[t] = 0
        BY <2>1, <4>1
      <4> QED
        BY <2>1, <2>2, <4>1, <4>2
    <3> QED
      BY <1>2, <2>3, <3>1, <3>2, Zenon DEF PoolPays
  <2> QED
    BY <2>4, <2>5
<1>12. /\ rewards' \in [PoolTokens -> Nat] /\ funds' \in [PoolTokens -> Nat]
       /\ net' \in [PoolTokens -> Int]
  <2>1. \A t \in PoolTokens : rewards[t] + credit[t] \in Nat
    BY <1>0, <1>9
  <2> QED
    BY <1>0, <1>2, <1>10, <2>1
<1> QED
  BY <1>0, <1>2, <1>11, <1>12, RewardsMove

LEMMA StakeStep ==
  ASSUME StakingAssumption, StakeInv, [Staking!Next]_stakingPart
  PROVE  StakeInv'
<1>0. /\ rewards \in [PoolTokens -> Nat] /\ funds \in [PoolTokens -> Nat]
      /\ net \in [PoolTokens -> Int] /\ supported \in SUBSET PoolTokens
      /\ \A t \in PoolTokens : PoolPays(t)
  BY DEF StakeInv, StakeTypes
<1>1. CASE UNCHANGED stakingPart
  BY <1>1, SumsStay DEF stakingPart, StakeInv, StakeTypes, PoolPays, HasBoth
<1>2. ASSUME NEW t \in PoolTokens, Staking!AddToken(t) PROVE StakeInv'
  <2>1. /\ supported' = supported \cup {t}
        /\ UNCHANGED <<deposited, rewards, totalShares, shares, stakes, funds, net, crossed>>
    BY <1>2 DEF Staking!AddToken
  <2>2. \A u \in PoolTokens : PoolPays(u)'
    BY <1>0, <2>1 DEF PoolPays
  <2> QED
    BY <1>0, <2>1, <2>2, RewardsMove
<1>3. ASSUME NEW t \in PoolTokens, Staking!RemoveToken(t) PROVE StakeInv'
  <2>1. /\ deposited[t] = 0
        /\ supported' = supported \ {t} /\ rewards' = [rewards EXCEPT ![t] = 0]
        /\ UNCHANGED <<deposited, totalShares, shares, stakes, funds, net, crossed>>
    BY <1>3 DEF Staking!RemoveToken
  <2>2. ASSUME NEW u \in PoolTokens PROVE PoolPays(u)'
    <3>1. PoolPays(u) /\ net[u] \in Int /\ rewards[u] \in Nat
      BY <1>0
    <3>2. CASE u = t
      <4>1. rewards'[u] = 0 /\ (net[u] >= rewards[u] => net[u] >= rewards'[u])
        BY <1>0, <2>1, <3>1, <3>2
      <4> QED
        BY <2>1, <3>1, <3>2, <4>1, Zenon DEF PoolPays
    <3>3. CASE u # t
      <4>1. rewards'[u] = rewards[u] /\ (u \notin supported' => u \notin supported)
        BY <1>0, <2>1, <3>3
      <4> QED
        BY <2>1, <3>1, <4>1, Zenon DEF PoolPays
    <3> QED
      BY <3>2, <3>3
  <2>3. rewards' \in [PoolTokens -> Nat] /\ supported' \in SUBSET PoolTokens
    BY <1>0, <2>1
  <2> QED
    BY <1>0, <2>1, <2>2, <2>3, RewardsMove
<1> QED
  BY <1>1, <1>2, <1>3, StakeAdds, StakeTakes, StakeClaims, StakeDistributes, Zenon DEF Staking!Next

\* The totals are the positions, a staker has shares exactly while there is something
\* to take back, and the pool can pay what it owes, for any stakers, tokens, amounts
\* and scale, whatever is rounded (contracts/staking-pool).
THEOREM StakingTheorem == Spec => []StakesRedeemable
<1> DEFINE Inv == part = "staking" => StakeInv
<1>1. Init => Inv
  BY StakingStart, StakingAssumption, Zenon DEF Init
<1>2. Inv /\ [Next]_allVars => Inv'
  <2> SUFFICES ASSUME Inv, [Next]_allVars, part' = "staking" PROVE StakeInv'
    BY Zenon
  <2>1. part = "staking" /\ [Staking!Next]_stakingPart
    BY StepsOfContracts, Zenon
  <2> QED
    BY <2>1, StakeStep, StakingAssumption
<1>3. StakeInv => Staking!StakesRedeemable
  <2> SUFFICES ASSUME StakeInv PROVE Staking!StakesRedeemable
    OBVIOUS
  <2>1. \A f, S : Staking!SumOver(f, S) = SumOver(f, S)
    BY Zenon DEF Staking!SumOver, SumOver, Staking!MapThenSumSet, MapThenSumSet,
       Staking!MapThenFoldSet, MapThenFoldSet
  <2>2. \A t : Staking!StakesIn(t) = StakesOf(t)
    BY Zenon DEF Staking!StakesIn, StakesOf
  <2> QED
    BY <2>1, <2>2, Zenon DEF StakeInv, StakesAddUp, PoolPays, HasBoth, Staking!StakesRedeemable
<1>4. Inv => StakesRedeemable
  BY <1>3, Zenon DEF StakesRedeemable
<1> QED
  BY <1>1, <1>2, <1>4, PTL DEF Spec

-----------------------------------------------------------------------------
(* The bridge: what is minted is what came in, within the cap.              *)

\* What was minted, the amount and the time of it and the cap it met.
MintRecords == Seq([amount : Nat, at : Nat, cap : Nat])
Minted(m) == [k \in 1..Len(m) |-> m[k].amount]

\* g says where the window of each mint started.  The mints of one window up to the
\* i-th, and what is true of the i-th: it is within its window and within its cap.
UpTo(g, i) == {k \in 1..i : g[k] = g[i]}
MintFits(m, g, i) ==
  /\ g[i] \in Nat /\ g[i] <= m[i].at /\ m[i].at < g[i] + CapWindow
  /\ SumOver(Minted(m), UpTo(g, i)) <= m[i].cap

\* A later mint is in the same window or in one that starts after this one ended.
Apart(g, i, j) == i < j => g[j] = g[i] \/ g[j] >= g[i] + CapWindow

Windows(m, g) ==
  /\ m \in MintRecords
  /\ \A i \in 1..Len(m) : MintFits(m, g, i)
  /\ \A i, j \in 1..Len(m) : Apart(g, i, j)

LEMMA MintOf ==
  ASSUME NEW m \in MintRecords
  PROVE  /\ Len(m) \in Nat /\ IsFiniteSet(1..Len(m)) /\ Integral(Minted(m), 1..Len(m))
         /\ \A i \in 1..Len(m) : /\ m[i].amount \in Nat /\ m[i].at \in Nat /\ m[i].cap \in Nat
                                 /\ Minted(m)[i] = m[i].amount
         /\ \A S \in SUBSET (1..Len(m)) :
              IsFiniteSet(S) /\ SumOver(Minted(m), S) \in Nat
<1>1. Len(m) \in Nat /\ \A i \in 1..Len(m) : m[i] \in [amount : Nat, at : Nat, cap : Nat]
  <2> DEFINE R == [amount : Nat, at : Nat, cap : Nat]
  <2>1. m \in Seq(R)
    BY DEF MintRecords
  <2> HIDE DEF R
  <2>2. Len(m) \in Nat /\ \A i \in 1..Len(m) : m[i] \in R
    BY <2>1
  <2> QED
    BY <2>2 DEF R
<1>2. IsFiniteSet(1..Len(m))
  BY <1>1, FS_Interval
<1>3. \A i \in 1..Len(m) : /\ m[i].amount \in Nat /\ m[i].at \in Nat /\ m[i].cap \in Nat
                           /\ Minted(m)[i] = m[i].amount
  BY <1>1 DEF Minted
<1>4. ASSUME NEW S \in SUBSET (1..Len(m))
      PROVE  IsFiniteSet(S) /\ SumOver(Minted(m), S) \in Nat
  <2>1. IsFiniteSet(S)
    BY <1>2, FS_Subset
  <2>2. \A i \in S : Minted(m)[i] \in Nat
    BY <1>3
  <2> QED
    BY <2>1, <2>2, SumBounds
<1> QED
  BY <1>1, <1>2, <1>3, <1>4 DEF Integral

\* The highest cap that the mints of I met.
Highest(m, I) == Bridge!Max({m[i].cap : i \in I})

LEMMA HighestCap ==
  ASSUME NEW m \in MintRecords, NEW I \in SUBSET (1..Len(m)), I # {}
  PROVE  Highest(m, I) \in Nat /\ \A i \in I : m[i].cap <= Highest(m, I)
<1> DEFINE c == [i \in 1..Len(m) |-> m[i].cap]
           D == {m[i].cap : i \in I}
<1>1. IsFiniteSet(I) /\ \A i \in I : c[i] = m[i].cap /\ m[i].cap \in Nat
  BY MintOf
<1> HIDE DEF c
<1>2. \A i \in I : c[i] \in Nat
  BY <1>1
<1>3. SumOver(c, I) \in Nat /\ \A i \in I : c[i] <= SumOver(c, I)
  BY <1>1, <1>2, SumBounds
<1>4. D \subseteq Nat /\ D # {} /\ \A y \in D : y <= SumOver(c, I)
  BY <1>1, <1>3
<1>5. \A i \in I : m[i].cap \in D
  OBVIOUS
<1>6. Highest(m, I) = Bridge!Max(D)
  BY Zenon DEF Highest
<1> HIDE DEF D
<1>7. \E x \in D : \A y \in D : y <= x
  BY <1>3, <1>4, HasGreatest
<1>8. Bridge!Max(D) \in D /\ \A y \in D : y <= Bridge!Max(D)
  <2>1. \E x \in D : \A y \in D : x >= y
    BY <1>4, <1>7
  <2>2. Bridge!Max(D) = CHOOSE x \in D : \A y \in D : x >= y
    BY Zenon DEF Bridge!Max
  <2>3. Bridge!Max(D) \in D /\ \A y \in D : Bridge!Max(D) >= y
    BY <2>1, <2>2
  <2> QED
    BY <1>4, <2>3
<1> QED
  BY <1>4, <1>5, <1>6, <1>8

\* The mints of a stretch of time.
Stretch(m, from, to) == {i \in 1..Len(m) : m[i].at \in from..to}

\* Of three mints in windows that start one after another, the last is a day and
\* more after the first.
LEMMA ThreeWindows ==
  ASSUME CapWindow \in Nat \ {0}, NEW a \in Int, NEW b \in Int, NEW c \in Int,
         NEW x \in Int, NEW z \in Int, NEW from \in Int,
         b >= a + CapWindow, c >= b + CapWindow, x < a + CapWindow, c <= z, x >= from
  PROVE  ~(z <= from + CapWindow - 1)
  OBVIOUS

\* The mints of the window that starts at w.
WindowAt(m, g, w) == {k \in 1..Len(m) : g[k] = w}

\* w is the start of the window of an earlier mint, or a day and more after it.
Follows(m, g, w) == \A i \in 1..Len(m) : w = g[i] \/ w >= g[i] + CapWindow

\* The mint e is counted in the window that starts at w, with what it used before.
Joins(m, g, e, w, used) ==
  /\ Windows(m, g) /\ Follows(m, g, w)
  /\ e \in [amount : Nat, at : Nat, cap : Nat] /\ w \in Nat
  /\ w <= e.at /\ e.at < w + CapWindow
  /\ used = SumOver(Minted(m), WindowAt(m, g, w)) /\ used + e.amount <= e.cap

LEMMA WindowsGrow ==
  ASSUME NEW m, NEW g, NEW e, NEW w, NEW used, CapWindow \in Nat \ {0},
         Joins(m, g, e, w, used)
  PROVE  \E h : /\ Windows(Append(m, e), h) /\ h[Len(m) + 1] = w
                /\ SumOver(Minted(Append(m, e)), UpTo(h, Len(m) + 1)) = used + e.amount
<1>0. /\ Windows(m, g) /\ Follows(m, g, w)
      /\ e \in [amount : Nat, at : Nat, cap : Nat] /\ w \in Nat
      /\ w <= e.at /\ e.at < w + CapWindow
      /\ used = SumOver(Minted(m), WindowAt(m, g, w)) /\ used + e.amount <= e.cap
  BY Zenon DEF Joins
<1> DEFINE n == Len(m)
           l == Append(m, e)
           h == [k \in 1..(n + 1) |-> IF k = n + 1 THEN w ELSE g[k]]
           K == WindowAt(m, g, w)
<1>1. m \in MintRecords /\ n \in Nat
  BY <1>0, MintOf DEF Windows
<1>2. l \in MintRecords /\ Len(l) = n + 1 /\ l[n + 1] = e /\ \A i \in 1..n : l[i] = m[i]
  BY <1>0, <1>1 DEF MintRecords
<1>3. h[n + 1] = w /\ \A i \in 1..n : h[i] = g[i]
  BY <1>1
<1>4. UpTo(h, n + 1) = K \cup {n + 1} /\ \A i \in 1..n : UpTo(h, i) = UpTo(g, i)
  <2> HIDE DEF h
  <2> QED
    BY <1>1, <1>3 DEF UpTo, WindowAt
<1> HIDE DEF l, h
<1>5. \A S \in SUBSET (1..n) : SumOver(Minted(l), S) = SumOver(Minted(m), S)
  <2> SUFFICES ASSUME NEW S \in SUBSET (1..n)
               PROVE  SumOver(Minted(l), S) = SumOver(Minted(m), S)
    OBVIOUS
  <2>1. IsFiniteSet(S)
    BY <1>1, MintOf
  <2>2. \A i \in 1..n : Minted(l)[i] = Minted(m)[i]
    BY <1>1, <1>2 DEF Minted
  <2>3. Agree(Minted(l), Minted(m), S)
    BY <2>2 DEF Agree
  <2> QED
    BY <2>1, <2>3, SumAgree, Zenon
<1>6. SumOver(Minted(l), UpTo(h, n + 1)) = used + e.amount
  <2>1. K \cup {n + 1} \in SUBSET (1..Len(l)) /\ K \in SUBSET (1..n)
    BY <1>1, <1>2 DEF WindowAt
  <2>2. IsFiniteSet(K \cup {n + 1})
    BY <1>2, <2>1, MintOf
  <2>3. Integral(Minted(l), K \cup {n + 1})
    <3>1. Integral(Minted(l), 1..Len(l))
      BY <1>2, MintOf, Zenon
    <3> QED
      BY <2>1, <3>1 DEF Integral
  <2>4. IsFiniteSet(K) /\ n + 1 \notin K
    BY <1>1, <2>1, MintOf
  <2>5. SumOver(Minted(l), K \cup {n + 1}) = Minted(l)[n + 1] + SumOver(Minted(l), K)
    <3> HIDE DEF K
    <3> QED
      BY <2>3, <2>4, SumOneMore
  <2>7. SumOver(Minted(l), K) = used
    BY <1>0, <1>5, <2>1
  <2>8. Minted(l)[n + 1] = e.amount /\ e.amount \in Nat /\ used \in Nat
    <3>1. SumOver(Minted(m), K) \in Nat /\ used = SumOver(Minted(m), K)
      BY <1>0, <1>1, <2>1, MintOf
    <3>2. Minted(l)[n + 1] = l[n + 1].amount
      BY <1>1, <1>2 DEF Minted
    <3> QED
      BY <1>0, <1>2, <3>1, <3>2
  <2> HIDE DEF K
  <2>9. SumOver(Minted(l), K \cup {n + 1}) = used + e.amount
    BY <2>5, <2>7, <2>8
  <2> QED
    BY <1>4, <2>9, Zenon
<1>7. ASSUME NEW i \in 1..Len(l) PROVE MintFits(l, h, i)
  <2>1. CASE i = n + 1
    <3>1. e.cap \in Nat /\ e.at \in Nat
      BY <1>0
    <3> QED
      BY <1>0, <1>2, <1>3, <1>6, <2>1, <3>1 DEF MintFits
  <2>2. CASE i \in 1..n
    <3>1. MintFits(m, g, i)
      BY <1>0, <2>2 DEF Windows
    <3>2. UpTo(g, i) \in SUBSET (1..n)
      BY <1>1, <2>2 DEF UpTo
    <3>3. SumOver(Minted(l), UpTo(h, i)) = SumOver(Minted(m), UpTo(g, i))
      BY <1>4, <1>5, <2>2, <3>2
    <3>4. h[i] = g[i] /\ l[i] = m[i]
      BY <1>2, <1>3, <2>2
    <3> QED
      BY <3>1, <3>3, <3>4, Zenon DEF MintFits
  <2>3. i = n + 1 \/ i \in 1..n
    <3> HIDE DEF n, K
    <3> QED
      BY <1>1, <1>2
  <2> QED
    BY <2>1, <2>2, <2>3
<1>8. ASSUME NEW i \in 1..Len(l), NEW j \in 1..Len(l), i < j PROVE Apart(h, i, j)
  <2>1. i \in 1..n /\ h[i] = g[i]
    BY <1>1, <1>2, <1>3, <1>8
  <2>2. CASE j = n + 1
    BY <1>0, <1>3, <2>1, <2>2 DEF Apart, Follows
  <2>3. CASE j \in 1..n
    <3>1. Apart(g, i, j)
      BY <1>0, <2>1, <2>3 DEF Windows
    <3> QED
      BY <1>3, <2>1, <2>3, <3>1 DEF Apart
  <2> QED
    BY <1>1, <1>2, <2>2, <2>3
<1>9. \A i, j \in 1..Len(l) : Apart(h, i, j)
  BY <1>8 DEF Apart
<1>10. Windows(l, h)
  BY <1>2, <1>7, <1>9 DEF Windows
<1> QED
  BY <1>3, <1>6, <1>10 DEF l

\* A day touches two windows at most, and neither of them holds more than the
\* highest cap met in that day.
LEMMA TwoWindows ==
  ASSUME CapWindow \in Nat \ {0}, NEW m, NEW g, Windows(m, g), NEW from \in Int,
         NEW D, D = Stretch(m, from, from + CapWindow - 1), D # {}
  PROVE  SumOver(Minted(m), D) <= 2 * Highest(m, D)
<1> DEFINE n == Len(m)
           top == Highest(m, D)
<1>1. m \in MintRecords /\ n \in Nat /\ D \in SUBSET (1..n) /\ IsFiniteSet(D)
  <2>1. m \in MintRecords /\ D \in SUBSET (1..n)
    BY DEF Windows, Stretch
  <2> QED
    BY <2>1, MintOf
<1>2. /\ \A i \in 1..n : m[i].amount \in Nat /\ m[i].at \in Nat /\ m[i].cap \in Nat
      /\ \A S \in SUBSET (1..n) : IsFiniteSet(S) /\ SumOver(Minted(m), S) \in Nat
      /\ \A i \in 1..n : Minted(m)[i] = m[i].amount
  BY <1>1, MintOf
<1>3. top \in Nat /\ \A i \in D : m[i].cap <= top
  BY <1>1, HighestCap
<1>4. \A i \in 1..n : /\ g[i] \in Nat /\ g[i] <= m[i].at /\ m[i].at < g[i] + CapWindow
                      /\ SumOver(Minted(m), UpTo(g, i)) <= m[i].cap
  BY DEF Windows, MintFits
<1>5. \A i, j \in 1..n : i < j => g[j] = g[i] \/ g[j] >= g[i] + CapWindow
  BY Zenon DEF Windows, Apart
<1> HIDE DEF top, n
<1>6. ASSUME NEW S \in SUBSET D, NEW i \in S, \A k \in S : k <= i /\ g[k] = g[i]
      PROVE  SumOver(Minted(m), S) <= top
  <2>1. i \in 1..n /\ S \in SUBSET UpTo(g, i) /\ UpTo(g, i) \in SUBSET (1..n)
    BY <1>1, <1>6 DEF UpTo
  <2>2. IsFiniteSet(UpTo(g, i)) /\ \A k \in UpTo(g, i) : Minted(m)[k] \in Nat
    BY <1>2, <2>1
  <2>3. SumOver(Minted(m), S) <= SumOver(Minted(m), UpTo(g, i))
    BY <2>1, <2>2, SumOfPart
  <2>4. SumOver(Minted(m), UpTo(g, i)) <= m[i].cap /\ m[i].cap <= top
    BY <1>3, <1>4, <2>1
  <2>5. /\ SumOver(Minted(m), S) \in Nat /\ SumOver(Minted(m), UpTo(g, i)) \in Nat
        /\ m[i].cap \in Nat
    BY <1>1, <1>2, <2>1
  <2> QED
    BY <1>3, <2>3, <2>4, <2>5
<1>7. ASSUME NEW S \in SUBSET D, S # {} PROVE \E i \in S : \A k \in S : k <= i
  <2>1. S \subseteq Nat /\ \A k \in S : k <= n
    BY <1>1
  <2> QED
    BY <1>1, <1>7, <2>1, HasGreatest
<1>8. PICK last \in D : \A k \in D : k <= last
  BY <1>7
<1> DEFINE A == {k \in D : g[k] = g[last]}
           B == D \ A
<1>9. A \in SUBSET D /\ B \in SUBSET D /\ last \in A /\ SumOver(Minted(m), A) <= top
  <2>1. A \in SUBSET D /\ last \in A /\ \A k \in A : k <= last /\ g[k] = g[last]
    BY <1>8
  <2> HIDE DEF A
  <2> QED
    BY <1>6, <2>1
<1>10. SumOver(Minted(m), B) <= top
  <2>1. CASE B = {}
    <3>1. SumOver(Minted(m), {}) = 0
      <4>1. Integral(Minted(m), D)
        BY <1>1, <1>2 DEF Integral
      <4> QED
        BY <1>1, <4>1, SumRemove, Zenon
    <3>2. SumOver(Minted(m), B) = 0
      BY <2>1, <3>1, Zenon
    <3> HIDE DEF B
    <3> QED
      BY <1>3, <3>2
  <2>2. CASE B # {}
    <3>1. PICK j \in B : \A k \in B : k <= j
      BY <1>7, <1>9, <2>2
    <3>2. j \in D /\ g[j] # g[last] /\ last \in D
      BY <3>1
    <3>3. j < last /\ g[last] >= g[j] + CapWindow
      <4>1. j <= last /\ j # last /\ j \in Nat /\ last \in Nat
        BY <1>1, <1>8, <3>2
      <4> QED
        BY <1>1, <1>5, <3>2, <4>1
    <3>4. ASSUME NEW k \in B PROVE k <= j /\ g[k] = g[j]
      <4>1. k <= j /\ k \in D
        BY <3>1
      <4>2. m[k].at >= from /\ m[last].at <= from + CapWindow - 1
        <5>1. m[k].at \in from..(from + CapWindow - 1) /\ m[last].at \in from..(from + CapWindow - 1)
          BY <3>2, <4>1 DEF Stretch
        <5> QED
          BY <5>1
      <4>3. /\ g[k] \in Nat /\ g[j] \in Nat /\ g[last] \in Nat
            /\ m[k].at \in Nat /\ m[last].at \in Nat
            /\ m[k].at < g[k] + CapWindow /\ g[last] <= m[last].at
        BY <1>1, <1>2, <1>4, <3>2, <4>1
      <4>4. k = j \/ g[j] = g[k] \/ g[j] >= g[k] + CapWindow
        <5>1. k \in Nat /\ j \in Nat /\ k \in 1..n /\ j \in 1..n
          BY <1>1, <3>2, <4>1
        <5> QED
          BY <1>5, <4>1, <5>1
      <4>5. ~(g[j] >= g[k] + CapWindow)
        <5> SUFFICES ASSUME g[j] >= g[k] + CapWindow PROVE FALSE
          OBVIOUS
        <5> QED
          BY <3>3, <4>2, <4>3, ThreeWindows
      <4> QED
        BY <4>1, <4>4, <4>5
    <3> HIDE DEF B
    <3> QED
      BY <1>6, <1>9, <3>1, <3>4
  <2> QED
    BY <2>1, <2>2
<1>11. SumOver(Minted(m), D) = SumOver(Minted(m), A) + SumOver(Minted(m), B)
  <2>1. Integral(Minted(m), D)
    BY <1>1, <1>2 DEF Integral
  <2>2. IsFiniteSet(D) /\ A \in SUBSET D
    BY <1>1, <1>9
  <2> HIDE DEF A
  <2> QED
    BY <2>1, <2>2, SumSplit
<1>12. SumOver(Minted(m), A) \in Nat /\ SumOver(Minted(m), B) \in Nat
  BY <1>1, <1>2, <1>9
<1>13. SumOver(Minted(m), D) <= 2 * top
  <2> HIDE DEF A, B
  <2> QED
    BY <1>3, <1>9, <1>10, <1>11, <1>12
<1> QED
  BY <1>13 DEF top

\* The mints since the last window started are those of that window.
LEMMA LastWindow ==
  ASSUME CapWindow \in Nat \ {0}, NEW m, NEW g, Windows(m, g), NEW moment \in Nat,
         \A i \in 1..Len(m) : m[i].at <= moment, Len(m) > 0,
         NEW D, D = Stretch(m, g[Len(m)], moment)
  PROVE  /\ SumOver(Minted(m), D) = SumOver(Minted(m), UpTo(g, Len(m)))
         /\ SumOver(Minted(m), D) <= Highest(m, D)
<1> DEFINE n == Len(m)
<1>1. m \in MintRecords /\ n \in Nat /\ n \in 1..n
  BY MintOf DEF Windows
<1>2. /\ \A i \in 1..n : m[i].at \in Nat /\ m[i].cap \in Nat
      /\ \A S \in SUBSET (1..n) : IsFiniteSet(S) /\ SumOver(Minted(m), S) \in Nat
  BY <1>1, MintOf
<1>3. \A i \in 1..n : /\ g[i] \in Nat /\ g[i] <= m[i].at /\ m[i].at < g[i] + CapWindow
                      /\ SumOver(Minted(m), UpTo(g, i)) <= m[i].cap
  BY DEF Windows, MintFits
<1>4. \A i, j \in 1..n : i < j => g[j] = g[i] \/ g[j] >= g[i] + CapWindow
  BY Zenon DEF Windows, Apart
<1> HIDE DEF n
<1>5. ASSUME NEW i \in 1..n PROVE (m[i].at \in g[n]..moment) <=> (g[i] = g[n])
  <2>1. /\ g[i] \in Nat /\ g[n] \in Nat /\ m[i].at \in Nat /\ m[i].at <= moment
        /\ g[i] <= m[i].at /\ m[i].at < g[i] + CapWindow
    BY <1>1, <1>2, <1>3 DEF n
  <2>2. i = n \/ g[n] = g[i] \/ g[n] >= g[i] + CapWindow
    BY <1>1, <1>4
  <2>3. g[i] = g[n] => m[i].at \in g[n]..moment
    BY <2>1
  <2>4. g[n] >= g[i] + CapWindow => ~(m[i].at >= g[n]) /\ g[i] # g[n]
    BY <2>1
  <2> QED
    BY <2>1, <2>2, <2>3, <2>4
<1>6. D = UpTo(g, n) /\ n \in D /\ D \in SUBSET (1..n)
  BY <1>1, <1>5 DEF UpTo, Stretch, n
<1>7. m[n].cap <= Highest(m, D) /\ Highest(m, D) \in Nat
  BY <1>1, <1>6, HighestCap DEF n
<1>8. /\ SumOver(Minted(m), D) <= m[n].cap /\ m[n].cap \in Nat
       /\ SumOver(Minted(m), D) \in Nat
  BY <1>1, <1>2, <1>3, <1>6
<1>9. SumOver(Minted(m), D) <= Highest(m, D)
  BY <1>7, <1>8
<1> QED
  BY <1>6, <1>9 DEF n

\* What the recorded window start and volume say of the mints up to a moment.
VolumeOf(m, g, start, volume) ==
  IF start = -1 THEN Len(m) = 0
  ELSE /\ start \in Nat /\ Len(m) > 0 /\ g[Len(m)] = start
       /\ volume = SumOver(Minted(m), UpTo(g, Len(m)))

CapKept(m, start, volume, moment) ==
  /\ \E g : Windows(m, g) /\ VolumeOf(m, g, start, volume)
  /\ \A i \in 1..Len(m) : m[i].at <= moment

\* The window a mint of this moment is counted in, and what it has used so far.
CountedIn(start, volume, moment, w, used) ==
  \/ (start = -1 \/ moment >= start + CapWindow) /\ w = moment /\ used = 0
  \/ ~(start = -1 \/ moment >= start + CapWindow) /\ w = start /\ used = volume

\* A mint that fits into the window it is counted in keeps the cap.
LEMMA CapKeeps ==
  ASSUME CapWindow \in Nat \ {0}, NEW m, NEW start, NEW volume, NEW moment \in Nat,
         CapKept(m, start, volume, moment),
         NEW amount \in Nat, NEW cap \in Nat, NEW w, NEW used,
         CountedIn(start, volume, moment, w, used),
         used + amount <= cap
  PROVE  CapKept(Append(m, [amount |-> amount, at |-> moment, cap |-> cap]), w, used + amount, moment)
<1> DEFINE e == [amount |-> amount, at |-> moment, cap |-> cap]
           n == Len(m)
<1>1. PICK g : Windows(m, g) /\ VolumeOf(m, g, start, volume)
  BY DEF CapKept
<1> DEFINE K == WindowAt(m, g, w)
<1>2. m \in MintRecords /\ n \in Nat /\ \A i \in 1..n : m[i].at \in Nat /\ m[i].at <= moment
  <2>1. m \in MintRecords
    BY <1>1 DEF Windows
  <2> QED
    BY <2>1, MintOf DEF CapKept
<1>3. \A i \in 1..n : g[i] \in Nat /\ g[i] <= m[i].at
  BY <1>1 DEF Windows, MintFits
<1>4. \A i \in 1..n : i = n \/ g[n] = g[i] \/ g[n] >= g[i] + CapWindow
  <2> SUFFICES ASSUME NEW i \in 1..n, i # n PROVE g[n] = g[i] \/ g[n] >= g[i] + CapWindow
    OBVIOUS
  <2>1. n \in 1..n /\ i < n
    BY <1>2
  <2>2. Apart(g, i, n)
    BY <1>1, <2>1 DEF Windows
  <2> QED
    BY <2>1, <2>2 DEF Apart
<1>5. /\ w \in Nat /\ w <= moment
      /\ \A i \in 1..n : w = g[i] \/ w >= g[i] + CapWindow
      /\ used = SumOver(Minted(m), K)
  <2>0. SumOver(Minted(m), {}) = 0
    <3>1. IsFiniteSet(1..n) /\ Integral(Minted(m), 1..n)
      BY <1>2, MintOf
    <3> QED
      BY <3>1, SumRemove, Zenon
  <2>1. CASE start = -1
    <3>1. n = 0
      BY <1>1, <2>1 DEF VolumeOf
    <3>2. K = {}
      BY <3>1 DEF WindowAt
    <3>3. w = moment /\ used = 0
      BY <2>1 DEF CountedIn
    <3> HIDE DEF K
    <3> QED
      BY <2>0, <3>1, <3>2, <3>3
  <2>2. CASE start # -1
    <3>1. start \in Nat /\ n > 0 /\ g[n] = start /\ volume = SumOver(Minted(m), UpTo(g, n))
      BY <1>1, <2>2 DEF VolumeOf
    <3>2. n \in 1..n /\ start <= moment
      <4>1. n \in 1..n
        BY <1>2, <3>1
      <4> QED
        BY <1>2, <1>3, <3>1, <4>1
    <3>3. \A i \in 1..n : g[i] = start \/ start >= g[i] + CapWindow
      BY <1>4, <3>1
    <3>4. CASE moment >= start + CapWindow
      <4>1. w = moment /\ used = 0
        BY <2>2, <3>4 DEF CountedIn
      <4>2. ASSUME NEW i \in 1..n PROVE w >= g[i] + CapWindow /\ g[i] # w
        <5>1. /\ g[i] \in Nat /\ start \in Nat /\ w \in Nat /\ w >= start + CapWindow
              /\ (g[i] = start \/ start >= g[i] + CapWindow)
          BY <1>3, <3>1, <3>3, <3>4, <4>1
        <5> HIDE DEF K
        <5> QED
          BY <5>1
      <4>3. K = {}
        BY <4>2 DEF WindowAt
      <4> HIDE DEF K
      <4> QED
        BY <2>0, <4>1, <4>2, <4>3
    <3>5. CASE ~(moment >= start + CapWindow)
      <4>1. w = start /\ used = volume
        BY <2>2, <3>5 DEF CountedIn
      <4>2. K = UpTo(g, n)
        BY <3>1, <4>1 DEF UpTo, WindowAt
      <4> HIDE DEF K
      <4> QED
        BY <3>1, <3>2, <3>3, <4>1, <4>2
    <3> QED
      BY <3>4, <3>5
  <2> QED
    BY <2>1, <2>2
<1>6. e \in [amount : Nat, at : Nat, cap : Nat] /\ e.amount = amount /\ e.at = moment /\ e.cap = cap
  OBVIOUS
<1>7. moment < w + CapWindow
  <2>1. CASE start = -1
    BY <1>5, <2>1 DEF CountedIn
  <2>2. CASE start # -1
    <3>1. start \in Nat
      BY <1>1, <2>2 DEF VolumeOf
    <3> QED
      BY <1>5, <2>2, <3>1 DEF CountedIn
  <2> QED
    BY <2>1, <2>2
<1> HIDE DEF e
<1>8. PICK h : /\ Windows(Append(m, e), h) /\ h[n + 1] = w
               /\ SumOver(Minted(Append(m, e)), UpTo(h, n + 1)) = used + amount
  <2>1. /\ e \in [amount : Nat, at : Nat, cap : Nat] /\ w \in Nat /\ w <= e.at
        /\ e.at < w + CapWindow /\ used + e.amount <= e.cap
    BY <1>5, <1>6, <1>7, Zenon
  <2>2. Follows(m, g, w) /\ Windows(m, g) /\ used = SumOver(Minted(m), WindowAt(m, g, w))
    BY <1>1, <1>5 DEF Follows
  <2> HIDE DEF n, K
  <2>3. \E h : /\ Windows(Append(m, e), h) /\ h[Len(m) + 1] = w
               /\ SumOver(Minted(Append(m, e)), UpTo(h, Len(m) + 1)) = used + e.amount
    <3>1. Joins(m, g, e, w, used)
      BY <2>1, <2>2, Zenon DEF Joins
    <3> QED
      BY <3>1, WindowsGrow
  <2> QED
    BY <1>6, <2>3, Zenon DEF n
<1>9. Len(Append(m, e)) = n + 1 /\ \A i \in 1..(n + 1) : Append(m, e)[i].at <= moment
  <2>1. /\ Len(Append(m, e)) = n + 1 /\ Append(m, e)[n + 1] = e
        /\ \A i \in 1..n : Append(m, e)[i] = m[i]
    <3>1. m \in Seq([amount : Nat, at : Nat, cap : Nat])
      BY <1>2 DEF MintRecords
    <3> QED
      BY <1>2, <1>6, <3>1
  <2>2. ASSUME NEW i \in 1..(n + 1) PROVE Append(m, e)[i].at <= moment
    <3>1. i = n + 1 \/ i \in 1..n
      BY <1>2
    <3> QED
      BY <1>2, <1>6, <2>1, <3>1
  <2> QED
    BY <2>1, <2>2
<1>10. VolumeOf(Append(m, e), h, w, used + amount)
  <2>1. n + 1 > 0 /\ w # -1
    BY <1>2, <1>5
  <2> QED
    BY <1>5, <1>8, <1>9, <2>1 DEF VolumeOf
<1> QED
  BY <1>8, <1>9, <1>10, Zenon DEF CapKept, e

\* The operations as they were stored, and those that were minted.
Carried(o) == [id \in 1..Len(o) |-> o[id].amount]
Completed(o) == {id \in 1..Len(o) : o[id].status = "completed"}

BridgeRecord(v) ==
  v \in [paused : {v.paused}, chains : {v.chains}, locked : {v.locked}, minted : {v.minted},
         burned : {v.burned}, cap : {v.cap}, delay : {v.delay}, pending : {v.pending},
         start : {v.start}, volume : {v.volume}]

BridgeTypes ==
  /\ tick \in Nat /\ BridgeRecord(bridge)
  /\ bridge.cap \in Nat /\ bridge.pending.cap \in Nat
  /\ operations \in Seq([amount : Nat, status : {"locked", "burned", "completed"}])

\* The invariant: what was minted is what the completed operations carry, and the
\* mints so far were counted in windows, within the cap.
BridgeInv ==
  /\ BridgeTypes
  /\ bridge.minted = SumOver(Carried(operations), Completed(operations))
  /\ CapKept(mints, bridge.start, bridge.volume, tick)

LEMMA OperationOf ==
  ASSUME NEW o, o \in Seq([amount : Nat, status : {"locked", "burned", "completed"}])
  PROVE  /\ Len(o) \in Nat /\ DOMAIN o = 1..Len(o)
         /\ \A id \in 1..Len(o) :
              /\ o[id] \in [amount : Nat, status : {"locked", "burned", "completed"}]
              /\ o[id].amount \in Nat /\ Carried(o)[id] = o[id].amount
         /\ \A S \in SUBSET (1..Len(o)) :
              IsFiniteSet(S) /\ Integral(Carried(o), S) /\ SumOver(Carried(o), S) \in Nat
<1> DEFINE R == [amount : Nat, status : {"locked", "burned", "completed"}]
<1>1. Len(o) \in Nat /\ DOMAIN o = 1..Len(o) /\ \A id \in 1..Len(o) : o[id] \in R
  <2> HIDE DEF R
  <2>1. o \in Seq(R)
    BY DEF R
  <2> QED
    BY <2>1
<1>2. \A id \in 1..Len(o) : o[id].amount \in Nat /\ Carried(o)[id] = o[id].amount
  BY <1>1 DEF Carried
<1>3. ASSUME NEW S \in SUBSET (1..Len(o))
      PROVE  IsFiniteSet(S) /\ Integral(Carried(o), S) /\ SumOver(Carried(o), S) \in Nat
  <2>1. IsFiniteSet(1..Len(o))
    <3>1. Len(o) \in Int /\ 1 \in Int
      BY <1>1
    <3> QED
      BY <3>1, FS_Interval
  <2>2. IsFiniteSet(S)
    BY <2>1, FS_Subset
  <2>3. \A id \in S : Carried(o)[id] \in Nat
    BY <1>2
  <2> QED
    <3>1. Integral(Carried(o), S)
      BY <2>3 DEF Integral
    <3>2. SumOver(Carried(o), S) \in Nat
      BY <2>2, <2>3, SumBounds
    <3> QED
      BY <2>2, <3>1, <3>2
<1> QED
  BY <1>1, <1>2, <1>3

\* An operation that is stored is not minted yet.
LEMMA OperationStored ==
  ASSUME NEW o, o \in Seq([amount : Nat, status : {"locked", "burned", "completed"}]),
         NEW e \in [amount : Nat, status : {"locked", "burned", "completed"}],
         e.status # "completed"
  PROVE  /\ Append(o, e) \in Seq([amount : Nat, status : {"locked", "burned", "completed"}])
         /\ SumOver(Carried(Append(o, e)), Completed(Append(o, e)))
            = SumOver(Carried(o), Completed(o))
<1> DEFINE R == [amount : Nat, status : {"locked", "burned", "completed"}]
           l == Append(o, e)
           n == Len(o)
<1>1. /\ l \in Seq(R) /\ Len(l) = n + 1 /\ n \in Nat /\ l[n + 1] = e
      /\ \A id \in 1..n : l[id] = o[id]
  <2> HIDE DEF R
  <2>1. o \in Seq(R) /\ e \in R
    BY DEF R
  <2> QED
    BY <2>1
<1> HIDE DEF l
<1>2. Completed(l) = Completed(o) /\ Completed(o) \in SUBSET (1..n)
  BY <1>1 DEF Completed
<1>3. \A id \in 1..n : Carried(l)[id] = Carried(o)[id]
  BY <1>1 DEF Carried
<1>4. Agree(Carried(l), Carried(o), Completed(o)) /\ IsFiniteSet(Completed(o))
  BY <1>2, <1>3, OperationOf DEF Agree
<1>5. SumOver(Carried(l), Completed(o)) = SumOver(Carried(o), Completed(o))
  BY <1>4, SumAgree, Zenon
<1> QED
  BY <1>1, <1>2, <1>5 DEF l

\* An operation that is minted is counted once.
LEMMA OperationMinted ==
  ASSUME NEW o, o \in Seq([amount : Nat, status : {"locked", "burned", "completed"}]),
         NEW id \in 1..Len(o), o[id].status # "completed",
         NEW l, l = [o EXCEPT ![id].status = "completed"]
  PROVE  /\ l \in Seq([amount : Nat, status : {"locked", "burned", "completed"}])
         /\ SumOver(Carried(l), Completed(l))
            = SumOver(Carried(o), Completed(o)) + o[id].amount
<1> DEFINE R == [amount : Nat, status : {"locked", "burned", "completed"}]
           n == Len(o)
<1>1. n \in Nat /\ o \in [1..n -> R] /\ o[id] \in R /\ o[id].amount \in Nat
  <2>1. /\ n \in Nat /\ DOMAIN o = 1..n /\ \A k \in 1..n : o[k] \in R
        /\ o[id].amount \in Nat
    BY OperationOf
  <2> HIDE DEF R
  <2>2. o \in Seq(R)
    BY DEF R
  <2>3. o \in [1..n -> R]
    BY <2>2
  <2> QED
    BY <2>1, <2>3
<1>2. PICK e : e = [o[id] EXCEPT !.status = "completed"]
  OBVIOUS
<1>3. e \in R /\ e.status = "completed" /\ e.amount = o[id].amount
  BY <1>1, <1>2
<1>4. l = [o EXCEPT ![id] = e]
  BY <1>2
<1>5. l \in [1..n -> R] /\ l[id] = e /\ \A k \in 1..n : k # id => l[k] = o[k]
  <2> HIDE DEF R
  <2> QED
    BY <1>1, <1>3, <1>4
<1>6. l \in Seq(R) /\ Len(l) = n
  <2> HIDE DEF R
  <2> QED
    BY <1>1, <1>5
<1>7. Completed(l) = Completed(o) \cup {id} /\ id \notin Completed(o)
      /\ Completed(o) \in SUBSET (1..n) /\ Completed(l) \in SUBSET (1..Len(l))
  BY <1>3, <1>5, <1>6 DEF Completed
<1>8. \A k \in 1..n : Carried(l)[k] = Carried(o)[k] /\ Carried(o)[k] = o[k].amount
  BY <1>3, <1>5, <1>6 DEF Carried
<1>9. Agree(Carried(l), Carried(o), Completed(o)) /\ IsFiniteSet(Completed(o))
  BY <1>7, <1>8, OperationOf DEF Agree
<1>10. SumOver(Carried(l), Completed(o)) = SumOver(Carried(o), Completed(o))
  BY <1>9, SumAgree, Zenon
<1>11. Integral(Carried(l), Completed(o) \cup {id})
  BY <1>6, <1>7, OperationOf
<1>12. SumOver(Carried(l), Completed(o) \cup {id})
       = Carried(l)[id] + SumOver(Carried(l), Completed(o))
  BY <1>7, <1>9, <1>11, SumOneMore
<1>13. SumOver(Carried(o), Completed(o)) \in Nat /\ Carried(l)[id] = o[id].amount
  BY <1>7, <1>8, OperationOf
<1>14. SumOver(Carried(l), Completed(l)) = SumOver(Carried(o), Completed(o)) + o[id].amount
  <2>1. SumOver(Carried(l), Completed(l)) = SumOver(Carried(l), Completed(o) \cup {id})
    BY <1>7, Zenon
  <2> HIDE DEF R
  <2> QED
    BY <1>1, <1>10, <1>12, <1>13, <2>1
<1> QED
  BY <1>6, <1>14

LEMMA BridgeStart == Bridge!Init => BridgeInv
<1> SUFFICES ASSUME Bridge!Init PROVE BridgeInv
  OBVIOUS
<1>1. /\ tick = 0 /\ operations = << >> /\ mints = << >>
      /\ bridge = [paused |-> FALSE, chains |-> Foreign, locked |-> 0, minted |-> 0,
                   burned |-> 0, cap |-> 0, delay |-> 0, pending |-> [cap |-> 0, after |-> 0],
                   start |-> -1, volume |-> 0]
  BY DEF Bridge!Init, Bridge!NoPending, Bridge!NotStarted
<1>2. BridgeTypes /\ bridge.minted = 0 /\ bridge.start = -1
  BY <1>1 DEF BridgeTypes, BridgeRecord
<1>3. SumOver(Carried(operations), Completed(operations)) = 0
  <2>1. Completed(operations) = {}
    BY <1>1 DEF Completed
  <2>2. IsFiniteSet({}) /\ Integral(Carried(operations), {})
    BY FS_EmptySet DEF Integral
  <2> QED
    BY <2>1, <2>2, SumRemove, Zenon
<1>4. CapKept(mints, bridge.start, bridge.volume, tick)
  <2>1. Windows(mints, << >>)
    BY <1>1 DEF Windows, MintRecords
  <2>2. VolumeOf(mints, << >>, bridge.start, bridge.volume)
    BY <1>1, <1>2 DEF VolumeOf
  <2>3. \A i \in 1..Len(mints) : mints[i].at <= tick
    BY <1>1
  <2> QED
    BY <2>1, <2>2, <2>3, Zenon DEF CapKept
<1> QED
  BY <1>2, <1>3, <1>4 DEF BridgeInv

\* A call that leaves the mints and the counts alone.
LEMMA BridgeStays ==
  ASSUME BridgeInv, BridgeTypes', mints' = mints, tick' >= tick, tick' \in Nat,
         bridge'.minted = bridge.minted, bridge'.start = bridge.start,
         bridge'.volume = bridge.volume,
         SumOver(Carried(operations'), Completed(operations'))
         = SumOver(Carried(operations), Completed(operations))
  PROVE  BridgeInv'
<1>1. CapKept(mints, bridge.start, bridge.volume, tick)
  BY DEF BridgeInv
<1>2. PICK g : Windows(mints, g) /\ VolumeOf(mints, g, bridge.start, bridge.volume)
  BY <1>1 DEF CapKept
<1>3. \A i \in 1..Len(mints) : mints[i].at <= tick'
  <2>1. mints \in MintRecords /\ tick \in Nat
    BY <1>2 DEF Windows, BridgeInv, BridgeTypes
  <2>2. \A i \in 1..Len(mints) : mints[i].at \in Nat
    BY <2>1, MintOf
  <2> QED
    BY <1>1, <2>1, <2>2 DEF CapKept
<1>4. CapKept(mints, bridge.start, bridge.volume, tick')
  BY <1>2, <1>3, Zenon DEF CapKept
<1>5. CapKept(mints', bridge'.start, bridge'.volume, tick')
  BY <1>4, Zenon
<1>6. bridge'.minted = SumOver(Carried(operations'), Completed(operations'))
  BY Zenon DEF BridgeInv
<1> QED
  BY <1>5, <1>6, Zenon DEF BridgeInv

\* What a call that configures the bridge leaves as it is.
LEMMA BridgeConfigures ==
  ASSUME BridgeAssumption, BridgeInv,
         \/ \E paused \in BOOLEAN : Bridge!SetPaused(paused)
         \/ \E chain \in Foreign : Bridge!AddSupportedChain(chain)
                                   \/ Bridge!RemoveSupportedChain(chain)
         \/ \E cap \in DailyCaps : Bridge!SetDailyCap(cap) \/ Bridge!ProposeDailyCapIncrease(cap)
         \/ Bridge!ExecuteDailyCapIncrease
         \/ \E delay \in RaiseDelays : Bridge!SetCapChangeDelay(delay)
  PROVE  BridgeInv'
<1>1. tick \in Nat /\ BridgeRecord(bridge) /\ bridge.cap \in Nat /\ bridge.pending.cap \in Nat
      /\ operations \in Seq([amount : Nat, status : {"locked", "burned", "completed"}])
  BY DEF BridgeInv, BridgeTypes
<1>2. UNCHANGED <<tick, operations, mints>>
  BY DEF Bridge!SetPaused, Bridge!AddSupportedChain, Bridge!RemoveSupportedChain,
     Bridge!SetDailyCap, Bridge!ProposeDailyCapIncrease, Bridge!ExecuteDailyCapIncrease,
     Bridge!SetCapChangeDelay
<1> DEFINE Kept ==
             /\ BridgeRecord(bridge') /\ bridge'.cap \in Nat /\ bridge'.pending.cap \in Nat
             /\ bridge'.minted = bridge.minted /\ bridge'.start = bridge.start
             /\ bridge'.volume = bridge.volume
<1>3. ASSUME NEW v, bridge' = [bridge EXCEPT !.paused = v] PROVE Kept
  BY <1>1, <1>3 DEF BridgeRecord
<1>4. ASSUME NEW v, bridge' = [bridge EXCEPT !.chains = v] PROVE Kept
  BY <1>1, <1>4 DEF BridgeRecord
<1>5. ASSUME NEW v \in Nat, bridge' = [bridge EXCEPT !.cap = v] PROVE Kept
  BY <1>1, <1>5 DEF BridgeRecord
<1>6. ASSUME NEW v, bridge' = [bridge EXCEPT !.delay = v] PROVE Kept
  BY <1>1, <1>6 DEF BridgeRecord
<1>7. ASSUME NEW v, v.cap \in Nat, bridge' = [bridge EXCEPT !.pending = v] PROVE Kept
  BY <1>1, <1>7 DEF BridgeRecord
<1>8. ASSUME NEW v, v.cap \in Nat, NEW u \in Nat,
             bridge' = [bridge EXCEPT !.cap = u, !.pending = v]
      PROVE  Kept
  BY <1>1, <1>8 DEF BridgeRecord
<1> HIDE DEF Kept
<1>9. Kept
  <2>1. ASSUME NEW paused \in BOOLEAN, Bridge!SetPaused(paused) PROVE Kept
    BY <1>3, <2>1 DEF Bridge!SetPaused
  <2>2. ASSUME NEW chain \in Foreign, Bridge!AddSupportedChain(chain) PROVE Kept
    BY <1>4, <2>2 DEF Bridge!AddSupportedChain
  <2>3. ASSUME NEW chain \in Foreign, Bridge!RemoveSupportedChain(chain) PROVE Kept
    BY <1>4, <2>3 DEF Bridge!RemoveSupportedChain
  <2>4. ASSUME NEW cap \in DailyCaps, Bridge!SetDailyCap(cap) PROVE Kept
    <3>1. cap \in Nat
      BY DEF BridgeAssumption
    <3> QED
      BY <1>5, <2>4, <3>1 DEF Bridge!SetDailyCap
  <2>5. ASSUME NEW cap \in DailyCaps, Bridge!ProposeDailyCapIncrease(cap) PROVE Kept
    <3>1. cap \in Nat
      BY DEF BridgeAssumption
    <3>2. PICK v : v = [cap |-> cap, after |-> tick + bridge.delay]
      OBVIOUS
    <3>3. v.cap \in Nat /\ bridge' = [bridge EXCEPT !.pending = v]
      BY <2>5, <3>1, <3>2 DEF Bridge!ProposeDailyCapIncrease
    <3> QED
      BY <1>7, <3>3
  <2>6. ASSUME Bridge!ExecuteDailyCapIncrease PROVE Kept
    <3>1. PICK v : v = [cap |-> 0, after |-> 0]
      OBVIOUS
    <3>2. v.cap \in Nat
      BY <3>1
    <3>3. bridge' = [bridge EXCEPT !.cap = bridge.pending.cap, !.pending = v]
      BY <2>6, <3>1 DEF Bridge!ExecuteDailyCapIncrease, Bridge!NoPending
    <3> QED
      BY <1>1, <1>8, <3>2, <3>3
  <2>7. ASSUME NEW delay \in RaiseDelays, Bridge!SetCapChangeDelay(delay) PROVE Kept
    BY <1>6, <2>7 DEF Bridge!SetCapChangeDelay
  <2> QED
    BY <2>1, <2>2, <2>3, <2>4, <2>5, <2>6, <2>7, Zenon
<1>10. BridgeTypes' /\ tick' \in Nat /\ tick' >= tick
  BY <1>1, <1>2, <1>9 DEF BridgeTypes, Kept
<1>11. SumOver(Carried(operations'), Completed(operations'))
       = SumOver(Carried(operations), Completed(operations))
  BY <1>2, Zenon
<1> QED
  BY <1>2, <1>9, <1>10, <1>11, BridgeStays DEF Kept

LEMMA BridgeStores ==
  ASSUME BridgeAssumption, BridgeInv, NEW amount \in Bridged, NEW chain \in Foreign,
         Bridge!Lock(amount, chain) \/ Bridge!Burn(amount, chain)
  PROVE  BridgeInv'
<1>1. tick \in Nat /\ BridgeRecord(bridge) /\ bridge.cap \in Nat /\ bridge.pending.cap \in Nat
      /\ operations \in Seq([amount : Nat, status : {"locked", "burned", "completed"}])
  BY DEF BridgeInv, BridgeTypes
<1>2. PICK e : /\ e \in [amount : Nat, status : {"locked", "burned", "completed"}]
               /\ e.status # "completed" /\ operations' = Append(operations, e)
  <2>1. amount \in Nat
    BY DEF BridgeAssumption
  <2>2. CASE Bridge!Lock(amount, chain)
    <3>1. operations' = Append(operations, [amount |-> amount, status |-> "locked"])
      BY <2>2 DEF Bridge!Lock, Bridge!Store
    <3> QED
      BY <2>1, <3>1
  <2>3. CASE Bridge!Burn(amount, chain)
    <3>1. operations' = Append(operations, [amount |-> amount, status |-> "burned"])
      BY <2>3 DEF Bridge!Burn, Bridge!Store
    <3> QED
      BY <2>1, <3>1
  <2> QED
    BY <2>2, <2>3
<1>3. /\ UNCHANGED <<tick, mints>> /\ BridgeRecord(bridge')
      /\ bridge'.cap \in Nat /\ bridge'.pending.cap \in Nat
      /\ bridge'.minted = bridge.minted /\ bridge'.start = bridge.start
      /\ bridge'.volume = bridge.volume
  <2>1. CASE Bridge!Lock(amount, chain)
    BY <1>1, <2>1 DEF Bridge!Lock, BridgeRecord
  <2>2. CASE Bridge!Burn(amount, chain)
    BY <1>1, <2>2 DEF Bridge!Burn, BridgeRecord
  <2> QED
    BY <2>1, <2>2
<1>4. /\ operations' \in Seq([amount : Nat, status : {"locked", "burned", "completed"}])
      /\ SumOver(Carried(operations'), Completed(operations'))
         = SumOver(Carried(operations), Completed(operations))
  BY <1>1, <1>2, OperationStored
<1>5. BridgeTypes' /\ tick' \in Nat /\ tick' >= tick
  BY <1>1, <1>3, <1>4 DEF BridgeTypes
<1> QED
  BY <1>3, <1>4, <1>5, BridgeStays

LEMMA BridgeMints ==
  ASSUME BridgeAssumption, BridgeInv, NEW id \in DOMAIN operations, Bridge!Mint(id)
  PROVE  BridgeInv'
<1>1. tick \in Nat /\ BridgeRecord(bridge) /\ bridge.cap \in Nat /\ bridge.pending.cap \in Nat
      /\ operations \in Seq([amount : Nat, status : {"locked", "burned", "completed"}])
  BY DEF BridgeInv, BridgeTypes
<1>2. PICK amount : amount = operations[id].amount
  OBVIOUS
<1>3. id \in 1..Len(operations) /\ amount \in Nat
  BY <1>1, <1>2, OperationOf
<1>4. /\ operations[id].status # "completed"
      /\ operations' = [operations EXCEPT ![id].status = "completed"]
      /\ bridge' = [Bridge!Recorded(amount) EXCEPT !.minted = @ + amount]
      /\ mints' = IF bridge.cap = 0 THEN mints
                  ELSE Append(mints, [amount |-> amount, at |-> tick, cap |-> bridge.cap])
      /\ bridge.cap = 0 \/ Bridge!Fits(amount)
      /\ tick' = tick
  BY <1>2 DEF Bridge!Mint
<1>5. /\ operations' \in Seq([amount : Nat, status : {"locked", "burned", "completed"}])
      /\ SumOver(Carried(operations'), Completed(operations'))
         = SumOver(Carried(operations), Completed(operations)) + amount
  BY <1>1, <1>2, <1>3, <1>4, OperationMinted
<1>6. CapKept(mints, bridge.start, bridge.volume, tick)
  BY DEF BridgeInv
<1> DEFINE Counted == /\ BridgeRecord(bridge') /\ bridge'.cap \in Nat
                      /\ bridge'.pending.cap \in Nat
                      /\ bridge'.minted = bridge.minted + amount
                      /\ CapKept(mints', bridge'.start, bridge'.volume, tick)
<1>7. ASSUME bridge.cap = 0 PROVE Counted
  <2>1. bridge' = [bridge EXCEPT !.minted = @ + amount] /\ mints' = mints
    BY <1>4, <1>7 DEF Bridge!Recorded
  <2>2. /\ BridgeRecord(bridge') /\ bridge'.cap \in Nat /\ bridge'.pending.cap \in Nat
        /\ bridge'.minted = bridge.minted + amount
        /\ bridge'.start = bridge.start /\ bridge'.volume = bridge.volume
    BY <1>1, <2>1 DEF BridgeRecord
  <2> QED
    BY <1>6, <2>1, <2>2, Zenon
<1>8. ASSUME bridge.cap # 0 PROVE Counted
  <2>1. PICK w, used : w = (IF Bridge!Rolls THEN tick ELSE bridge.start) /\ used = Bridge!Used
    OBVIOUS
  <2>2. /\ bridge' = [[bridge EXCEPT !.volume = used + amount, !.start = w]
                        EXCEPT !.minted = @ + amount]
        /\ mints' = Append(mints, [amount |-> amount, at |-> tick, cap |-> bridge.cap])
        /\ used + amount <= bridge.cap
    BY <1>4, <1>8, <2>1 DEF Bridge!Recorded, Bridge!Fits
  <2>3. CountedIn(bridge.start, bridge.volume, tick, w, used)
    BY <2>1 DEF CountedIn, Bridge!Rolls, Bridge!Used, Bridge!NotStarted
  <2>4. CapWindow \in Nat \ {0}
    BY DEF BridgeAssumption
  <2>5. CapKept(Append(mints, [amount |-> amount, at |-> tick, cap |-> bridge.cap]),
                w, used + amount, tick)
    BY <1>1, <1>3, <1>6, <2>2, <2>3, <2>4, CapKeeps
  <2>6. PICK volume : volume = used + amount
    OBVIOUS
  <2>7. /\ BridgeRecord(bridge') /\ bridge'.cap \in Nat /\ bridge'.pending.cap \in Nat
        /\ bridge'.minted = bridge.minted + amount
        /\ bridge'.start = w /\ bridge'.volume = volume
    <3>1. bridge' = [[bridge EXCEPT !.volume = volume, !.start = w] EXCEPT !.minted = @ + amount]
      BY <2>2, <2>6
    <3> QED
      BY <1>1, <3>1 DEF BridgeRecord
  <2> QED
    BY <2>2, <2>5, <2>6, <2>7, Zenon
<1>9. Counted
  BY <1>7, <1>8
<1>10. BridgeTypes'
  BY <1>1, <1>4, <1>5, <1>9 DEF BridgeTypes
<1>11. bridge'.minted = SumOver(Carried(operations'), Completed(operations'))
  <2>1. bridge.minted = SumOver(Carried(operations), Completed(operations))
    BY DEF BridgeInv
  <2> QED
    BY <1>5, <1>9, <2>1, Zenon
<1>12. CapKept(mints', bridge'.start, bridge'.volume, tick')
  BY <1>4, <1>9, Zenon
<1> QED
  BY <1>10, <1>11, <1>12, Zenon DEF BridgeInv

LEMMA BridgeStep ==
  ASSUME BridgeAssumption, BridgeInv, [Bridge!Next]_bridgePart
  PROVE  BridgeInv'
<1>1. CASE UNCHANGED bridgePart
  BY <1>1 DEF bridgePart, BridgeInv, BridgeTypes
<1>2. ASSUME Bridge!Tick PROVE BridgeInv'
  <2>1. tick' = tick + 1 /\ UNCHANGED <<bridge, operations, mints>>
    BY <1>2 DEF Bridge!Tick
  <2>2. tick \in Nat
    BY DEF BridgeInv, BridgeTypes
  <2>3. tick' \in Nat /\ tick' >= tick
    BY <2>1, <2>2
  <2>4. BridgeTypes'
    BY <2>1, <2>3, Zenon DEF BridgeInv, BridgeTypes
  <2>5. /\ mints' = mints /\ bridge'.minted = bridge.minted /\ bridge'.start = bridge.start
        /\ bridge'.volume = bridge.volume
        /\ SumOver(Carried(operations'), Completed(operations'))
           = SumOver(Carried(operations), Completed(operations))
    BY <2>1, Zenon
  <2> QED
    BY <2>3, <2>4, <2>5, BridgeStays
<1> QED
  BY <1>1, <1>2, BridgeConfigures, BridgeStores, BridgeMints, Zenon DEF Bridge!Next

\* What the invariant says of the mints of a stretch of time.
LEMMA MintedStretch ==
  ASSUME NEW m \in MintRecords, NEW S \in SUBSET (1..Len(m))
  PROVE  SumOver([i \in S |-> m[i].amount], S) = SumOver(Minted(m), S)
<1>1. IsFiniteSet(S) /\ \A i \in S : Minted(m)[i] = m[i].amount
  BY MintOf
<1>2. Agree([i \in S |-> m[i].amount], Minted(m), S)
  BY <1>1 DEF Agree
<1> QED
  BY <1>1, <1>2, SumAgree, Zenon

\* Every operation is minted once and the daily cap holds in every window, whenever
\* the mints come and however the cap is lowered and raised in between: no day sees
\* more than twice the highest cap it met (contracts/bridge-adapter).
THEOREM BridgeTheorem == Spec => []MintedWithinCap
<1> DEFINE Inv == part = "bridge" => BridgeInv
<1>1. Init => Inv
  BY BridgeStart, Zenon DEF Init
<1>2. Inv /\ [Next]_allVars => Inv'
  <2> SUFFICES ASSUME Inv, [Next]_allVars, part' = "bridge" PROVE BridgeInv'
    BY Zenon
  <2>1. part = "bridge" /\ [Bridge!Next]_bridgePart
    BY StepsOfContracts, Zenon
  <2> QED
    BY <2>1, BridgeStep, BridgeAssumption
<1>3. BridgeInv => Bridge!MintedWithinCap
  <2> SUFFICES ASSUME BridgeInv PROVE Bridge!MintedWithinCap
    OBVIOUS
  <2>1. \A f, S : Bridge!SumOver(f, S) = SumOver(f, S)
    BY Zenon DEF Bridge!SumOver, SumOver, Bridge!MapThenSumSet, MapThenSumSet,
       Bridge!MapThenFoldSet, MapThenFoldSet
  <2>2. \A S, o : Bridge!Amount(S, o) = SumOver([i \in S |-> o[i].amount], S)
    BY <2>1, Zenon DEF Bridge!Amount
  <2>3. CapWindow \in Nat \ {0} /\ tick \in Nat /\ BridgeTypes
    BY BridgeAssumption DEF BridgeAssumption, BridgeInv, BridgeTypes
  <2>4. PICK g : Windows(mints, g) /\ VolumeOf(mints, g, bridge.start, bridge.volume)
    BY DEF BridgeInv, CapKept
  <2>5. /\ mints \in MintRecords /\ Len(mints) \in Nat /\ DOMAIN mints = 1..Len(mints)
        /\ \A i \in 1..Len(mints) : mints[i].at <= tick
    <3>1. mints \in MintRecords
      BY <2>4 DEF Windows
    <3> QED
      BY <3>1, MintOf DEF MintRecords, BridgeInv, CapKept
  <2>6. \A from, to : Bridge!MintedIn(from, to) = Stretch(mints, from, to)
    BY <2>5, Zenon DEF Bridge!MintedIn, Stretch
  <2>7. \A from, to : /\ Stretch(mints, from, to) \in SUBSET (1..Len(mints))
                      /\ Bridge!Amount(Stretch(mints, from, to), mints)
                         = SumOver(Minted(mints), Stretch(mints, from, to))
    <3>1. \A from, to : Stretch(mints, from, to) \in SUBSET (1..Len(mints))
      BY DEF Stretch
    <3> QED
      BY <2>2, <2>5, <3>1, MintedStretch, Zenon
  <2>8. \A S : Bridge!Max({mints[i].cap : i \in S}) = Highest(mints, S)
    BY Zenon DEF Highest
  <2>9. bridge.minted =
          Bridge!Amount({id \in DOMAIN operations : operations[id].status = "completed"}, operations)
    <3>1. /\ DOMAIN operations = 1..Len(operations)
          /\ Completed(operations) \in SUBSET (1..Len(operations))
          /\ IsFiniteSet(Completed(operations))
          /\ \A id \in Completed(operations) : Carried(operations)[id] = operations[id].amount
      BY <2>3, OperationOf DEF BridgeTypes, Completed
    <3>2. PICK S : S = Completed(operations)
      OBVIOUS
    <3>3. {id \in DOMAIN operations : operations[id].status = "completed"} = S
      BY <3>1, <3>2, Zenon DEF Completed
    <3>4. Agree([i \in S |-> operations[i].amount], Carried(operations), S) /\ IsFiniteSet(S)
      BY <3>1, <3>2 DEF Agree
    <3>5. SumOver([i \in S |-> operations[i].amount], S) = SumOver(Carried(operations), S)
      BY <3>4, SumAgree, Zenon
    <3> QED
      BY <2>2, <3>2, <3>3, <3>5, Zenon DEF BridgeInv
  <2>10. ASSUME bridge.start # Bridge!NotStarted
         PROVE  LET window == Bridge!MintedIn(bridge.start, tick)
                IN  /\ bridge.volume = Bridge!Amount(window, mints)
                    /\ bridge.volume <= Bridge!Max({mints[i].cap : i \in window})
    <3>1. /\ Len(mints) > 0 /\ g[Len(mints)] = bridge.start
          /\ bridge.volume = SumOver(Minted(mints), UpTo(g, Len(mints)))
      BY <2>4, <2>10 DEF VolumeOf, Bridge!NotStarted
    <3>2. PICK D : D = Stretch(mints, bridge.start, tick)
      OBVIOUS
    <3>3. /\ SumOver(Minted(mints), D) = SumOver(Minted(mints), UpTo(g, Len(mints)))
          /\ SumOver(Minted(mints), D) <= Highest(mints, D)
      BY <2>3, <2>4, <2>5, <3>1, <3>2, LastWindow
    <3>4. Bridge!MintedIn(bridge.start, tick) = D
          /\ Bridge!Amount(D, mints) = SumOver(Minted(mints), D)
      BY <2>6, <2>7, <3>2, Zenon
    <3> QED
      BY <2>8, <3>1, <3>3, <3>4, Zenon
  <2>11. ASSUME NEW from \in 0..tick
         PROVE  LET minted == Bridge!MintedIn(from, from + CapWindow - 1)
                IN  minted # {} => Bridge!Amount(minted, mints)
                                <= 2 * Bridge!Max({mints[i].cap : i \in minted})
    <3>1. PICK D : D = Stretch(mints, from, from + CapWindow - 1)
      OBVIOUS
    <3>2. D # {} => SumOver(Minted(mints), D) <= 2 * Highest(mints, D)
      <4>1. from \in Int
        BY <2>3
      <4> QED
        BY <2>3, <2>4, <3>1, <4>1, TwoWindows
    <3>3. Bridge!MintedIn(from, from + CapWindow - 1) = D
          /\ Bridge!Amount(D, mints) = SumOver(Minted(mints), D)
      BY <2>6, <2>7, <3>1, Zenon
    <3> QED
      BY <2>8, <3>2, <3>3, Zenon
  <2> QED
    BY <2>9, <2>10, <2>11, Zenon DEF Bridge!MintedWithinCap
<1>4. Inv => MintedWithinCap
  BY <1>3, Zenon DEF MintedWithinCap
<1> QED
  BY <1>1, <1>2, <1>4, PTL DEF Spec

-----------------------------------------------------------------------------
(* The escrow: the savings of every goal are there, in the vault or as       *)
(* tokens.                                                                   *)

\* The totals of the vault the escrow saves in.
SavedTotals(v) ==
  v \in [shares : Nat, assets : Nat, last : 0..GoalTerms.end,
         liquidity : {v.liquidity}, threshold : {v.threshold}]

AccruedAt(v, t) ==
  LET n == (t - v.last) \div GoalTerms.period
  IN  IF n = 0 THEN v
      ELSE [v EXCEPT !.last = @ + n * GoalTerms.period,
                     !.assets = (@ * GoalTerms.growth[n]) \div GoalTerms.scale]

SavedVault ==
  /\ now \in 1..GoalTerms.end
  /\ SavedTotals(yieldVault) /\ yieldVault.last <= now
  /\ vaultHeld \in [{"escrow", "investor"} -> Nat]
  /\ yieldVault.shares = vaultHeld["escrow"] + vaultHeld["investor"]

\* A share of w is worth no less than one of v.
AtLeastAs(w, v) == w.assets * v.shares >= v.assets * w.shares

LEMMA SavedAccrues == Goal!Vault!Accrued = AccruedAt(yieldVault, now)
BY DEF Goal!Vault!Accrued, Goal!Vault!Periods, AccruedAt

LEMMA DivMonotone ==
  ASSUME NEW x \in Nat, NEW y \in Nat, NEW d \in Nat \ {0}, x <= y
  PROVE  x \div d <= y \div d
OBVIOUS

\* Interest for the whole periods since the last accrual.
LEMMA AccruesWhole ==
  ASSUME SavingsAssumption, NEW t \in 1..GoalTerms.end, NEW v, SavedTotals(v), v.last <= t
  PROVE  /\ SavedTotals(AccruedAt(v, t)) /\ AccruedAt(v, t).last <= t
         /\ AccruedAt(v, t).shares = v.shares /\ AccruedAt(v, t).assets >= v.assets
         /\ (t - AccruedAt(v, t).last) \div GoalTerms.period = 0
<1> DEFINE n == (t - v.last) \div GoalTerms.period
<1>1. PICK P, e, s \in Nat \ {0} : P = GoalTerms.period /\ e = GoalTerms.end /\ s = GoalTerms.scale
  BY DEF SavingsAssumption
<1>2. v.shares \in Nat /\ v.assets \in Nat /\ v.last \in 0..e /\ t \in 1..e /\ v.last <= t
  BY <1>1 DEF SavedTotals
<1>3. /\ n \in Nat /\ n * P <= t - v.last /\ n <= t - v.last /\ n * P \in Nat
      /\ t - v.last < (n + 1) * P
  <2>1. PICK k \in Nat : k = t - v.last
    BY <1>2
  <2>2. n = k \div P
    BY <1>1, <2>1
  <2>3. n \in Nat /\ n * P <= k /\ n <= k
    BY <1>1, <2>2, Quotient, Zenon
  <2>4. k < (n + 1) * P
    BY <1>1, <2>2
  <2> HIDE DEF n
  <2> QED
    BY <1>1, <2>1, <2>3, <2>4
<1> DEFINE last == v.last + n * P
           assets == (v.assets * GoalTerms.growth[n]) \div GoalTerms.scale
<1>4. AccruedAt(v, t) = IF n = 0 THEN v ELSE [v EXCEPT !.last = last, !.assets = assets]
  BY <1>1 DEF AccruedAt, SavedTotals
<1> HIDE DEF n
<1>5. last \in 0..e /\ last <= t /\ (t - last) \div P = 0
  <2>1. PICK k, q \in Nat : k = t - v.last /\ q = n * P
    BY <1>2, <1>3
  <2>2. q <= k /\ k < q + P
    <3>1. (n + 1) * P = n * P + P
      BY <1>1, <1>3
    <3> QED
      BY <1>3, <2>1, <3>1
  <2>3. last \in 0..e /\ last <= t /\ t - last = k - q
    BY <1>2, <2>1, <2>2
  <2>4. (k - q) \in 0..(P - 1)
    BY <1>1, <2>2
  <2>5. \A r \in 0..(P - 1) : r \div P = 0
    BY <1>1
  <2> HIDE DEF last
  <2> QED
    BY <2>3, <2>4, <2>5
<1>6. CASE n = 0
  <2>1. AccruedAt(v, t) = v
    BY <1>4, <1>6
  <2>2. last = v.last
    BY <1>2, <1>6, <1>1
  <2> QED
    BY <1>1, <1>2, <1>5, <2>1, <2>2
<1>7. CASE n # 0
  <2>1. n \in 1..e
    BY <1>2, <1>3, <1>7
  <2>2. assets \in Nat /\ assets >= v.assets
    <3>1. GoalTerms.growth[n] \in Nat /\ GoalTerms.growth[n] >= s
      BY <1>1, <2>1 DEF SavingsAssumption
    <3> QED
      BY <1>1, <1>2, <3>1, Grows
  <2> HIDE DEF last, assets
  <2>3. AccruedAt(v, t) = [v EXCEPT !.last = last, !.assets = assets]
    BY <1>4, <1>7
  <2>4. AccruedAt(v, t).last = last /\ AccruedAt(v, t).assets = assets
        /\ AccruedAt(v, t).shares = v.shares
    BY <2>3 DEF SavedTotals
  <2>5. SavedTotals(AccruedAt(v, t))
    BY <1>1, <1>5, <2>2, <2>3 DEF SavedTotals
  <2> QED
    BY <1>1, <1>5, <2>2, <2>4, <2>5
<1> QED
  BY <1>6, <1>7

LEMMA SettledAccrues ==
  ASSUME NEW v, NEW t, (t - v.last) \div GoalTerms.period = 0
  PROVE  AccruedAt(v, t) = v
BY DEF AccruedAt

\* Time adds interest.
LEMMA LaterIsMore ==
  ASSUME SavingsAssumption, NEW t \in 1..GoalTerms.end, t + 1 \in 1..GoalTerms.end,
         NEW v, SavedTotals(v), v.last <= t
  PROVE  AtLeastAs(AccruedAt(v, t + 1), AccruedAt(v, t))
<1>1. PICK P, e, s \in Nat \ {0} : P = GoalTerms.period /\ e = GoalTerms.end /\ s = GoalTerms.scale
  BY DEF SavingsAssumption
<1>2. PICK u : u = t + 1
  OBVIOUS
<1>3. u \in 1..GoalTerms.end /\ v.last <= u /\ v.shares \in Nat /\ v.assets \in Nat /\ v.last \in Nat
  BY <1>2, <1>1 DEF SavedTotals
<1>4. PICK n, m \in Nat : n = (t - v.last) \div P /\ m = (u - v.last) \div P /\ n <= m /\ m <= e
  <2>1. PICK k \in Nat : k = t - v.last /\ k + 1 = u - v.last /\ k + 1 <= e
    BY <1>1, <1>2, <1>3
  <2>2. (k + 1) \div P \in Nat /\ (k + 1) \div P <= k + 1 /\ k \div P \in Nat
    BY <1>1, <2>1, Quotient
  <2>3. k \div P <= (k + 1) \div P
    BY <1>1, <2>1, DivMonotone, SMTT(30)
  <2>4. (k + 1) \div P <= e
    BY <2>1, <2>2, <1>1
  <2> QED
    BY <2>1, <2>2, <2>3, <2>4
<1>5. PICK a, b : a = AccruedAt(v, t) /\ b = AccruedAt(v, u)
  OBVIOUS
<1>6. /\ SavedTotals(a) /\ a.shares = v.shares /\ SavedTotals(b) /\ b.shares = v.shares
      /\ b.assets >= v.assets
  BY <1>3, <1>5, AccruesWhole
<1>7. b.assets >= a.assets
  <2>1. CASE n = 0
    <3>1. a = v
      BY <1>1, <1>4, <1>5, <2>1, SettledAccrues
    <3> QED
      BY <1>6, <3>1
  <2>2. CASE n # 0
    <3>1. /\ a = [v EXCEPT !.last = v.last + n * P,
                           !.assets = (v.assets * GoalTerms.growth[n]) \div s]
          /\ b = [v EXCEPT !.last = v.last + m * P,
                           !.assets = (v.assets * GoalTerms.growth[m]) \div s]
      <4>1. m # 0
        BY <1>4, <2>2
      <4>2. n = (t - v.last) \div GoalTerms.period /\ m = (u - v.last) \div GoalTerms.period
        BY <1>1, <1>4, Zenon
      <4>3. \A x, k : k = (x - v.last) \div GoalTerms.period /\ k # 0 =>
              AccruedAt(v, x) = [v EXCEPT !.last = v.last + k * GoalTerms.period,
                !.assets = (v.assets * GoalTerms.growth[k]) \div GoalTerms.scale]
        BY DEF AccruedAt
      <4> QED
        BY <1>1, <1>5, <2>2, <4>1, <4>2, <4>3, Zenon
    <3>2. /\ a.assets = (v.assets * GoalTerms.growth[n]) \div s
          /\ b.assets = (v.assets * GoalTerms.growth[m]) \div s
      BY <3>1 DEF SavedTotals
    <3>3. PICK f, g \in Nat : f = GoalTerms.growth[n] /\ g = GoalTerms.growth[m] /\ f <= g
      <4>1. m \in 1..GoalTerms.end /\ n \in 1..m
        BY <1>1, <1>4, <2>2
      <4>2. n \in 1..GoalTerms.end
        BY <1>1, <4>1
      <4> QED
        BY <4>1, <4>2, Zenon DEF SavingsAssumption
    <3>4. v.assets * f \in Nat /\ v.assets * g \in Nat /\ v.assets * f <= v.assets * g
      BY <1>3, <3>3, Monotone
    <3> QED
      BY <1>1, <3>2, <3>3, <3>4, DivMonotone
  <2> QED
    BY <2>1, <2>2
<1>8. b.assets * v.shares >= a.assets * v.shares
  BY <1>3, <1>6, <1>7, Monotone DEF SavedTotals
<1> QED
  BY <1>2, <1>5, <1>6, <1>8 DEF AtLeastAs

\* The totals of the vault as a call finds them, interest included.
Worthwhile == AccruedAt(yieldVault, now)

LEMMA SavedWhole ==
  ASSUME SavingsAssumption, SavedVault
  PROVE  /\ SavedTotals(Worthwhile) /\ Worthwhile.last <= now
         /\ Worthwhile.shares = yieldVault.shares /\ Worthwhile.shares \in Nat
         /\ Worthwhile.assets \in Nat
         /\ (now - Worthwhile.last) \div GoalTerms.period = 0
         /\ Goal!Vault!Accrued = Worthwhile
<1>1. /\ SavedTotals(Worthwhile) /\ Worthwhile.last <= now
      /\ Worthwhile.shares = yieldVault.shares
      /\ (now - Worthwhile.last) \div GoalTerms.period = 0
  BY AccruesWhole DEF SavedVault, Worthwhile
<1>2. Worthwhile.shares \in Nat /\ Worthwhile.assets \in Nat
  BY <1>1 DEF SavedTotals
<1> QED
  BY <1>1, <1>2, SavedAccrues, Zenon DEF Worthwhile

\* A holder buys or sells n shares.
LEMMA SavedHeld ==
  ASSUME SavedVault, NEW i \in {"escrow", "investor"}, NEW n \in Int, vaultHeld[i] + n >= 0,
         vaultHeld' = [vaultHeld EXCEPT ![i] = @ + n],
         now' = now, SavedTotals(yieldVault'), yieldVault'.last <= now,
         yieldVault'.shares = yieldVault.shares + n
  PROVE  SavedVault' /\ vaultHeld'[i] = vaultHeld[i] + n
<1>1. PICK e, o \in Nat : e = vaultHeld["escrow"] /\ o = vaultHeld["investor"]
  BY DEF SavedVault
<1>2. /\ vaultHeld' \in [{"escrow", "investor"} -> Nat]
      /\ vaultHeld'["escrow"] = IF i = "escrow" THEN e + n ELSE e
      /\ vaultHeld'["investor"] = IF i = "investor" THEN o + n ELSE o
      /\ vaultHeld'[i] = vaultHeld[i] + n
  BY <1>1 DEF SavedVault
<1>3. yieldVault'.shares = vaultHeld'["escrow"] + vaultHeld'["investor"]
  BY <1>1, <1>2 DEF SavedVault
<1> QED
  BY <1>2, <1>3 DEF SavedVault

LEMMA SavedMints ==
  ASSUME SavingsAssumption, SavedVault, NEW i \in {"escrow", "investor"},
         NEW amount \in Saved, Goal!Vault!Deposit(i, amount)
  PROVE  /\ SavedVault' /\ Worthwhile' = yieldVault'
         /\ Worthwhile.shares > 0 => AtLeastAs(Worthwhile', Worthwhile)
         /\ \E m \in Nat \ {0} : vaultHeld'[i] = vaultHeld[i] + m
                              /\ vaultHeld' = [vaultHeld EXCEPT ![i] = @ + m]
                              /\ yieldVault'.shares = yieldVault.shares + m
<1>1. PICK w, m : w = Worthwhile /\ m = Goal!Vault!SharesFor(w, amount)
  OBVIOUS
<1>2. /\ SavedTotals(w) /\ w.last <= now /\ w.shares = yieldVault.shares /\ w.shares \in Nat
      /\ w.assets \in Nat /\ (now - w.last) \div GoalTerms.period = 0 /\ Goal!Vault!Accrued = w
      /\ amount \in Nat \ {0}
  BY <1>1, SavedWhole DEF SavingsAssumption
<1>3. /\ m > 0
      /\ yieldVault' = [w EXCEPT !.shares = w.shares + m, !.assets = w.assets + amount,
                                 !.liquidity = w.liquidity + amount]
      /\ vaultHeld' = [vaultHeld EXCEPT ![i] = @ + m] /\ now' = now
  BY <1>1, <1>2, Zenon DEF Goal!Vault!Deposit
<1>4. m = IF w.shares = 0 \/ w.assets = 0 THEN amount ELSE (amount * w.shares) \div w.assets
  BY <1>1, Zenon DEF Goal!Vault!SharesFor
<1>5. m \in Nat \ {0}
  <2>1. amount * w.shares \in Nat
    BY <1>2
  <2>2. m \in Nat
    BY <1>2, <1>4, <2>1, Quotient
  <2> QED
    BY <1>3, <2>2
<1>6. PICK s, a, l : s = w.shares + m /\ a = w.assets + amount /\ l = w.liquidity + amount
  OBVIOUS
<1>7. s \in Nat /\ a \in Nat
  BY <1>2, <1>5, <1>6
<1>8. yieldVault' = [w EXCEPT !.shares = s, !.assets = a, !.liquidity = l]
  BY <1>3, <1>6, Zenon
<1>9. /\ SavedTotals(yieldVault') /\ yieldVault'.last = w.last /\ yieldVault'.shares = s
      /\ yieldVault'.assets = a
  BY <1>2, <1>7, <1>8 DEF SavedTotals
<1>10. vaultHeld[i] \in Nat
  BY DEF SavedVault
<1>11. SavedVault' /\ vaultHeld'[i] = vaultHeld[i] + m
  <2>1. yieldVault'.shares = yieldVault.shares + m
    BY <1>2, <1>6, <1>9, Zenon
  <2>2. m \in Int /\ vaultHeld[i] + m >= 0
    BY <1>5, <1>10
  <2>3. yieldVault'.last <= now
    BY <1>2, <1>9, Zenon
  <2> QED
    BY <1>3, <1>9, <2>1, <2>2, <2>3, SavedHeld, Zenon
<1>12. Worthwhile' = yieldVault'
  <2>1. (now' - yieldVault'.last) \div GoalTerms.period = 0
    BY <1>2, <1>3, <1>9, Zenon
  <2> QED
    BY <2>1, SettledAccrues, Zenon DEF Worthwhile
<1>13. ASSUME w.shares > 0 PROVE a * w.shares >= w.assets * s
  <2>1. w.assets = 0 \/ m = (amount * w.shares) \div w.assets
    BY <1>4, <1>13
  <2>2. (w.assets + amount) * w.shares >= w.assets * (w.shares + m)
    BY <1>2, <1>5, <1>13, <2>1, MintKeepsPrice
  <2> QED
    BY <1>6, <2>2
<1>14. Worthwhile.shares > 0 => AtLeastAs(Worthwhile', Worthwhile)
  BY <1>1, <1>9, <1>12, <1>13, Zenon DEF AtLeastAs
<1> QED
  BY <1>2, <1>3, <1>5, <1>6, <1>9, <1>11, <1>12, <1>14, Zenon

LEMMA SavedBurns ==
  ASSUME SavingsAssumption, SavedVault, NEW i \in {"escrow", "investor"}, NEW n,
         Goal!Vault!Withdraw(i, n)
  PROVE  /\ SavedVault' /\ AtLeastAs(Worthwhile', Worthwhile)
         /\ n \in 1..vaultHeld[i] /\ vaultHeld'[i] = vaultHeld[i] - n
         /\ vaultHeld' = [vaultHeld EXCEPT ![i] = @ - n]
<1>1. PICK w, q : w = Worthwhile /\ q = (n * w.assets) \div w.shares
  OBVIOUS
<1>2. /\ SavedTotals(w) /\ w.last <= now /\ w.shares = yieldVault.shares /\ w.shares \in Nat
      /\ w.assets \in Nat /\ (now - w.last) \div GoalTerms.period = 0 /\ Goal!Vault!Accrued = w
  BY <1>1, SavedWhole
<1>3. /\ n \in 1..vaultHeld[i] /\ n <= w.shares
      /\ yieldVault' = [w EXCEPT !.shares = w.shares - n, !.assets = w.assets - q]
      /\ vaultHeld' = [vaultHeld EXCEPT ![i] = @ - n] /\ now' = now
  BY <1>1, <1>2, Zenon DEF Goal!Vault!Withdraw, Goal!Vault!Burnt, Goal!Vault!AssetsFor
<1>4. vaultHeld[i] \in Nat
  BY DEF SavedVault
<1>5. n \in Nat \ {0} /\ w.shares \in Nat \ {0} /\ n \in 0..w.shares
  BY <1>2, <1>3, <1>4
<1>6. PICK s, a : s = w.shares - n /\ a = w.assets - q
  OBVIOUS
<1>7. s \in Nat /\ a \in Nat /\ a * w.shares >= w.assets * s
  <2>1. PICK x, y \in Nat : x = w.shares /\ y = w.assets
    BY <1>2
  <2>2. n \in 0..x /\ x \in Nat \ {0} /\ q = (n * y) \div x
    BY <1>1, <1>5, <2>1
  <2>3. x - n \in Nat /\ y - q \in Nat /\ (y - q) * x >= y * (x - n)
    BY <2>2, BurnKeepsPrice
  <2> QED
    BY <1>6, <2>1, <2>3
<1>8. yieldVault' = [w EXCEPT !.shares = s, !.assets = a]
  BY <1>3, <1>6, Zenon
<1>9. /\ SavedTotals(yieldVault') /\ yieldVault'.last = w.last /\ yieldVault'.shares = s
      /\ yieldVault'.assets = a
  BY <1>2, <1>7, <1>8 DEF SavedTotals
<1>10. PICK m \in Int : m = 0 - n /\ vaultHeld[i] + m >= 0 /\ vaultHeld[i] + m = vaultHeld[i] - n
                        /\ yieldVault.shares + m = s
  BY <1>2, <1>3, <1>4, <1>5, <1>6
<1>11. vaultHeld' = [vaultHeld EXCEPT ![i] = @ + m]
  BY <1>3, <1>10
<1>12. SavedVault' /\ vaultHeld'[i] = vaultHeld[i] - n
  BY <1>2, <1>3, <1>9, <1>10, <1>11, SavedHeld
<1>13. Worthwhile' = yieldVault'
  <2>1. (now' - yieldVault'.last) \div GoalTerms.period = 0
    BY <1>2, <1>3, <1>9, Zenon
  <2> QED
    BY <2>1, SettledAccrues, Zenon DEF Worthwhile
<1>14. AtLeastAs(Worthwhile', Worthwhile)
  BY <1>1, <1>7, <1>9, <1>13, Zenon DEF AtLeastAs
<1> QED
  BY <1>3, <1>12, <1>14, Zenon

LEMMA SavedWaits ==
  ASSUME SavingsAssumption, SavedVault, Goal!Vault!Tick \/ Goal!Vault!BatchHarvest
  PROVE  SavedVault' /\ AtLeastAs(Worthwhile', Worthwhile) /\ vaultHeld' = vaultHeld
         /\ Worthwhile'.shares = Worthwhile.shares
<1>1. PICK w : w = Worthwhile
  OBVIOUS
<1>2. /\ SavedTotals(w) /\ w.last <= now /\ w.shares = yieldVault.shares /\ w.shares \in Nat
      /\ w.assets \in Nat /\ (now - w.last) \div GoalTerms.period = 0 /\ Goal!Vault!Accrued = w
  BY <1>1, SavedWhole
<1>3. CASE Goal!Vault!Tick
  <2>1. now < GoalTerms.end /\ now' = now + 1 /\ yieldVault' = yieldVault /\ vaultHeld' = vaultHeld
    BY <1>3 DEF Goal!Vault!Tick
  <2>2. now + 1 \in 1..GoalTerms.end /\ yieldVault.last <= now + 1
    BY <2>1 DEF SavedVault, SavedTotals, SavingsAssumption
  <2>3. SavedVault'
    BY <2>1, <2>2 DEF SavedVault
  <2>4. AtLeastAs(AccruedAt(yieldVault, now + 1), AccruedAt(yieldVault, now))
    BY <2>2, LaterIsMore DEF SavedVault
  <2>5. AtLeastAs(Worthwhile', Worthwhile)
    BY <2>1, <2>4, Zenon DEF Worthwhile
  <2>6. Worthwhile'.shares = yieldVault.shares
    BY <2>1, <2>2, AccruesWhole DEF Worthwhile, SavedVault
  <2> QED
    BY <1>1, <1>2, <2>1, <2>3, <2>5, <2>6
<1>4. CASE Goal!Vault!BatchHarvest
  <2>1. now' = now /\ yieldVault' = w /\ vaultHeld' = vaultHeld
    BY <1>2, <1>4, Zenon DEF Goal!Vault!BatchHarvest
  <2>2. SavedVault'
    BY <1>2, <2>1 DEF SavedVault
  <2>3. Worthwhile' = w
    <3>1. AccruedAt(w, now) = w
      BY <1>2, SettledAccrues
    <3> QED
      BY <2>1, <3>1, Zenon DEF Worthwhile
  <2>4. AtLeastAs(w, w)
    BY <1>2, Monotone DEF AtLeastAs
  <2> QED
    BY <1>1, <1>2, <2>1, <2>2, <2>3, <2>4
<1> QED
  BY <1>3, <1>4

-----------------------------------------------------------------------------
\* A goal, of which the fields that no amount depends on may be anything.
GoalFields(r) ==
  r \in [deposited : Nat, start : {r.start}, last : {r.last}, matched : Int,
         rollover : {r.rollover}, state : {"open", "released", "withdrawn"}, shares : Nat,
         stranded : Nat, activity : Nat \cup {Goal!Never}, asked : Nat \cup {Goal!Never},
         approved : {r.approved}, heir : {r.heir}, claimed : {r.claimed},
         draw : Saved \cup {0}, due : {r.due}]

GoalTable(l) == l = [g \in Pair |-> l[g]] /\ \A g \in Pair : GoalFields(l[g])

DepositsOf(l) == SumOver([g \in Pair |-> l[g].deposited], Pair)
SharesOf(l) == SumOver([g \in Pair |-> l[g].shares + l[g].stranded], Pair)

SavedTypes ==
  /\ hasVault \in BOOLEAN /\ GoalTable(goals)
  /\ pooled \in Int /\ reserve \in Nat /\ tokens \in Nat
  /\ leaks \subseteq {"matched", "rounded", "stranded", "moved", "rolled"}

SavedBooks ==
  /\ yieldShares = vaultHeld["escrow"] /\ yieldShares = SharesOf(goals)
  /\ "rolled" \notin leaks => pooled = DepositsOf(goals)
  /\ ~hasVault => \A g \in Pair : goals[g].shares = 0

\* The shares of a goal are worth its deposits at the totals w of the vault.
Backed(r, w) ==
  /\ r.deposited * w.shares <= r.shares * w.assets
  /\ r.deposited > 0 => r.shares > 0

SavedSomewhere ==
  /\ hasVault => \A g \in Pair : Backed(goals[g], Worthwhile)
  /\ ~hasVault => tokens >= DepositsOf(goals)

EscrowInv ==
  /\ SavedTypes /\ SavedVault /\ SavedBooks
  /\ leaks = {} => SavedSomewhere

LEMMA GoalSums ==
  ASSUME FeeAssumption, NEW l, GoalTable(l)
  PROVE  /\ DepositsOf(l) \in Nat /\ SharesOf(l) \in Nat
         /\ \A g \in Pair : l[g].shares \in Nat /\ l[g].stranded \in Nat
              /\ l[g].deposited \in Nat /\ l[g].shares + l[g].stranded <= SharesOf(l)
<1>1. PICK d, s : /\ d = [g \in Pair |-> l[g].deposited]
                  /\ s = [g \in Pair |-> l[g].shares + l[g].stranded]
  OBVIOUS
<1>2. \A g \in Pair : l[g].shares \in Nat /\ l[g].stranded \in Nat /\ l[g].deposited \in Nat
  BY DEF GoalTable, GoalFields
<1>3. /\ IsFiniteSet(Pair) /\ \A g \in Pair : d[g] \in Nat /\ s[g] \in Nat
      /\ \A g \in Pair : s[g] = l[g].shares + l[g].stranded
  BY <1>1, <1>2 DEF FeeAssumption
<1>4. /\ SumOver(d, Pair) \in Nat /\ SumOver(s, Pair) \in Nat
      /\ \A g \in Pair : s[g] <= SumOver(s, Pair)
  BY <1>3, SumBounds, Zenon
<1>5. DepositsOf(l) = SumOver(d, Pair) /\ SharesOf(l) = SumOver(s, Pair)
  BY <1>1, Zenon DEF DepositsOf, SharesOf
<1> QED
  BY <1>2, <1>3, <1>4, <1>5

\* What becomes of the sums when one goal changes.
SumsMove(l, m, g, x) ==
  /\ GoalTable(m) /\ m[g] = x /\ \A h \in Pair : h # g => m[h] = l[h]
  /\ DepositsOf(m) = DepositsOf(l) - l[g].deposited + x.deposited
  /\ SharesOf(m) = SharesOf(l) - (l[g].shares + l[g].stranded) + (x.shares + x.stranded)

LEMMA OneGoal ==
  ASSUME FeeAssumption, NEW l, GoalTable(l), NEW g \in Pair, NEW x, GoalFields(x),
         NEW m, m = [l EXCEPT ![g] = x]
  PROVE  SumsMove(l, m, g, x)
<1>1. /\ GoalTable(m) /\ m[g] = x /\ \A h \in Pair : h # g => m[h] = l[h]
  <2>1. m[g] = x /\ (\A h \in Pair : h # g => m[h] = l[h]) /\ m = [h \in Pair |-> m[h]]
    BY DEF GoalTable
  <2> QED
    BY <2>1, Zenon DEF GoalTable
<1>2. PICK d, s, e, t : /\ d = [h \in Pair |-> l[h].deposited]
                        /\ s = [h \in Pair |-> l[h].shares + l[h].stranded]
                        /\ e = [h \in Pair |-> m[h].deposited]
                        /\ t = [h \in Pair |-> m[h].shares + m[h].stranded]
  OBVIOUS
<1>3. /\ \A h \in Pair : l[h].shares \in Nat /\ l[h].stranded \in Nat /\ l[h].deposited \in Nat
      /\ \A h \in Pair : m[h].shares \in Nat /\ m[h].stranded \in Nat /\ m[h].deposited \in Nat
  BY <1>1, GoalSums, Zenon
<1>4. /\ \A h \in Pair : d[h] \in Int /\ e[h] \in Int /\ s[h] \in Int /\ t[h] \in Int
      /\ \A h \in Pair : h # g => e[h] = d[h] /\ t[h] = s[h]
      /\ d[g] = l[g].deposited /\ e[g] = x.deposited
      /\ s[g] = l[g].shares + l[g].stranded /\ t[g] = x.shares + x.stranded
  BY <1>1, <1>2, <1>3
<1>5. IsFiniteSet(Pair)
  BY DEF FeeAssumption
<1>6. /\ SumOver(e, Pair) = SumOver(d, Pair) - d[g] + e[g]
      /\ SumOver(t, Pair) = SumOver(s, Pair) - s[g] + t[g]
  <2>1. SumOver(e, Pair) = SumOver(d, Pair) - d[g] + e[g]
    BY <1>4, <1>5, SumUpdate
  <2>2. SumOver(t, Pair) = SumOver(s, Pair) - s[g] + t[g]
    BY <1>4, <1>5, SumUpdate
  <2> QED
    BY <2>1, <2>2
<1>7. /\ DepositsOf(l) = SumOver(d, Pair) /\ DepositsOf(m) = SumOver(e, Pair)
      /\ SharesOf(l) = SumOver(s, Pair) /\ SharesOf(m) = SumOver(t, Pair)
  BY <1>2, Zenon DEF DepositsOf, SharesOf
<1> QED
  BY <1>1, <1>4, <1>6, <1>7 DEF SumsMove

\* Shares that are worth a goal's deposits stay so when a share is worth no less.
LEMMA BackedStays ==
  ASSUME NEW d \in Nat, NEW n \in Nat, NEW s \in Nat \ {0}, NEW a \in Nat, NEW t \in Nat,
         NEW b \in Nat, d * s <= n * a, b * s >= a * t
  PROVE  d * t <= n * b
<1>1. (d * s) * t <= (n * a) * t /\ n * (a * t) <= n * (b * s)
  <2>1. d * s \in Nat /\ n * a \in Nat /\ a * t \in Nat /\ b * s \in Nat
    OBVIOUS
  <2>2. (d * s) * t <= (n * a) * t
    BY <2>1, Monotone
  <2>3. (a * t) * n <= (b * s) * n /\ (a * t) * n = n * (a * t) /\ (b * s) * n = n * (b * s)
    BY <2>1, Monotone
  <2> QED
    BY <2>2, <2>3
<1>2. (d * s) * t = (d * t) * s /\ (n * a) * t = n * (a * t) /\ n * (b * s) = (n * b) * s
  OBVIOUS
<1>3. PICK p, q \in Nat : p = d * t /\ q = n * b /\ p * s <= q * s
  BY <1>1, <1>2
<1>4. ASSUME q < p PROVE FALSE
  <2>1. (q + 1) * s <= p * s /\ (q + 1) * s = q * s + s /\ q * s \in Nat
    BY <1>3, <1>4, Monotone
  <2> QED
    BY <1>3, <2>1
<1> QED
  BY <1>3, <1>4

LEMMA OthersBacked ==
  ASSUME FeeAssumption, SavingsAssumption, EscrowInv, SavedVault',
         Worthwhile.shares > 0 => AtLeastAs(Worthwhile', Worthwhile),
         NEW h \in Pair, Backed(goals[h], Worthwhile)
  PROVE  Backed(goals[h], Worthwhile')
<1>1. PICK d, n \in Nat : d = goals[h].deposited /\ n = goals[h].shares /\ n <= SharesOf(goals)
  <2>1. GoalTable(goals)
    BY DEF EscrowInv, SavedTypes
  <2>2. /\ goals[h].deposited \in Nat /\ goals[h].shares \in Nat /\ goals[h].stranded \in Nat
        /\ goals[h].shares + goals[h].stranded <= SharesOf(goals) /\ SharesOf(goals) \in Nat
    BY <2>1, GoalSums
  <2> QED
    BY <2>2
<1>2. PICK s, a \in Nat : s = Worthwhile.shares /\ a = Worthwhile.assets
  BY SavedWhole DEF EscrowInv
<1>3. PICK t, b \in Nat : t = Worthwhile'.shares /\ b = Worthwhile'.assets
  <2>1. SavedTotals(Worthwhile')
    BY AccruesWhole DEF SavedVault, Worthwhile
  <2> QED
    BY <2>1 DEF SavedTotals
<1>4. d * s <= n * a /\ (d > 0 => n > 0)
  BY <1>1, <1>2 DEF Backed
<1>5. d * t <= n * b
  <2>1. CASE n = 0
    BY <1>1, <1>4, <2>1, <1>3
  <2>2. CASE n # 0
    <3>1. s > 0
      <4>1. /\ s = vaultHeld["escrow"] + vaultHeld["investor"] /\ n <= vaultHeld["escrow"]
            /\ vaultHeld["escrow"] \in Nat /\ vaultHeld["investor"] \in Nat
        <5>1. s = yieldVault.shares
          BY <1>2, SavedWhole DEF EscrowInv
        <5> QED
          BY <1>1, <5>1 DEF EscrowInv, SavedVault, SavedBooks
      <4> QED
        BY <1>1, <2>2, <4>1
    <3>2. b * s >= a * t
      BY <1>2, <1>3, <3>1 DEF AtLeastAs
    <3> QED
      <4>1. s \in Nat \ {0}
        BY <1>2, <3>1
      <4> QED
        BY <1>1, <1>2, <1>3, <1>4, <3>2, <4>1, BackedStays, Zenon
  <2> QED
    BY <2>1, <2>2
<1> QED
  BY <1>1, <1>3, <1>4, <1>5 DEF Backed

\* One goal changes, with its shares bought or sold and the totals kept with it.
LEMMA GoalChanges ==
  ASSUME FeeAssumption, SavingsAssumption, EscrowInv, SavedVault',
         NEW g \in Pair, NEW r, r = goals[g], NEW x, GoalFields(x),
         goals' = [goals EXCEPT ![g] = x], hasVault' = hasVault,
         pooled' \in Int, reserve' \in Nat, tokens' \in Nat,
         leaks \subseteq leaks',
         leaks' \subseteq {"matched", "rounded", "stranded", "moved", "rolled"},
         yieldShares' = yieldShares - (r.shares + r.stranded) + (x.shares + x.stranded),
         vaultHeld'["escrow"]
           = vaultHeld["escrow"] - (r.shares + r.stranded) + (x.shares + x.stranded),
         "rolled" \notin leaks' => pooled' = pooled - r.deposited + x.deposited,
         ~hasVault => x.shares = 0,
         leaks' = {} /\ hasVault =>
           /\ Worthwhile.shares > 0 => AtLeastAs(Worthwhile', Worthwhile)
           /\ Backed(x, Worthwhile'),
         leaks' = {} /\ ~hasVault => tokens' >= tokens - r.deposited + x.deposited
  PROVE  EscrowInv'
<1>0. SavedTypes /\ SavedVault /\ SavedBooks /\ GoalTable(goals)
  BY DEF EscrowInv, SavedTypes
<1>1. PICK l : l = goals'
  OBVIOUS
<1>2. /\ GoalTable(l) /\ l[g] = x /\ \A h \in Pair : h # g => l[h] = goals[h]
      /\ DepositsOf(l) = DepositsOf(goals) - r.deposited + x.deposited
      /\ SharesOf(l) = SharesOf(goals) - (r.shares + r.stranded) + (x.shares + x.stranded)
  <2>1. l = [goals EXCEPT ![g] = x]
    BY <1>1
  <2>2. SumsMove(goals, l, g, x)
    BY <1>0, <2>1, OneGoal, Zenon
  <2> QED
    BY <2>2 DEF SumsMove
<1>3. /\ DepositsOf(goals) \in Nat /\ SharesOf(goals) \in Nat
      /\ r.deposited \in Nat /\ r.shares \in Nat /\ r.stranded \in Nat
      /\ x.deposited \in Nat /\ x.shares \in Nat /\ x.stranded \in Nat
  <2>1. DepositsOf(goals) \in Nat /\ SharesOf(goals) \in Nat
    BY <1>0, GoalSums
  <2> QED
    BY <1>0, <2>1 DEF GoalTable, GoalFields
<1>4. SavedTypes'
  BY <1>0, <1>1, <1>2 DEF SavedTypes
<1>5. SavedBooks'
  <2>1. yieldShares' = vaultHeld'["escrow"] /\ yieldShares' = SharesOf(l)
    BY <1>0, <1>2, Zenon DEF SavedBooks
  <2>2. "rolled" \notin leaks' => pooled' = DepositsOf(l)
    BY <1>0, <1>2 DEF SavedBooks
  <2>3. ~hasVault => \A h \in Pair : l[h].shares = 0
    BY <1>0, <1>2, Zenon DEF SavedBooks
  <2> QED
    BY <1>1, <2>1, <2>2, <2>3 DEF SavedBooks
<1>6. ASSUME leaks' = {} PROVE SavedSomewhere'
  <2>1. leaks = {} /\ SavedSomewhere
    BY <1>6 DEF EscrowInv
  <2>2. ASSUME hasVault, NEW h \in Pair PROVE Backed(l[h], Worthwhile')
    <3>1. CASE h = g
      BY <1>2, <1>6, <2>2, <3>1, Zenon
    <3>2. CASE h # g
      <4>1. Backed(goals[h], Worthwhile)
        BY <2>1, <2>2, Zenon DEF SavedSomewhere
      <4>2. Backed(goals[h], Worthwhile')
        BY <1>6, <2>2, <4>1, OthersBacked, Zenon
      <4> QED
        BY <1>2, <3>2, <4>2, Zenon
    <3> QED
      BY <3>1, <3>2
  <2>3. ASSUME ~hasVault PROVE tokens' >= DepositsOf(l)
    <3>1. tokens >= DepositsOf(goals) /\ tokens' >= tokens - r.deposited + x.deposited
      BY <1>6, <2>1, <2>3 DEF SavedSomewhere
    <3>2. tokens \in Nat /\ tokens' \in Nat
      BY <1>0 DEF SavedTypes
    <3> QED
      BY <1>2, <1>3, <3>1, <3>2
  <2> QED
    BY <1>1, <2>2, <2>3, Zenon DEF SavedSomewhere
<1> QED
  BY <1>4, <1>5, <1>6 DEF EscrowInv

LEMMA VaultAlike ==
  ASSUME SavingsAssumption, SavedVault, UNCHANGED <<now, yieldVault, vaultHeld>>
  PROVE  SavedVault' /\ Worthwhile' = Worthwhile /\ AtLeastAs(Worthwhile', Worthwhile)
<1>1. SavedVault' /\ Worthwhile' = Worthwhile
  BY Zenon DEF SavedVault, Worthwhile
<1>2. Worthwhile.assets \in Nat /\ Worthwhile.shares \in Nat
  BY SavedWhole
<1>3. AtLeastAs(Worthwhile, Worthwhile)
  BY <1>2, Monotone DEF AtLeastAs
<1> QED
  BY <1>1, <1>3, Zenon

\* No amount of the goal changes.
LEMMA GoalQuiet ==
  ASSUME FeeAssumption, SavingsAssumption, EscrowInv, NEW g \in Pair, NEW x, GoalFields(x),
         x.deposited = goals[g].deposited, x.shares = goals[g].shares,
         x.stranded = goals[g].stranded,
         goals' = [goals EXCEPT ![g] = x], UNCHANGED <<now, hasVault>>, Goal!OnlyGoals
  PROVE  EscrowInv'
<1>0. SavedTypes /\ SavedVault /\ SavedBooks /\ GoalTable(goals)
  BY DEF EscrowInv, SavedTypes
<1>1. UNCHANGED <<pooled, yieldShares, reserve, tokens, leaks, yieldVault, vaultHeld>>
  BY Zenon DEF Goal!OnlyGoals
<1>2. SavedVault' /\ Worthwhile' = Worthwhile /\ AtLeastAs(Worthwhile', Worthwhile)
  BY <1>0, <1>1, VaultAlike
<1>3. PICK r : r = goals[g]
  OBVIOUS
<1>4. r.deposited \in Nat /\ r.shares \in Nat /\ r.stranded \in Nat
  BY <1>0, <1>3 DEF GoalTable, GoalFields
<1>5. PICK d, s, n \in Nat : d = r.deposited /\ s = r.shares /\ n = r.stranded
  BY <1>4
<1>6. x.deposited = d /\ x.shares = s /\ x.stranded = n
  BY <1>3, <1>5
<1>7. yieldShares \in Int /\ vaultHeld["escrow"] \in Int
  BY <1>0 DEF SavedBooks, SavedVault
<1>8. /\ yieldShares = yieldShares - (s + n) + (s + n)
      /\ vaultHeld["escrow"] = vaultHeld["escrow"] - (s + n) + (s + n)
      /\ pooled = pooled - d + d /\ tokens >= tokens - d + d
  BY <1>0, <1>5, <1>7 DEF SavedTypes
<1>9. ~hasVault => x.shares = 0
  BY <1>0 DEF SavedBooks
<1>10. leaks = {} /\ hasVault => Backed(x, Worthwhile)
  BY DEF EscrowInv, SavedSomewhere, Backed
<1>11. /\ yieldShares' = yieldShares - (r.shares + r.stranded) + (x.shares + x.stranded)
       /\ vaultHeld'["escrow"]
            = vaultHeld["escrow"] - (r.shares + r.stranded) + (x.shares + x.stranded)
       /\ pooled' = pooled - r.deposited + x.deposited
       /\ tokens' >= tokens - r.deposited + x.deposited
  BY <1>1, <1>5, <1>6, <1>8, Zenon
<1>12. /\ hasVault' = hasVault /\ pooled' \in Int /\ reserve' \in Nat /\ tokens' \in Nat
       /\ leaks \subseteq leaks' /\ leaks' = leaks
       /\ leaks' \subseteq {"matched", "rounded", "stranded", "moved", "rolled"}
  BY <1>0, <1>1 DEF SavedTypes
<1> QED
  BY <1>2, <1>3, <1>9, <1>10, <1>11, <1>12, GoalChanges, Zenon

LEMMA GoalConfigured ==
  ASSUME FeeAssumption, SavingsAssumption, EscrowInv, NEW g \in Pair,
         \/ \E amount \in Saved : Goal!ConfigureAutoDeposit(g, amount)
         \/ Goal!CancelAutoDeposit(g) \/ Goal!RequestHardshipWithdrawal(g)
         \/ Goal!ApproveHardshipWithdrawal(g)
         \/ \E on \in BOOLEAN : Goal!SetAutoRollover(g, on) \/ Goal!SetBeneficiary(g, on)
  PROVE  EscrowInv'
<1>0. now \in Nat
  BY DEF EscrowInv, SavedVault
<1>1. PICK r : r = goals[g]
  OBVIOUS
<1>2. GoalFields(r)
  BY <1>1 DEF EscrowInv, SavedTypes, GoalTable
<1>3. UNCHANGED <<now, hasVault>> /\ Goal!OnlyGoals
  BY Zenon DEF Goal!ConfigureAutoDeposit, Goal!CancelAutoDeposit, Goal!RequestHardshipWithdrawal,
     Goal!ApproveHardshipWithdrawal, Goal!SetAutoRollover, Goal!SetBeneficiary, Goal!Called
<1>4. ASSUME NEW x, GoalFields(x), x.deposited = r.deposited, x.shares = r.shares,
             x.stranded = r.stranded, goals' = [goals EXCEPT ![g] = x]
      PROVE  EscrowInv'
  BY <1>1, <1>3, <1>4, GoalQuiet, Zenon
<1>5. ASSUME NEW amount \in Saved, Goal!ConfigureAutoDeposit(g, amount) PROVE EscrowInv'
  <2>1. PICK x : x = [r EXCEPT !.draw = amount, !.due = now + 1]
    OBVIOUS
  <2>2. goals' = [goals EXCEPT ![g] = x]
    BY <1>1, <1>5, <2>1, Zenon DEF Goal!ConfigureAutoDeposit
  <2>3. /\ GoalFields(x) /\ x.deposited = r.deposited /\ x.shares = r.shares
        /\ x.stranded = r.stranded
    BY <1>2, <2>1 DEF GoalFields
  <2> QED
    BY <1>4, <2>2, <2>3
<1>6. CASE Goal!CancelAutoDeposit(g)
  <2>1. PICK x : x = [r EXCEPT !.draw = 0, !.due = 0]
    OBVIOUS
  <2>2. goals' = [goals EXCEPT ![g] = x]
    BY <1>1, <1>6, <2>1, Zenon DEF Goal!CancelAutoDeposit
  <2>3. /\ GoalFields(x) /\ x.deposited = r.deposited /\ x.shares = r.shares
        /\ x.stranded = r.stranded
    BY <1>2, <2>1 DEF GoalFields
  <2> QED
    BY <1>4, <2>2, <2>3
<1>7. CASE Goal!RequestHardshipWithdrawal(g)
  <2>1. PICK x : x = [r EXCEPT !.asked = now, !.approved = FALSE]
    OBVIOUS
  <2>2. goals' = [goals EXCEPT ![g] = x]
    BY <1>1, <1>7, <2>1, Zenon DEF Goal!RequestHardshipWithdrawal
  <2>3. /\ GoalFields(x) /\ x.deposited = r.deposited /\ x.shares = r.shares
        /\ x.stranded = r.stranded
    BY <1>0, <1>2, <2>1 DEF GoalFields
  <2> QED
    BY <1>4, <2>2, <2>3
<1>8. CASE Goal!ApproveHardshipWithdrawal(g)
  <2>1. PICK x : x = [r EXCEPT !.approved = TRUE]
    OBVIOUS
  <2>2. goals' = [goals EXCEPT ![g] = x]
    BY <1>1, <1>8, <2>1, Zenon DEF Goal!ApproveHardshipWithdrawal
  <2>3. /\ GoalFields(x) /\ x.deposited = r.deposited /\ x.shares = r.shares
        /\ x.stranded = r.stranded
    BY <1>2, <2>1 DEF GoalFields
  <2> QED
    BY <1>4, <2>2, <2>3
<1>9. ASSUME NEW on \in BOOLEAN, Goal!SetAutoRollover(g, on) PROVE EscrowInv'
  <2>1. PICK x : x = [r EXCEPT !.rollover = on]
    OBVIOUS
  <2>2. goals' = [goals EXCEPT ![g] = x]
    BY <1>1, <1>9, <2>1, Zenon DEF Goal!SetAutoRollover
  <2>3. /\ GoalFields(x) /\ x.deposited = r.deposited /\ x.shares = r.shares
        /\ x.stranded = r.stranded
    BY <1>2, <2>1 DEF GoalFields
  <2> QED
    BY <1>4, <2>2, <2>3
<1>10. ASSUME NEW on \in BOOLEAN, Goal!SetBeneficiary(g, on) PROVE EscrowInv'
  <2>1. PICK x : x = [r EXCEPT !.heir = on, !.activity = now]
    OBVIOUS
  <2>2. goals' = [goals EXCEPT ![g] = x]
    BY <1>1, <1>10, <2>1, Zenon DEF Goal!SetBeneficiary
  <2>3. /\ GoalFields(x) /\ x.deposited = r.deposited /\ x.shares = r.shares
        /\ x.stranded = r.stranded
    BY <1>0, <1>2, <2>1 DEF GoalFields
  <2> QED
    BY <1>4, <2>2, <2>3
<1> QED
  BY <1>5, <1>6, <1>7, <1>8, <1>9, <1>10, Zenon

-----------------------------------------------------------------------------
\* An amount is put away, for which the vault gives b shares when there is one.
Saves(amount, b) ==
  /\ b \in Nat /\ Goal!Bought = b /\ vaultHeld'["escrow"] = vaultHeld["escrow"] + b
  /\ SavedVault' /\ tokens' \in Nat
  /\ ~hasVault => b = 0 /\ tokens' = tokens + amount
  /\ hasVault => /\ tokens' = tokens /\ b > 0 /\ Worthwhile' = yieldVault'
                 /\ yieldVault'.shares \in Nat \ {0} /\ yieldVault'.assets \in Nat
                 /\ Worthwhile.shares > 0 => AtLeastAs(Worthwhile', Worthwhile)

LEMMA PutsAway ==
  ASSUME SavingsAssumption, EscrowInv, NEW amount \in Saved, Goal!PutAway(amount), now' = now
  PROVE  \E b : Saves(amount, b)
<1>0. /\ SavedVault /\ tokens \in Nat /\ hasVault \in BOOLEAN /\ amount \in Nat \ {0}
      /\ vaultHeld["escrow"] \in Nat
  BY DEF EscrowInv, SavedTypes, SavingsAssumption, SavedVault
<1>1. CASE hasVault
  <2>1. Goal!Vault!Deposit("escrow", amount) /\ tokens' = tokens
    BY <1>1, Zenon DEF Goal!PutAway, Goal!Self
  <2>2. /\ SavedVault' /\ Worthwhile' = yieldVault'
        /\ Worthwhile.shares > 0 => AtLeastAs(Worthwhile', Worthwhile)
        /\ \E m \in Nat \ {0} : /\ vaultHeld'["escrow"] = vaultHeld["escrow"] + m
                                /\ yieldVault'.shares = yieldVault.shares + m
    BY <1>0, <2>1, SavedMints
  <2>3. PICK b \in Nat \ {0} : /\ vaultHeld'["escrow"] = vaultHeld["escrow"] + b
                               /\ yieldVault'.shares = yieldVault.shares + b
    BY <2>2
  <2>4. Goal!Bought = b
    BY <1>0, <2>3 DEF Goal!Bought, Goal!Self
  <2>5. yieldVault'.shares \in Nat \ {0} /\ yieldVault'.assets \in Nat
    <3>1. yieldVault.shares \in Nat /\ yieldVault'.assets \in Nat
      BY <1>0, <2>2 DEF SavedVault, SavedTotals
    <3> QED
      BY <2>3, <3>1
  <2>6. Saves(amount, b)
    BY <1>0, <1>1, <2>1, <2>2, <2>3, <2>4, <2>5 DEF Saves
  <2> QED
    BY <2>6
<1>2. CASE ~hasVault
  <2>1. tokens' = tokens + amount /\ UNCHANGED <<yieldVault, vaultHeld>>
    BY <1>2, Zenon DEF Goal!PutAway
  <2>2. SavedVault'
    BY <1>0, <2>1, VaultAlike
  <2>3. Goal!Bought = 0 /\ vaultHeld'["escrow"] = vaultHeld["escrow"] + 0
    BY <1>0, <2>1 DEF Goal!Bought, Goal!Self
  <2>4. Saves(amount, 0)
    BY <1>0, <1>2, <2>1, <2>2, <2>3 DEF Saves
  <2> QED
    BY <2>4
<1> QED
  BY <1>1, <1>2

LEMMA MatchingFine ==
  ASSUME SavingsAssumption, SavedTypes, NEW r, GoalFields(r), NEW amount \in Saved
  PROVE  Goal!Matching(r, amount) \in Nat /\ Goal!Matching(r, amount) <= reserve
<1>1. PICK x : x = (amount * GoalTerms.matchBps) \div 10000
  OBVIOUS
<1>2. PICK y : y = Goal!Max({GoalTerms.matchCap - r.matched, 0})
  OBVIOUS
<1>3. x \in Nat
  <2>1. amount \in Nat /\ GoalTerms.matchBps \in Nat
    BY DEF SavingsAssumption
  <2>2. PICK p \in Nat : p = amount * GoalTerms.matchBps
    BY <2>1
  <2>3. x = p \div 10000
    BY <1>1, <2>2
  <2> QED
    BY <2>2, <2>3
<1>4. y \in Nat
  <2>1. PICK z \in Int : z = GoalTerms.matchCap - r.matched
    <3>1. GoalTerms.matchCap \in Nat /\ r.matched \in Int
      BY DEF SavingsAssumption, GoalFields
    <3> QED
      BY <3>1
  <2>2. \E u \in {z, 0} : \A v \in {z, 0} : u >= v
    OBVIOUS
  <2>3. Goal!Max({z, 0}) \in {z, 0} /\ \A v \in {z, 0} : Goal!Max({z, 0}) >= v
    BY <2>2, Zenon DEF Goal!Max
  <2>4. Goal!Max({z, 0}) \in Nat
    BY <2>3
  <2> QED
    BY <1>2, <2>1, <2>4, Zenon
<1>5. reserve \in Nat
  BY DEF SavedTypes
<1>6. PICK S : S = {x, y, reserve}
  OBVIOUS
<1>7. \E u \in S : \A v \in S : u <= v
  BY <1>3, <1>4, <1>5, <1>6
<1>8. Goal!Min(S) \in S /\ \A v \in S : Goal!Min(S) <= v
  BY <1>7, Zenon DEF Goal!Min
<1>9. Goal!Matching(r, amount) = Goal!Min(S)
  BY <1>1, <1>2, <1>6 DEF Goal!Matching
<1>10. Goal!Min(S) \in Nat /\ Goal!Min(S) <= reserve
  BY <1>3, <1>4, <1>5, <1>6, <1>8
<1> QED
  BY <1>9, <1>10, Zenon

\* What was paid is worth no less than it cost, and so is all of the goal.
LEMMA BackedMore ==
  ASSUME NEW d \in Nat, NEW n \in Nat, NEW p \in Nat, NEW b \in Nat, NEW s \in Nat \ {0},
         NEW a \in Nat, d * s <= n * a, ~((b * a) \div s < p)
  PROVE  (d + p) * s <= (n + b) * a
<1>1. PICK q \in Nat : q = (b * a) \div s /\ q * s <= b * a /\ p <= q
  <2>1. b * a \in Nat
    OBVIOUS
  <2>2. (b * a) \div s \in Nat /\ ((b * a) \div s) * s <= b * a
    BY <2>1, Quotient
  <2> QED
    BY <2>2
<1>2. p * s <= q * s
  BY <1>1, Monotone
<1>3. (d + p) * s = d * s + p * s /\ (n + b) * a = n * a + b * a
  OBVIOUS
<1>4. d * s \in Nat /\ p * s \in Nat /\ q * s \in Nat /\ n * a \in Nat /\ b * a \in Nat
  BY <1>1
<1> QED
  BY <1>1, <1>2, <1>3, <1>4

LEMMA GoalDeposit ==
  ASSUME FeeAssumption, SavingsAssumption, EscrowInv, NEW g \in Pair, NEW amount \in Saved,
         Goal!Deposit(g, amount)
  PROVE  EscrowInv'
<1>0. SavedTypes /\ SavedVault /\ SavedBooks /\ GoalTable(goals)
  BY DEF EscrowInv, SavedTypes
<1>1. PICK r, p : r = goals[g] /\ p = Goal!Matching(r, amount)
  OBVIOUS
<1>2. GoalFields(r) /\ p \in Nat /\ p <= reserve /\ amount \in Nat \ {0}
  BY <1>0, <1>1, MatchingFine DEF GoalTable, SavingsAssumption
<1>3. /\ UNCHANGED <<now, hasVault>> /\ Goal!PutAway(amount)
      /\ pooled' = pooled + amount + p /\ yieldShares' = yieldShares + Goal!Bought
      /\ reserve' = reserve - p
      /\ leaks' = leaks \cup Goal!Leak("matched", p > 0) \cup Goal!Leak("rounded", Goal!Rounded(amount))
  BY <1>1, Zenon DEF Goal!Deposit, Goal!Called
<1>4. PICK b : Saves(amount, b)
  BY <1>3, PutsAway
<1>5. PICK d, m, n \in Int : /\ d = r.deposited + amount + p /\ m = r.matched + p
                             /\ n = r.shares + b /\ d \in Nat /\ n \in Nat
  BY <1>2, <1>4 DEF GoalFields, Saves
<1>6. PICK x : x = [r EXCEPT !.deposited = d, !.matched = m,
                             !.start = IF r.deposited = 0 THEN now ELSE r.start,
                             !.last = now, !.activity = now, !.shares = n]
  OBVIOUS
<1>7. goals' = [goals EXCEPT ![g] = x]
  <2>1. goals' = [goals EXCEPT ![g] =
          [r EXCEPT !.deposited = r.deposited + amount + p, !.matched = r.matched + p,
                    !.start = IF r.deposited = 0 THEN now ELSE r.start,
                    !.last = now, !.activity = now, !.shares = r.shares + Goal!Bought]]
    BY <1>1, Zenon DEF Goal!Deposit
  <2>2. Goal!Bought = b
    BY <1>4 DEF Saves
  <2> QED
    BY <1>5, <1>6, <2>1, <2>2, Zenon
<1>8. GoalFields(x) /\ x.deposited = d /\ x.shares = n /\ x.stranded = r.stranded
  <2>1. now \in Nat
    BY <1>0 DEF SavedVault
  <2> QED
    BY <1>2, <1>5, <1>6, <2>1, ZenonT(60) DEF GoalFields
<1>9. /\ leaks \subseteq leaks'
      /\ leaks' \subseteq {"matched", "rounded", "stranded", "moved", "rolled"}
      /\ "rolled" \notin leaks' => "rolled" \notin leaks
      /\ leaks' = {} => p = 0 /\ ~Goal!Rounded(amount)
  BY <1>0, <1>2, <1>3 DEF SavedTypes, Goal!Leak
<1>10. PICK e, k, l \in Nat : e = r.deposited /\ k = r.shares /\ l = r.stranded
  BY <1>2 DEF GoalFields
<1>11. b \in Nat /\ d = e + amount + p /\ n = k + b
  BY <1>4, <1>5, <1>10 DEF Saves
<1>12. /\ yieldShares' = yieldShares - (r.shares + r.stranded) + (x.shares + x.stranded)
       /\ vaultHeld'["escrow"]
            = vaultHeld["escrow"] - (r.shares + r.stranded) + (x.shares + x.stranded)
       /\ pooled' = pooled - r.deposited + x.deposited
       /\ pooled' \in Int /\ reserve' \in Nat /\ tokens' \in Nat
  <2>1. /\ yieldShares' = yieldShares + b /\ vaultHeld'["escrow"] = vaultHeld["escrow"] + b
        /\ tokens' \in Nat
    BY <1>3, <1>4 DEF Saves
  <2>2. yieldShares \in Int /\ vaultHeld["escrow"] \in Int /\ pooled \in Int /\ reserve \in Nat
    BY <1>0 DEF SavedVault, SavedBooks, SavedTypes
  <2> QED
    BY <1>2, <1>3, <1>8, <1>10, <1>11, <2>1, <2>2
<1>13. ~hasVault => x.shares = 0
  BY <1>0, <1>1, <1>4, <1>8, <1>10, <1>11 DEF SavedBooks, Saves
<1>14. ASSUME leaks' = {}, hasVault
       PROVE  /\ Worthwhile.shares > 0 => AtLeastAs(Worthwhile', Worthwhile)
              /\ Backed(x, Worthwhile')
  <2>1. /\ SavedVault' /\ Worthwhile' = yieldVault' /\ Goal!Bought = b /\ b > 0
        /\ Worthwhile.shares > 0 => AtLeastAs(Worthwhile', Worthwhile)
    BY <1>4, <1>14 DEF Saves
  <2>2. PICK s \in Nat \ {0}, a \in Nat : s = yieldVault'.shares /\ a = yieldVault'.assets
    BY <1>4, <1>14 DEF Saves
  <2>3. ~((b * a) \div s < amount)
    BY <1>9, <1>14, <2>1, <2>2 DEF Goal!Rounded
  <2>4. Backed(r, Worthwhile')
    <3>1. Backed(goals[g], Worthwhile)
      BY <1>9, <1>14 DEF EscrowInv, SavedSomewhere
    <3> QED
      BY <1>1, <2>1, <3>1, OthersBacked, Zenon
  <2>5. e * s <= k * a
    BY <1>10, <2>1, <2>2, <2>4 DEF Backed
  <2>6. (e + amount) * s <= (k + b) * a
    BY <1>2, <1>10, <1>11, <2>2, <2>3, <2>5, BackedMore
  <2>7. x.deposited = e + amount /\ x.shares = k + b /\ x.shares > 0
    BY <1>2, <1>8, <1>9, <1>10, <1>11, <1>14, <2>1
  <2> QED
    BY <2>1, <2>2, <2>6, <2>7 DEF Backed
<1>15. leaks' = {} /\ ~hasVault => tokens' >= tokens - r.deposited + x.deposited
  <2>1. ASSUME leaks' = {}, ~hasVault PROVE tokens' >= tokens - r.deposited + x.deposited
    <3>1. tokens' = tokens + amount /\ tokens \in Nat
      BY <1>0, <1>4, <2>1 DEF Saves, SavedTypes
    <3>2. p = 0
      BY <1>9, <2>1
    <3> QED
      BY <1>2, <1>8, <1>10, <1>11, <3>1, <3>2
  <2> QED
    BY <2>1
<1>16. SavedVault' /\ hasVault' = hasVault
  BY <1>3, <1>4 DEF Saves
<1> QED
  BY <1>1, <1>7, <1>8, <1>9, <1>12, <1>13, <1>14, <1>15, <1>16, GoalChanges, Zenon

\* The totals of the escrow are whole numbers.
LEMMA SavedNumbers ==
  ASSUME EscrowInv
  PROVE  /\ yieldShares \in Nat /\ vaultHeld["escrow"] \in Nat /\ yieldShares = vaultHeld["escrow"]
         /\ pooled \in Int /\ reserve \in Nat /\ tokens \in Nat /\ hasVault \in BOOLEAN
<1>1. SavedTypes /\ SavedVault /\ SavedBooks
  BY Zenon DEF EscrowInv
<1>2. vaultHeld["escrow"] \in Nat
  BY <1>1 DEF SavedVault
<1>3. yieldShares = vaultHeld["escrow"]
  BY <1>1, Zenon DEF SavedBooks
<1>4. pooled \in Int /\ reserve \in Nat /\ tokens \in Nat /\ hasVault \in BOOLEAN
  BY <1>1, Zenon DEF SavedTypes
<1> QED
  BY <1>2, <1>3, <1>4, Zenon

\* A top-up and a scheduled draw.
LEMMA GoalTopsUp ==
  ASSUME FeeAssumption, SavingsAssumption, EscrowInv, NEW g \in Pair, NEW amount \in Saved,
         NEW r, GoalFields(r), r.deposited = goals[g].deposited, r.shares = goals[g].shares,
         r.stranded = goals[g].stranded,
         UNCHANGED <<now, hasVault>>, Goal!AddTo(g, amount, r)
  PROVE  EscrowInv'
<1>0. SavedTypes /\ SavedVault /\ SavedBooks /\ GoalTable(goals) /\ amount \in Nat \ {0}
  BY DEF EscrowInv, SavedTypes, SavingsAssumption
<1>1. /\ Goal!PutAway(amount) /\ pooled' = pooled + amount
      /\ yieldShares' = yieldShares + Goal!Bought
      /\ leaks' = leaks \cup Goal!Leak("stranded", hasVault) /\ reserve' = reserve
  BY Zenon DEF Goal!AddTo
<1>2. PICK b : Saves(amount, b)
  BY <1>1, PutsAway
<1>3. PICK e, k, l \in Nat : e = goals[g].deposited /\ k = goals[g].shares /\ l = goals[g].stranded
  BY <1>0 DEF GoalTable, GoalFields
<1>4. b \in Nat /\ r.deposited = e /\ r.shares = k /\ r.stranded = l
  BY <1>2, <1>3 DEF Saves
<1>5. PICK d, n \in Nat : d = e + amount /\ n = l + b
  BY <1>0, <1>4
<1>6. PICK x : x = [r EXCEPT !.deposited = d, !.stranded = n]
  OBVIOUS
<1>7. goals' = [goals EXCEPT ![g] = x]
  <2>1. goals' = [goals EXCEPT ![g] =
          [r EXCEPT !.deposited = r.deposited + amount, !.stranded = r.stranded + Goal!Bought]]
    BY Zenon DEF Goal!AddTo
  <2>2. Goal!Bought = b
    BY <1>2 DEF Saves
  <2>3. r.deposited + amount = d /\ r.stranded + Goal!Bought = n
    BY <1>4, <1>5, <2>2, Zenon
  <2> QED
    BY <1>6, <2>1, <2>3, Zenon
<1>8. GoalFields(x) /\ x.deposited = d /\ x.shares = k /\ x.stranded = n
  BY <1>4, <1>5, <1>6 DEF GoalFields
<1>9. /\ leaks \subseteq leaks'
      /\ leaks' \subseteq {"matched", "rounded", "stranded", "moved", "rolled"}
      /\ "rolled" \notin leaks' => "rolled" \notin leaks
      /\ leaks' = {} => ~hasVault
  BY <1>0, <1>1 DEF SavedTypes, Goal!Leak
<1>10. PICK f : f = goals[g]
  OBVIOUS
<1>11. /\ yieldShares' = yieldShares - (f.shares + f.stranded) + (x.shares + x.stranded)
       /\ vaultHeld'["escrow"]
            = vaultHeld["escrow"] - (f.shares + f.stranded) + (x.shares + x.stranded)
       /\ pooled' = pooled - f.deposited + x.deposited
       /\ pooled' \in Int /\ reserve' \in Nat /\ tokens' \in Nat
  <2>1. /\ yieldShares' = yieldShares + b /\ vaultHeld'["escrow"] = vaultHeld["escrow"] + b
        /\ tokens' \in Nat
    BY <1>1, <1>2 DEF Saves
  <2>2. yieldShares \in Nat /\ vaultHeld["escrow"] \in Nat /\ pooled \in Int /\ reserve \in Nat
    BY SavedNumbers, Zenon
  <2>3. f.deposited = e /\ f.shares = k /\ f.stranded = l
    BY <1>3, <1>10
  <2> QED
    BY <1>0, <1>1, <1>4, <1>5, <1>8, <2>1, <2>2, <2>3
<1>12. ~hasVault => x.shares = 0
  BY <1>0, <1>3, <1>8 DEF SavedBooks
<1>13. leaks' = {} /\ ~hasVault => tokens' >= tokens - f.deposited + x.deposited
  <2>1. ASSUME ~hasVault PROVE tokens' >= tokens - f.deposited + x.deposited
    <3>1. tokens' = tokens + amount /\ tokens \in Nat
      BY <1>0, <1>2, <2>1 DEF Saves, SavedTypes
    <3>2. f.deposited = e
      BY <1>3, <1>10
    <3> QED
      BY <1>0, <1>5, <1>8, <3>1, <3>2
  <2> QED
    BY <2>1
<1>14. SavedVault' /\ hasVault' = hasVault
  BY <1>2 DEF Saves
<1>15. leaks' = {} /\ hasVault => FALSE
  BY <1>9
<1> QED
  BY <1>7, <1>8, <1>9, <1>10, <1>11, <1>12, <1>13, <1>14, <1>15, GoalChanges, Zenon

LEMMA GoalAdds ==
  ASSUME FeeAssumption, SavingsAssumption, EscrowInv, NEW g \in Pair,
         Goal!ExecuteAutoDeposit(g) \/ \E amount \in Saved : Goal!TopUp(g, amount)
  PROVE  EscrowInv'
<1>1. PICK f : f = goals[g]
  OBVIOUS
<1>2. GoalFields(f) /\ now \in Nat
  BY <1>1 DEF EscrowInv, SavedTypes, SavedVault, GoalTable
<1>3. ASSUME NEW amount \in Saved, Goal!TopUp(g, amount) PROVE EscrowInv'
  <2>1. UNCHANGED <<now, hasVault>> /\ Goal!AddTo(g, amount, f)
    BY <1>1, <1>3, Zenon DEF Goal!TopUp, Goal!Called
  <2> QED
    BY <1>1, <1>2, <2>1, GoalTopsUp, Zenon
<1>4. CASE Goal!ExecuteAutoDeposit(g)
  <2>1. PICK amount, r : /\ amount = f.draw
                         /\ r = [f EXCEPT !.start = IF f.deposited = 0 THEN now ELSE f.start,
                                          !.last = now, !.due = now + 1]
    OBVIOUS
  <2>2. UNCHANGED <<now, hasVault>> /\ amount > 0 /\ Goal!AddTo(g, amount, r)
    BY <1>1, <1>4, <2>1, Zenon DEF Goal!ExecuteAutoDeposit, Goal!Called
  <2>3. amount \in Saved
    BY <1>2, <2>1, <2>2 DEF GoalFields
  <2>4. /\ GoalFields(r) /\ r.deposited = f.deposited /\ r.shares = f.shares
        /\ r.stranded = f.stranded
    BY <1>2, <2>1 DEF GoalFields
  <2> QED
    BY <1>1, <2>2, <2>3, <2>4, GoalTopsUp, Zenon
<1> QED
  BY <1>3, <1>4

-----------------------------------------------------------------------------
\* The vault pays the given amount for the shares of the goal, if it has any.
Redeems(r, paid) ==
  /\ paid \in Nat
  /\ yieldShares' = yieldShares - r.shares /\ vaultHeld'["escrow"] = vaultHeld["escrow"] - r.shares
  /\ SavedVault' /\ AtLeastAs(Worthwhile', Worthwhile)
  /\ ~hasVault => paid = 0 /\ Goal!Unwound(r) = r.deposited
  /\ Goal!Unwound(r) \in Nat

LEMMA SharesRedeemed ==
  ASSUME SavingsAssumption, EscrowInv, NEW g \in Pair, NEW r, r = goals[g], now' = now,
         IF hasVault /\ r.shares > 0
         THEN Goal!Vault!Withdraw(Goal!Self, r.shares) /\ yieldShares' = yieldShares - r.shares
         ELSE UNCHANGED <<yieldVault, vaultHeld, yieldShares>>
  PROVE  /\ Redeems(r, IF hasVault /\ r.shares > 0 THEN Goal!Unwound(r) ELSE 0)
         /\ ~(hasVault /\ r.shares > 0) => r.shares = 0 /\ Goal!Unwound(r) = r.deposited
<1>0. /\ SavedVault /\ SavedTypes /\ SavedBooks /\ hasVault \in BOOLEAN
      /\ r.shares \in Nat /\ r.deposited \in Nat
      /\ yieldShares \in Nat /\ vaultHeld["escrow"] \in Nat
  <2>1. SavedVault /\ SavedTypes /\ SavedBooks /\ GoalTable(goals)
    BY Zenon DEF EscrowInv, SavedTypes
  <2>2. r.shares \in Nat /\ r.deposited \in Nat
    BY <2>1 DEF GoalTable, GoalFields
  <2> QED
    BY <2>1, <2>2, SavedNumbers, Zenon
<1>1. CASE hasVault /\ r.shares > 0
  <2>1. /\ Goal!Vault!Withdraw("escrow", r.shares) /\ yieldShares' = yieldShares - r.shares
    BY <1>1, Zenon DEF Goal!Self
  <2>2. /\ SavedVault' /\ AtLeastAs(Worthwhile', Worthwhile)
        /\ vaultHeld'["escrow"] = vaultHeld["escrow"] - r.shares
    BY <1>0, <2>1, SavedBurns
  <2>3. Goal!Unwound(r) \in Nat
    <3>1. PICK w : w = Worthwhile
      OBVIOUS
    <3>2. w.shares \in Nat /\ w.assets \in Nat /\ Goal!Vault!Accrued = w
      BY <1>0, <3>1, SavedWhole
    <3>3. r.shares <= w.shares
      BY <2>1, <3>2, Zenon DEF Goal!Vault!Withdraw
    <3>4. PICK n, s, a \in Nat : n = r.shares /\ s = w.shares /\ a = w.assets /\ s > 0
      BY <1>0, <1>1, <3>2, <3>3
    <3>5. n * a \in Nat /\ (n * a) \div s \in Nat
      BY <3>4, Quotient
    <3>6. Goal!Unwound(r) = (r.shares * w.assets) \div w.shares
      BY <1>1, <3>2, Zenon DEF Goal!Unwound, Goal!Vault!AssetsFor
    <3> QED
      BY <3>4, <3>5, <3>6
  <2> QED
    BY <1>0, <1>1, <2>1, <2>2, <2>3 DEF Redeems
<1>2. CASE ~(hasVault /\ r.shares > 0)
  <2>1. UNCHANGED <<yieldVault, vaultHeld, yieldShares>>
    BY <1>2, Zenon
  <2>2. r.shares = 0
    BY <1>0, <1>2 DEF SavedBooks
  <2>3. SavedVault' /\ AtLeastAs(Worthwhile', Worthwhile)
    BY <1>0, <2>1, VaultAlike
  <2>4. Goal!Unwound(r) = r.deposited
    BY <1>2, Zenon DEF Goal!Unwound
  <2> QED
    BY <1>0, <1>2, <2>1, <2>2, <2>3, <2>4 DEF Redeems
<1> QED
  BY <1>1, <1>2

\* A goal is paid out.
LEMMA GoalPaid ==
  ASSUME FeeAssumption, SavingsAssumption, EscrowInv, NEW g \in Pair, NEW r, r = goals[g],
         NEW x, GoalFields(x), x.deposited = 0, x.shares = 0, x.stranded = r.stranded,
         goals' = [goals EXCEPT ![g] = x], UNCHANGED <<now, hasVault, reserve>>,
         pooled' = pooled - r.deposited,
         NEW amount \in Int, Goal!PayFrom(r, amount),
         ~hasVault => amount <= r.deposited
  PROVE  EscrowInv'
<1>0. SavedTypes /\ SavedVault /\ SavedBooks /\ GoalTable(goals)
  BY DEF EscrowInv, SavedTypes
<1>1. PICK paid : paid = IF hasVault /\ r.shares > 0 THEN Goal!Unwound(r) ELSE 0
  OBVIOUS
<1>2. /\ IF hasVault /\ r.shares > 0
         THEN Goal!Vault!Withdraw(Goal!Self, r.shares) /\ yieldShares' = yieldShares - r.shares
         ELSE UNCHANGED <<yieldVault, vaultHeld, yieldShares>>
      /\ amount <= tokens + paid /\ tokens' = tokens + paid - amount
      /\ leaks' = leaks \cup Goal!Leak("rounded", paid > 0 /\ paid < r.deposited)
  BY <1>1, Zenon DEF Goal!PayFrom
<1>3. Redeems(r, paid)
  BY <1>1, <1>2, SharesRedeemed, Zenon
<1>4. PICK e, k, l \in Nat : e = r.deposited /\ k = r.shares /\ l = r.stranded
  BY <1>0 DEF GoalTable, GoalFields
<1>5. /\ leaks \subseteq leaks'
      /\ leaks' \subseteq {"matched", "rounded", "stranded", "moved", "rolled"}
      /\ "rolled" \notin leaks' => "rolled" \notin leaks
  BY <1>0, <1>2 DEF SavedTypes, Goal!Leak
<1>6. /\ yieldShares' = yieldShares - (r.shares + r.stranded) + (x.shares + x.stranded)
      /\ vaultHeld'["escrow"]
           = vaultHeld["escrow"] - (r.shares + r.stranded) + (x.shares + x.stranded)
      /\ pooled' = pooled - r.deposited + x.deposited
      /\ pooled' \in Int /\ reserve' \in Nat /\ tokens' \in Nat
  <2>1. /\ yieldShares' = yieldShares - k /\ vaultHeld'["escrow"] = vaultHeld["escrow"] - k
        /\ paid \in Nat
    BY <1>3, <1>4 DEF Redeems
  <2>2. /\ yieldShares \in Nat /\ vaultHeld["escrow"] \in Nat /\ pooled \in Int /\ reserve \in Nat
        /\ tokens \in Nat
    BY SavedNumbers, Zenon
  <2>3. x.deposited = 0 /\ x.shares = 0 /\ x.stranded = l
    BY <1>4
  <2> QED
    BY <1>2, <1>4, <2>1, <2>2, <2>3
<1>7. Backed(x, Worthwhile')
  <2>1. SavedTotals(Worthwhile')
    BY <1>3, AccruesWhole DEF Redeems, SavedVault, Worthwhile
  <2>2. Worthwhile'.shares \in Nat /\ Worthwhile'.assets \in Nat
    BY <2>1 DEF SavedTotals
  <2> QED
    BY <2>2 DEF Backed
<1>8. leaks' = {} /\ ~hasVault => tokens' >= tokens - r.deposited + x.deposited
  <2>1. ASSUME ~hasVault PROVE tokens' >= tokens - r.deposited + x.deposited
    <3>1. paid = 0 /\ tokens \in Nat /\ amount <= e /\ x.deposited = 0
      BY <1>0, <1>3, <1>4, <2>1 DEF Redeems, SavedTypes
    <3> QED
      BY <1>2, <1>4, <3>1
  <2> QED
    BY <2>1
<1>9. SavedVault' /\ hasVault' = hasVault /\ AtLeastAs(Worthwhile', Worthwhile)
  BY <1>3 DEF Redeems
<1> QED
  BY <1>5, <1>6, <1>7, <1>8, <1>9, GoalChanges, Zenon

\* What a pay-out is computed from.
LEMMA Payable ==
  ASSUME SavingsAssumption, EscrowInv, NEW g \in Pair, NEW r, r = goals[g], now' = now,
         NEW amount, Goal!PayFrom(r, amount)
  PROVE  /\ Goal!Unwound(r) \in Nat /\ Goal!Yield(r) \in Nat /\ r.deposited \in Nat
         /\ ~hasVault => Goal!Unwound(r) = r.deposited /\ Goal!Yield(r) = 0
<1>1. IF hasVault /\ r.shares > 0
      THEN Goal!Vault!Withdraw(Goal!Self, r.shares) /\ yieldShares' = yieldShares - r.shares
      ELSE UNCHANGED <<yieldVault, vaultHeld, yieldShares>>
  BY Zenon DEF Goal!PayFrom
<1>2. Redeems(r, IF hasVault /\ r.shares > 0 THEN Goal!Unwound(r) ELSE 0)
  BY <1>1, SharesRedeemed, Zenon
<1>3. PICK u : u = Goal!Unwound(r)
  OBVIOUS
<1>4. u \in Nat /\ (~hasVault => u = r.deposited)
  BY <1>2, <1>3, Zenon DEF Redeems
<1>5. r.deposited \in Nat
  <2>1. GoalTable(goals)
    BY DEF EscrowInv, SavedTypes
  <2> QED
    BY <2>1 DEF GoalTable, GoalFields
<1>6. PICK z \in Int : z = u - r.deposited /\ (~hasVault => z = 0)
  BY <1>4, <1>5
<1>7. Goal!Max({z, 0}) \in {z, 0} /\ \A v \in {z, 0} : Goal!Max({z, 0}) >= v
  <2>1. \E k \in {z, 0} : \A v \in {z, 0} : k >= v
    BY <1>6
  <2> QED
    BY <2>1, Zenon DEF Goal!Max
<1>8. Goal!Yield(r) = Goal!Max({z, 0})
  BY <1>3, <1>6, Zenon DEF Goal!Yield
<1>9. Goal!Max({z, 0}) \in Nat /\ (~hasVault => Goal!Max({z, 0}) = 0)
  BY <1>6, <1>7
<1> QED
  BY <1>3, <1>4, <1>5, <1>8, <1>9, Zenon

LEMMA GoalPaysOut ==
  ASSUME FeeAssumption, SavingsAssumption, EscrowInv, NEW g \in Pair,
         \/ Goal!Withdraw(g) \/ Goal!WithdrawHardship(g)
         \/ Goal!Release(g) \/ Goal!ClaimAsBeneficiary(g)
  PROVE  EscrowInv'
<1>1. PICK r : r = goals[g]
  OBVIOUS
<1>2. GoalFields(r) /\ now \in Nat
  <2>1. GoalTable(goals) /\ SavedVault
    BY DEF EscrowInv, SavedTypes
  <2> QED
    BY <1>1, <2>1 DEF GoalTable, SavedVault
<1>3. UNCHANGED <<now, hasVault, reserve>> /\ pooled' = pooled - r.deposited
  <2>1. CASE Goal!Withdraw(g)
    BY <1>1, <2>1 DEF Goal!Withdraw
  <2>2. CASE Goal!WithdrawHardship(g)
    BY <1>1, <2>2 DEF Goal!WithdrawHardship
  <2>3. CASE Goal!Release(g)
    BY <1>1, <2>3 DEF Goal!Release
  <2>4. CASE Goal!ClaimAsBeneficiary(g)
    BY <1>1, <2>4 DEF Goal!ClaimAsBeneficiary
  <2> QED
    BY <2>1, <2>2, <2>3, <2>4, Zenon
<1>4. ASSUME NEW x, GoalFields(x), x.deposited = 0, x.shares = 0, x.stranded = r.stranded,
             goals' = [goals EXCEPT ![g] = x],
             NEW amount \in Int, Goal!PayFrom(r, amount), ~hasVault => amount <= r.deposited
      PROVE  EscrowInv'
  BY <1>1, <1>3, <1>4, GoalPaid, Zenon
<1>5. CASE Goal!Withdraw(g)
  <2>1. PICK x : x = [r EXCEPT !.deposited = 0, !.state = "withdrawn", !.shares = 0,
                               !.activity = now]
    OBVIOUS
  <2>2. PICK amount :
          amount = r.deposited - (r.deposited * GoalTerms.penalties[Goal!Tier(r)]) \div 10000
                     + Goal!Yield(r)
    OBVIOUS
  <2>3. goals' = [goals EXCEPT ![g] = x] /\ Goal!PayFrom(r, amount)
    <3>1. goals' = [goals EXCEPT ![g] = x]
      BY <1>1, <1>5, <2>1 DEF Goal!Withdraw
    <3>2. Goal!PayFrom(r, amount)
      BY <1>1, <1>5, <2>2 DEF Goal!Withdraw
    <3> QED
      BY <3>1, <3>2
  <2>4. /\ Goal!Yield(r) \in Nat /\ r.deposited \in Nat
        /\ ~hasVault => Goal!Yield(r) = 0
    BY <1>1, <1>3, <2>3, Payable, Zenon
  <2>5. amount \in Int /\ (~hasVault => amount <= r.deposited)
    <3>1. Goal!Tier(r) \in 1..4
      BY DEF Goal!Tier
    <3>2. PICK q \in Nat : q = GoalTerms.penalties[Goal!Tier(r)]
      BY <3>1, Zenon DEF SavingsAssumption
    <3>3. PICK c \in Nat : c = r.deposited * q
      BY <2>4, <3>2
    <3>4. amount = r.deposited - c \div 10000 + Goal!Yield(r)
      BY <2>2, <3>2, <3>3
    <3>5. c \div 10000 \in Nat
      BY <3>3
    <3> QED
      BY <2>4, <3>4, <3>5
  <2>6. GoalFields(x) /\ x.deposited = 0 /\ x.shares = 0 /\ x.stranded = r.stranded
    BY <1>2, <2>1 DEF GoalFields
  <2> QED
    BY <1>4, <2>3, <2>5, <2>6, Zenon
<1>6. CASE Goal!WithdrawHardship(g)
  <2>1. PICK x : x = [r EXCEPT !.deposited = 0, !.state = "withdrawn", !.shares = 0,
                               !.activity = now, !.asked = Goal!Never]
    OBVIOUS
  <2>2. /\ goals' = [goals EXCEPT ![g] = x]
        /\ Goal!PayFrom(r, r.deposited + Goal!Yield(r))
    BY <1>1, <1>6, <2>1, Zenon DEF Goal!WithdrawHardship
  <2>3. /\ Goal!Yield(r) \in Nat /\ r.deposited \in Nat
        /\ ~hasVault => Goal!Yield(r) = 0
    BY <1>1, <1>3, <2>2, Payable, Zenon
  <2>4. PICK amount \in Int : /\ amount = r.deposited + Goal!Yield(r)
                              /\ ~hasVault => amount <= r.deposited
    BY <2>3
  <2>5. GoalFields(x) /\ x.deposited = 0 /\ x.shares = 0 /\ x.stranded = r.stranded
    BY <1>2, <2>1, Zenon DEF GoalFields
  <2>6. Goal!PayFrom(r, amount)
    BY <2>2, <2>4, Zenon
  <2> QED
    BY <1>4, <2>2, <2>4, <2>5, <2>6, Zenon
<1>7. CASE Goal!Release(g)
  <2>1. PICK x : x = [r EXCEPT !.deposited = 0, !.state = "released", !.shares = 0]
    OBVIOUS
  <2>2. PICK amount : amount = Goal!Unwound(r)
    OBVIOUS
  <2>3. goals' = [goals EXCEPT ![g] = x] /\ Goal!PayFrom(r, amount)
    BY <1>1, <1>7, <2>1, <2>2, Zenon DEF Goal!Release
  <2>4. amount \in Int /\ (~hasVault => amount <= r.deposited)
    <3>1. amount \in Nat /\ r.deposited \in Nat /\ (~hasVault => amount = r.deposited)
      BY <1>1, <1>3, <2>2, <2>3, Payable, Zenon
    <3> QED
      BY <3>1
  <2>5. GoalFields(x) /\ x.deposited = 0 /\ x.shares = 0 /\ x.stranded = r.stranded
    BY <1>2, <2>1 DEF GoalFields
  <2> QED
    BY <1>4, <2>3, <2>4, <2>5, Zenon
<1>8. CASE Goal!ClaimAsBeneficiary(g)
  <2>1. PICK x : x = [r EXCEPT !.deposited = 0, !.shares = 0, !.claimed = TRUE]
    OBVIOUS
  <2>2. PICK amount : amount = Goal!Unwound(r)
    OBVIOUS
  <2>3. goals' = [goals EXCEPT ![g] = x] /\ Goal!PayFrom(r, amount)
    BY <1>1, <1>8, <2>1, <2>2, Zenon DEF Goal!ClaimAsBeneficiary
  <2>4. amount \in Int /\ (~hasVault => amount <= r.deposited)
    <3>1. amount \in Nat /\ r.deposited \in Nat /\ (~hasVault => amount = r.deposited)
      BY <1>1, <1>3, <2>2, <2>3, Payable, Zenon
    <3> QED
      BY <3>1
  <2>5. GoalFields(x) /\ x.deposited = 0 /\ x.shares = 0 /\ x.stranded = r.stranded
    BY <1>2, <2>1 DEF GoalFields
  <2> QED
    BY <1>4, <2>3, <2>4, <2>5, Zenon
<1> QED
  BY <1>5, <1>6, <1>7, <1>8, Zenon

\* A rollover out of the vault is known; without shares nothing of the books moves.
LEMMA GoalRolls ==
  ASSUME FeeAssumption, SavingsAssumption, EscrowInv, NEW g \in Pair, Goal!Rollover(g)
  PROVE  EscrowInv'
<1>0. SavedTypes /\ SavedVault /\ SavedBooks /\ GoalTable(goals)
  BY DEF EscrowInv, SavedTypes
<1>1. PICK r, u : r = goals[g] /\ u = Goal!Unwound(r)
  OBVIOUS
<1>2. GoalFields(r) /\ now \in Nat
  BY <1>0, <1>1 DEF GoalTable, SavedVault
<1>3. PICK x : x = [r EXCEPT !.deposited = u, !.matched = 0, !.shares = 0,
                             !.start = now, !.last = now]
  OBVIOUS
<1>4. /\ goals' = [goals EXCEPT ![g] = x] /\ UNCHANGED <<now, hasVault, pooled, reserve>>
      /\ leaks' = leaks \cup Goal!Leak("rolled", hasVault /\ r.shares > 0)
      /\ r.deposited > 0
      /\ IF hasVault /\ r.shares > 0
         THEN tokens' = tokens + u
         ELSE tokens' = tokens
      /\ IF hasVault /\ r.shares > 0
         THEN Goal!Vault!Withdraw(Goal!Self, r.shares) /\ yieldShares' = yieldShares - r.shares
         ELSE UNCHANGED <<yieldVault, vaultHeld, yieldShares>>
  BY <1>1, <1>3, Zenon DEF Goal!Rollover, Goal!Matured, Goal!Open
<1>5. /\ Redeems(r, IF hasVault /\ r.shares > 0 THEN u ELSE 0)
      /\ ~(hasVault /\ r.shares > 0) => r.shares = 0 /\ u = r.deposited
  BY <1>1, <1>4, SharesRedeemed, Zenon
<1>6. PICK e, k, l \in Nat : e = r.deposited /\ k = r.shares /\ l = r.stranded
  BY <1>2 DEF GoalFields
<1>7. u \in Nat /\ SavedVault' /\ AtLeastAs(Worthwhile', Worthwhile)
      /\ yieldShares' = yieldShares - k /\ vaultHeld'["escrow"] = vaultHeld["escrow"] - k
  BY <1>1, <1>5, <1>6, Zenon DEF Redeems
<1>8. GoalFields(x) /\ x.deposited = u /\ x.shares = 0 /\ x.stranded = l
  <2>1. u \in Nat
    BY <1>7
  <2>2. PICK z \in Int : z = 0
    OBVIOUS
  <2>3. x = [r EXCEPT !.deposited = u, !.matched = z, !.shares = 0, !.start = now, !.last = now]
    BY <1>3, <2>2, Zenon
  <2>4. GoalFields(x) /\ x.deposited = u /\ x.shares = 0 /\ x.stranded = r.stranded
    BY <1>2, <2>1, <2>3 DEF GoalFields
  <2> QED
    BY <1>6, <2>4, Zenon
<1>9. /\ leaks \subseteq leaks'
      /\ leaks' \subseteq {"matched", "rounded", "stranded", "moved", "rolled"}
      /\ "rolled" \notin leaks' => ~(hasVault /\ r.shares > 0)
      /\ leaks' = {} => ~(hasVault /\ r.shares > 0) /\ leaks = {}
  BY <1>0, <1>4 DEF SavedTypes, Goal!Leak
<1>10. /\ yieldShares' = yieldShares - (r.shares + r.stranded) + (x.shares + x.stranded)
       /\ vaultHeld'["escrow"]
            = vaultHeld["escrow"] - (r.shares + r.stranded) + (x.shares + x.stranded)
       /\ "rolled" \notin leaks' => pooled' = pooled - r.deposited + x.deposited
       /\ pooled' \in Int /\ reserve' \in Nat /\ tokens' \in Nat
       /\ leaks' = {} => tokens' >= tokens - r.deposited + x.deposited
  <2>1. /\ yieldShares \in Nat /\ vaultHeld["escrow"] \in Nat /\ pooled \in Int /\ reserve \in Nat
        /\ tokens \in Nat
    BY SavedNumbers, Zenon
  <2>2. "rolled" \notin leaks' => u = e
    BY <1>5, <1>6, <1>9
  <2>3. tokens' = tokens \/ tokens' = tokens + u
    BY <1>4
  <2>4. leaks' = {} => tokens' = tokens /\ u = e
    BY <1>4, <1>5, <1>6, <1>9
  <2> QED
    BY <1>4, <1>6, <1>7, <1>8, <2>1, <2>2, <2>3, <2>4
<1>11. ASSUME leaks' = {}, hasVault PROVE FALSE
  <2>1. leaks = {} /\ r.shares = 0
    BY <1>5, <1>9, <1>11
  <2>2. Backed(r, Worthwhile)
    BY <1>1, <1>11, <2>1 DEF EscrowInv, SavedSomewhere
  <2> QED
    BY <1>4, <2>1, <2>2 DEF Backed
<1>12. hasVault' = hasVault /\ (~hasVault => x.shares = 0)
  BY <1>4, <1>8
<1> QED
  BY <1>1, <1>4, <1>7, <1>8, <1>9, <1>10, <1>11, <1>12, GoalChanges, Zenon

-----------------------------------------------------------------------------
\* An amount moves from one goal to another; what the escrow has does not change.
LEMMA GoalMoves ==
  ASSUME FeeAssumption, SavingsAssumption, EscrowInv, NEW from \in Pair, NEW to \in Pair,
         NEW amount \in Saved, Goal!TransferBetweenGoals(from, to, amount)
  PROVE  EscrowInv'
<1>0. SavedTypes /\ SavedVault /\ SavedBooks /\ GoalTable(goals) /\ amount \in Nat \ {0}
  BY DEF EscrowInv, SavedTypes, SavingsAssumption
<1>1. PICK f, t : f = goals[from] /\ t = goals[to]
  OBVIOUS
<1>2. GoalFields(f) /\ GoalFields(t) /\ now \in Nat
  BY <1>0, <1>1 DEF GoalTable, SavedVault
<1>3. /\ from # to /\ amount <= f.deposited
      /\ UNCHANGED <<now, hasVault, pooled, yieldShares, reserve, tokens, yieldVault, vaultHeld>>
      /\ leaks' = leaks \cup Goal!Leak("moved", hasVault)
  BY <1>1 DEF Goal!TransferBetweenGoals, Goal!Called
<1>4. PICK d, e \in Nat : d = f.deposited - amount /\ e = t.deposited + amount
  BY <1>0, <1>2, <1>3 DEF GoalFields
<1>5. PICK x : x = [f EXCEPT !.deposited = d, !.activity = now]
  OBVIOUS
<1>6. PICK y : y = [t EXCEPT !.deposited = e, !.activity = now,
                             !.start = Goal!Min({t.start, f.start}),
                             !.last = Goal!Min({t.last, f.last})]
  OBVIOUS
<1>7. goals' = [goals EXCEPT ![from] = x, ![to] = y]
  <2>1. goals' = [goals EXCEPT
          ![from] = [f EXCEPT !.deposited = f.deposited - amount, !.activity = now],
          ![to] = [t EXCEPT !.deposited = t.deposited + amount, !.activity = now,
                            !.start = Goal!Min({t.start, f.start}),
                            !.last = Goal!Min({t.last, f.last})]]
    BY <1>1, Zenon DEF Goal!TransferBetweenGoals
  <2> QED
    BY <1>4, <1>5, <1>6, <2>1, Zenon
<1>8. /\ GoalFields(x) /\ x.deposited = d /\ x.shares = f.shares /\ x.stranded = f.stranded
  BY <1>2, <1>5 DEF GoalFields
<1>9. /\ GoalFields(y) /\ y.deposited = e /\ y.shares = t.shares /\ y.stranded = t.stranded
  BY <1>2, <1>6 DEF GoalFields
<1>10. PICK m : m = [goals EXCEPT ![from] = x]
  OBVIOUS
<1>11. PICK l : l = goals'
  OBVIOUS
<1>12. SumsMove(goals, m, from, x)
  BY <1>0, <1>8, <1>10, OneGoal, Zenon
<1>13. l = [m EXCEPT ![to] = y] /\ m[to] = t
  <2>1. m[to] = t
    BY <1>1, <1>3, <1>12 DEF SumsMove
  <2> QED
    BY <1>0, <1>3, <1>7, <1>10, <1>11, <2>1 DEF GoalTable
<1>14. SumsMove(m, l, to, y)
  <2>1. GoalTable(m)
    BY <1>12, Zenon DEF SumsMove
  <2> QED
    BY <1>9, <1>13, <2>1, OneGoal, Zenon
<1>15. GoalTable(l) /\ DepositsOf(l) = DepositsOf(goals) /\ SharesOf(l) = SharesOf(goals)
  <2>1. PICK a, b \in Nat : a = DepositsOf(goals) /\ b = SharesOf(goals)
    BY <1>0, GoalSums
  <2>2. /\ DepositsOf(m) = a - f.deposited + d
        /\ SharesOf(m) = b - (f.shares + f.stranded) + (f.shares + f.stranded)
    BY <1>1, <1>8, <1>12, <2>1 DEF SumsMove
  <2>3. /\ DepositsOf(l) = DepositsOf(m) - t.deposited + e
        /\ SharesOf(l) = SharesOf(m) - (t.shares + t.stranded) + (t.shares + t.stranded)
        /\ GoalTable(l)
    BY <1>9, <1>13, <1>14 DEF SumsMove
  <2>4. PICK p, q, u, v, w, z \in Nat :
          /\ p = f.deposited /\ q = t.deposited /\ u = f.shares /\ v = f.stranded
          /\ w = t.shares /\ z = t.stranded
    BY <1>2 DEF GoalFields
  <2> QED
    BY <1>0, <1>4, <2>1, <2>2, <2>3, <2>4
<1>16. \A h \in Pair : l[h].shares = goals[h].shares
  <2>1. l[from].shares = f.shares /\ l[to].shares = t.shares
    <3>1. l[to] = y
      BY <1>14, Zenon DEF SumsMove
    <3>2. l[from] = x
      BY <1>3, <1>12, <1>14, Zenon DEF SumsMove
    <3> QED
      BY <1>8, <1>9, <3>1, <3>2
  <2>2. \A h \in Pair : h # from /\ h # to => l[h] = goals[h]
    BY <1>12, <1>14, Zenon DEF SumsMove
  <2> QED
    BY <1>1, <2>1, <2>2, Zenon
<1>17. SavedVault'
  BY <1>0, <1>3, VaultAlike
<1>18. SavedTypes'
  BY <1>0, <1>3, <1>11, <1>15 DEF SavedTypes, Goal!Leak
<1>19. SavedBooks'
  <2>1. "rolled" \notin leaks' => "rolled" \notin leaks
    BY <1>3
  <2> QED
    BY <1>0, <1>3, <1>11, <1>15, <1>16, <2>1 DEF SavedBooks
<1>20. leaks' = {} => SavedSomewhere'
  <2>1. leaks' = {} => leaks = {} /\ ~hasVault
    BY <1>3 DEF Goal!Leak
  <2> QED
    BY <1>3, <1>11, <1>15, <2>1 DEF EscrowInv, SavedSomewhere
<1> QED
  BY <1>17, <1>18, <1>19, <1>20, Zenon DEF EscrowInv

\* Time, interest, and the other investors of the vault.
LEMMA GoalWaits ==
  ASSUME FeeAssumption, SavingsAssumption, EscrowInv, Goal!VaultStep
  PROVE  EscrowInv'
<1>0. SavedTypes /\ SavedVault /\ SavedBooks
  BY DEF EscrowInv
<1>1. UNCHANGED <<hasVault, goals, pooled, yieldShares, reserve, tokens, leaks>>
  BY Zenon DEF Goal!VaultStep, Goal!escrowBooks
<1>2. /\ SavedVault' /\ vaultHeld'["escrow"] = vaultHeld["escrow"]
      /\ Worthwhile.shares > 0 => AtLeastAs(Worthwhile', Worthwhile)
  <2>1. ASSUME Goal!Vault!Tick \/ Goal!Vault!BatchHarvest
        PROVE  /\ SavedVault' /\ vaultHeld'["escrow"] = vaultHeld["escrow"]
               /\ AtLeastAs(Worthwhile', Worthwhile)
    BY <1>0, <2>1, SavedWaits, Zenon
  <2>2. ASSUME NEW amount \in Saved, Goal!Vault!Deposit("investor", amount)
        PROVE  /\ SavedVault' /\ vaultHeld'["escrow"] = vaultHeld["escrow"]
               /\ Worthwhile.shares > 0 => AtLeastAs(Worthwhile', Worthwhile)
    <3>1. /\ SavedVault'
          /\ Worthwhile.shares > 0 => AtLeastAs(Worthwhile', Worthwhile)
          /\ \E m \in Nat \ {0} : vaultHeld' = [vaultHeld EXCEPT !["investor"] = @ + m]
      BY <1>0, <2>2, SavedMints
    <3>2. vaultHeld'["escrow"] = vaultHeld["escrow"]
      BY <1>0, <3>1 DEF SavedVault
    <3> QED
      BY <3>1, <3>2
  <2>3. ASSUME NEW n, Goal!Vault!Withdraw("investor", n)
        PROVE  /\ SavedVault' /\ vaultHeld'["escrow"] = vaultHeld["escrow"]
               /\ AtLeastAs(Worthwhile', Worthwhile)
    <3>1. /\ SavedVault' /\ AtLeastAs(Worthwhile', Worthwhile)
          /\ vaultHeld' = [vaultHeld EXCEPT !["investor"] = @ - n]
      BY <1>0, <2>3, SavedBurns
    <3>2. vaultHeld'["escrow"] = vaultHeld["escrow"]
      BY <1>0, <3>1 DEF SavedVault
    <3> QED
      BY <3>1, <3>2
  <2>4. \/ Goal!Vault!Tick \/ Goal!Vault!BatchHarvest
        \/ \E amount \in Saved : Goal!Vault!Deposit("investor", amount)
        \/ \E n : Goal!Vault!Withdraw("investor", n)
    BY Zenon DEF Goal!VaultStep, Goal!Other
  <2> QED
    BY <2>1, <2>2, <2>3, <2>4, Zenon
<1>3. SavedTypes'
  BY <1>0, <1>1, Zenon DEF SavedTypes
<1>4. SavedBooks'
  BY <1>0, <1>1, <1>2, Zenon DEF SavedBooks
<1>5. leaks' = {} => SavedSomewhere'
  <2>1. ASSUME leaks' = {} PROVE SavedSomewhere
    BY <1>1, <2>1, Zenon DEF EscrowInv
  <2>2. ASSUME NEW h \in Pair, Backed(goals[h], Worthwhile)
        PROVE  Backed(goals[h], Worthwhile')
    BY <1>2, <2>2, OthersBacked, Zenon
  <2>3. ASSUME leaks' = {}, hasVault', NEW h \in Pair PROVE Backed(goals'[h], Worthwhile')
    <3>1. Backed(goals[h], Worthwhile) /\ goals' = goals
      BY <1>1, <2>1, <2>3 DEF SavedSomewhere
    <3> QED
      BY <2>2, <3>1, Zenon
  <2>4. ASSUME leaks' = {}, ~hasVault' PROVE tokens' >= DepositsOf(goals')
    BY <1>1, <2>1, <2>4 DEF SavedSomewhere
  <2> QED
    BY <2>3, <2>4 DEF SavedSomewhere
<1> QED
  BY <1>2, <1>3, <1>4, <1>5, Zenon DEF EscrowInv

-----------------------------------------------------------------------------
LEMMA EscrowStarts ==
  ASSUME FeeAssumption, SavingsAssumption, Goal!Init
  PROVE  EscrowInv
<1>1. /\ now = 1 /\ hasVault \in BOOLEAN /\ goals = [g \in Pair |-> Goal!NoGoal]
      /\ pooled = 0 /\ yieldShares = 0 /\ reserve \in {0, GoalTerms.matchCap} /\ tokens = 0
      /\ leaks = {}
  BY Zenon DEF Goal!Init
<1>2. /\ yieldVault = [shares |-> 0, assets |-> 0, last |-> 1, liquidity |-> 0,
                       threshold |-> Goal!Vault!NoThreshold]
      /\ vaultHeld = [i \in {"escrow", "investor"} |-> 0]
  BY Zenon DEF Goal!Init, Goal!Self, Goal!Other
<1>3. \A g \in Pair : GoalFields(goals[g]) /\ goals[g].deposited = 0 /\ goals[g].shares = 0
                      /\ goals[g].stranded = 0
  <2>1. PICK z \in Int : z = 0
    OBVIOUS
  <2>2. PICK v \in Nat \cup {Goal!Never} : v = Goal!Never
    OBVIOUS
  <2>3. PICK r : r = [deposited |-> 0, start |-> 0, last |-> 0, matched |-> z, rollover |-> FALSE,
                      state |-> "open", shares |-> 0, stranded |-> 0, activity |-> v, asked |-> v,
                      approved |-> FALSE, heir |-> FALSE, claimed |-> FALSE, draw |-> 0, due |-> 0]
    OBVIOUS
  <2>4. GoalFields(r) /\ r.deposited = 0 /\ r.shares = 0 /\ r.stranded = 0
    BY <2>3 DEF GoalFields
  <2>5. r = Goal!NoGoal
    BY <2>1, <2>2, <2>3, Zenon DEF Goal!NoGoal
  <2> QED
    BY <1>1, <2>4, <2>5
<1>4. GoalTable(goals)
  BY <1>1, <1>3 DEF GoalTable
<1>5. SavedTypes
  <2>1. reserve \in Nat
    BY <1>1 DEF SavingsAssumption
  <2> QED
    BY <1>1, <1>4, <2>1 DEF SavedTypes
<1>6. SavedVault
  <2>1. SavedTotals(yieldVault) /\ yieldVault.last = 1
    BY <1>2 DEF SavedTotals, SavingsAssumption
  <2> QED
    BY <1>1, <1>2, <2>1 DEF SavedVault, SavingsAssumption
<1>7. DepositsOf(goals) = 0 /\ SharesOf(goals) = 0
  <2>1. IsFiniteSet(Pair)
    BY DEF FeeAssumption
  <2>2. PICK d, s : /\ d = [g \in Pair |-> goals[g].deposited]
                    /\ s = [g \in Pair |-> goals[g].shares + goals[g].stranded]
    OBVIOUS
  <2>3. \A g \in Pair : d[g] = 0 /\ s[g] = 0
    BY <1>3, <2>2
  <2>4. SumOver(d, Pair) = 0 /\ SumOver(s, Pair) = 0
    BY <2>1, <2>3, SumZero, Zenon
  <2> QED
    BY <2>2, <2>4, Zenon DEF DepositsOf, SharesOf
<1>8. SavedBooks
  BY <1>1, <1>2, <1>3, <1>7 DEF SavedBooks
<1>9. SavedSomewhere
  <2>1. Worthwhile.shares = 0
    BY <1>2, <1>6, SavedWhole
  <2>2. Worthwhile.assets \in Nat
    BY <1>6, SavedWhole
  <2>3. \A g \in Pair : Backed(goals[g], Worthwhile)
    BY <1>3, <2>1, <2>2 DEF Backed
  <2> QED
    BY <1>1, <1>7, <2>3 DEF SavedSomewhere
<1> QED
  BY <1>5, <1>6, <1>8, <1>9, Zenon DEF EscrowInv

LEMMA EscrowKept ==
  ASSUME FeeAssumption, SavingsAssumption, EscrowInv, [Goal!Next]_escrowPart
  PROVE  EscrowInv'
<1>1. CASE UNCHANGED escrowPart
  <2>1. UNCHANGED <<now, hasVault, goals, pooled, yieldShares, reserve, tokens, yieldVault,
                    vaultHeld, leaks>>
    BY <1>1 DEF escrowPart
  <2>2. SavedVault' /\ Worthwhile' = Worthwhile
    BY <2>1, VaultAlike DEF EscrowInv
  <2>3. SavedTypes' /\ SavedBooks'
    BY <2>1, Zenon DEF EscrowInv, SavedTypes, SavedBooks
  <2>4. leaks' = {} => SavedSomewhere'
    BY <2>1, <2>2 DEF EscrowInv, SavedSomewhere
  <2> QED
    BY <2>2, <2>3, <2>4, Zenon DEF EscrowInv
<1>2. CASE Goal!VaultStep
  BY <1>2, GoalWaits
<1>3. ASSUME NEW g \in Pair, NEW amount \in Saved,
             \/ Goal!Deposit(g, amount)
             \/ \E to \in Pair : Goal!TransferBetweenGoals(g, to, amount)
      PROVE  EscrowInv'
  BY <1>3, GoalDeposit, GoalMoves, Zenon
<1>4. ASSUME NEW g \in Pair,
             Goal!ExecuteAutoDeposit(g) \/ \E amount \in Saved : Goal!TopUp(g, amount)
      PROVE  EscrowInv'
  BY <1>4, GoalAdds, Zenon
<1>5. ASSUME NEW g \in Pair,
             \/ Goal!Withdraw(g) \/ Goal!WithdrawHardship(g)
             \/ Goal!Release(g) \/ Goal!ClaimAsBeneficiary(g)
      PROVE  EscrowInv'
  BY <1>5, GoalPaysOut, Zenon
<1>6. ASSUME NEW g \in Pair, Goal!Rollover(g) PROVE EscrowInv'
  BY <1>6, GoalRolls, Zenon
<1>7. ASSUME NEW g \in Pair,
             \/ \E amount \in Saved : Goal!ConfigureAutoDeposit(g, amount)
             \/ Goal!CancelAutoDeposit(g) \/ Goal!RequestHardshipWithdrawal(g)
             \/ Goal!ApproveHardshipWithdrawal(g)
             \/ \E on \in BOOLEAN : Goal!SetAutoRollover(g, on) \/ Goal!SetBeneficiary(g, on)
      PROVE  EscrowInv'
  BY <1>7, GoalConfigured, Zenon
<1> QED
  BY <1>1, <1>2, <1>3, <1>4, <1>5, <1>6, <1>7, Zenon DEF Goal!Next

\* What the shares of a goal are worth covers its deposits.
LEMMA SavedWorth ==
  ASSUME NEW d \in Nat, NEW n \in Nat, NEW s \in Nat \ {0}, NEW a \in Nat, d * s <= n * a
  PROVE  (n * a) \div s >= d
<1>1. PICK x, q \in Nat : x = n * a /\ q = x \div s /\ x < (q + 1) * s
  <2>1. PICK x \in Nat : x = n * a
    OBVIOUS
  <2>2. x \div s \in Nat /\ x < (x \div s + 1) * s
    OBVIOUS
  <2> QED
    BY <2>1, <2>2
<1>2. ASSUME q < d PROVE FALSE
  <2>1. q + 1 <= d
    BY <1>2
  <2>2. (q + 1) * s <= d * s
    BY <2>1, Monotone
  <2>3. (q + 1) * s \in Nat /\ d * s \in Nat
    OBVIOUS
  <2> QED
    BY <1>1, <2>2, <2>3
<1> QED
  BY <1>1, <1>2

LEMMA EscrowPays ==
  ASSUME FeeAssumption, SavingsAssumption, EscrowInv, leaks = {}
  PROVE  /\ tokens >= SumOver(Goal!Deposits, {g \in Pair : goals[g].shares = 0})
         /\ \A g \in Pair :
              goals[g].shares > 0 => Goal!Unwound(goals[g]) >= goals[g].deposited
<1>0. SavedTypes /\ SavedVault /\ SavedBooks /\ SavedSomewhere /\ GoalTable(goals)
  BY DEF EscrowInv, SavedTypes
<1>1. PICK D : D = {g \in Pair : goals[g].shares = 0}
  OBVIOUS
<1>2. hasVault \in BOOLEAN /\ tokens \in Nat
  BY SavedNumbers, Zenon
<1>3. \A g \in Pair : goals[g].deposited \in Nat /\ goals[g].shares \in Nat
                      /\ goals[g].stranded \in Nat
                      /\ goals[g].shares + goals[g].stranded <= SharesOf(goals)
  BY <1>0, GoalSums, Zenon
<1>4. tokens >= SumOver(Goal!Deposits, D)
  <2>1. CASE ~hasVault
    <3>1. D = Pair
      BY <1>0, <1>1, <2>1 DEF SavedBooks
    <3>2. SumOver(Goal!Deposits, D) = DepositsOf(goals)
      BY <3>1, Zenon DEF DepositsOf, Goal!Deposits
    <3> QED
      BY <1>0, <2>1, <3>2 DEF SavedSomewhere
  <2>2. CASE hasVault
    <3>1. IsFiniteSet(D)
      BY <1>1, FS_Subset DEF FeeAssumption
    <3>2. \A g \in D : Goal!Deposits[g] = 0
      <4>1. \A g \in Pair : goals[g].deposited > 0 => goals[g].shares > 0
        BY <1>0, <2>2 DEF SavedSomewhere, Backed
      <4> QED
        BY <1>1, <1>3, <4>1 DEF Goal!Deposits
    <3>3. SumOver(Goal!Deposits, D) = 0
      BY <3>1, <3>2, SumZero, Zenon
    <3> QED
      BY <1>2, <3>3
  <2> QED
    BY <1>2, <2>1, <2>2
<1>5. ASSUME NEW g \in Pair, goals[g].shares > 0
      PROVE  Goal!Unwound(goals[g]) >= goals[g].deposited
  <2>1. hasVault
    BY <1>0, <1>2, <1>5 DEF SavedBooks
  <2>2. PICK w : w = Worthwhile
    OBVIOUS
  <2>3. w.shares \in Nat /\ w.assets \in Nat /\ w.shares = yieldVault.shares
        /\ Goal!Vault!Accrued = w
    BY <1>0, <2>2, SavedWhole
  <2>4. PICK d, n, s, a \in Nat : d = goals[g].deposited /\ n = goals[g].shares
                               /\ s = w.shares /\ a = w.assets
    BY <1>3, <2>3
  <2>5. s \in Nat \ {0}
    <3>1. /\ yieldShares = vaultHeld["escrow"] /\ yieldShares = SharesOf(goals)
          /\ s = vaultHeld["escrow"] + vaultHeld["investor"]
          /\ vaultHeld["escrow"] \in Nat /\ vaultHeld["investor"] \in Nat
      BY <1>0, <2>3, <2>4 DEF SavedBooks, SavedVault
    <3>2. n > 0 /\ n + goals[g].stranded <= SharesOf(goals) /\ goals[g].stranded \in Nat
      BY <1>3, <1>5, <2>4
    <3> QED
      BY <2>4, <3>1, <3>2
  <2>6. d * s <= n * a
    BY <1>0, <2>1, <2>2, <2>4 DEF SavedSomewhere, Backed
  <2>7. (n * a) \div s >= d
    BY <2>5, <2>6, SavedWorth
  <2>8. Goal!Unwound(goals[g]) = (goals[g].shares * w.assets) \div w.shares
    BY <1>5, <2>1, <2>3, Zenon DEF Goal!Unwound, Goal!Vault!AssetsFor
  <2> QED
    BY <2>4, <2>7, <2>8
<1> QED
  BY <1>1, <1>4, <1>5

\* contracts/escrow/src/lib.rs, auto_deposit.rs: the vault holds for the escrow the
\* shares its goals have, TotalPooled is the sum of the deposits unless a rollover
\* changed one, and unless money leaked in one of the five known ways the tokens
\* and the shares of the goals cover the deposits: for every number of goals, every
\* configuration and every course of interest that does not fall.
THEOREM SavingsTheorem == Spec => []SavingsBacked
<1> DEFINE Inv == part = "escrow" => EscrowInv
<1>1. Init => Inv
  <2>1. Init => (part = "escrow" => Goal!Init)
    BY Zenon DEF Init
  <2> QED
    BY <2>1, FeeAssumption, SavingsAssumption, EscrowStarts, Zenon
<1>2. Inv /\ [Next]_allVars => Inv'
  <2> SUFFICES ASSUME Inv, [Next]_allVars PROVE Inv'
    OBVIOUS
  <2>1. part' = part /\ (part = "escrow" => [Goal!Next]_escrowPart)
    BY StepsOfContracts, Zenon
  <2> QED
    BY <2>1, FeeAssumption, SavingsAssumption, EscrowKept, Zenon
<1>3. EscrowInv => Goal!SavingsBacked
  <2> SUFFICES ASSUME EscrowInv PROVE Goal!SavingsBacked
    OBVIOUS
  <2>1. SavedBooks
    BY DEF EscrowInv
  <2>2. \A f, S : Goal!SumOver(f, S) = SumOver(f, S)
    BY Zenon DEF Goal!SumOver, SumOver, Goal!MapThenSumSet, MapThenSumSet,
       Goal!MapThenFoldSet, MapThenFoldSet
  <2>3. /\ Goal!SumOver([g \in Pair |-> goals[g].shares + goals[g].stranded], Pair)
             = SharesOf(goals)
        /\ Goal!SumOver(Goal!Deposits, Pair) = DepositsOf(goals)
    BY <2>2, Zenon DEF SharesOf, DepositsOf, Goal!Deposits
  <2>4. leaks = {} =>
          /\ tokens >= Goal!SumOver(Goal!Deposits, {g \in Pair : goals[g].shares = 0})
          /\ \A g \in Pair :
               goals[g].shares > 0 => Goal!Unwound(goals[g]) >= goals[g].deposited
    BY <2>2, FeeAssumption, SavingsAssumption, EscrowPays, Zenon
  <2> QED
    BY <2>1, <2>3, <2>4, Zenon DEF Goal!SavingsBacked, SavedBooks, Goal!Self
<1>4. Inv => SavingsBacked
  BY <1>3, Zenon DEF SavingsBacked
<1> QED
  BY <1>1, <1>2, <1>4, PTL DEF Spec
=============================================================================
