-------------------------- MODULE MultisigValidator --------------------------
(***************************************************************************)
(* The multisig validator contract (contracts/multisig-validator): weighted *)
(* signers and a timelock per account, proposals that such an account       *)
(* approves and anyone executes, and the admin's k-of-n signer set, by      *)
(* which the lending pool admits a restructuring or a rate change.          *)
(*                                                                          *)
(* Every call is one transaction; a call that answers Err changes nothing   *)
(* and is left out.  One clock stands for the ledger's sequence and its     *)
(* timestamp.  A list of actions is a bundle, told apart only by whether it *)
(* names an action twice; submit_action submits the bundle of no actions.   *)
(* Slashing and decay are left out: they feed effective_weight, which       *)
(* nothing in the repository reads.                                         *)
(***************************************************************************)
EXTENDS Integers, FiniteSets, FiniteSetsExt

CONSTANTS
  Accounts,       \* accounts that configure themselves
  Keys,           \* signing keys and signer addresses
  MaxWeight,      \* bound on the weight of a key
  Delays,         \* delay_seconds and rotation cooldowns
  Proposals,      \* proposal ids
  Bundles,        \* lists of actions
  Repeating,      \* those of them in which an action_id comes twice
  Lifetime,       \* DEFAULT_PROPOSAL_EXPIRY_LEDGERS
  MaxSequence     \* bound on the clock

VARIABLES
  sequence,       \* env.ledger()
  accounts,       \* Config and TimelockConfig of an account
  bundles,        \* ActionProposal
  quorum,         \* AdminConfig, RotationCooldown, LastRotationLedger
  agreed          \* ghost: what the signers agreed to when the threshold was first met

msVars == <<sequence, accounts, bundles, quorum, agreed>>

Unset == -1

Total(weights, keys) == MapThenSumSet(LAMBDA k : weights[k], keys)

Init ==
  /\ sequence = 1
  /\ accounts = [a \in Accounts |->
       [weights |-> [k \in Keys |-> 0], threshold |-> 0, delay |-> Unset]]
  /\ bundles = [p \in Proposals |->
       [state |-> "none", ready |-> 0, expiry |-> 0, actions |-> "none"]]
  /\ quorum = [signers |-> {}, threshold |-> 0, cooldown |-> 0, rotated |-> Unset]
  /\ agreed = [p \in Proposals |-> [actions |-> "none", from |-> Unset]]

-----------------------------------------------------------------------------
(* Accounts                                                                 *)

\* A weight of 0 stands for a key that is not in the list.
ConfigureAccount(a, weights, threshold) ==
  /\ threshold \in 1..Total(weights, Keys)
  /\ accounts' = [accounts EXCEPT ![a].weights = weights, ![a].threshold = threshold]
  /\ UNCHANGED <<sequence, bundles, quorum, agreed>>

ConfigureTimelock(a, delay) ==
  /\ accounts' = [accounts EXCEPT ![a].delay = delay]
  /\ UNCHANGED <<sequence, bundles, quorum, agreed>>

\* enforce_threshold: an unknown key is an error, and the keys are distinct.
EnforceThreshold(a, keys) ==
  /\ accounts[a].threshold > 0
  /\ \A k \in keys : accounts[a].weights[k] > 0
  /\ Total(accounts[a].weights, keys) >= accounts[a].threshold

-----------------------------------------------------------------------------
(* Proposals                                                                *)

SubmitKeepsState(p, actions, expiry) == \* mutant: a known id only gets the new actions
  /\ bundles' = [bundles EXCEPT ![p] =
       IF @.state = "none"
       THEN [state |-> "Pending", ready |-> 0, actions |-> actions,
             expiry |-> IF expiry = 0 THEN sequence + Lifetime ELSE expiry]
       ELSE [@ EXCEPT !.actions = actions]]
  /\ UNCHANGED <<sequence, accounts, quorum, agreed>>

\* submit_action and submit_proposal write a new record, whether or not the id
\* is known, and so take an approved proposal back to Pending and an executed
\* one into a second life.
Submit(p, actions, expiry) ==
  /\ bundles' = [bundles EXCEPT ![p] =
       [state |-> "Pending", ready |-> 0, actions |-> actions,
        expiry |-> IF expiry = 0 THEN sequence + Lifetime ELSE expiry]]
  /\ agreed' = [agreed EXCEPT ![p] = [actions |-> "none", from |-> Unset]]
  /\ UNCHANGED <<sequence, accounts, quorum>>

IsExpired(p) == sequence > bundles[p].expiry

\* The approval that meets the threshold locks the proposal for the delay that
\* is configured now; approving a locked one changes nothing.
ApproveAction(a, p, keys) ==
  /\ bundles[p].state = "Pending" /\ ~IsExpired(p)
  /\ EnforceThreshold(a, keys)
  /\ accounts[a].delay # Unset
  /\ bundles' = [bundles EXCEPT ![p].state = "Locked",
                                ![p].ready = sequence + accounts[a].delay]
  /\ agreed' = [agreed EXCEPT ![p] =
       [actions |-> bundles[p].actions, from |-> sequence + accounts[a].delay]]
  /\ UNCHANGED <<sequence, accounts, quorum>>

ExecuteAction(p) ==
  /\ bundles[p].state = "Locked" /\ ~IsExpired(p)
  /\ sequence >= bundles[p].ready
  /\ bundles[p].actions \notin Repeating      \* check_no_duplicate_actions
  /\ bundles' = [bundles EXCEPT ![p].state = "Executed"]
  /\ UNCHANGED <<sequence, accounts, quorum, agreed>>

-----------------------------------------------------------------------------
(* The admin's signer set                                                   *)

CheckRotationCooldown ==
  quorum.cooldown = 0 \/ quorum.rotated = Unset
    \/ sequence >= quorum.rotated + quorum.cooldown

ConfigureSigners(set, threshold) ==
  /\ CheckRotationCooldown
  /\ threshold \in 1..Cardinality(set)
  /\ quorum' = [quorum EXCEPT !.signers = set, !.threshold = threshold, !.rotated = sequence]
  /\ UNCHANGED <<sequence, accounts, bundles, agreed>>

SetThreshold(threshold) ==
  /\ threshold \in 1..Cardinality(quorum.signers)
  /\ quorum' = [quorum EXCEPT !.threshold = threshold]
  /\ UNCHANGED <<sequence, accounts, bundles, agreed>>

AddSigner(k) ==
  /\ CheckRotationCooldown
  /\ quorum.threshold > 0 /\ k \notin quorum.signers
  /\ quorum' = [quorum EXCEPT !.signers = @ \cup {k}, !.rotated = sequence]
  /\ UNCHANGED <<sequence, accounts, bundles, agreed>>

RemoveSigner(k) ==
  /\ CheckRotationCooldown
  /\ k \in quorum.signers
  /\ Cardinality(quorum.signers) - 1 >= quorum.threshold
  /\ quorum' = [quorum EXCEPT !.signers = @ \ {k}, !.rotated = sequence]
  /\ UNCHANGED <<sequence, accounts, bundles, agreed>>

SetRotationCooldown(cooldown) ==
  /\ quorum' = [quorum EXCEPT !.cooldown = cooldown]
  /\ UNCHANGED <<sequence, accounts, bundles, agreed>>

CloseLedger ==
  /\ sequence < MaxSequence
  /\ sequence' = sequence + 1
  /\ UNCHANGED <<accounts, bundles, quorum, agreed>>

Next ==
  \/ \E a \in Accounts :
       \/ \E weights \in [Keys -> 0..MaxWeight], threshold \in 1..MaxWeight * Cardinality(Keys) :
            ConfigureAccount(a, weights, threshold)
       \/ \E delay \in Delays : ConfigureTimelock(a, delay)
       \/ \E p \in Proposals, keys \in SUBSET Keys : ApproveAction(a, p, keys)
  \/ \E p \in Proposals :
       \/ \E actions \in Bundles, expiry \in 0..MaxSequence : Submit(p, actions, expiry)
       \/ ExecuteAction(p)
  \/ \E set \in SUBSET Keys, threshold \in 1..Cardinality(Keys) : ConfigureSigners(set, threshold)
  \/ \E threshold \in 1..Cardinality(Keys) : SetThreshold(threshold)
  \/ \E k \in Keys : AddSigner(k) \/ RemoveSigner(k)
  \/ \E cooldown \in Delays : SetRotationCooldown(cooldown)
  \/ CloseLedger

Spec == Init /\ [][Next]_msVars

-----------------------------------------------------------------------------
\* Types of the configurations and the proposals; the signer set can always
\* meet its threshold.
TypeOK ==
  /\ \A a \in Accounts :
       /\ accounts[a].threshold \in 0..Total(accounts[a].weights, Keys)
       /\ accounts[a].delay \in Delays \cup {Unset}
  /\ \A p \in Proposals :
       /\ bundles[p].state \in {"none", "Pending", "Locked", "Executed"}
       /\ bundles[p].ready \in Nat /\ bundles[p].expiry \in Nat
  /\ quorum.threshold <= Cardinality(quorum.signers)
  /\ quorum.rotated = Unset => quorum.signers = {}

\* A proposal executes only the actions its signers approved, not before the
\* delay in force when they did and not after its expiry: resubmitting under the
\* same id, approving again and changing the delay, the weights or the threshold
\* in between neither swap the actions nor shorten the wait.
ExecutedAsAgreed ==
  [][\A p \in Proposals :
       bundles[p].state # "Executed" /\ bundles'[p].state = "Executed" =>
         /\ bundles[p].actions = agreed[p].actions
         /\ agreed[p].from # Unset /\ sequence >= agreed[p].from
         /\ sequence <= bundles[p].expiry]_msVars
=============================================================================
