----------------------------- MODULE Governance -----------------------------
(***************************************************************************)
(* The governance contract (contracts/governance/src/lib.rs): a committee   *)
(* of signers that vote on milestone proposals, with single-hop delegation  *)
(* of the vote frozen when a proposal is submitted, a guardian that vetoes, *)
(* and a minimum stake for proposers.                                       *)
(*                                                                          *)
(* Every call is one transaction; a call that panics changes nothing and is *)
(* left out.  The guardian is never a signer (initialize and add_signer     *)
(* refuse it), so only its veto appears.  initialize is given a list of     *)
(* distinct signers.                                                        *)
(***************************************************************************)
EXTENDS Integers, Sequences, FiniteSets, FiniteSetsExt

CONSTANTS
  Members,        \* the addresses that may be signers
  QuorumBps,      \* quorum_bps
  Stakes,         \* the shares the staking pool may report for a proposer
  MinStakes,      \* the minimums the admin may set
  MaxProposals    \* bound on LastProposalId

VARIABLES
  signers,        \* config.signers
  minStake,       \* config.min_stake_to_submit
  stakingPool,    \* config.staking_pool is set
  delegation,     \* Delegation
  proposals,      \* Proposal, by id
  power,          \* PowerSnapshot, by id
  roll,           \* the signers and delegations a snapshot was built from
  shrunk          \* the proposals during which a signer was removed

govVars == <<signers, minStake, stakingPool, delegation, proposals, power, roll, shrunk>>

NoDelegate == "none"

Init ==
  /\ signers \in SUBSET Members
  /\ minStake = 0 /\ stakingPool = FALSE
  /\ delegation = [m \in Members |-> NoDelegate]
  /\ proposals = <<>> /\ power = <<>> /\ roll = <<>>
  /\ shrunk = {}

\* The signers that speak through m according to the given delegations.
Delegators(m, among, to) == {s \in among : to[s] = m}

\* A signer whose delegate is a signer holds 0; a delegate gains 1 for each
\* delegator.  The loop over the signers gives the same in every order, because
\* no delegate has delegated (NoChains).
BuildPowerSnapshot ==
  [m \in signers |-> (IF delegation[m] \in signers THEN 0 ELSE 1)
                     + Cardinality(Delegators(m, signers, delegation))]

\* A signer added after the snapshot has its own vote.
SnapshotPower(id, m) == IF m \in DOMAIN power[id] THEN power[id][m] ELSE 1

RequiredVotes == (Cardinality(signers) * QuorumBps + 9999) \div 10000

\* read_proposer_stake answers 0 when the call to the staking pool fails, which
\* it may at any time.
StakeSuffices ==
  \/ minStake = 0
  \/ \E stake \in Stakes : stakingPool /\ stake >= minStake

SubmitProposal(m) ==
  /\ Len(proposals) < MaxProposals
  /\ m \in signers
  /\ StakeSuffices
  /\ proposals' = Append(proposals, [status |-> "Open", count |-> 0, voters |-> {}])
  /\ power' = Append(power, BuildPowerSnapshot)
  /\ roll' = Append(roll, [signers |-> signers, delegation |-> delegation])
  /\ UNCHANGED <<signers, minStake, stakingPool, delegation, shrunk>>

Vote(m, id) ==
  LET p == proposals[id]
      count == p.count + SnapshotPower(id, m) IN
  /\ m \in signers
  /\ p.status = "Open"
  /\ m \notin p.voters
  /\ SnapshotPower(id, m) > 0
  /\ proposals' = [proposals EXCEPT ![id] =
       [status |-> IF count >= RequiredVotes THEN "Passed" ELSE "Open",
        count |-> count, voters |-> p.voters \cup {m}]]
  /\ UNCHANGED <<signers, minStake, stakingPool, delegation, power, roll, shrunk>>

ExecuteProposal(m, id) ==
  /\ m \in signers
  /\ proposals[id].status = "Passed"
  /\ proposals' = [proposals EXCEPT ![id].status = "Executed"]
  /\ UNCHANGED <<signers, minStake, stakingPool, delegation, power, roll, shrunk>>

Veto(id) ==
  /\ proposals[id].status = "Open"
  /\ proposals' = [proposals EXCEPT ![id].status = "Rejected"]
  /\ UNCHANGED <<signers, minStake, stakingPool, delegation, power, roll, shrunk>>

AddSigner(m) ==
  /\ m \notin signers
  /\ signers' = signers \cup {m}
  /\ UNCHANGED <<minStake, stakingPool, delegation, proposals, power, roll, shrunk>>

\* The removed signer's own delegation goes; delegations to it stay, and so do
\* the votes it has cast.
RemoveSigner(m) ==
  /\ m \in signers
  /\ signers' = signers \ {m}
  /\ delegation' = [delegation EXCEPT ![m] = NoDelegate]
  /\ shrunk' = shrunk \cup {id \in DOMAIN proposals : proposals[id].status = "Open"}
  /\ UNCHANGED <<minStake, stakingPool, proposals, power, roll>>

DelegateOnward(m, to) ==  \* mutant: a signer who holds delegations delegates
  /\ {m, to} \subseteq signers /\ m # to
  /\ delegation[m] = NoDelegate /\ delegation[to] = NoDelegate
  /\ delegation' = [delegation EXCEPT ![m] = to]
  /\ UNCHANGED <<signers, minStake, stakingPool, proposals, power, roll, shrunk>>

Delegate(m, to) ==
  /\ {m, to} \subseteq signers /\ m # to
  /\ delegation[m] = NoDelegate /\ delegation[to] = NoDelegate
  /\ Delegators(m, signers, delegation) = {}
  /\ delegation' = [delegation EXCEPT ![m] = to]
  /\ UNCHANGED <<signers, minStake, stakingPool, proposals, power, roll, shrunk>>

\* A delegator that is no signer any more has no delegation to revoke.
RevokeDelegation(m) ==
  /\ delegation[m] # NoDelegate
  /\ delegation' = [delegation EXCEPT ![m] = NoDelegate]
  /\ UNCHANGED <<signers, minStake, stakingPool, proposals, power, roll, shrunk>>

SetStakingPool ==
  /\ stakingPool' = TRUE
  /\ UNCHANGED <<signers, minStake, delegation, proposals, power, roll, shrunk>>

SetMinStakeToSubmit(min) ==
  /\ minStake' = min
  /\ UNCHANGED <<signers, stakingPool, delegation, proposals, power, roll, shrunk>>

Next ==
  \/ \E m \in Members :
       \/ SubmitProposal(m) \/ AddSigner(m) \/ RemoveSigner(m) \/ RevokeDelegation(m)
       \/ \E to \in Members : Delegate(m, to)
       \/ \E id \in DOMAIN proposals : Vote(m, id) \/ ExecuteProposal(m, id)
  \/ \E id \in DOMAIN proposals : Veto(id)
  \/ SetStakingPool
  \/ \E min \in MinStakes : SetMinStakeToSubmit(min)

Spec == Init /\ [][Next]_govVars

-----------------------------------------------------------------------------
\* Types of the committee, the proposals and their snapshots.
TypeOK ==
  /\ signers \subseteq Members
  /\ minStake \in Nat /\ stakingPool \in BOOLEAN
  /\ delegation \in [Members -> Members \cup {NoDelegate}]
  /\ proposals \in Seq([status : {"Open", "Passed", "Rejected", "Executed"},
                        count : Nat, voters : SUBSET Members])
  /\ Len(power) = Len(proposals) /\ Len(roll) = Len(proposals)
  /\ shrunk \subseteq DOMAIN proposals

NoChains == \A m \in Members :
  delegation[m] # NoDelegate => delegation[m] # m /\ delegation[delegation[m]] = NoDelegate

\* The members a voter spoke for: itself, and the signers that had delegated to
\* it when the proposal was submitted.
Voices(id, m) ==
  {m} \cup IF m \in roll[id].signers
           THEN Delegators(m, roll[id].signers, roll[id].delegation) ELSE {}

\* Nobody's voice is counted twice, whatever members delegate, revoke, leave and
\* come back while a proposal is open: the voters of a proposal speak for
\* different members, and its count is the number of members they speak for.
\* Delegations never form a chain.  A proposal stays open with enough votes only
\* if a signer was removed meanwhile: the quorum is looked at by vote alone.
OneVoiceEach ==
  /\ NoChains
  /\ \A id \in DOMAIN proposals :
       LET p == proposals[id] IN
       /\ \A m, n \in p.voters : m # n => Voices(id, m) \cap Voices(id, n) = {}
       /\ p.count = Cardinality(UNION {Voices(id, m) : m \in p.voters})
       /\ p.status = "Open" /\ p.voters # {} /\ p.count >= RequiredVotes => id \in shrunk
=============================================================================
