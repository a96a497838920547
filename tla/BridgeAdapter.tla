---------------------------- MODULE BridgeAdapter ----------------------------
(***************************************************************************)
(* The bridge adapter contract (contracts/bridge-adapter): operations that  *)
(* are locked or burned and then minted once, under a daily cap whose       *)
(* raises wait out a timelock.                                              *)
(*                                                                          *)
(* Every call is one transaction; a call that answers Err changes nothing   *)
(* and is left out.  lock and burn stamp every operation with the source    *)
(* chain "stellar", so one cap and one volume window are in use.  One clock *)
(* stands for the ledger's sequence and its timestamp.  Admin calls are the *)
(* admin's; recipients are not told apart.                                  *)
(***************************************************************************)
EXTENDS Integers, Sequences, FiniteSets, Sums

CONSTANTS
  Chains,           \* destination chains
  LockAmounts,      \* amounts within min_lock_amount and max_lock_amount
  Caps,             \* daily caps; 0 is no cap
  CapDelays,        \* delay_ledgers
  Window,           \* DAILY_CAP_WINDOW_SECONDS
  MaxOperations,    \* bound on the operations
  MaxTick           \* bound on the clock

VARIABLES
  tick,             \* env.ledger()
  bridge,           \* Config, the counters, and the cap of the source chain
  operations,       \* Operation, by id
  mints             \* ghost: the mints made under a cap, and the cap they met

bridgeVars == <<tick, bridge, operations, mints>>

NoPending == [cap |-> 0, after |-> 0]
NotStarted == -1

Init ==
  /\ tick = 0
  /\ bridge = [paused |-> FALSE, chains |-> Chains, locked |-> 0, minted |-> 0,
               burned |-> 0, cap |-> 0, delay |-> 0, pending |-> NoPending,
               start |-> NotStarted, volume |-> 0]
  /\ operations = << >>
  /\ mints = << >>

-----------------------------------------------------------------------------
(* Configuration                                                            *)

SetPaused(paused) ==
  /\ bridge' = [bridge EXCEPT !.paused = paused]
  /\ UNCHANGED <<tick, operations, mints>>

AddSupportedChain(chain) ==
  /\ bridge' = [bridge EXCEPT !.chains = @ \cup {chain}]
  /\ UNCHANGED <<tick, operations, mints>>

RemoveSupportedChain(chain) ==
  /\ bridge' = [bridge EXCEPT !.chains = @ \ {chain}]
  /\ UNCHANGED <<tick, operations, mints>>

\* A first cap, and any lower one, applies at once; so does 0, which is no cap
\* at all.
SetDailyCap(cap) ==
  /\ bridge.cap = 0 \/ cap <= bridge.cap
  /\ bridge' = [bridge EXCEPT !.cap = cap]
  /\ UNCHANGED <<tick, operations, mints>>

\* A second proposal replaces the first.
ProposeDailyCapIncrease(cap) ==
  /\ cap > bridge.cap
  /\ bridge' = [bridge EXCEPT !.pending = [cap |-> cap, after |-> tick + bridge.delay]]
  /\ UNCHANGED <<tick, operations, mints>>

\* The cap becomes the one proposed, even when it has changed in between.
ExecuteDailyCapIncrease ==
  /\ bridge.pending # NoPending
  /\ tick >= bridge.pending.after
  /\ bridge' = [bridge EXCEPT !.cap = bridge.pending.cap, !.pending = NoPending]
  /\ UNCHANGED <<tick, operations, mints>>

SetCapChangeDelay(delay) ==
  /\ bridge' = [bridge EXCEPT !.delay = delay]
  /\ UNCHANGED <<tick, operations, mints>>

-----------------------------------------------------------------------------
(* Operations                                                               *)

Store(amount, chain, status) ==
  /\ Len(operations) < MaxOperations
  /\ ~bridge.paused /\ chain \in bridge.chains
  /\ operations' = Append(operations, [amount |-> amount, status |-> status])

Lock(amount, chain) ==
  /\ Store(amount, chain, "locked")
  /\ bridge' = [bridge EXCEPT !.locked = @ + amount]
  /\ UNCHANGED <<tick, mints>>

Burn(amount, chain) ==
  /\ Store(amount, chain, "burned")
  /\ bridge' = [bridge EXCEPT !.burned = @ + amount]
  /\ UNCHANGED <<tick, mints>>

\* The window a mint of now is counted in: the first one starts with the first
\* capped mint, and the next one with the first mint after it has run out.
Rolls == bridge.start = NotStarted \/ tick >= bridge.start + Window
Used == IF Rolls THEN 0 ELSE bridge.volume

UsedFits(amount) == Used <= bridge.cap  \* mutant: the mint itself is not counted

Fits(amount) == Used + amount <= bridge.cap

\* What check_and_record_volume stores; without a cap no volume is recorded.
Recorded(amount) ==
  IF bridge.cap = 0 THEN bridge
  ELSE [bridge EXCEPT !.volume = Used + amount, !.start = IF Rolls THEN tick ELSE @]

\* Any operation that is not completed is minted, a burned one too.
Mint(id) ==
  LET amount == operations[id].amount IN
  /\ ~bridge.paused
  /\ operations[id].status # "completed"
  /\ bridge.cap = 0 \/ Fits(amount)
  /\ bridge' = [Recorded(amount) EXCEPT !.minted = @ + amount]
  /\ operations' = [operations EXCEPT ![id].status = "completed"]
  /\ mints' = IF bridge.cap = 0 THEN mints
              ELSE Append(mints, [amount |-> amount, at |-> tick, cap |-> bridge.cap])
  /\ UNCHANGED tick

Tick ==
  /\ tick < MaxTick
  /\ tick' = tick + 1
  /\ UNCHANGED <<bridge, operations, mints>>

Next ==
  \/ \E paused \in BOOLEAN : SetPaused(paused)
  \/ \E chain \in Chains :
       \/ AddSupportedChain(chain) \/ RemoveSupportedChain(chain)
       \/ \E amount \in LockAmounts : Lock(amount, chain) \/ Burn(amount, chain)
  \/ \E cap \in Caps : SetDailyCap(cap) \/ ProposeDailyCapIncrease(cap)
  \/ ExecuteDailyCapIncrease
  \/ \E delay \in CapDelays : SetCapChangeDelay(delay)
  \/ \E id \in DOMAIN operations : Mint(id)
  \/ Tick

Spec == Init /\ [][Next]_bridgeVars

-----------------------------------------------------------------------------
\* Types of the configuration, the operations and the recorded mints.
TypeOK ==
  /\ {bridge.cap, bridge.pending.cap} \subseteq Caps \cup {0}
  /\ bridge.start \in {NotStarted} \cup 0..tick
  /\ bridge.chains \subseteq Chains
  /\ \A id \in DOMAIN operations :
       /\ operations[id].amount \in LockAmounts
       /\ operations[id].status \in {"locked", "burned", "completed"}

Amount(ids, of) == SumOver([i \in ids |-> of[i].amount], ids)

MintedIn(from, to) == {i \in DOMAIN mints : mints[i].at \in from..to}

\* What is minted is what the completed operations carry, each of them once; the
\* recorded volume is what was minted under a cap since the window started, at most
\* the highest cap in force; and no stretch of a day, wherever it starts, sees more
\* than twice that, as the windows are fixed ones and a day may touch two of them.
MintedWithinCap ==
  /\ bridge.minted =
       Amount({id \in DOMAIN operations : operations[id].status = "completed"}, operations)
  /\ bridge.start # NotStarted =>
       LET window == MintedIn(bridge.start, tick)
       IN  /\ bridge.volume = Amount(window, mints)
           /\ bridge.volume <= Max({mints[i].cap : i \in window})
  /\ \A from \in 0..tick :
       LET day == MintedIn(from, from + Window - 1)
       IN  day # {} => Amount(day, mints) <= 2 * Max({mints[i].cap : i \in day})
=============================================================================
