---------------------------- MODULE RpcFailover ----------------------------
(***************************************************************************)
(* The RPC gateway (services/rpcFailover.ts): execute tries the nodes in    *)
(* round-robin order from currentIndex, skips those with too many recent    *)
(* failures, and gives up after the last one.  soroban.ts sends every       *)
(* simulated read through it, so calls overlap; each await of a node is a   *)
(* point where the others run.                                              *)
(*                                                                          *)
(* A timeout of three seconds and an error of the node are one: both reject *)
(* the race, and a late answer is dropped.  Every failure starts a timer of *)
(* its own that forgets all failures of the node.                           *)
(***************************************************************************)
EXTENDS Integers, FiniteSets

CONSTANTS
  Nodes,          \* how many URLs are configured
  RpcCalls,       \* calls of execute
  MaxFailures     \* maxFailures

VARIABLES
  currentIndex,   \* the node the next call starts with
  failedAttempts, \* recent failures, by node
  resets,         \* the pending timers, by node
  rpcCalls        \* the calls: step, turn (the loop's i), node, and ghosts

Node == 0..Nodes - 1

\* tried and skipped are ghosts: the nodes this call has asked or passed over.
\* moved: currentIndex was changed by another call while this one ran.
NewCall == [step |-> "new", turn |-> 0, node |-> 0,
            tried |-> {}, skipped |-> {}, repeated |-> FALSE, moved |-> FALSE]

Init ==
  /\ currentIndex = 0
  /\ failedAttempts = [n \in Node |-> 0]
  /\ resets = [n \in Node |-> 0]
  /\ rpcCalls = [c \in RpcCalls |-> NewCall]

\* isServerUnhealthy.
IsServerUnhealthy(failures, n) == failures[n] >= MaxFailures

\* The node whose turn it is: the index is read afresh on every turn.
NodeAt(turn) == (currentIndex + turn) % Nodes

\* The loop from a turn on, up to the next await or the end: it passes over
\* unhealthy nodes and asks the first one that is not.
Continue(call, turn, failures) ==
  LET asked == {t \in turn..Nodes - 1 : ~IsServerUnhealthy(failures, NodeAt(t))}
      next == CHOOSE t \in asked : \A u \in asked : t <= u
      passed == {NodeAt(t) : t \in {u \in turn..Nodes - 1 : asked = {} \/ u < next}}
      through == [call EXCEPT !.skipped = @ \cup passed]
  IN IF asked = {} THEN [through EXCEPT !.step = "failed"]
     ELSE [through EXCEPT
             !.step = "asking", !.turn = next, !.node = NodeAt(next),
             !.repeated = @ \/ NodeAt(next) \in call.tried,
             !.tried = @ \cup {NodeAt(next)}]

\* A call begins.
Execute(c) ==
  /\ rpcCalls[c].step = "new"
  /\ rpcCalls' = [rpcCalls EXCEPT ![c] = Continue(@, 0, failedAttempts)]
  /\ UNCHANGED <<currentIndex, failedAttempts, resets>>

\* The node answers in time: its failures are forgotten and the next call
\* starts with its successor.
Succeed(c) ==
  LET n == rpcCalls[c].node IN
  /\ rpcCalls[c].step = "asking"
  /\ failedAttempts' = [failedAttempts EXCEPT ![n] = 0]
  /\ currentIndex' = (n + 1) % Nodes
  /\ rpcCalls' = [d \in RpcCalls |->
       IF d = c THEN [rpcCalls[c] EXCEPT !.step = "done"]
       ELSE [rpcCalls[d] EXCEPT
               !.moved = @ \/ (rpcCalls[d].step = "asking" /\ currentIndex' # currentIndex)]]
  /\ UNCHANGED resets

\* Mutant: the turn is advanced by the catch and by the loop.
FailSkipsATurn(c) ==
  LET n == rpcCalls[c].node
      failures == [failedAttempts EXCEPT ![n] = @ + 1] IN
  /\ rpcCalls[c].step = "asking"
  /\ failedAttempts' = failures
  /\ resets' = [resets EXCEPT ![n] = @ + 1]
  /\ rpcCalls' = [rpcCalls EXCEPT ![c] = Continue(@, @.turn + 2, failures)]
  /\ UNCHANGED currentIndex

\* The node fails or times out: recordFailure, then the next turn.
Fail(c) ==
  LET n == rpcCalls[c].node
      failures == [failedAttempts EXCEPT ![n] = @ + 1] IN
  /\ rpcCalls[c].step = "asking"
  /\ failedAttempts' = failures
  /\ resets' = [resets EXCEPT ![n] = @ + 1]
  /\ rpcCalls' = [rpcCalls EXCEPT ![c] = Continue(@, @.turn + 1, failures)]
  /\ UNCHANGED currentIndex

\* A timer that an earlier failure of the node started.
ResetFailureCount(n) ==
  /\ resets[n] > 0
  /\ resets' = [resets EXCEPT ![n] = @ - 1]
  /\ failedAttempts' = [failedAttempts EXCEPT ![n] = 0]
  /\ UNCHANGED <<currentIndex, rpcCalls>>

Next ==
  \/ \E c \in RpcCalls : Execute(c) \/ Succeed(c) \/ Fail(c)
  \/ \E n \in Node : ResetFailureCount(n)

-----------------------------------------------------------------------------
\* Types of the index, the counters and the calls.
TypeOK ==
  /\ currentIndex \in Node
  /\ failedAttempts \in [Node -> Nat] /\ resets \in [Node -> Nat]
  /\ \A c \in RpcCalls :
       /\ rpcCalls[c].step \in {"new", "asking", "done", "failed"}
       /\ rpcCalls[c].turn \in Node /\ rpcCalls[c].node \in Node
       /\ rpcCalls[c].tried \subseteq Node /\ rpcCalls[c].skipped \subseteq Node

\* "Try all servers in round-robin order" (rpcFailover.ts:50): a call that gives
\* up has asked every node or found it unhealthy, and asks none twice, unless
\* another call moved currentIndex while it waited: its remaining turns then fall
\* on other nodes.  And no node is passed over for ever: while it has failures, a
\* timer that forgets them is pending.
EveryNodeHadItsTurn ==
  /\ \A c \in RpcCalls : ~rpcCalls[c].moved =>
       /\ rpcCalls[c].step = "failed" => rpcCalls[c].tried \cup rpcCalls[c].skipped = Node
       /\ ~rpcCalls[c].repeated
  /\ \A n \in Node : failedAttempts[n] > 0 => resets[n] > 0
=============================================================================
