--------------------------- MODULE ServiceProofs ---------------------------
(***************************************************************************)
(* Proofs about the components of the backend and the web application that *)
(* are modelled one module each: the idempotency middleware, the RPC       *)
(* gateway, the erasure workflow, the graceful shutdown, the webhooks, the *)
(* loan desk, the wallet session, the transaction flow, the late fees, the *)
(* audit log and the event indexer.                                        *)
(* MCComponents instantiates them, its constants are theirs, and Spec lets *)
(* every behaviour take the steps of one of them.                          *)
(*                                                                         *)
(* Each component has an inductive invariant of its own, IdemInv, RpcInv,  *)
(* EraseInv, StopInv, HookInv, DeskInv, WalletInv, FeeInv, AuditInv and    *)
(* IndexInv, which its initial states satisfy and its steps keep; that of  *)
(* the transaction flow is in TransactionFlowProofs.                       *)
(***************************************************************************)
EXTENDS MCComponents, Induction

\* What a step does to the service that was picked, and that it picks no other.
LEMMA StepsOfServices ==
  ASSUME [Next]_allVars
  PROVE  /\ part' = part
         /\ part = "audit" => [Audit!Next]_auditPart
         /\ part = "index" => [Index!Next]_indexPart
         /\ part = "idempotency" => [Idem!Next]_idemPart
         /\ part = "rpc" => [Rpc!Next]_rpcPart
         /\ part = "erasure" => [Erase!Next]_erasurePart
         /\ part = "stop" => [Stop!Next]_stopPart
         /\ part = "hook" => [Hook!Next]_hookPart
         /\ part = "desk" => [Desk!Next]_deskPart
         /\ part = "wallet" => [Wallet!Next]_walletPart
         /\ part = "fees" => [Fees!Next]_feesPart
         /\ part = "flow" => [Flow!Next]_flowPart
         /\ part = "resubmit" => [Again!Next]_flowPart
<1>1. CASE UNCHANGED allVars
  BY <1>1 DEF allVars
<1>2. CASE Next
  BY <1>2, Zenon DEF Next, Only
<1> QED
  BY <1>1, <1>2

-----------------------------------------------------------------------------
(* The idempotency middleware: one key, one effect.                        *)

IdemWorking(r) == requests[r].step \in {"handler", "write"}

\* While nothing has happened that the key does not protect from, one request at
\* most is being handled, before anything is cached; an effect is that of the
\* request whose answer is about to be cached or has been.
IdemProtected ==
  /\ \A r, q \in Triple : IdemWorking(r) /\ IdemWorking(q) => r = q
  /\ \A r \in Triple : IdemWorking(r) =>
       cached = Idem!Nothing /\ requests[r].caches /\ requests[r].op \in Routes
  /\ \A r \in Triple : requests[r].step \in {"new", "handler"} =>
       requests[r].answer = Idem!Nothing
  /\ \A r \in Triple : requests[r].step = "handler" => effects = {}
  /\ \A r \in Triple : requests[r].step = "write" =>
       requests[r].answer = [by |-> r, op |-> requests[r].op] /\ effects = {r}
  /\ cached # Idem!Nothing => effects = {cached.by}
  /\ effects # {} => cached # Idem!Nothing \/ \E r \in Triple : requests[r].step = "write"
  /\ \A r \in Triple : requests[r].answer # Idem!Nothing =>
       effects = {requests[r].answer.by} /\ requests[r].answer.op = requests[r].op

IdemInv == Idem!TypeOK /\ (idemCause = {} => IdemProtected)

\* A step of the middleware keeps the types.
LEMMA IdemTypes ==
  ASSUME ComponentAssumption, Idem!TypeOK, [Idem!Next]_idemPart
  PROVE  Idem!TypeOK'
<1> USE DEF Idem!TypeOK, Idem!Answers, Idem!Nothing
<1>1. ASSUME NEW r \in Triple, NEW op \in Routes, Idem!Lookup(r, op)
      PROVE  Idem!TypeOK'
  BY <1>1 DEF Idem!Lookup
<1>2. ASSUME NEW r \in Triple, NEW op \in Routes, Idem!LookupUnavailable(r, op)
      PROVE  Idem!TypeOK'
  BY <1>2 DEF Idem!LookupUnavailable
<1>3. ASSUME NEW r \in Triple, Idem!HandlerSucceeds(r)
      PROVE  Idem!TypeOK'
  <2>1. [by |-> r, op |-> requests[r].op] \in Idem!Answers
    OBVIOUS
  <2>2. effects' \subseteq Triple /\ cached' \in Idem!Answers
    BY <1>3 DEF Idem!HandlerSucceeds
  <2>3. PICK s \in {"write", "answered"} : requests' = [requests EXCEPT
          ![r].step = s, ![r].answer = [by |-> r, op |-> requests[r].op]]
    BY <1>3 DEF Idem!HandlerSucceeds
  <2> HIDE DEF Idem!Answers, Idem!Nothing
  <2> QED
    BY <2>1, <2>2, <2>3, ZenonT(60)
<1>4. ASSUME NEW r \in Triple, NEW changed \in BOOLEAN, Idem!HandlerFails(r, changed)
      PROVE  Idem!TypeOK'
  BY <1>4, ZenonT(60) DEF Idem!HandlerFails
<1>5. ASSUME NEW r \in Triple, Idem!CacheResponse(r) \/ Idem!CacheWriteFails(r)
      PROVE  Idem!TypeOK'
  <2>1. /\ requests' = [requests EXCEPT ![r].step = "answered"]
        /\ cached' = requests[r].answer \/ cached' = cached
        /\ effects' = effects
    BY <1>5 DEF Idem!CacheResponse, Idem!CacheWriteFails
  <2> HIDE DEF Idem!Answers, Idem!Nothing
  <2> QED
    BY <2>1
<1>6. CASE Idem!Expire \/ UNCHANGED idemPart
  BY <1>6 DEF Idem!Expire, idemPart
<1> QED
  BY <1>1, <1>2, <1>3, <1>4, <1>5, <1>6 DEF Idem!Next

\* A request is done; all else about it and about the others stays.
OnlyAnswered(r) ==
  /\ requests'[r].step = "answered"
  /\ \A q \in Triple :
       /\ requests'[q].op = requests[q].op
       /\ requests'[q].caches = requests[q].caches
       /\ requests'[q].answer = requests[q].answer
       /\ q # r => requests'[q].step = requests[q].step

LEMMA IdemAnswers ==
  ASSUME Idem!TypeOK, NEW r \in Triple,
         requests' = [requests EXCEPT ![r].step = "answered"]
  PROVE  OnlyAnswered(r)
BY DEF Idem!TypeOK, OnlyAnswered

\* A step after which nothing has happened that the key does not protect from
\* keeps the effect with its answer.
LEMMA IdemKept ==
  ASSUME ComponentAssumption, Idem!TypeOK, IdemProtected, [Idem!Next]_idemPart,
         idemCause = {}, idemCause' = {}
  PROVE  IdemProtected'
<1> USE DEF ComponentAssumption, Idem!TypeOK, Idem!Answers, Idem!Nothing,
            IdemProtected, IdemWorking
<1>1. ASSUME NEW r \in Triple, NEW op \in Routes, Idem!Lookup(r, op)
      PROVE  IdemProtected'
  <2>1. CASE cached # Idem!Nothing
    <3> DEFINE a == [step |-> "answered", op |-> op, caches |-> FALSE, answer |-> cached]
    <3>1. /\ requests' = [requests EXCEPT ![r] = a]
          /\ cached' = cached /\ effects' = effects /\ cached.op = op
      BY <1>1, <2>1 DEF Idem!Lookup
    <3>2. \A q \in Triple : requests'[q] = IF q = r THEN a ELSE requests[q]
      BY <3>1
    <3>3. a.step = "answered" /\ a.op = op /\ a.caches = FALSE /\ a.answer = cached
      OBVIOUS
    <3> HIDE DEF a, Idem!Nothing, ComponentAssumption
    <3> QED
      BY <2>1, <3>1, <3>2, <3>3
  <2>2. CASE cached = Idem!Nothing
    <3> DEFINE a == [step |-> "handler", op |-> op, caches |-> TRUE, answer |-> Idem!Nothing]
    <3>1. /\ requests' = [requests EXCEPT ![r] = a] /\ requests[r].step = "new"
          /\ cached' = cached /\ effects' = effects
          /\ \A q \in Triple : q # r => ~IdemWorking(q)
      BY <1>1, <2>2 DEF Idem!Lookup, Idem!Others
    <3>2. \A q \in Triple : requests'[q] = IF q = r THEN a ELSE requests[q]
      BY <3>1
    <3>3. /\ a.step = "handler" /\ a.op = op /\ a.caches = TRUE
          /\ a.answer = Idem!Nothing
      OBVIOUS
    <3>4. effects = {}
      BY <2>2, <3>1
    <3> HIDE DEF a, Idem!Nothing, ComponentAssumption, Idem!TypeOK, Idem!Answers
    <3>5. \A q \in Triple : q # r => requests'[q].step \notin {"handler", "write"}
      BY <3>1, <3>2
    <3>6. \A q \in Triple : requests'[q].answer = Idem!Nothing
      BY <3>2, <3>3, <3>4
    <3>7. requests'[r].step = "handler" /\ requests'[r].caches /\ requests'[r].op \in Routes
      BY <3>2, <3>3
    <3> HIDE DEF IdemProtected
    <3> QED
      BY <2>2, <3>1, <3>4, <3>5, <3>6, <3>7 DEF IdemProtected
  <2> QED
    BY <2>1, <2>2
<1>2. ASSUME NEW r \in Triple, NEW op \in Routes, Idem!LookupUnavailable(r, op)
      PROVE  FALSE
  BY <1>2 DEF Idem!LookupUnavailable
<1>3. ASSUME NEW r \in Triple, Idem!HandlerSucceeds(r)
      PROVE  IdemProtected'
  BY <1>3 DEF Idem!HandlerSucceeds
<1>4. ASSUME NEW r \in Triple, NEW changed \in BOOLEAN, Idem!HandlerFails(r, changed)
      PROVE  IdemProtected'
  <2>1. effects' = effects /\ cached' = cached /\ requests[r].step = "handler"
    BY <1>4 DEF Idem!HandlerFails
  <2>2. OnlyAnswered(r)
    BY <1>4, IdemAnswers DEF Idem!HandlerFails
  <2> QED
    BY <2>1, <2>2 DEF OnlyAnswered
<1>5. ASSUME NEW r \in Triple, Idem!CacheResponse(r)
      PROVE  IdemProtected'
  <2>1. /\ effects' = effects /\ cached' = requests[r].answer
        /\ requests[r].step = "write"
    BY <1>5 DEF Idem!CacheResponse
  <2>2. OnlyAnswered(r)
    BY <1>5, IdemAnswers DEF Idem!CacheResponse
  <2>4. /\ effects = {r} /\ requests[r].answer = [by |-> r, op |-> requests[r].op]
        /\ requests[r].op \in Routes
    BY <2>1
  <2>5. cached' # Idem!Nothing /\ cached'.by = r
    BY <2>1, <2>4
  <2>6. \A q \in Triple : requests'[q].step \notin {"handler", "write"}
    BY <2>1, <2>2 DEF OnlyAnswered
  <2>7. \A q \in Triple : requests'[q].step \in {"new", "handler"} =>
          requests'[q].answer = Idem!Nothing
    BY <2>1, <2>2 DEF OnlyAnswered
  <2>8. \A q \in Triple : requests'[q].answer # Idem!Nothing =>
          effects' = {requests'[q].answer.by} /\ requests'[q].answer.op = requests'[q].op
    BY <2>1, <2>2 DEF OnlyAnswered
  <2>9. cached' # Idem!Nothing => effects' = {cached'.by}
    BY <2>1, <2>4, <2>5
  <2> HIDE DEF ComponentAssumption, Idem!TypeOK, Idem!Answers, Idem!Nothing
  <2> QED
    BY <2>5, <2>6, <2>7, <2>8, <2>9
<1>6. ASSUME NEW r \in Triple, Idem!CacheWriteFails(r)
      PROVE  FALSE
  BY <1>6 DEF Idem!CacheWriteFails
<1>7. CASE Idem!Expire
  BY <1>7 DEF Idem!Expire
<1>8. CASE UNCHANGED idemPart
  BY <1>8 DEF idemPart
<1> QED
  BY <1>1, <1>2, <1>3, <1>4, <1>5, <1>6, <1>7, <1>8 DEF Idem!Next

\* The middleware's part of the initial states and of every step.
LEMMA IdemStart == Idem!Init => IdemInv
BY DEF Idem!Init, Idem!New, Idem!Nothing, Idem!TypeOK, Idem!Answers,
       IdemInv, IdemProtected, IdemWorking

LEMMA IdemStep ==
  ASSUME ComponentAssumption, IdemInv, [Idem!Next]_idemPart
  PROVE  IdemInv'
<1>1. Idem!TypeOK'
  BY IdemTypes DEF IdemInv
<1>2. idemCause' = {} => idemCause = {}
  BY DEF Idem!Next, Idem!Lookup, Idem!LookupUnavailable, Idem!HandlerSucceeds,
         Idem!HandlerFails, Idem!CacheResponse, Idem!CacheWriteFails, Idem!Expire, idemPart
<1>3. ASSUME idemCause' = {} PROVE IdemProtected'
  BY <1>2, <1>3, IdemKept DEF IdemInv
<1> QED
  BY <1>1, <1>3 DEF IdemInv

\* The empty set and the sets of one element are the small ones.
LEMMA AtMostOne ==
  ASSUME NEW S, S = {} \/ \E x : S = {x}
  PROVE  Cardinality(S) <= 1
<1>1. CASE S = {}
  BY <1>1, FS_EmptySet
<1>2. ASSUME NEW x, S = {x} PROVE Cardinality(S) <= 1
  BY <1>2, FS_Singleton
<1> QED
  BY <1>1, <1>2

\* Every effect of the key is the one its answers report: there is at most one.
LEMMA OneEffect == IdemInv => Idem!OneEffectPerKey
<1>1. ASSUME IdemInv, idemCause = {} PROVE IdemProtected
  BY <1>1 DEF IdemInv
<1>2. ASSUME IdemProtected PROVE Idem!Cardinality(effects) <= 1
  <2>1. effects = {} \/ effects = {cached.by} \/ \E r \in Triple : effects = {r}
    BY <1>2 DEF IdemProtected
  <2>2. Cardinality(effects) <= 1
    BY <2>1, AtMostOne
  <2> QED
    BY <2>2, Zenon DEF Idem!Cardinality, Cardinality
<1>3. ASSUME IdemProtected PROVE \A r \in Triple : requests[r].answer # Idem!Nothing =>
        requests[r].answer.by \in effects /\ requests[r].answer.op = requests[r].op
  BY <1>3 DEF IdemProtected
<1> QED
  BY <1>1, <1>2, <1>3, Zenon DEF Idem!OneEffectPerKey

\* One idempotency key has one effect and one answer, for any number of requests
\* and of operations (idempotency.ts): whatever the order of lookups, handlers and
\* cache writes, while nothing happens that the key does not protect from.
THEOREM IdempotencyTheorem == Spec => []OneEffectPerKey
<1> DEFINE Inv == part = "idempotency" => IdemInv
<1>1. Init => Inv
  BY IdemStart, Zenon DEF Init
<1>2. Inv /\ [Next]_allVars => Inv'
  <2> SUFFICES ASSUME Inv, [Next]_allVars, part' = "idempotency" PROVE IdemInv'
    BY Zenon
  <2>1. part = "idempotency" /\ [Idem!Next]_idemPart
    BY StepsOfServices, Zenon
  <2> QED
    BY <2>1, IdemStep, ComponentAssumption
<1>3. Inv => OneEffectPerKey
  BY OneEffect, Zenon DEF OneEffectPerKey
<1> QED
  BY <1>1, <1>2, <1>3, PTL DEF Spec

-----------------------------------------------------------------------------
(* The RPC gateway: a call that gives up has been round all nodes.         *)

RpcCall ==
  [step : {"new", "asking", "done", "failed"}, turn : Rpc!Node, node : Rpc!Node,
   tried : SUBSET Rpc!Node, skipped : SUBSET Rpc!Node, repeated : BOOLEAN, moved : BOOLEAN]

RpcTypes ==
  /\ currentIndex \in Rpc!Node
  /\ failedAttempts \in [Rpc!Node -> Nat] /\ resets \in [Rpc!Node -> Nat]
  /\ rpcCalls \in [Pair -> RpcCall]

\* The nodes that come up from a turn to another.
NodesFrom(t, u) == {Rpc!NodeAt(v) : v \in t..u}

\* A call which no other has disturbed has dealt with the nodes of its turns so
\* far, and asked only some of them.
InTurn(call) ==
  /\ ~call.repeated
  /\ call.step = "new" => call.tried = {}
  /\ call.step = "asking" =>
       /\ call.tried \subseteq NodesFrom(0, call.turn)
       /\ NodesFrom(0, call.turn) \subseteq call.tried \cup call.skipped
  /\ call.step = "failed" => call.tried \cup call.skipped = Rpc!Node

RpcInv ==
  /\ RpcTypes
  /\ \A c \in Pair : ~rpcCalls[c].moved => InTurn(rpcCalls[c])
  /\ \A n \in Rpc!Node : failedAttempts[n] > 0 => resets[n] > 0

\* The nodes of the turns: one each, and all of them.
LEMMA WrapAround ==
  ASSUME NEW N \in Nat \ {0}, NEW i \in 0..N - 1, NEW t \in 0..N - 1
  PROVE  (i + t) % N = IF i + t < N THEN i + t ELSE i + t - N
<1>1. PICK a \in Nat : a = i + t
  OBVIOUS
<1>2. CASE a < N
  <2>1. a % N = a
    BY <1>2
  <2>2. (i + t) % N = i + t
    BY <1>1, <2>1, Zenon
  <2> QED
    BY <1>1, <1>2, <2>2
<1>3. CASE a >= N
  <2>1. a - N \in Nat /\ a - N < N
    BY <1>1, <1>3
  <2>2. a % N = a - N
    <3>1. (a - N) % N = a - N
      BY <2>1
    <3>2. a % N = (a - N) % N
      BY <1>3, <2>1
    <3> QED
      BY <3>1, <3>2, Zenon
  <2>3. (i + t) % N = i + t - N
    <3>1. (i + t) % N = a % N
      BY <1>1, Zenon
    <3>2. a - N = i + t - N
      BY <1>1
    <3> QED
      BY <2>2, <3>1, <3>2, Zenon
  <2> QED
    BY <1>1, <1>3, <2>3
<1> QED
  BY <1>2, <1>3

LEMMA TurnOfNode ==
  ASSUME ComponentAssumption, currentIndex \in Rpc!Node
  PROVE  /\ \A t \in 0..RpcNodes - 1 : Rpc!NodeAt(t) \in Rpc!Node
         /\ \A t, u \in 0..RpcNodes - 1 : Rpc!NodeAt(t) = Rpc!NodeAt(u) => t = u
         /\ \A n \in Rpc!Node : \E t \in 0..RpcNodes - 1 : n = Rpc!NodeAt(t)
<1> USE DEF ComponentAssumption, Rpc!Node
<1>1. \A t \in 0..RpcNodes - 1 : Rpc!NodeAt(t) =
        IF currentIndex + t < RpcNodes THEN currentIndex + t ELSE currentIndex + t - RpcNodes
  <2> SUFFICES ASSUME NEW t \in 0..RpcNodes - 1
               PROVE  (currentIndex + t) % RpcNodes =
                 IF currentIndex + t < RpcNodes THEN currentIndex + t
                 ELSE currentIndex + t - RpcNodes
    BY Zenon DEF Rpc!NodeAt
  <2>1. RpcNodes \in Nat \ {0} /\ currentIndex \in 0..RpcNodes - 1
    OBVIOUS
  <2> QED
    BY <2>1, WrapAround, Zenon
<1>2. ASSUME NEW n \in Rpc!Node PROVE \E t \in 0..RpcNodes - 1 : n = Rpc!NodeAt(t)
  <2>0. n \in 0..RpcNodes - 1
    OBVIOUS
  <2>1. CASE n >= currentIndex
    <3>1. PICK t \in 0..RpcNodes - 1 : t = n - currentIndex
      BY <2>0, <2>1
    <3>2. currentIndex + t = n /\ n < RpcNodes
      BY <2>0, <3>1
    <3>3. Rpc!NodeAt(t) = n
      BY <1>1, <3>2
    <3> QED
      BY <3>3, Zenon
  <2>2. CASE n < currentIndex
    <3>1. PICK t \in 0..RpcNodes - 1 : t = n - currentIndex + RpcNodes
      BY <2>0, <2>2
    <3>2. currentIndex + t = n + RpcNodes /\ ~(n + RpcNodes < RpcNodes)
      BY <2>0, <3>1
    <3>3. Rpc!NodeAt(t) = currentIndex + t - RpcNodes
      BY <1>1, <3>2
    <3>4. Rpc!NodeAt(t) = n
      BY <2>0, <3>2, <3>3
    <3> QED
      BY <3>4, Zenon
  <2> QED
    BY <2>1, <2>2
<1> QED
  BY <1>1, <1>2

\* The loop: it gives up after the last turn, having passed over all nodes from
\* this turn on, or asks the node of a later turn and has passed over those between.
LEMMA LoopGoesOn ==
  ASSUME ComponentAssumption, currentIndex \in Rpc!Node,
         NEW call \in RpcCall, NEW turn \in Nat, NEW failures
  PROVE  LET c == Rpc!Continue(call, turn, failures) IN
         /\ c \in RpcCall /\ c.moved = call.moved
         /\ \/ /\ c.step = "failed" /\ c.tried = call.tried /\ c.repeated = call.repeated
               /\ c.skipped = call.skipped \cup NodesFrom(turn, RpcNodes - 1)
            \/ \E next \in turn..RpcNodes - 1 :
                 /\ c.step = "asking" /\ c.turn = next
                 /\ c.tried = call.tried \cup {Rpc!NodeAt(next)}
                 /\ c.repeated = (call.repeated \/ Rpc!NodeAt(next) \in call.tried)
                 /\ c.skipped = call.skipped \cup NodesFrom(turn, next - 1)
<1> DEFINE asked == {t \in turn..RpcNodes - 1 : ~Rpc!IsServerUnhealthy(failures, Rpc!NodeAt(t))}
           next == CHOOSE t \in asked : \A u \in asked : t <= u
           passed == {Rpc!NodeAt(t) : t \in {u \in turn..RpcNodes - 1 : asked = {} \/ u < next}}
           through == [call EXCEPT !.skipped = @ \cup passed]
           c == Rpc!Continue(call, turn, failures)
<1>1. c = IF asked = {} THEN [through EXCEPT !.step = "failed"]
          ELSE [through EXCEPT
                  !.step = "asking", !.turn = next, !.node = Rpc!NodeAt(next),
                  !.repeated = @ \/ Rpc!NodeAt(next) \in call.tried,
                  !.tried = @ \cup {Rpc!NodeAt(next)}]
  BY Zenon DEF Rpc!Continue
<1>2. RpcNodes \in Nat \ {0} /\ turn..RpcNodes - 1 \subseteq 0..RpcNodes - 1
  BY DEF ComponentAssumption
<1>3. passed \subseteq Rpc!Node
  BY <1>2, TurnOfNode
<1>4. CASE asked = {}
  <2>1. passed = NodesFrom(turn, RpcNodes - 1)
    BY <1>4 DEF NodesFrom
  <2>2. c = [call EXCEPT !.skipped = call.skipped \cup passed, !.step = "failed"]
    BY <1>1, <1>4
  <2> HIDE DEF passed, c
  <2>3. /\ c \in RpcCall /\ c.moved = call.moved /\ c.step = "failed"
        /\ c.tried = call.tried /\ c.repeated = call.repeated
        /\ c.skipped = call.skipped \cup passed
    BY <1>3, <2>2 DEF RpcCall
  <2> QED
    BY <2>1, <2>3 DEF c
<1>5. CASE asked # {}
  <2>1. next \in asked /\ \A u \in asked : next <= u
    BY <1>2, <1>5, WellOrdered, asked \subseteq Nat
  <2> HIDE DEF next
  <2>2. next \in turn..RpcNodes - 1 /\ Rpc!NodeAt(next) \in Rpc!Node /\ next \in Rpc!Node
    BY <1>2, <2>1, TurnOfNode DEF Rpc!Node
  <2>3. passed = NodesFrom(turn, next - 1)
    <3>1. {u \in turn..RpcNodes - 1 : asked = {} \/ u < next} = turn..next - 1
      BY <1>2, <1>5, <2>2
    <3> QED
      BY <3>1, Zenon DEF NodesFrom
  <2> DEFINE n == Rpc!NodeAt(next)
  <2>4. c = [call EXCEPT !.skipped = call.skipped \cup passed, !.step = "asking",
               !.turn = next, !.node = n, !.repeated = (call.repeated \/ n \in call.tried),
               !.tried = call.tried \cup {n}]
    BY <1>1, <1>5 DEF RpcCall
  <2>5. n \in Rpc!Node
    BY <2>2
  <2> HIDE DEF passed, c, n, asked
  <2>6. (call.repeated \/ n \in call.tried) \in BOOLEAN
    BY DEF RpcCall
  <2>7. /\ c \in RpcCall /\ c.moved = call.moved /\ c.step = "asking" /\ c.turn = next
        /\ c.tried = call.tried \cup {n}
        /\ c.repeated = (call.repeated \/ n \in call.tried)
        /\ c.skipped = call.skipped \cup passed
    BY <1>3, <2>2, <2>4, <2>5, <2>6 DEF RpcCall
  <2> QED
    BY <2>2, <2>3, <2>7 DEF c, n
<1> QED
  BY <1>4, <1>5

\* A turn of the loop keeps an undisturbed call in turn.
LEMMA LoopInTurn ==
  ASSUME ComponentAssumption, currentIndex \in Rpc!Node,
         NEW call \in RpcCall, InTurn(call), NEW turn \in Nat, NEW failures,
         \/ call.step = "new" /\ turn = 0
         \/ call.step = "asking" /\ turn = call.turn + 1
  PROVE  InTurn(Rpc!Continue(call, turn, failures))
<1> DEFINE c == Rpc!Continue(call, turn, failures)
<1>1. /\ RpcNodes \in Nat \ {0} /\ ~call.repeated
      /\ call.tried \subseteq NodesFrom(0, turn - 1)
      /\ NodesFrom(0, turn - 1) \subseteq call.tried \cup call.skipped
  <2>1. RpcNodes \in Nat \ {0} /\ ~call.repeated
    BY DEF ComponentAssumption, InTurn
  <2>2. CASE call.step = "new" /\ turn = 0
    <3>1. NodesFrom(0, turn - 1) = {}
      BY <2>2 DEF NodesFrom
    <3> QED
      BY <2>1, <2>2, <3>1 DEF InTurn
  <2>3. CASE call.step = "asking" /\ turn = call.turn + 1
    <3>1. turn - 1 = call.turn
      BY <2>3 DEF RpcCall, Rpc!Node
    <3> QED
      BY <2>1, <2>3, <3>1, Zenon DEF InTurn
  <2> QED
    BY <2>2, <2>3
<1>2. NodesFrom(0, turn - 1) \cup NodesFrom(turn, RpcNodes - 1) = NodesFrom(0, RpcNodes - 1)
        \/ turn > RpcNodes
  BY <1>1 DEF NodesFrom
<1>3. turn <= RpcNodes
  BY <1>1 DEF RpcCall, Rpc!Node
<1>4. NodesFrom(0, RpcNodes - 1) = Rpc!Node
  BY TurnOfNode DEF NodesFrom
<1>5. CASE /\ c.step = "failed" /\ c.tried = call.tried /\ c.repeated = call.repeated
           /\ c.skipped = call.skipped \cup NodesFrom(turn, RpcNodes - 1)
  <2>1. call.tried \subseteq Rpc!Node /\ call.skipped \subseteq Rpc!Node
    BY DEF RpcCall
  <2>2. Rpc!Node \subseteq c.tried \cup c.skipped
    BY <1>1, <1>2, <1>3, <1>4, <1>5
  <2>3. c.tried \cup c.skipped \subseteq Rpc!Node
    BY <1>1, <1>2, <1>3, <1>4, <1>5, <2>1
  <2> QED
    BY <1>1, <1>5, <2>2, <2>3 DEF InTurn
<1>6. ASSUME NEW next \in turn..RpcNodes - 1,
             c.step = "asking", c.turn = next,
             c.tried = call.tried \cup {Rpc!NodeAt(next)},
             c.repeated = (call.repeated \/ Rpc!NodeAt(next) \in call.tried),
             c.skipped = call.skipped \cup NodesFrom(turn, next - 1)
      PROVE  InTurn(c)
  <2>1. Rpc!NodeAt(next) \notin NodesFrom(0, turn - 1)
    <3>1. \A t \in 0..turn - 1 : t \in 0..RpcNodes - 1 /\ t # next
      BY <1>1, <1>3
    <3>2. next \in 0..RpcNodes - 1
      BY <1>1
    <3> QED
      BY <3>1, <3>2, TurnOfNode, ZenonT(60) DEF NodesFrom
  <2>2. ~c.repeated
    BY <1>1, <1>6, <2>1
  <2>3. NodesFrom(0, next) =
          NodesFrom(0, turn - 1) \cup NodesFrom(turn, next - 1) \cup {Rpc!NodeAt(next)}
    <3>1. 0..next = (0..turn - 1) \cup (turn..next - 1) \cup {next}
      BY <1>1
    <3> QED
      BY <3>1, Zenon DEF NodesFrom
  <2>4. /\ c.tried \subseteq NodesFrom(0, next)
        /\ NodesFrom(0, next) \subseteq c.tried \cup c.skipped
    BY <1>1, <1>6, <2>3
  <2> QED
    BY <1>6, <2>2, <2>4 DEF InTurn
<1> QED
  BY <1>5, <1>6, LoopGoesOn

\* The gateway's part of the initial states and of every step.
LEMMA RpcStart == ComponentAssumption /\ Rpc!Init => RpcInv
<1> SUFFICES ASSUME ComponentAssumption, Rpc!Init PROVE RpcInv
  OBVIOUS
<1>1. 0 \in Rpc!Node
  BY DEF ComponentAssumption, Rpc!Node
<1> QED
  BY <1>1 DEF Rpc!Init, Rpc!NewCall, RpcInv, RpcTypes, RpcCall, InTurn

\* What is in turn stays so while the index stays.
LEMMA SameTurns ==
  ASSUME UNCHANGED currentIndex, NEW e, InTurn(rpcCalls'[e])
  PROVE  InTurn(rpcCalls[e])'
BY Zenon DEF InTurn, NodesFrom, Rpc!NodeAt

\* One call goes round the loop, from its first turn or after a failure.
LEMMA LoopStep ==
  ASSUME ComponentAssumption, RpcInv, NEW c \in Pair, NEW turn \in Nat, NEW failures,
         \/ rpcCalls[c].step = "new" /\ turn = 0
         \/ rpcCalls[c].step = "asking" /\ turn = rpcCalls[c].turn + 1,
         rpcCalls' = [rpcCalls EXCEPT ![c] = Rpc!Continue(rpcCalls[c], turn, failures)],
         UNCHANGED currentIndex
  PROVE  /\ rpcCalls' \in [Pair -> RpcCall]
         /\ \A e \in Pair : ~rpcCalls'[e].moved => InTurn(rpcCalls[e])'
<1> DEFINE d == Rpc!Continue(rpcCalls[c], turn, failures)
<1>0. rpcCalls \in [Pair -> RpcCall] /\ currentIndex \in Rpc!Node
  BY DEF RpcInv, RpcTypes
<1>1. d \in RpcCall /\ d.moved = rpcCalls[c].moved
  BY <1>0, LoopGoesOn
<1>2. ~d.moved => InTurn(d)
  BY <1>0, <1>1, LoopInTurn DEF RpcInv
<1>3. rpcCalls' = [rpcCalls EXCEPT ![c] = d]
  OBVIOUS
<1> HIDE DEF d
<1>4. \A e \in Pair : rpcCalls'[e] = IF e = c THEN d ELSE rpcCalls[e]
  BY <1>0, <1>3
<1>5. \A e \in Pair : ~rpcCalls'[e].moved => InTurn(rpcCalls'[e])
  BY <1>2, <1>4, Zenon DEF RpcInv
<1> QED
  BY <1>0, <1>1, <1>3, <1>5, SameTurns

LEMMA RpcStep ==
  ASSUME ComponentAssumption, RpcInv, [Rpc!Next]_rpcPart
  PROVE  RpcInv'
<1>0. rpcCalls \in [Pair -> RpcCall] /\ RpcTypes
  BY DEF RpcInv, RpcTypes
<1>1. ASSUME NEW c \in Pair, Rpc!Execute(c) PROVE RpcInv'
  <2>1. /\ rpcCalls' = [rpcCalls EXCEPT ![c] = Rpc!Continue(rpcCalls[c], 0, failedAttempts)]
        /\ rpcCalls[c].step = "new" /\ UNCHANGED <<currentIndex, failedAttempts, resets>>
    BY <1>1 DEF Rpc!Execute
  <2>2. /\ rpcCalls' \in [Pair -> RpcCall]
        /\ \A e \in Pair : ~rpcCalls'[e].moved => InTurn(rpcCalls[e])'
    BY <2>1, LoopStep
  <2> QED
    BY <2>1, <2>2 DEF RpcInv, RpcTypes
<1>2. ASSUME NEW c \in Pair, Rpc!Fail(c) PROVE RpcInv'
  <2> DEFINE n == rpcCalls[c].node
             failures == [failedAttempts EXCEPT ![n] = @ + 1]
  <2>1. /\ rpcCalls' = [rpcCalls EXCEPT
             ![c] = Rpc!Continue(rpcCalls[c], rpcCalls[c].turn + 1, failures)]
        /\ rpcCalls[c].step = "asking" /\ UNCHANGED currentIndex
    BY <1>2 DEF Rpc!Fail
  <2>2. rpcCalls[c].turn + 1 \in Nat /\ n \in Rpc!Node
    BY <1>0 DEF RpcCall, Rpc!Node
  <2>3. /\ rpcCalls' \in [Pair -> RpcCall]
        /\ \A e \in Pair : ~rpcCalls'[e].moved => InTurn(rpcCalls[e])'
    BY <2>1, <2>2, LoopStep
  <2>4. failedAttempts' = failures /\ resets' = [resets EXCEPT ![n] = @ + 1]
    BY <1>2 DEF Rpc!Fail
  <2>5. failedAttempts' \in [Rpc!Node -> Nat] /\ resets' \in [Rpc!Node -> Nat]
    BY <2>2, <2>4 DEF RpcInv, RpcTypes
  <2>6. \A m \in Rpc!Node : failedAttempts'[m] > 0 => resets'[m] > 0
    BY <2>2, <2>4 DEF RpcInv, RpcTypes
  <2> QED
    BY <1>0, <2>1, <2>3, <2>5, <2>6 DEF RpcInv, RpcTypes
<1>3. ASSUME NEW c \in Pair, Rpc!Succeed(c) PROVE RpcInv'
  <2> DEFINE n == rpcCalls[c].node
             moves(e) == rpcCalls[e].moved
                           \/ (rpcCalls[e].step = "asking" /\ currentIndex' # currentIndex)
  <2>1. /\ failedAttempts' = [failedAttempts EXCEPT ![n] = 0]
        /\ currentIndex' = (n + 1) % RpcNodes /\ resets' = resets
        /\ rpcCalls' = [e \in Pair |->
             IF e = c THEN [rpcCalls[c] EXCEPT !.step = "done"]
             ELSE [rpcCalls[e] EXCEPT !.moved = @ \/
                (rpcCalls[e].step = "asking" /\ currentIndex' # currentIndex)]]
    BY <1>3 DEF Rpc!Succeed
  <2>2. n \in Rpc!Node
    BY <1>0 DEF RpcCall
  <2>3. currentIndex' \in Rpc!Node
    <3>1. n + 1 \in Nat /\ RpcNodes \in Nat \ {0}
      BY <2>2 DEF Rpc!Node, ComponentAssumption
    <3>2. (n + 1) % RpcNodes \in 0..RpcNodes - 1
      BY <3>1
    <3> QED
      BY <2>1, <3>2 DEF Rpc!Node
  <2>4. failedAttempts' \in [Rpc!Node -> Nat] /\ resets' \in [Rpc!Node -> Nat]
    BY <2>1, <2>2 DEF RpcInv, RpcTypes
  <2>5. \A m \in Rpc!Node : failedAttempts'[m] > 0 => resets'[m] > 0
    BY <2>1, <2>2 DEF RpcInv, RpcTypes
  <2>6. /\ rpcCalls'[c] = [rpcCalls[c] EXCEPT !.step = "done"]
        /\ \A e \in Pair : e # c =>
             rpcCalls'[e] = [rpcCalls[e] EXCEPT !.moved = moves(e)]
    BY <2>1
  <2>7. \A e \in Pair : moves(e) \in BOOLEAN
    BY <1>0 DEF RpcCall
  <2> HIDE DEF moves, n
  <2>8. ASSUME NEW e \in Pair
        PROVE  /\ rpcCalls'[e] \in RpcCall
               /\ rpcCalls'[e].tried = rpcCalls[e].tried
               /\ rpcCalls'[e].skipped = rpcCalls[e].skipped
               /\ rpcCalls'[e].turn = rpcCalls[e].turn
               /\ rpcCalls'[e].repeated = rpcCalls[e].repeated
               /\ rpcCalls'[e].step = IF e = c THEN "done" ELSE rpcCalls[e].step
               /\ rpcCalls'[e].moved = IF e = c THEN rpcCalls[e].moved ELSE moves(e)
    <3>1. PICK call \in RpcCall : call = rpcCalls[e]
      BY <1>0
    <3>2. CASE e = c
      <4>1. rpcCalls'[e] = [call EXCEPT !.step = "done"]
        BY <2>6, <3>1, <3>2
      <4> QED
        BY <3>1, <3>2, <4>1 DEF RpcCall
    <3>3. CASE e # c
      <4>1. PICK m \in BOOLEAN : m = moves(e)
        BY <2>7
      <4>2. rpcCalls'[e] = [call EXCEPT !.moved = m]
        BY <2>6, <3>1, <3>3, <4>1
      <4> QED
        BY <3>1, <3>3, <4>1, <4>2 DEF RpcCall
    <3> QED
      BY <3>2, <3>3
  <2>9. rpcCalls' \in [Pair -> RpcCall]
    <3>1. rpcCalls' = [e \in Pair |-> rpcCalls'[e]]
      BY <2>1, Zenon
    <3> QED
      BY <2>8, <3>1
  <2>10. ASSUME NEW e \in Pair, ~rpcCalls'[e].moved PROVE InTurn(rpcCalls[e])'
    <3>1. ~rpcCalls[e].moved
      BY <2>8, <2>10 DEF moves
    <3>2. InTurn(rpcCalls[e])
      BY <3>1 DEF RpcInv
    <3>3. InTurn(rpcCalls'[e])
      BY <2>8, <3>2 DEF InTurn
    <3>4. CASE rpcCalls'[e].step = "asking"
      <4>1. e # c /\ rpcCalls[e].step = "asking"
        BY <2>8, <3>4
      <4>2. UNCHANGED currentIndex
        BY <2>8, <2>10, <4>1 DEF moves
      <4> QED
        BY <3>3, <4>2, SameTurns
    <3>5. CASE rpcCalls'[e].step # "asking"
      BY <3>3, <3>5, Zenon DEF InTurn, Rpc!Node
    <3> QED
      BY <3>4, <3>5
  <2> QED
    BY <2>3, <2>4, <2>5, <2>9, <2>10 DEF RpcInv, RpcTypes
<1>4. ASSUME NEW n \in Rpc!Node, Rpc!ResetFailureCount(n) PROVE RpcInv'
  <2>1. /\ resets' = [resets EXCEPT ![n] = @ - 1] /\ resets[n] > 0
        /\ failedAttempts' = [failedAttempts EXCEPT ![n] = 0]
        /\ UNCHANGED currentIndex /\ rpcCalls' = rpcCalls
    BY <1>4 DEF Rpc!ResetFailureCount
  <2>2. /\ failedAttempts' \in [Rpc!Node -> Nat] /\ resets' \in [Rpc!Node -> Nat]
        /\ \A m \in Rpc!Node : failedAttempts'[m] > 0 => resets'[m] > 0
    BY <2>1 DEF RpcInv, RpcTypes
  <2>3. \A e \in Pair : ~rpcCalls'[e].moved => InTurn(rpcCalls[e])'
    BY <2>1, SameTurns DEF RpcInv
  <2> QED
    BY <1>0, <2>1, <2>2, <2>3 DEF RpcInv, RpcTypes
<1>5. CASE UNCHANGED rpcPart
  <2>1. /\ UNCHANGED currentIndex /\ rpcCalls' = rpcCalls
        /\ UNCHANGED <<failedAttempts, resets>>
    BY <1>5 DEF rpcPart
  <2>2. \A e \in Pair : ~rpcCalls'[e].moved => InTurn(rpcCalls[e])'
    BY <2>1, SameTurns DEF RpcInv
  <2> QED
    BY <1>0, <2>1, <2>2 DEF RpcInv, RpcTypes
<1> QED
  BY <1>1, <1>2, <1>3, <1>4, <1>5 DEF Rpc!Next

\* A call that gives up has asked every node or found it unhealthy, and no node is
\* passed over without a timer that will forget its failures, for any number of
\* nodes and of calls that overlap (execute in rpcFailover.ts).
THEOREM FailoverTheorem == Spec => []EveryNodeHadItsTurn
<1> DEFINE Inv == part = "rpc" => RpcInv
<1>1. Init => Inv
  BY RpcStart, ComponentAssumption, Zenon DEF Init
<1>2. Inv /\ [Next]_allVars => Inv'
  <2> SUFFICES ASSUME Inv, [Next]_allVars, part' = "rpc" PROVE RpcInv'
    BY Zenon
  <2>1. part = "rpc" /\ [Rpc!Next]_rpcPart
    BY StepsOfServices, Zenon
  <2> QED
    BY <2>1, RpcStep, ComponentAssumption
<1>3. Inv => EveryNodeHadItsTurn
  BY Zenon DEF EveryNodeHadItsTurn, RpcInv, InTurn, Rpc!EveryNodeHadItsTurn
<1> QED
  BY <1>1, <1>2, <1>3, PTL DEF Spec

-----------------------------------------------------------------------------
(* The erasure workflow: no personal data is scrubbed under a hold.        *)

ErasureTypes ==
  /\ day \in 0..LastDay /\ activeLoan \in BOOLEAN
  /\ erasures \in [Pair -> [status : {"none", "checking", "pending", "legal_hold", "approved",
                                     "completed", "rejected"},
                            holds : SUBSET Erase!AllHolds]]
  /\ legalHolds \in [Erase!AllHolds -> [lifted : BOOLEAN, expires : 1..Erase!Never]]

\* A request that is not stored has no holds, an approved one no active ones.
HoldsInOrder ==
  \A r \in Pair :
    /\ ~Erase!Exists(r) => erasures[r].holds = {}
    /\ erasures[r].status = "approved" => \A h \in erasures[r].holds : ~Erase!IsHoldActive(h)

\* Two stored requests of the wallet have left their mark.
TwoAreNoted ==
  \A r, q \in Pair : r # q /\ Erase!Exists(r) /\ Erase!Exists(q) =>
    "two requests" \in erasureCause

\* Automatic holds are as they were made, and on every request of a debtor, unless
\* the loan has come later, its query has failed or a hold was lifted.
LoansAreHeld ==
  "loan not held" \notin erasureCause =>
    \A r \in Pair : /\ legalHolds[r] = Erase!NoHold
                    /\ activeLoan /\ Erase!Exists(r) => r \in erasures[r].holds

\* What has been executed is completed, unless it was opened again.
ErasedAreDone ==
  \A r \in Pair \cap erased : erasures[r].status = "completed" \/ "reopened" \in erasureCause

EraseInv ==
  /\ ErasureTypes /\ HoldsInOrder /\ TwoAreNoted /\ LoansAreHeld /\ ErasedAreDone
  /\ Erase!ErasedOnlyWhenFree

LEMMA EraseStart == ComponentAssumption /\ Erase!Init => EraseInv
BY DEF ComponentAssumption, Erase!Init, Erase!NoHold, Erase!Never, Erase!AllHolds, Erase!Exists,
       Erase!ErasedOnlyWhenFree, EraseInv, ErasureTypes, HoldsInOrder, TwoAreNoted,
       LoansAreHeld, ErasedAreDone

LEMMA EraseSubmit ==
  ASSUME ComponentAssumption, EraseInv, NEW r \in Pair, Erase!SubmitErasureRequest(r)
  PROVE  EraseInv'
<1> USE DEF EraseInv, ErasureTypes
<1>1. /\ erasures[r].status = "none"
      /\ erasures' = [erasures EXCEPT ![r].status = "checking"]
      /\ UNCHANGED <<day, activeLoan, legalHolds, erased, circumstances, erasureCause>>
  BY DEF Erase!SubmitErasureRequest
<1>2. /\ erasures'[r].status = "checking"
      /\ \A q \in Pair : erasures'[q].holds = erasures[q].holds
      /\ \A q \in Pair : q # r => erasures'[q] = erasures[q]
  BY <1>1
<1>3. ErasureTypes'
  BY <1>1
<1>4. \A q \in Pair : Erase!Exists(q)' <=> Erase!Exists(q)
  BY <1>1, <1>2 DEF Erase!Exists
<1> HIDE DEF EraseInv, ErasureTypes
<1>5. HoldsInOrder'
  BY <1>1, <1>2, <1>4 DEF HoldsInOrder, Erase!Exists, Erase!IsHoldActive, EraseInv
<1>6. TwoAreNoted'
  BY <1>1, <1>4 DEF TwoAreNoted, EraseInv
<1>7. LoansAreHeld'
  BY <1>1, <1>2, <1>4 DEF LoansAreHeld, EraseInv
<1>8. ErasedAreDone'
  BY <1>1, <1>2 DEF ErasedAreDone, EraseInv
<1>9. Erase!ErasedOnlyWhenFree'
  BY <1>1 DEF Erase!ErasedOnlyWhenFree, EraseInv
<1> QED
  BY <1>3, <1>5, <1>6, <1>7, <1>8, <1>9 DEF EraseInv

LEMMA EraseStore ==
  ASSUME ComponentAssumption, EraseInv, NEW r \in Pair, Erase!StoreRequest(r)
  PROVE  EraseInv'
<1>1. PICK failed \in BOOLEAN :
        /\ erasures' = [erasures EXCEPT ![r] =
             LET holds == Erase!DetectAutomaticHolds(r, failed)
             IN [status |-> IF holds = {} THEN "pending" ELSE "legal_hold", holds |-> holds]]
        /\ erasureCause' = erasureCause
             \cup (IF failed THEN {"loan not held"} ELSE {})
             \cup (IF \E q \in Pair : Erase!Exists(q) THEN {"two requests"} ELSE {})
  BY DEF Erase!StoreRequest
<1>2. /\ erasures[r].status = "checking"
      /\ UNCHANGED <<day, activeLoan, legalHolds, erased, circumstances>>
  BY DEF Erase!StoreRequest
<1>3. PICK s \in {"pending", "legal_hold"} :
        erasures' = [erasures EXCEPT ![r] =
          [status |-> s, holds |-> Erase!DetectAutomaticHolds(r, failed)]]
  BY <1>1
<1>4. PICK h \in SUBSET Erase!AllHolds : h = Erase!DetectAutomaticHolds(r, failed)
  BY DEF Erase!DetectAutomaticHolds, Erase!AllHolds
<1>5. /\ erasures' = [erasures EXCEPT ![r] = [status |-> s, holds |-> h]]
      /\ activeLoan /\ ~failed => h = {r}
  BY <1>3, <1>4 DEF Erase!DetectAutomaticHolds
<1>6. /\ erasures'[r].status = s /\ erasures'[r].holds = h
      /\ \A q \in Pair : q # r => erasures'[q] = erasures[q]
  BY <1>5 DEF EraseInv, ErasureTypes
<1>7. ErasureTypes'
  BY <1>2, <1>5 DEF EraseInv, ErasureTypes
<1>8. \A q \in Pair : IF q = r THEN Erase!Exists(q)' ELSE Erase!Exists(q)' <=> Erase!Exists(q)
  BY <1>6 DEF Erase!Exists
<1>9. HoldsInOrder'
  BY <1>2, <1>6, <1>8 DEF HoldsInOrder, Erase!IsHoldActive, EraseInv
<1>10. TwoAreNoted'
  BY <1>1, <1>8 DEF TwoAreNoted, EraseInv
<1>11. LoansAreHeld'
  BY <1>1, <1>2, <1>5, <1>6, <1>8 DEF LoansAreHeld, EraseInv
<1>12. ErasedAreDone'
  BY <1>1, <1>2, <1>6 DEF ErasedAreDone, EraseInv
<1>13. Erase!ErasedOnlyWhenFree'
  BY <1>1, <1>2 DEF Erase!ErasedOnlyWhenFree, EraseInv
<1> QED
  BY <1>7, <1>9, <1>10, <1>11, <1>12, <1>13 DEF EraseInv

LEMMA EraseAttach ==
  ASSUME ComponentAssumption, EraseInv, NEW r \in Pair, NEW h \in LegalHolds,
         NEW expires \in 1..Erase!Never, Erase!AttachLegalHold(r, h, expires)
  PROVE  EraseInv'
<1>1. /\ Erase!Exists(r) /\ \A q \in Pair : h \notin erasures[q].holds
      /\ legalHolds' = [legalHolds EXCEPT ![h] = [lifted |-> FALSE, expires |-> expires]]
      /\ erasures' = [erasures EXCEPT ![r] =
           [status |-> "legal_hold", holds |-> erasures[r].holds \cup {h}]]
      /\ UNCHANGED <<day, activeLoan, erased, circumstances>>
  BY DEF Erase!AttachLegalHold
<1>2. /\ erasureCause \subseteq erasureCause'
      /\ erasures[r].status = "completed" => "reopened" \in erasureCause'
      /\ "loan not held" \in erasureCause' => "loan not held" \in erasureCause
  BY DEF Erase!AttachLegalHold, Erase!Reopening
<1>3. h \in Erase!AllHolds /\ h \notin Pair
  BY DEF Erase!AllHolds, ComponentAssumption
<1>4. /\ erasures'[r].status = "legal_hold" /\ erasures'[r].holds = erasures[r].holds \cup {h}
      /\ \A q \in Pair : q # r => erasures'[q] = erasures[q]
      /\ \A q \in Pair : erasures[q].holds \subseteq Erase!AllHolds
  BY <1>1 DEF EraseInv, ErasureTypes
<1>5. \A g \in Erase!AllHolds : g # h => legalHolds'[g] = legalHolds[g]
  BY <1>1 DEF EraseInv, ErasureTypes
<1>6. ErasureTypes'
  BY <1>1, <1>3 DEF EraseInv, ErasureTypes
<1>7. \A q \in Pair : Erase!Exists(q)' <=> Erase!Exists(q)
  BY <1>1, <1>4 DEF Erase!Exists
<1>8. HoldsInOrder'
  BY <1>1, <1>4, <1>5, <1>7 DEF HoldsInOrder, Erase!IsHoldActive, EraseInv
<1>9. TwoAreNoted'
  BY <1>2, <1>7 DEF TwoAreNoted, EraseInv
<1>10. LoansAreHeld'
  <2>1. \A q \in Pair : legalHolds'[q] = legalHolds[q] /\ erasures[q].holds \subseteq erasures'[q].holds
    BY <1>3, <1>4, <1>5 DEF Erase!AllHolds
  <2> QED
    BY <1>1, <1>2, <1>7, <2>1 DEF LoansAreHeld, EraseInv
<1>11. ErasedAreDone'
  BY <1>1, <1>2, <1>4 DEF ErasedAreDone, EraseInv
<1>12. Erase!ErasedOnlyWhenFree'
  BY <1>1, <1>2 DEF Erase!ErasedOnlyWhenFree, EraseInv
<1> QED
  BY <1>6, <1>8, <1>9, <1>10, <1>11, <1>12 DEF EraseInv

LEMMA EraseLift ==
  ASSUME ComponentAssumption, EraseInv, NEW r \in Pair, NEW h \in Erase!AllHolds,
         Erase!LiftLegalHold(r, h)
  PROVE  EraseInv'
<1>1. /\ Erase!Exists(r) /\ legalHolds' = [legalHolds EXCEPT ![h].lifted = TRUE]
      /\ UNCHANGED <<day, activeLoan, erased, circumstances>>
  BY DEF Erase!LiftLegalHold
<1>2. PICK s \in {"pending", erasures[r].status} : erasures' = [erasures EXCEPT ![r].status = s]
  BY DEF Erase!LiftLegalHold, EraseInv, ErasureTypes
<1>3. /\ erasureCause \subseteq erasureCause'
      /\ erasures[r].status = "completed" => "reopened" \in erasureCause'
      /\ h \in Pair => "loan not held" \in erasureCause'
  BY DEF Erase!LiftLegalHold, Erase!Reopening
<1>4. /\ erasures'[r].status = s
      /\ \A q \in Pair : erasures'[q].holds = erasures[q].holds
      /\ \A q \in Pair : q # r => erasures'[q].status = erasures[q].status
      /\ \A q \in Pair : erasures[q].holds \subseteq Erase!AllHolds
  BY <1>2 DEF EraseInv, ErasureTypes
<1>5. /\ legalHolds'[h].lifted
      /\ \A g \in Erase!AllHolds : g # h => legalHolds'[g] = legalHolds[g]
  BY <1>1 DEF EraseInv, ErasureTypes
<1>6. ErasureTypes'
  BY <1>1, <1>2, ZenonT(60) DEF EraseInv, ErasureTypes
<1>7. \A q \in Pair : Erase!Exists(q)' <=> Erase!Exists(q)
  BY <1>1, <1>4 DEF Erase!Exists
<1>8. HoldsInOrder'
  <2>1. \A g \in Erase!AllHolds : Erase!IsHoldActive(g)' => Erase!IsHoldActive(g)
    BY <1>1, <1>5 DEF Erase!IsHoldActive
  <2> QED
    BY <1>4, <1>7, <2>1 DEF HoldsInOrder, EraseInv
<1>9. TwoAreNoted'
  BY <1>3, <1>7 DEF TwoAreNoted, EraseInv
<1>10. LoansAreHeld'
  <2>1. h \notin Pair => \A q \in Pair : legalHolds'[q] = legalHolds[q]
    BY <1>5 DEF Erase!AllHolds
  <2> QED
    BY <1>1, <1>3, <1>4, <1>7, <2>1 DEF LoansAreHeld, EraseInv
<1>11. ErasedAreDone'
  BY <1>1, <1>3, <1>4 DEF ErasedAreDone, EraseInv
<1>12. Erase!ErasedOnlyWhenFree'
  BY <1>1, <1>3 DEF Erase!ErasedOnlyWhenFree, EraseInv
<1> QED
  BY <1>6, <1>8, <1>9, <1>10, <1>11, <1>12 DEF EraseInv

LEMMA EraseDecide ==
  ASSUME ComponentAssumption, EraseInv, NEW r \in Pair, NEW approve \in BOOLEAN,
         Erase!DecideErasureRequest(r, approve)
  PROVE  EraseInv'
<1>1. PICK s \in {"approved", "rejected"} :
        /\ erasures' = [erasures EXCEPT ![r].status = s]
        /\ s = "approved" => \A h \in erasures[r].holds : ~Erase!IsHoldActive(h)
  BY DEF Erase!DecideErasureRequest, Erase!ActiveHoldsFor
<1>2. /\ Erase!Exists(r)
      /\ UNCHANGED <<day, activeLoan, legalHolds, erased, circumstances>>
  BY DEF Erase!DecideErasureRequest
<1>3. /\ erasureCause \subseteq erasureCause'
      /\ erasures[r].status = "completed" => "reopened" \in erasureCause'
  BY DEF Erase!DecideErasureRequest, Erase!Reopening
<1>4. /\ erasures'[r].status = s
      /\ \A q \in Pair : erasures'[q].holds = erasures[q].holds
      /\ \A q \in Pair : q # r => erasures'[q].status = erasures[q].status
  BY <1>1 DEF EraseInv, ErasureTypes
<1>5. ErasureTypes'
  BY <1>1, <1>2 DEF EraseInv, ErasureTypes
<1>6. \A q \in Pair : Erase!Exists(q)' <=> Erase!Exists(q)
  BY <1>2, <1>4 DEF Erase!Exists
<1>7. HoldsInOrder'
  BY <1>1, <1>2, <1>4, <1>6 DEF HoldsInOrder, Erase!IsHoldActive, EraseInv
<1>8. TwoAreNoted'
  BY <1>3, <1>6 DEF TwoAreNoted, EraseInv
<1>9. LoansAreHeld'
  BY <1>2, <1>3, <1>4, <1>6 DEF LoansAreHeld, EraseInv
<1>10. ErasedAreDone'
  BY <1>2, <1>3, <1>4 DEF ErasedAreDone, EraseInv
<1>11. Erase!ErasedOnlyWhenFree'
  BY <1>2, <1>3 DEF Erase!ErasedOnlyWhenFree, EraseInv
<1> QED
  BY <1>5, <1>7, <1>8, <1>9, <1>10, <1>11 DEF EraseInv

LEMMA EraseExecute ==
  ASSUME ComponentAssumption, EraseInv, NEW r \in Pair, Erase!ExecuteErasure(r)
  PROVE  EraseInv'
<1>1. /\ erasures[r].status = "approved"
      /\ erasures' = [erasures EXCEPT ![r].status = "completed"]
      /\ erased' = erased \cup {r}
      /\ UNCHANGED <<day, activeLoan, legalHolds, erasureCause>>
  BY DEF Erase!ExecuteErasure
<1>2. /\ erasures'[r].status = "completed"
      /\ \A q \in Pair : erasures'[q].holds = erasures[q].holds
      /\ \A q \in Pair : q # r => erasures'[q].status = erasures[q].status
  BY <1>1 DEF EraseInv, ErasureTypes
<1>3. ErasureTypes'
  BY <1>1 DEF EraseInv, ErasureTypes
<1>4. Erase!Exists(r) /\ \A q \in Pair : Erase!Exists(q)' <=> Erase!Exists(q)
  BY <1>1, <1>2 DEF Erase!Exists
<1>5. HoldsInOrder'
  BY <1>1, <1>2, <1>4 DEF HoldsInOrder, Erase!IsHoldActive, EraseInv
<1>6. TwoAreNoted'
  BY <1>1, <1>4 DEF TwoAreNoted, EraseInv
<1>7. LoansAreHeld'
  BY <1>1, <1>2, <1>4 DEF LoansAreHeld, EraseInv
<1>8. ErasedAreDone'
  BY <1>1, <1>2 DEF ErasedAreDone, EraseInv
<1>9. Erase!ErasedOnlyWhenFree'
  <2>1. Erase!ActiveHoldsFor(r) = {}
    BY <1>1 DEF Erase!ActiveHoldsFor, HoldsInOrder, EraseInv
  <2>2. ASSUME NEW q \in Pair, q # r, Erase!ActiveHoldsFor(q) # {}
        PROVE  "two requests" \in erasureCause
    <3>1. Erase!Exists(q)
      BY <2>2 DEF Erase!ActiveHoldsFor, HoldsInOrder, EraseInv
    <3> QED
      BY <1>4, <2>2, <3>1 DEF TwoAreNoted, EraseInv
  <2>3. legalHolds[r] = Erase!NoHold => Erase!IsHoldActive(r)
    <3> SUFFICES ASSUME legalHolds[r] = Erase!NoHold
                 PROVE  ~legalHolds[r].lifted /\ legalHolds[r].expires > day
      BY Zenon DEF Erase!IsHoldActive
    <3>1. ~legalHolds[r].lifted /\ legalHolds[r].expires = LastDay + 1
      BY DEF Erase!NoHold, Erase!Never
    <3>2. day \in 0..LastDay /\ LastDay \in Nat
      BY Zenon DEF EraseInv, ErasureTypes, ComponentAssumption
    <3> QED
      BY <3>1, <3>2
  <2>4. activeLoan => "loan not held" \in erasureCause
    <3> SUFFICES ASSUME activeLoan, "loan not held" \notin erasureCause PROVE FALSE
      OBVIOUS
    <3>1. legalHolds[r] = Erase!NoHold /\ r \in erasures[r].holds
      BY <1>4 DEF LoansAreHeld, EraseInv
    <3>2. Erase!IsHoldActive(r)
      BY <2>3, <3>1, Zenon
    <3> QED
      BY <2>1, <3>1, <3>2, Zenon DEF Erase!ActiveHoldsFor
  <2>5. r \in erased => "reopened" \in erasureCause
    BY <1>1 DEF ErasedAreDone, EraseInv
  <2>6. circumstances' \subseteq circumstances
          \cup (IF \E q \in Pair \ {r} : Erase!ActiveHoldsFor(q) # {}
                THEN {"held elsewhere"} ELSE {})
          \cup (IF activeLoan THEN {"indebted"} ELSE {})
          \cup (IF r \in erased THEN {"erased before"} ELSE {})
    BY <2>1 DEF Erase!ExecuteErasure
  <2> QED
    BY <1>1, <2>2, <2>4, <2>5, <2>6 DEF Erase!ErasedOnlyWhenFree, EraseInv
<1> QED
  BY <1>3, <1>5, <1>6, <1>7, <1>8, <1>9 DEF EraseInv

LEMMA EraseStep ==
  ASSUME ComponentAssumption, EraseInv, [Erase!Next]_erasurePart
  PROVE  EraseInv'
<1> DEFINE Same == UNCHANGED <<erasures, legalHolds, erased, circumstances>>
<1>1. ASSUME Same, erasureCause \subseteq erasureCause', ErasureTypes', day' >= day,
             "loan not held" \notin erasureCause' =>
               (activeLoan' => activeLoan \/ \A r \in Pair : ~Erase!Exists(r))
      PROVE  EraseInv'
  <2>1. \A r \in Pair : Erase!Exists(r)' <=> Erase!Exists(r)
    BY <1>1 DEF Erase!Exists
  <2>2. HoldsInOrder'
    <3>1. \A r \in Pair : erasures[r].holds \subseteq Erase!AllHolds
      BY DEF EraseInv, ErasureTypes
    <3>2. \A h \in Erase!AllHolds : Erase!IsHoldActive(h)' => Erase!IsHoldActive(h)
      <4>0. day \in 0..LastDay /\ day' \in 0..LastDay
        BY <1>1, Zenon DEF EraseInv, ErasureTypes
      <4>1. day \in Int /\ day' \in Int /\ day' >= day
        <5>1. day' >= day
          BY <1>1, Zenon
        <5> QED
          BY <4>0, <5>1
      <4>2. \A h \in Erase!AllHolds : legalHolds[h].expires \in Int
        BY DEF EraseInv, ErasureTypes, ComponentAssumption, Erase!Never
      <4>3. legalHolds' = legalHolds
        BY <1>1
      <4> QED
        BY <4>1, <4>2, <4>3 DEF Erase!IsHoldActive
    <3> QED
      BY <1>1, <2>1, <3>1, <3>2 DEF HoldsInOrder, EraseInv
  <2>3. TwoAreNoted'
    BY <1>1, <2>1 DEF TwoAreNoted, EraseInv
  <2>4. LoansAreHeld'
    BY <1>1, <2>1 DEF LoansAreHeld, EraseInv
  <2>5. ErasedAreDone'
    BY <1>1 DEF ErasedAreDone, EraseInv
  <2>6. Erase!ErasedOnlyWhenFree'
    BY <1>1 DEF Erase!ErasedOnlyWhenFree, EraseInv
  <2> QED
    BY <1>1, <2>2, <2>3, <2>4, <2>5, <2>6 DEF EraseInv
<1>2. CASE Erase!LoanChanges
  <2>1. ErasureTypes' /\ day' >= day
    <3>1. activeLoan' \in BOOLEAN
      BY <1>2, Zenon DEF Erase!LoanChanges
    <3>2. UNCHANGED <<day, erasures, legalHolds>>
      BY <1>2 DEF Erase!LoanChanges
    <3>3. ErasureTypes'
      <4>1. ErasureTypes
        BY DEF EraseInv
      <4> QED
        BY <3>1, <3>2, <4>1 DEF ErasureTypes
    <3>4. day \in Int
      BY DEF EraseInv, ErasureTypes
    <3> QED
      BY <3>2, <3>3, <3>4
  <2> QED
    BY <1>1, <1>2, <2>1 DEF Erase!LoanChanges
<1>3. CASE Erase!Tomorrow
  <2>1. ErasureTypes' /\ day' >= day
    BY <1>3 DEF Erase!Tomorrow, EraseInv, ErasureTypes, ComponentAssumption
  <2> QED
    BY <1>1, <1>3, <2>1 DEF Erase!Tomorrow
<1>4. CASE UNCHANGED erasurePart
  <2>1. ErasureTypes' /\ day' >= day
    BY <1>4 DEF erasurePart, EraseInv, ErasureTypes
  <2> QED
    BY <1>1, <1>4, <2>1 DEF erasurePart
<1> QED
  BY <1>2, <1>3, <1>4, EraseSubmit, EraseStore, EraseAttach, EraseLift, EraseDecide,
     EraseExecute DEF Erase!Next

\* Personal data is scrubbed only while no hold or loan requires it, for any number
\* of requests and holds of a wallet, in every order of holds, decisions and
\* executions (erasureWorkflow.ts).
THEOREM ErasureTheorem == Spec => []ErasedOnlyWhenFree
<1> DEFINE Inv == part = "erasure" => EraseInv
<1>1. Init => Inv
  BY EraseStart, ComponentAssumption, Zenon DEF Init
<1>2. Inv /\ [Next]_allVars => Inv'
  <2> SUFFICES ASSUME Inv, [Next]_allVars, part' = "erasure" PROVE EraseInv'
    BY Zenon
  <2>1. part = "erasure" /\ [Erase!Next]_erasurePart
    BY StepsOfServices, Zenon
  <2> QED
    BY <2>1, EraseStep, ComponentAssumption
<1>3. Inv => ErasedOnlyWhenFree
  BY Zenon DEF ErasedOnlyWhenFree, EraseInv
<1> QED
  BY <1>1, <1>2, <1>3, PTL DEF Spec

-----------------------------------------------------------------------------
(* The graceful shutdown: what was waited for uses nothing that is closed. *)

StopTypes ==
  /\ Stop!TypeOK
  /\ finished \in [Queued -> Nat] /\ closed \in Nat

\* The phases and the drains: nothing is drained while serving, and all is before
\* anything is closed.
DrainsFirst ==
  /\ phase = "serving" => drained = {}
  /\ phase = "closing" \/ closed > 0 => "http" \in drained /\ "workers" \in drained

\* A drain that has resolved in time has left nothing running.
DrainsEmpty ==
  /\ "http" \in drained /\ "http" \notin forced =>
       \A t \in Served : task[t] = "running" => t \in hungUp
  /\ "workers" \in drained /\ "workers" \notin forced =>
       \A t \in Queued : task[t] # "running"

\* Before a worker drain has timed out a job is run by this process alone, or by
\* another replica after this one has exited.
JobOf(j) ==
  \/ task[j] = "idle" /\ queue[j] = "waiting" /\ finished[j] = 0
  \/ task[j] = "running" /\ queue[j] = "active" /\ finished[j] = 0
  \/ task[j] = "running" /\ queue[j] = "completed" /\ finished[j] = 1 /\ phase = "exited"
  \/ task[j] = "done" /\ queue[j] = "completed" /\ finished[j] = 1

JobsRunOnce ==
  /\ "workers" \notin forced => \A j \in Queued : JobOf(j)
  /\ \A j \in Queued : queue[j] = "completed" => finished[j] > 0

StopInv == StopTypes /\ DrainsFirst /\ DrainsEmpty /\ JobsRunOnce

LEMMA StopStart == Stop!Init => StopInv
BY DEF Stop!Init, Stop!TypeOK, Stop!Tasks, Stop!Resources, StopInv, StopTypes, DrainsFirst,
       DrainsEmpty, JobsRunOnce, JobOf

\* A task of this process starts: a request, a job, a run or a promise.
LEMMA StopStartTask ==
  ASSUME ComponentAssumption, StopInv, NEW t \in Stop!Tasks,
         Stop!StartTask(t) \/ Stop!StartFloating(t)
  PROVE  StopInv'
<1>1. /\ task[t] = "idle" /\ task' = [task EXCEPT ![t] = "running"]
      /\ UNCHANGED <<phase, elapsed, closed, drained, forced, hungUp, finished>>
  BY DEF Stop!StartTask, Stop!StartFloating
<1>2. /\ t \in Served => "http" \notin drained
      /\ t \in Queued => drained = {} /\ queue[t] = "waiting"
      /\ queue' = IF t \in Queued THEN [queue EXCEPT ![t] = "active"] ELSE queue
  BY DEF Stop!StartTask, Stop!StartFloating, StopInv, DrainsFirst, ComponentAssumption
<1>3. \A u \in Stop!Tasks : task'[u] = IF u = t THEN "running" ELSE task[u]
  BY <1>1 DEF StopInv, StopTypes, Stop!TypeOK
<1>4. \A j \in Queued : queue'[j] = IF j = t THEN "active" ELSE queue[j]
  BY <1>2 DEF StopInv, StopTypes, Stop!TypeOK
<1>5. StopTypes'
  BY <1>1, <1>2 DEF StopInv, StopTypes, Stop!TypeOK
<1>6. DrainsFirst'
  BY <1>1 DEF StopInv, DrainsFirst
<1>7. DrainsEmpty'
  BY <1>1, <1>2, <1>3 DEF StopInv, DrainsEmpty, Stop!Tasks
<1>8. JobsRunOnce'
  BY <1>1, <1>2, <1>3, <1>4 DEF StopInv, JobsRunOnce, JobOf, Stop!Tasks
<1> QED
  BY <1>5, <1>6, <1>7, <1>8 DEF StopInv

LEMMA StopEndTask ==
  ASSUME ComponentAssumption, StopInv, NEW t \in Stop!Tasks, Stop!EndTask(t)
  PROVE  StopInv'
<1>1. /\ phase # "exited" /\ task[t] = "running" /\ task' = [task EXCEPT ![t] = "done"]
      /\ UNCHANGED <<phase, elapsed, closed, drained, forced, hungUp>>
  BY DEF Stop!EndTask
<1>2. CASE t \notin Queued
  <2>1. UNCHANGED <<queue, finished>>
    BY <1>2 DEF Stop!EndTask
  <2>2. \A u \in Stop!Tasks : task'[u] = IF u = t THEN "done" ELSE task[u]
    BY <1>1 DEF StopInv, StopTypes, Stop!TypeOK
  <2>3. StopTypes'
    BY <1>1, <2>1 DEF StopInv, StopTypes, Stop!TypeOK
  <2> QED
    BY <1>1, <1>2, <2>1, <2>2, <2>3 DEF StopInv, DrainsFirst, DrainsEmpty, JobsRunOnce,
       JobOf, Stop!Tasks
<1>3. CASE t \in Queued
  <2>1. /\ finished' = [finished EXCEPT ![t] = finished[t] + 1]
        /\ queue' = [queue EXCEPT ![t] = IF queue[t] = "active" THEN "completed" ELSE queue[t]]
    BY <1>3 DEF Stop!EndTask
  <2>2. \A u \in Stop!Tasks : task'[u] = IF u = t THEN "done" ELSE task[u]
    BY <1>1 DEF StopInv, StopTypes, Stop!TypeOK
  <2>3. \A j \in Queued :
          /\ finished'[j] = IF j = t THEN finished[j] + 1 ELSE finished[j]
          /\ queue'[j] = IF j = t /\ queue[j] = "active" THEN "completed" ELSE queue[j]
    BY <1>3, <2>1 DEF StopInv, StopTypes, Stop!TypeOK
  <2>4. StopTypes'
    BY <1>1, <1>3, <2>1 DEF StopInv, StopTypes, Stop!TypeOK
  <2>5. DrainsFirst'
    BY <1>1 DEF StopInv, DrainsFirst
  <2>6. DrainsEmpty'
    BY <1>1, <2>2 DEF StopInv, DrainsEmpty, Stop!Tasks
  <2>7. \A j \in Queued : finished[j] \in Nat
    BY DEF StopInv, StopTypes
  <2>8. JobsRunOnce'
    BY <1>1, <2>2, <2>3, <2>7 DEF StopInv, JobsRunOnce, JobOf, Stop!Tasks
  <2> QED
    BY <2>4, <2>5, <2>6, <2>8 DEF StopInv
<1> QED
  BY <1>2, <1>3

LEMMA StopHangUp ==
  ASSUME StopInv, NEW t \in Stop!Tasks, Stop!HangUp(t)
  PROVE  StopInv'
<1>1. /\ hungUp' = hungUp \cup {t} /\ t \in Served
      /\ UNCHANGED <<phase, elapsed, closed, task, drained, forced, queue, finished>>
  BY DEF Stop!HangUp
<1>2. StopTypes'
  BY <1>1 DEF StopInv, StopTypes, Stop!TypeOK
<1> QED
  BY <1>1, <1>2 DEF StopInv, DrainsFirst, DrainsEmpty, JobsRunOnce, JobOf

LEMMA StopOtherReplica ==
  ASSUME StopInv, NEW j \in Queued, Stop!OtherReplica(j)
  PROVE  StopInv'
<1>1. /\ \/ queue[j] = "waiting" /\ task[j] # "idle"
         \/ queue[j] = "active" /\ phase = "exited"
      /\ queue' = [queue EXCEPT ![j] = "completed"]
      /\ finished' = [finished EXCEPT ![j] = finished[j] + 1]
      /\ UNCHANGED <<phase, elapsed, closed, task, drained, forced, hungUp>>
  BY DEF Stop!OtherReplica
<1>2. \A i \in Queued :
        /\ finished'[i] = IF i = j THEN finished[i] + 1 ELSE finished[i]
        /\ queue'[i] = IF i = j THEN "completed" ELSE queue[i]
        /\ finished[i] \in Nat
  BY <1>1 DEF StopInv, StopTypes, Stop!TypeOK
<1>3. StopTypes'
  BY <1>1 DEF StopInv, StopTypes, Stop!TypeOK
<1>4. JobsRunOnce'
  BY <1>1, <1>2 DEF StopInv, JobsRunOnce, JobOf
<1> QED
  BY <1>1, <1>3, <1>4 DEF StopInv, DrainsFirst, DrainsEmpty

\* The drains resolve, in time or by their timeouts.
LEMMA StopDrains ==
  ASSUME StopInv, Stop!DrainHttpServer \/ Stop!DrainWorkers
  PROVE  StopInv'
<1>1. CASE Stop!DrainHttpServer
  <2>1. /\ phase = "draining" /\ drained' = drained \cup {"http"}
        /\ forced' \in {forced, forced \cup {"http"}}
        /\ "http" \notin forced' => \A t \in Served : task[t] = "running" => t \in hungUp
        /\ UNCHANGED <<phase, elapsed, closed, task, hungUp, queue, finished>>
    BY <1>1 DEF Stop!DrainHttpServer, Stop!Connected, Stop!Running
  <2>2. StopTypes'
    BY <2>1 DEF StopInv, StopTypes, Stop!TypeOK
  <2> QED
    BY <2>1, <2>2 DEF StopInv, DrainsFirst, DrainsEmpty, JobsRunOnce, JobOf
<1>2. CASE Stop!DrainWorkers
  <2>1. /\ phase = "draining" /\ drained' = drained \cup {"workers"}
        /\ forced' \in {forced, forced \cup {"workers"}}
        /\ "workers" \notin forced' => \A t \in Queued : task[t] # "running"
        /\ UNCHANGED <<phase, elapsed, closed, task, hungUp, finished>>
    BY <1>2 DEF Stop!DrainWorkers, Stop!Running
  <2>2. PICK moved \in SUBSET Stop!Running(Queued) :
          queue' = [j \in Queued |-> IF j \in moved THEN "waiting" ELSE queue[j]]
    BY <1>2 DEF Stop!DrainWorkers
  <2>3. StopTypes'
    BY <2>1, <2>2 DEF StopInv, StopTypes, Stop!TypeOK
  <2>4. \A j \in Queued : queue'[j] = queue[j] \/ (queue'[j] = "waiting" /\ task[j] = "running")
    BY <2>2 DEF Stop!Running
  <2>5. JobsRunOnce'
    <3>1. "workers" \notin forced' => "workers" \notin forced /\ \A j \in Queued : queue'[j] = queue[j]
      BY <2>1, <2>4
    <3> QED
      BY <2>1, <2>4, <3>1 DEF StopInv, JobsRunOnce, JobOf
  <2> QED
    BY <2>1, <2>3, <2>5 DEF StopInv, DrainsFirst, DrainsEmpty
<1> QED
  BY <1>1, <1>2

\* The sequence of run(): signal, timeouts, closing, exit.
LEMMA StopSequence ==
  ASSUME StopInv,
         \/ Stop!Signal \/ Stop!TimeoutsElapse \/ Stop!StartClosing
         \/ Stop!CloseResource \/ Stop!Exit
  PROVE  StopInv'
<1>1. /\ UNCHANGED <<task, drained, forced, hungUp, queue, finished>>
      /\ phase = "exited" => phase' = "exited"
      /\ phase' \in {"serving", "draining", "closing", "exited"}
      /\ phase' = "serving" => phase = "serving"
      /\ phase' = "closing" => phase = "closing" \/ drained = {"http", "workers"}
      /\ closed' = closed \/ (phase = "closing" /\ closed < 5 /\ closed' = closed + 1)
  BY DEF Stop!Signal, Stop!TimeoutsElapse, Stop!StartClosing, Stop!CloseResource, Stop!Exit,
         Stop!Resources, StopInv, StopTypes, Stop!TypeOK
<1>2. StopTypes'
  BY <1>1 DEF StopInv, StopTypes, Stop!TypeOK, Stop!Resources
<1>3. DrainsFirst'
  BY <1>1 DEF StopInv, DrainsFirst, StopTypes
<1> QED
  BY <1>1, <1>2, <1>3 DEF StopInv, DrainsEmpty, JobsRunOnce, JobOf

LEMMA StopStep ==
  ASSUME ComponentAssumption, StopInv, [Stop!Next]_stopPart
  PROVE  StopInv'
<1>1. CASE UNCHANGED stopPart
  BY <1>1 DEF stopPart, StopInv, StopTypes, Stop!TypeOK, DrainsFirst, DrainsEmpty,
              JobsRunOnce, JobOf
<1>2. CASE Stop!Next
  BY <1>2, StopStartTask, StopEndTask, StopHangUp, StopOtherReplica, StopDrains, StopSequence,
     Zenon DEF Stop!Next
<1> QED
  BY <1>1, <1>2

\* When the first resource is closed, a request or a job still runs only if its
\* drain timed out (or its client has gone), and a job runs to its end twice only
\* after such a timeout, for any sets of requests, jobs, runs and promises
\* (gracefulShutdown.ts).
THEOREM ShutdownTheorem == Spec => []DrainedBeforeClosed
<1> DEFINE Inv == part = "stop" => StopInv
<1>1. Init => Inv
  BY StopStart, Zenon DEF Init
<1>2. Inv /\ [Next]_allVars => Inv'
  <2> SUFFICES ASSUME Inv, [Next]_allVars, part' = "stop" PROVE StopInv'
    BY Zenon
  <2>1. part = "stop" /\ [Stop!Next]_stopPart
    BY StepsOfServices, Zenon
  <2> QED
    BY <2>1, StopStep, ComponentAssumption
<1>3. StopInv => Stop!DrainedBeforeClosed
  <2> SUFFICES ASSUME StopInv PROVE Stop!DrainedBeforeClosed
    OBVIOUS
  <2>1. ASSUME closed > 0, Stop!Connected # {} PROVE "http" \in forced
    BY <2>1 DEF StopInv, DrainsFirst, DrainsEmpty, Stop!Connected, Stop!Running
  <2>2. ASSUME closed > 0, Stop!Running(Queued) # {} PROVE "workers" \in forced
    BY <2>2 DEF StopInv, DrainsFirst, DrainsEmpty, Stop!Running
  <2>3. ASSUME NEW j \in Queued, finished[j] > 1 PROVE "workers" \in forced
    BY <2>3 DEF StopInv, JobsRunOnce, JobOf
  <2>4. \A j \in Queued : queue[j] = "completed" => finished[j] > 0
    BY DEF StopInv, JobsRunOnce
  <2> QED
    BY <2>1, <2>2, <2>3, <2>4, Zenon DEF Stop!DrainedBeforeClosed
<1>4. Inv => DrainedBeforeClosed
  BY <1>3, Zenon DEF DrainedBeforeClosed
<1> QED
  BY <1>1, <1>2, <1>4, PTL DEF Spec

-----------------------------------------------------------------------------
(* Webhooks: the failure streak the sweep goes by.                         *)

HookSteps == {"none", "queued", "delivered", "refused", "success", "dlq",
              "count", "counted", "gone"}
HookJob == [step : HookSteps, made : Int, at : Int, read : Int]
HookSubscription == [status : {"active", "paused", "revoked"}, fails : Nat, since : Int]

HookTypes ==
  /\ hookClock \in Int
  /\ subscription \in HookSubscription
  /\ jobs \in [Pair -> HookJob]
  /\ streak \in [counted : SUBSET Pair, lastGood : Int]
  /\ IsFiniteSet(streak.counted)

\* A 2xx answer that is on its way to the counters.
Unrecorded == {"delivered", "success"}

\* What the counters do not reflect.
Uncounted == {"outcome not recorded", "row not written", "counted again",
              "streak read before", "older than a success"}

\* The counter counts the dispatches; and once the 2xx answers are recorded, no
\* failure is older than the last of them: the recording of the last one forgets
\* when the streak began.
CountersTrue ==
  /\ subscription.fails = Cardinality(streak.counted)
  /\ (\A j \in Pair : jobs[j].step \notin Unrecorded) =>
       (subscription.since # Hook!Never => streak.lastGood <= subscription.since)

\* An operator's revocation is there as long as the sweep does not overwrite it.
RevokedStays ==
  "sweep overtaken" \notin hookCause => (order = "revoked" => subscription.status = "revoked")

HookInv ==
  /\ HookTypes
  /\ hookCause \cap Uncounted = {} => CountersTrue
  /\ RevokedStays

LEMMA HookStart == Hook!Init => HookInv
BY FS_EmptySet DEF Hook!Init, Hook!NewJob, Hook!Never, HookInv, HookTypes, HookSubscription,
   HookJob, HookSteps, CountersTrue, RevokedStays

\* One job changes.
LEMMA HookJobMoves ==
  ASSUME HookTypes, NEW j \in Pair, NEW b \in HookJob, jobs' = [jobs EXCEPT ![j] = b]
  PROVE  /\ jobs' \in [Pair -> HookJob]
         /\ jobs'[j] = b /\ \A k \in Pair \ {j} : jobs'[k] = jobs[k]
BY DEF HookTypes

\* The changes of a job that the code writes field by field.
LEMMA HookJobStep ==
  ASSUME HookTypes, NEW j \in Pair, NEW s \in HookSteps,
         jobs' = [jobs EXCEPT ![j].step = s]
  PROVE  \E b \in HookJob : b.step = s /\ jobs' = [jobs EXCEPT ![j] = b]
<1>1. jobs[j] \in HookJob /\ jobs \in [Pair -> HookJob]
  BY DEF HookTypes
<1> DEFINE b == [jobs[j] EXCEPT !.step = s]
<1>2. b \in HookJob /\ b.step = s
  BY <1>1 DEF HookJob
<1>3. jobs' = [jobs EXCEPT ![j] = b]
  BY <1>1
<1> QED
  BY <1>2, <1>3, Zenon

LEMMA HookJobAt ==
  ASSUME HookTypes, NEW j \in Pair, NEW s \in HookSteps, NEW n \in Int,
         jobs' = [jobs EXCEPT ![j].step = s, ![j].at = n]
  PROVE  \E b \in HookJob : b.step = s /\ jobs' = [jobs EXCEPT ![j] = b]
<1>1. jobs[j] \in HookJob /\ jobs \in [Pair -> HookJob]
  BY DEF HookTypes
<1> DEFINE b == [jobs[j] EXCEPT !.step = s, !.at = n]
<1>2. b \in HookJob /\ b.step = s
  BY <1>1 DEF HookJob
<1>3. jobs' = [jobs EXCEPT ![j] = b]
  BY <1>1
<1> QED
  BY <1>2, <1>3, Zenon

LEMMA HookJobRead ==
  ASSUME HookTypes, NEW j \in Pair, NEW s \in HookSteps, NEW n \in Int,
         jobs' = [jobs EXCEPT ![j].step = s, ![j].read = n]
  PROVE  \E b \in HookJob : b.step = s /\ jobs' = [jobs EXCEPT ![j] = b]
<1>1. jobs[j] \in HookJob /\ jobs \in [Pair -> HookJob]
  BY DEF HookTypes
<1> DEFINE b == [jobs[j] EXCEPT !.step = s, !.read = n]
<1>2. b \in HookJob /\ b.step = s
  BY <1>1 DEF HookJob
<1>3. jobs' = [jobs EXCEPT ![j] = b]
  BY <1>1
<1> QED
  BY <1>2, <1>3, Zenon

\* The changes of the row that the code writes field by field.
LEMMA HookRowFields ==
  ASSUME subscription \in HookSubscription, NEW n \in Nat, NEW m \in Int,
         subscription' = [subscription EXCEPT !.fails = n, !.since = m]
  PROVE  /\ subscription' \in HookSubscription /\ subscription'.fails = n
         /\ subscription'.since = m /\ subscription'.status = subscription.status
BY DEF HookSubscription

\* A 2xx answer that was on its way is so when the job is b, or its loss is noted.
StillOnItsWay(j, b) ==
  jobs[j].step \in Unrecorded => b.step \in Unrecorded \/ hookCause' \cap Uncounted # {}

\* A job goes on and the counters stay: a 2xx answer stays on its way, or its loss
\* is noted.
LEMMA HookGoesOn ==
  ASSUME HookInv, NEW j \in Pair, NEW b \in HookJob, jobs' = [jobs EXCEPT ![j] = b],
         UNCHANGED <<hookClock, subscription, streak, order>>, hookCause \subseteq hookCause',
         StillOnItsWay(j, b)
  PROVE  HookInv'
<1>1. HookTypes' /\ jobs'[j] = b /\ \A k \in Pair \ {j} : jobs'[k] = jobs[k]
  BY HookJobMoves DEF HookInv, HookTypes
<1>2. ASSUME hookCause' \cap Uncounted = {} PROVE CountersTrue'
  <2>1. CountersTrue
    BY <1>2 DEF HookInv
  <2>2. (\A k \in Pair : jobs'[k].step \notin Unrecorded) =>
          \A k \in Pair : jobs[k].step \notin Unrecorded
    BY <1>1, <1>2 DEF StillOnItsWay
  <2> QED
    BY <2>1, <2>2 DEF CountersTrue
<1>3. RevokedStays'
  BY DEF HookInv, RevokedStays
<1> QED
  BY <1>1, <1>2, <1>3 DEF HookInv

\* The queue's record of a job whose processor threw.
LEMMA HookThrown ==
  ASSUME HookTypes, NEW j \in Pair
  PROVE  Hook!Thrown(j) \in HookJob
<1>1. jobs[j] \in HookJob
  BY DEF HookTypes
<1>2. [jobs[j] EXCEPT !.step = "gone"] \in HookJob
  BY <1>1 DEF HookJob, HookSteps
<1>3. PICK n \in Int : n = jobs[j].made + 1
  BY <1>1 DEF HookJob
<1>4. [Hook!NewJob EXCEPT !.step = "queued", !.made = n] \in HookJob
  <2>1. Hook!NewJob \in HookJob
    BY DEF HookJob, HookSteps, Hook!NewJob, Hook!Never
  <2> QED
    BY <2>1 DEF HookJob, HookSteps
<1> QED
  BY <1>2, <1>3, <1>4 DEF Hook!Thrown

LEMMA HookQuiet ==
  ASSUME HookInv, NEW j \in Pair,
         \/ Hook!DispatchEvent(j) \/ Hook!EnqueueFails(j) \/ Hook!AttemptPost(j, FALSE)
         \/ Hook!RecordDelivery(j) \/ Hook!RecordDeliveryFails(j) \/ Hook!ReadStreak(j)
         \/ Hook!EndOfJob(j) \/ Hook!RecordOutcomeFails(j) \/ Hook!Stalled(j)
         \/ Hook!DecryptFails(j)
  PROVE  HookInv'
<1>0. HookTypes /\ jobs[j] \in HookJob
  BY DEF HookInv, HookTypes
<1>1. UNCHANGED <<hookClock, subscription, streak, order>> /\ hookCause \subseteq hookCause'
  BY DEF Hook!DispatchEvent, Hook!EnqueueFails, Hook!AttemptPost, Hook!RecordDelivery,
     Hook!RecordDeliveryFails, Hook!ReadStreak, Hook!EndOfJob, Hook!RecordOutcomeFails,
     Hook!Stalled, Hook!DecryptFails, Hook!Fault
<1>2. \E b \in HookJob : jobs' = [jobs EXCEPT ![j] = b] /\ StillOnItsWay(j, b)
  <2>1. CASE \/ Hook!DispatchEvent(j) \/ Hook!EnqueueFails(j) \/ Hook!AttemptPost(j, FALSE)
             \/ Hook!ReadStreak(j) \/ Hook!EndOfJob(j)
    <3>0. hookClock \in Int /\ subscription.since \in Int
      BY <1>0 DEF HookTypes, HookSubscription
    <3>1. \E b \in HookJob : jobs' = [jobs EXCEPT ![j] = b]
      <4>1. CASE Hook!DispatchEvent(j) \/ Hook!EnqueueFails(j) \/ Hook!EndOfJob(j)
        <5>1. \E s \in HookSteps : jobs' = [jobs EXCEPT ![j].step = s]
          BY <4>1 DEF Hook!DispatchEvent, Hook!EnqueueFails, Hook!EndOfJob, Hook!Step, HookSteps
        <5> QED
          BY <1>0, <5>1, HookJobStep, Zenon
      <4>2. CASE Hook!AttemptPost(j, FALSE)
        <5>1. jobs' = [jobs EXCEPT ![j].step = "refused", ![j].at = hookClock]
          BY <4>2, Zenon DEF Hook!AttemptPost
        <5>2. "refused" \in HookSteps
          BY DEF HookSteps
        <5> QED
          BY <1>0, <3>0, <5>1, <5>2, HookJobAt, Zenon
      <4>3. CASE Hook!ReadStreak(j)
        <5>1. jobs' = [jobs EXCEPT ![j].step = "count", ![j].read = subscription.since]
          BY <4>3 DEF Hook!ReadStreak
        <5>2. "count" \in HookSteps
          BY DEF HookSteps
        <5> QED
          BY <1>0, <3>0, <5>1, <5>2, HookJobRead, Zenon
      <4> QED
        BY <2>1, <4>1, <4>2, <4>3
    <3>2. jobs[j].step \notin Unrecorded
      BY <2>1 DEF Hook!DispatchEvent, Hook!EnqueueFails, Hook!AttemptPost, Hook!ReadStreak,
         Hook!EndOfJob, Hook!Step, Unrecorded
    <3> QED
      BY <3>1, <3>2, Zenon DEF StillOnItsWay
  <2>2. CASE Hook!RecordDelivery(j)
    <3>1. CASE jobs[j].step = "delivered"
      <4>1. jobs' = [jobs EXCEPT ![j] = [jobs[j] EXCEPT !.step = "success"]]
        BY <1>0, <2>2, <3>1 DEF Hook!RecordDelivery, HookTypes
      <4>2. /\ [jobs[j] EXCEPT !.step = "success"] \in HookJob
            /\ [jobs[j] EXCEPT !.step = "success"].step = "success"
        BY <1>0 DEF HookJob, HookSteps
      <4>3. StillOnItsWay(j, [jobs[j] EXCEPT !.step = "success"])
        BY <4>2 DEF StillOnItsWay, Unrecorded
      <4> QED
        BY <4>1, <4>2, <4>3, Zenon
    <3>2. CASE jobs[j].step = "refused"
      <4>1. \/ jobs' = [jobs EXCEPT ![j] = Hook!Thrown(j)]
            \/ jobs' = [jobs EXCEPT ![j] = [jobs[j] EXCEPT !.step = "dlq"]]
        BY <1>0, <2>2, <3>2 DEF Hook!RecordDelivery, HookTypes
      <4>2. Hook!Thrown(j) \in HookJob /\ [jobs[j] EXCEPT !.step = "dlq"] \in HookJob
        <5>1. [jobs[j] EXCEPT !.step = "dlq"] \in HookJob
          BY <1>0 DEF HookJob, HookSteps
        <5> QED
          BY <1>0, <5>1, HookThrown, Zenon
      <4>3. ASSUME NEW b PROVE StillOnItsWay(j, b)
        BY <3>2 DEF StillOnItsWay, Unrecorded
      <4> QED
        BY <4>1, <4>2, <4>3, Zenon
    <3> QED
      BY <2>2, <3>1, <3>2 DEF Hook!RecordDelivery
  <2>3. CASE Hook!RecordDeliveryFails(j)
    BY <1>0, <2>3, HookThrown DEF Hook!RecordDeliveryFails, Hook!Fault, Uncounted, StillOnItsWay
  <2>6. CASE Hook!DecryptFails(j)
    BY <1>0, <2>6, HookThrown DEF Hook!DecryptFails, Unrecorded, StillOnItsWay
  <2>4. CASE Hook!RecordOutcomeFails(j)
    <3>1. /\ jobs' = [jobs EXCEPT ![j].step = "gone"]
          /\ "outcome not recorded" \in hookCause' /\ "gone" \in HookSteps
          /\ "outcome not recorded" \in Uncounted
      BY <2>4 DEF Hook!RecordOutcomeFails, Hook!Fault, HookSteps, Uncounted
    <3>2. PICK b \in HookJob : jobs' = [jobs EXCEPT ![j] = b]
      BY <1>0, <3>1, HookJobStep, Zenon
    <3>3. StillOnItsWay(j, b)
      BY <3>1 DEF StillOnItsWay
    <3> QED
      BY <3>2, <3>3
  <2>5. CASE Hook!Stalled(j)
    <3>1. PICK n \in Int : n = jobs[j].made
      BY <1>0 DEF HookJob
    <3>2. jobs' = [jobs EXCEPT ![j] = [Hook!NewJob EXCEPT !.step = "queued", !.made = n]]
      BY <2>5, <3>1, Zenon DEF Hook!Stalled
    <3>3. [Hook!NewJob EXCEPT !.step = "queued", !.made = n] \in HookJob
      <4>1. Hook!NewJob \in HookJob
        BY DEF HookJob, HookSteps, Hook!NewJob, Hook!Never
      <4> QED
        BY <4>1 DEF HookJob, HookSteps
    <3>4. /\ jobs[j].step \in Unrecorded => "outcome not recorded" \in hookCause'
          /\ "outcome not recorded" \in Uncounted
      BY <2>5 DEF Hook!Stalled, Hook!Fault, Unrecorded, Uncounted
    <3>5. ASSUME NEW b PROVE StillOnItsWay(j, b)
      BY <3>4 DEF StillOnItsWay
    <3> QED
      BY <3>2, <3>3, <3>5, Zenon
  <2> QED
    BY <2>1, <2>2, <2>3, <2>4, <2>5, <2>6
<1>3. PICK b \in HookJob : jobs' = [jobs EXCEPT ![j] = b] /\ StillOnItsWay(j, b)
  BY <1>2
<1> QED
  BY <1>1, <1>3, HookGoesOn, Zenon

\* A 2xx answer starts a time in which the streak may be out of date.
LEMMA HookAccepted ==
  ASSUME HookInv, NEW j \in Pair, Hook!AttemptPost(j, TRUE)
  PROVE  HookInv'
<1>1. PICK b \in HookJob : jobs' = [jobs EXCEPT ![j] = b] /\ b.step = "delivered"
  <2>1. jobs' = [jobs EXCEPT ![j].step = "delivered", ![j].at = hookClock]
    BY Zenon DEF Hook!AttemptPost
  <2>2. HookTypes /\ hookClock \in Int /\ "delivered" \in HookSteps
    BY DEF HookInv, HookTypes, HookSteps
  <2> QED
    BY <2>1, <2>2, HookJobAt, Zenon
<1>2. /\ UNCHANGED <<hookClock, subscription, order, hookCause>>
      /\ streak' = [streak EXCEPT !.lastGood = hookClock]
  BY DEF Hook!AttemptPost
<1>3. HookTypes' /\ streak'.counted = streak.counted /\ jobs'[j].step \in Unrecorded
  BY <1>1, <1>2, HookJobMoves DEF HookInv, HookTypes, Unrecorded
<1> QED
  BY <1>2, <1>3 DEF HookInv, CountersTrue, RevokedStays

\* Its recording clears the streak.
LEMMA HookRecorded ==
  ASSUME HookInv, NEW j \in Pair, Hook!RecordSuccess(j)
  PROVE  HookInv'
<1>1. PICK b \in HookJob : jobs' = [jobs EXCEPT ![j] = b]
  <2>1. jobs' = [jobs EXCEPT ![j].step = "gone"] /\ "gone" \in HookSteps /\ HookTypes
    BY DEF HookInv, HookSteps, Hook!RecordSuccess, Hook!Step
  <2> QED
    BY <2>1, HookJobStep, Zenon
<1>2. /\ UNCHANGED <<hookClock, order, hookCause>>
      /\ subscription' = [subscription EXCEPT !.fails = 0, !.since = Hook!Never]
      /\ streak' = [streak EXCEPT !.counted = {}]
  BY DEF Hook!RecordSuccess
<1>3. /\ subscription' \in HookSubscription /\ subscription'.fails = 0
      /\ subscription'.since = Hook!Never /\ subscription'.status = subscription.status
      /\ streak' \in [counted : SUBSET Pair, lastGood : Int] /\ streak'.counted = {}
  <2>1. subscription \in HookSubscription /\ streak \in [counted : SUBSET Pair, lastGood : Int]
    BY DEF HookInv, HookTypes
  <2>2. Hook!Never \in Int
    BY DEF Hook!Never
  <2>3. streak' \in [counted : SUBSET Pair, lastGood : Int] /\ streak'.counted = {}
    BY <1>2, <2>1
  <2>4. subscription' \in HookSubscription /\ subscription'.fails = 0
        /\ subscription'.since = Hook!Never /\ subscription'.status = subscription.status
    <3>1. 0 \in Nat
      OBVIOUS
    <3> QED
      BY <1>2, <2>1, <2>2, <3>1, HookRowFields, Zenon
  <2> QED
    BY <2>3, <2>4
<1>4. HookTypes' /\ Cardinality({}) = 0
  BY <1>1, <1>2, <1>3, HookJobMoves, FS_EmptySet DEF HookInv, HookTypes
<1> QED
  BY <1>2, <1>3, <1>4 DEF HookInv, CountersTrue, RevokedStays

\* A dead letter lengthens the streak, and begins it if there is none.
LEMMA HookCounted ==
  ASSUME HookInv, NEW j \in Pair, Hook!WriteStreak(j)
  PROVE  HookInv'
<1>0. HookTypes /\ jobs[j] \in HookJob
  BY DEF HookInv, HookTypes
<1>1. PICK b \in HookJob : jobs' = [jobs EXCEPT ![j] = b] /\ b.step = "counted"
  BY <1>0, HookJobStep DEF HookSteps, Hook!WriteStreak
<1>2. PICK since \in Int :
        /\ since = IF jobs[j].read # Hook!Never THEN jobs[j].read ELSE jobs[j].at
        /\ subscription' = [subscription EXCEPT !.fails = @ + 1, !.since = since]
  BY <1>0 DEF Hook!WriteStreak, HookJob
<1>3. /\ UNCHANGED <<hookClock, order>> /\ streak' = [streak EXCEPT !.counted = @ \cup {j}]
      /\ jobs[j].step = "count"
  BY DEF Hook!WriteStreak
<1>4. /\ subscription' \in HookSubscription
      /\ subscription'.fails = subscription.fails + 1 /\ subscription'.since = since
      /\ subscription'.status = subscription.status /\ streak'.counted = streak.counted \cup {j}
      /\ streak'.lastGood = streak.lastGood
  <2>1. subscription \in HookSubscription /\ streak \in [counted : SUBSET Pair, lastGood : Int]
    BY <1>0 DEF HookTypes
  <2>2. PICK n \in Nat : n = subscription.fails + 1
    BY <2>1 DEF HookSubscription
  <2>3. streak'.counted = streak.counted \cup {j} /\ streak'.lastGood = streak.lastGood
    BY <1>3, <2>1
  <2>4. subscription' = [subscription EXCEPT !.fails = n, !.since = since]
    BY <1>2, <2>2, Zenon
  <2>5. /\ subscription' \in HookSubscription /\ subscription'.fails = n
        /\ subscription'.since = since /\ subscription'.status = subscription.status
    BY <2>1, <2>4, HookRowFields, Zenon
  <2> QED
    BY <2>2, <2>3, <2>5
<1>5. /\ IsFiniteSet(streak.counted \cup {j})
      /\ j \notin streak.counted =>
           Cardinality(streak.counted \cup {j}) = Cardinality(streak.counted) + 1
  BY <1>0, FS_AddElement DEF HookTypes
<1>6. HookTypes'
  <2>1. streak' \in [counted : SUBSET Pair, lastGood : Int]
    BY <1>0, <1>3 DEF HookTypes
  <2> QED
    BY <1>0, <1>1, <1>3, <1>4, <1>5, <2>1, HookJobMoves DEF HookTypes
<1>7. ASSUME hookCause' \cap Uncounted = {} PROVE CountersTrue'
  <2>1. /\ hookCause \cap Uncounted = {} /\ j \notin streak.counted
        /\ jobs[j].read \in {Hook!Never, subscription.since}
        /\ ~(jobs[j].at < streak.lastGood)
    BY <1>7 DEF Hook!WriteStreak, Uncounted
  <2>2. CountersTrue
    BY <2>1 DEF HookInv
  <2>3. subscription'.fails = Cardinality(streak'.counted)
    BY <1>4, <1>5, <2>1, <2>2 DEF CountersTrue
  <2>4. ASSUME \A k \in Pair : jobs'[k].step \notin Unrecorded
        PROVE  streak'.lastGood <= subscription'.since
    <3>1. \A k \in Pair : jobs[k].step \notin Unrecorded
      BY <1>0, <1>1, <1>3, <2>4, HookJobMoves DEF Unrecorded
    <3>2. subscription.since # Hook!Never => streak.lastGood <= subscription.since
      BY <2>2, <3>1 DEF CountersTrue
    <3>3. CASE jobs[j].read # Hook!Never
      BY <1>2, <1>4, <2>1, <3>2, <3>3
    <3>4. CASE jobs[j].read = Hook!Never
      BY <1>0, <1>2, <1>4, <2>1, <3>4 DEF HookTypes, HookJob
    <3> QED
      BY <3>3, <3>4
  <2> QED
    BY <2>3, <2>4 DEF CountersTrue
<1>8. RevokedStays'
  <2>1. "sweep overtaken" \in hookCause => "sweep overtaken" \in hookCause'
    BY DEF Hook!WriteStreak
  <2> QED
    BY <1>3, <1>4, <2>1 DEF HookInv, RevokedStays
<1> QED
  BY <1>6, <1>7, <1>8 DEF HookInv

\* The sweep, an operator, the clock.
LEMMA HookRow ==
  ASSUME HookInv, \/ Hook!SweepFinds \/ Hook!SweepPauses \/ Hook!HookTick
                  \/ \E status \in {"active", "paused", "revoked"} :
                       Hook!UpdateSubscriptionStatus(status)
                  \/ UNCHANGED hookPart
  PROVE  HookInv'
<1>0. HookTypes
  BY DEF HookInv
<1>1. CASE Hook!SweepFinds \/ Hook!HookTick \/ UNCHANGED hookPart
  <2>1. UNCHANGED <<subscription, jobs, streak, order, hookCause>> /\ hookClock' \in Int
    BY <1>0, <1>1 DEF Hook!SweepFinds, Hook!HookTick, hookPart, HookTypes
  <2> QED
    BY <2>1 DEF HookInv, HookTypes, CountersTrue, RevokedStays
<1>2. CASE Hook!SweepPauses
  <2>1. /\ UNCHANGED <<hookClock, jobs, streak, order>> /\ hookCause \subseteq hookCause'
        /\ subscription' = [subscription EXCEPT !.status = "paused"]
        /\ "sweep overtaken" \notin hookCause' => subscription.status = "active"
    BY <1>2 DEF Hook!SweepPauses, Hook!Qualifies
  <2>2. /\ HookTypes' /\ subscription'.fails = subscription.fails
        /\ subscription'.since = subscription.since
    BY <1>0, <2>1 DEF HookTypes, HookSubscription
  <2>3. hookCause' \cap Uncounted = {} => CountersTrue'
    BY <2>1, <2>2 DEF HookInv, CountersTrue
  <2>4. RevokedStays'
    BY <2>1 DEF HookInv, RevokedStays
  <2> QED
    BY <2>2, <2>3, <2>4 DEF HookInv
<1>3. ASSUME NEW status \in {"active", "paused", "revoked"},
             Hook!UpdateSubscriptionStatus(status)
      PROVE  HookInv'
  <2>1. UNCHANGED <<hookClock, jobs, hookCause>> /\ order' = status
    BY <1>3 DEF Hook!UpdateSubscriptionStatus
  <2>2. CASE status = "active"
    <3>1. /\ subscription' = [status |-> "active", fails |-> 0, since |-> Hook!Never]
          /\ streak' = [counted |-> {}, lastGood |-> hookClock]
      BY <1>0, <1>3, <2>2 DEF Hook!UpdateSubscriptionStatus, HookTypes, HookSubscription
    <3> QED
      <4>1. HookTypes' /\ Cardinality(streak'.counted) = 0
        BY <1>0, <2>1, <3>1, FS_EmptySet DEF HookTypes, HookSubscription, Hook!Never
      <4> QED
        BY <2>1, <2>2, <3>1, <4>1 DEF HookInv, CountersTrue, RevokedStays
  <2>3. CASE status # "active"
    <3>1. /\ subscription' = [subscription EXCEPT !.status = status]
          /\ streak' = streak
      BY <1>0, <1>3, <2>3 DEF Hook!UpdateSubscriptionStatus, HookTypes, HookSubscription
    <3>2. /\ HookTypes' /\ subscription'.fails = subscription.fails
          /\ subscription'.since = subscription.since /\ subscription'.status = status
      BY <1>0, <2>1, <3>1 DEF HookTypes, HookSubscription
    <3> QED
      BY <2>1, <3>1, <3>2 DEF HookInv, CountersTrue, RevokedStays
  <2> QED
    BY <2>2, <2>3
<1> QED
  BY <1>1, <1>2, <1>3

LEMMA HookStep ==
  ASSUME HookInv, [Hook!Next]_hookPart
  PROVE  HookInv'
<1>1. ASSUME NEW j \in Pair, NEW success \in BOOLEAN, Hook!AttemptPost(j, success)
      PROVE  HookInv'
  BY <1>1, HookQuiet, HookAccepted
<1> QED
  BY <1>1, HookQuiet, HookRecorded, HookCounted, HookRow, Zenon DEF Hook!Next

\* The sweep goes by the real failures of a subscriber: the counter is the number
\* of dispatches that failed since the last recorded 2xx or re-activation, and no
\* such answer is younger than the streak, unless an outcome was lost, repeated or
\* written late; and a revocation is not undone by a sweep that was not overtaken.
\* For any number of jobs, attempts and failures that count as too many
\* (webhookWorker.ts, webhookAutoDisable.ts).
THEOREM StreakTheorem == Spec => []StreakIsTrue
<1> DEFINE Inv == part = "hook" => HookInv
<1>1. Init => Inv
  BY HookStart, Zenon DEF Init
<1>2. Inv /\ [Next]_allVars => Inv'
  <2> SUFFICES ASSUME Inv, [Next]_allVars, part' = "hook" PROVE HookInv'
    BY Zenon
  <2>1. part = "hook" /\ [Hook!Next]_hookPart
    BY StepsOfServices, Zenon
  <2> QED
    BY <2>1, HookStep
<1>3. Inv => StreakIsTrue
  <2>1. HookInv => Hook!StreakIsTrue
    BY Zenon DEF HookInv, CountersTrue, RevokedStays, Hook!StreakIsTrue, Uncounted, Unrecorded,
       Cardinality, Hook!Cardinality
  <2> QED
    BY <2>1 DEF StreakIsTrue
<1> QED
  BY <1>1, <1>2, <1>3, PTL DEF Spec

-----------------------------------------------------------------------------
(* The loan desk: decisions stand, and the trail replays to the record.    *)

DeskKinds == {"approve", "reject", "reviewApprove", "reviewReject", "bulkApprove",
              "bulkReject", "blindApprove", "blindReject", "hold", "autoReject", "disburse"}
DeskSteps == {"idle", "creating", "created", "started", "write", "record", "done"}
DeskEntry == [step : DeskSteps, kind : DeskKinds \cup {"none", "held"}, version : Nat,
              from : Desk!Statuses \cup {"none"}]

DeskTypes ==
  /\ loan \in [status : Desk!Statuses \cup {"none"}, version : Nat]
  /\ desk \in [Desk!Writers -> DeskEntry]
  /\ trail \in Seq(Desk!Statuses)

\* What is true of the entry e of writer w, with the row at this version and the
\* reviewers' last word being last: nobody decided on a version to come, and who
\* saw the row as it is knows what the reviewers said last.
EntryTrue(w, e, version, last) ==
  /\ e.step \in {"creating", "created", "started", "write"} => e.version <= version
  /\ e.step = "record" => e.version + 1 <= version
  /\ e.step \in {"creating", "created"} => w = Desk!Submission
  /\ e.step = "started" => e.kind = "disburse" /\ w # Desk!Submission
  /\ e.step \in {"write", "record"} => e.kind \in DeskKinds
  /\ e.step = "record" => e.kind \notin Desk!OneTransaction
  /\ e.step \in {"write", "record"} /\ e.kind = "approve" => w \in Pair
  /\ e.step \in {"write", "record"} /\ e.kind = "hold" => w = Desk!Submission
  /\ e.step \in {"creating", "created", "write"} /\ w = Desk!Submission /\ e.version = version
       => last = "none"
  /\ e.step \in {"started", "write"} /\ e.kind = "disburse" /\ e.version = version
       => last = "approve"
  /\ e.step = "record" /\ e.kind = "approve" /\ e.version + 1 = version => last = "approve"

EntriesTrue == \A w \in Desk!Writers : EntryTrue(w, desk[w], loan.version, lastReview)

\* Before the application is submitted there is nothing to decide on.
NothingYet ==
  /\ desk[Desk!Submission].step = "idle" <=> loan.version = 0
  /\ loan.version = 0 =>
       (\A w \in Desk!Writers : desk[w].step = "idle") /\ trail = <<>> /\ lastReview = "none"

Recording(w) == desk[w].step \in Desk!Unrecorded

\* As long as nothing happened that the trail does not reflect, one change at most
\* is not in it yet, and the trail ends with the status from which it started.
TrailTrue ==
  /\ \A v, w \in Desk!Writers : Recording(v) /\ Recording(w) => v = w
  /\ loan.version > 0 /\ (\A w \in Desk!Writers : ~Recording(w)) =>
       trail # <<>> /\ trail[Len(trail)] = loan.status
  /\ \A w \in Desk!Writers : desk[w].step = "creating" => trail = <<>> /\ loan.status = "Pending"
  /\ \A w \in Desk!Writers : desk[w].step = "record" =>
       /\ loan.status = Desk!Decision[desk[w].kind].to
       /\ trail # <<>> /\ trail[Len(trail)] = desk[w].from

TrailKept == trailCause = {} => TrailTrue

DeskInv == DeskTypes /\ EntriesTrue /\ NothingYet /\ Desk!DecisionsStand /\ TrailKept

LEMMA DecisionFacts ==
  /\ DOMAIN Desk!Decision = DeskKinds
  /\ \A k \in DeskKinds : Desk!Decision[k].to \in Desk!Statuses
  /\ \A k \in DeskKinds : Desk!Decision[k].to = "Disbursing" => k = "disburse"
  /\ \A k \in DeskKinds : Desk!Decision[k].to = "MANUAL_REVIEW" => k = "hold"
  /\ Desk!Decision["approve"].guarded
  /\ \A k \in DeskKinds : ~Desk!Decision[k].guarded => k \in Desk!Unguarded
<1>1. DOMAIN Desk!Decision = DeskKinds
  BY DEF Desk!Decision, DeskKinds
<1>2. \A k \in DeskKinds : Desk!Decision[k].to \in Desk!Statuses
  BY DEF Desk!Decision, DeskKinds, Desk!Statuses
<1>3. \A k \in DeskKinds : Desk!Decision[k].to = "Disbursing" => k = "disburse"
  BY DEF Desk!Decision, DeskKinds
<1>4. \A k \in DeskKinds : Desk!Decision[k].to = "MANUAL_REVIEW" => k = "hold"
  BY DEF Desk!Decision, DeskKinds
<1>5. Desk!Decision["approve"].guarded
  BY DEF Desk!Decision
<1>6. \A k \in DeskKinds : ~Desk!Decision[k].guarded => k \in Desk!Unguarded
  BY <1>1, Zenon DEF Desk!Unguarded
<1> QED
  BY <1>1, <1>2, <1>3, <1>4, <1>5, <1>6, Zenon

\* The submission, the reviewers and the disbursements are different writers.
LEMMA WriterFacts ==
  ASSUME DeskAssumption
  PROVE  /\ Desk!Submission \in Desk!Writers /\ Desk!Submission \notin Pair
         /\ \A r \in Pair : /\ r \in Desk!Writers /\ Desk!Disbursement(r) \in Desk!Writers
                            /\ Desk!Disbursement(r) # r
                            /\ Desk!Disbursement(r) # Desk!Submission
<1>1. \A r \in Pair : <<r, "disburse">> # <<"apply">>
  OBVIOUS
<1> QED
  BY <1>1, Zenon DEF DeskAssumption, Desk!Writers, Desk!Submission, Desk!Disbursement

LEMMA DeskStart == DeskAssumption /\ Desk!Init => DeskInv
<1> SUFFICES ASSUME DeskAssumption, Desk!Init PROVE DeskInv
  OBVIOUS
<1>1. Desk!Idle \in DeskEntry /\ Desk!Idle.step = "idle"
  BY DEF Desk!Idle, DeskEntry, DeskSteps
<1>2. /\ loan = [status |-> "none", version |-> 0] /\ trail = <<>> /\ lastReview = "none"
      /\ blind = {} /\ desk = [w \in Desk!Writers |-> Desk!Idle]
  BY DEF Desk!Init
<1>3. \A w \in Desk!Writers : desk[w] = Desk!Idle
  BY <1>2
<1>4. DeskTypes
  BY <1>1, <1>2 DEF DeskTypes
<1>5. EntriesTrue
  BY <1>1, <1>3 DEF EntriesTrue, EntryTrue
<1>6. NothingYet /\ Desk!DecisionsStand
  BY <1>1, <1>2, <1>3, WriterFacts DEF NothingYet, Desk!DecisionsStand
<1>7. TrailKept
  BY <1>1, <1>2, <1>3 DEF TrailKept, TrailTrue, Recording, Desk!Unrecorded
<1> QED
  BY <1>4, <1>5, <1>6, <1>7 DEF DeskInv

\* What is true of an entry stays so when the row moves on.
LEMMA EntryStaysTrue ==
  ASSUME NEW w, NEW e \in DeskEntry, NEW v \in Nat, NEW last, NEW other, EntryTrue(w, e, v, last)
  PROVE  EntryTrue(w, e, v + 1, other)
<1>1. e.version \in Nat
  BY DEF DeskEntry
<1> QED
  BY <1>1 DEF EntryTrue

\* An entry of no consequence.
LEMMA DoneIsTrue ==
  /\ Desk!Done \in DeskEntry /\ Desk!Done.step = "done"
  /\ \A w, version, last : EntryTrue(w, Desk!Done, version, last)
<1>1. Desk!Done \in DeskEntry /\ Desk!Done.step = "done"
  BY DEF Desk!Done, Desk!Idle, DeskEntry, DeskSteps
<1> QED
  BY <1>1 DEF EntryTrue

\* One entry changes.
LEMMA DeskEntryMoves ==
  ASSUME DeskTypes, NEW w \in Desk!Writers, NEW e \in DeskEntry, desk' = [desk EXCEPT ![w] = e]
  PROVE  /\ desk' \in [Desk!Writers -> DeskEntry]
         /\ desk'[w] = e /\ \A v \in Desk!Writers \ {w} : desk'[v] = desk[v]
BY DEF DeskTypes

\* A writer that does something knows of an application.
LEMMA DeskBusy ==
  ASSUME DeskInv, NEW w \in Desk!Writers, desk[w].step # "idle"
  PROVE  loan.version > 0 /\ loan.version \in Nat
BY DEF DeskInv, DeskTypes, NothingYet

\* A writer goes on, without the row and the trail.
LEMMA DeskGoesOn ==
  ASSUME DeskAssumption, DeskInv, NEW w \in Desk!Writers, NEW e \in DeskEntry,
         desk' = [desk EXCEPT ![w] = e], UNCHANGED <<loan, trail, lastReview, blind, trailCause>>,
         EntryTrue(w, e, loan.version, lastReview), loan.version > 0,
         ~Recording(w), e.step \notin Desk!Unrecorded, e.step # "idle"
  PROVE  DeskInv'
<1>1. /\ DeskTypes' /\ desk'[w] = e /\ \A v \in Desk!Writers \ {w} : desk'[v] = desk[v]
  BY DeskEntryMoves DEF DeskInv, DeskTypes
<1>2. EntriesTrue'
  BY <1>1 DEF DeskInv, EntriesTrue
<1>3. NothingYet'
  BY <1>1, WriterFacts DEF DeskInv, DeskTypes, NothingYet
<1>4. Desk!DecisionsStand'
  BY DEF DeskInv, Desk!DecisionsStand
<1>5. ASSUME TrailTrue PROVE TrailTrue'
  <2>1. \A v \in Desk!Writers : Recording(v)' <=> Recording(v)
    BY <1>1 DEF Recording
  <2>2. \A v \in Desk!Writers : Recording(v) => desk'[v] = desk[v]
    BY <1>1
  <2>3. \A v \in Desk!Writers : desk'[v].step \in {"creating", "record"} => Recording(v)
    BY <2>1 DEF Recording, Desk!Unrecorded
  <2> QED
    BY <1>5, <2>1, <2>2, <2>3 DEF TrailTrue
<1> QED
  BY <1>1, <1>2, <1>3, <1>4, <1>5 DEF DeskInv, TrailKept

\* A writer writes the row.
LEMMA DeskRowMoves ==
  ASSUME DeskAssumption, DeskInv, NEW w \in Desk!Writers, desk[w].step # "idle",
         NEW e \in DeskEntry, desk' = [desk EXCEPT ![w] = e], e.step # "idle",
         loan' \in [status : Desk!Statuses \cup {"none"}, version : Nat],
         loan'.version = loan.version + 1,
         EntryTrue(w, e, loan.version + 1, lastReview')
  PROVE  /\ desk' \in [Desk!Writers -> DeskEntry] /\ EntriesTrue' /\ NothingYet'
         /\ desk'[w] = e /\ \A v \in Desk!Writers \ {w} : desk'[v] = desk[v]
<1>0. loan.version \in Nat /\ loan.version > 0
  BY DeskBusy
<1>1. /\ desk' \in [Desk!Writers -> DeskEntry]
      /\ desk'[w] = e /\ \A v \in Desk!Writers \ {w} : desk'[v] = desk[v]
  BY DeskEntryMoves DEF DeskInv
<1>2. ASSUME NEW v \in Desk!Writers PROVE EntryTrue(v, desk'[v], loan'.version, lastReview')
  <2>1. CASE v = w
    BY <1>1, <2>1, Zenon
  <2>2. CASE v # w
    <3>1. desk[v] \in DeskEntry /\ EntryTrue(v, desk[v], loan.version, lastReview)
      BY DEF DeskInv, DeskTypes, EntriesTrue
    <3>2. EntryTrue(v, desk[v], loan.version + 1, lastReview')
      BY <1>0, <3>1, EntryStaysTrue, Zenon
    <3> QED
      BY <1>1, <2>2, <3>2, Zenon
  <2> QED
    BY <2>1, <2>2
<1>3. EntriesTrue'
  BY <1>2, Zenon DEF EntriesTrue
<1>4. NothingYet'
  <2>1. desk[Desk!Submission].step # "idle"
    BY <1>0 DEF DeskInv, NothingYet
  <2> QED
    BY <1>0, <1>1, <2>1, WriterFacts DEF NothingYet
<1> QED
  BY <1>1, <1>3, <1>4

\* The application is published, recorded, and marked.
LEMMA DeskApply ==
  ASSUME DeskAssumption, DeskInv, Desk!Apply
  PROVE  DeskInv'
<1> DEFINE e == [Desk!Idle EXCEPT !.step = "creating", !.version = 1]
<1>1. e \in DeskEntry /\ e.step = "creating" /\ e.version = 1 /\ e.kind = "none"
  BY DEF Desk!Idle, DeskEntry, DeskSteps
<1>2. /\ desk[Desk!Submission].step = "idle" /\ loan' = [status |-> "Pending", version |-> 1]
      /\ desk' = [desk EXCEPT ![Desk!Submission] = e]
      /\ UNCHANGED <<trail, lastReview, blind, trailCause>>
  BY DEF Desk!Apply
<1> HIDE DEF e
<1>3. /\ \A v \in Desk!Writers : desk[v].step = "idle"
      /\ trail = <<>> /\ lastReview = "none" /\ Desk!Submission \in Desk!Writers
  BY <1>2, WriterFacts DEF DeskInv, NothingYet
<1>4. /\ desk' \in [Desk!Writers -> DeskEntry] /\ desk'[Desk!Submission] = e
      /\ \A v \in Desk!Writers \ {Desk!Submission} : desk'[v] = desk[v]
  BY <1>1, <1>2, <1>3, DeskEntryMoves DEF DeskInv
<1>5. DeskTypes'
  BY <1>2, <1>4 DEF DeskInv, DeskTypes, Desk!Statuses
<1>6. EntriesTrue'
  BY <1>1, <1>2, <1>3, <1>4 DEF EntriesTrue, EntryTrue
<1>7. NothingYet' /\ Desk!DecisionsStand'
  BY <1>1, <1>2, <1>4 DEF NothingYet, DeskInv, Desk!DecisionsStand
<1>8. TrailTrue'
  <2>1. \A v \in Desk!Writers : v # Desk!Submission => desk'[v].step = "idle"
    BY <1>3, <1>4
  <2> QED
    BY <1>1, <1>2, <1>3, <1>4, <2>1 DEF TrailTrue, Recording, Desk!Unrecorded
<1> QED
  BY <1>5, <1>6, <1>7, <1>8 DEF DeskInv, TrailKept

\* What appending does to the end of the trail.
LEMMA TrailEnd ==
  ASSUME trail \in Seq(Desk!Statuses), NEW s \in Desk!Statuses
  PROVE  /\ Append(trail, s) \in Seq(Desk!Statuses) /\ Append(trail, s) # <<>>
         /\ Append(trail, s)[Len(Append(trail, s))] = s
OBVIOUS

LEMMA DeskCreationRecorded ==
  ASSUME DeskAssumption, DeskInv, Desk!RecordLoanCreation
  PROVE  DeskInv'
<1> DEFINE w == Desk!Submission
<1> DEFINE e == [desk[w] EXCEPT !.step = "created"]
<1>0. w \in Desk!Writers /\ desk[w] \in DeskEntry /\ DeskTypes
  BY WriterFacts DEF DeskInv, DeskTypes
<1>1. /\ e \in DeskEntry /\ e.step = "created" /\ e.version = desk[w].version
      /\ e.kind = desk[w].kind
  BY <1>0 DEF DeskEntry, DeskSteps
<1>2. /\ desk[w].step = "creating" /\ desk' = [desk EXCEPT ![w] = e]
      /\ trail' = Append(trail, "Pending")
      /\ UNCHANGED <<loan, lastReview, blind, trailCause>>
  BY <1>0 DEF Desk!RecordLoanCreation, DeskTypes
<1> HIDE DEF e, w
<1>3. /\ desk' \in [Desk!Writers -> DeskEntry] /\ desk'[w] = e
      /\ \A v \in Desk!Writers \ {w} : desk'[v] = desk[v]
  BY <1>0, <1>1, <1>2, DeskEntryMoves
<1>4. DeskTypes' /\ trail' # <<>> /\ trail'[Len(trail')] = "Pending"
  BY <1>0, <1>2, <1>3, TrailEnd DEF DeskTypes, Desk!Statuses
<1>5. EntriesTrue'
  <2>1. EntryTrue(w, e, loan.version, lastReview)
    <3>1. EntryTrue(w, desk[w], loan.version, lastReview)
      BY <1>0 DEF DeskInv, EntriesTrue
    <3> QED
      BY <1>1, <1>2, <3>1 DEF EntryTrue
  <2> QED
    BY <1>2, <1>3, <2>1 DEF DeskInv, EntriesTrue
<1>6. NothingYet' /\ Desk!DecisionsStand'
  <2>1. loan.version > 0
    BY <1>0, <1>2, DeskBusy
  <2> QED
    BY <1>1, <1>2, <1>3, <2>1, WriterFacts DEF DeskInv, NothingYet, Desk!DecisionsStand, w
<1>7. ASSUME TrailTrue PROVE TrailTrue'
  <2>1. loan.status = "Pending" /\ Recording(w)
    BY <1>0, <1>2, <1>7 DEF TrailTrue, Recording, Desk!Unrecorded
  <2>2. \A v \in Desk!Writers : desk'[v].step \notin Desk!Unrecorded
    BY <1>0, <1>1, <1>3, <1>7, <2>1 DEF TrailTrue, Recording, Desk!Unrecorded
  <2> QED
    BY <1>2, <1>4, <2>1, <2>2 DEF TrailTrue, Recording, Desk!Unrecorded
<1> QED
  BY <1>2, <1>4, <1>5, <1>6, <1>7 DEF DeskInv, TrailKept

LEMMA DeskMarked ==
  ASSUME DeskAssumption, DeskInv, Desk!MarkTaxIdMatch
  PROVE  DeskInv'
<1> DEFINE w == Desk!Submission
<1>0. w \in Desk!Writers /\ desk[w] \in DeskEntry /\ DeskTypes
  BY WriterFacts DEF DeskInv, DeskTypes
<1>1. PICK n \in Nat : n = desk[w].version + 1
  BY <1>0 DEF DeskEntry
<1> DEFINE e == [desk[w] EXCEPT !.kind = "held", !.version = n]
<1>2. e \in DeskEntry /\ e.step = desk[w].step /\ e.version = n /\ e.kind = "held"
  BY <1>0, <1>1 DEF DeskEntry
<1>3. /\ desk[w].step = "created"
      /\ desk' = [desk EXCEPT ![w].kind = "held", ![w].version = n]
      /\ loan' = [loan EXCEPT !.version = loan.version + 1]
      /\ UNCHANGED <<trail, lastReview, blind, trailCause>>
  BY <1>0, <1>1, Zenon DEF Desk!MarkTaxIdMatch
<1>4. desk' = [desk EXCEPT ![w] = e]
  BY <1>0, <1>3 DEF DeskTypes
<1> HIDE DEF e, w
<1>5. /\ loan' \in [status : Desk!Statuses \cup {"none"}, version : Nat]
      /\ loan'.status = loan.status /\ loan'.version = loan.version + 1
  BY <1>0, <1>3 DEF DeskTypes
<1>6. EntryTrue(w, e, loan.version + 1, lastReview')
  <2>1. EntryTrue(w, desk[w], loan.version, lastReview) /\ desk[w].version \in Nat
        /\ loan.version \in Nat
    BY <1>0 DEF DeskInv, EntriesTrue, DeskEntry, DeskTypes
  <2> QED
    BY <1>1, <1>2, <1>3, <2>1 DEF EntryTrue
<1>7. /\ desk' \in [Desk!Writers -> DeskEntry] /\ EntriesTrue' /\ NothingYet'
      /\ desk'[w] = e /\ \A v \in Desk!Writers \ {w} : desk'[v] = desk[v]
  BY <1>0, <1>2, <1>3, <1>4, <1>5, <1>6, DeskRowMoves
<1>8. DeskTypes' /\ Desk!DecisionsStand'
  BY <1>0, <1>3, <1>5, <1>7 DEF DeskTypes, DeskInv, Desk!DecisionsStand
<1>9. ASSUME TrailTrue PROVE TrailTrue'
  <2>1. loan.version > 0
    BY <1>0, <1>3, DeskBusy
  <2>2. \A v \in Desk!Writers : Recording(v)' <=> Recording(v)
    BY <1>2, <1>7 DEF Recording
  <2>3. \A v \in Desk!Writers : desk'[v].step \in {"creating", "record"} => desk'[v] = desk[v]
    BY <1>2, <1>3, <1>7
  <2> QED
    BY <1>3, <1>5, <1>9, <2>1, <2>2, <2>3, ZenonT(60) DEF TrailTrue
<1> QED
  BY <1>3, <1>7, <1>8, <1>9 DEF DeskInv, TrailKept

\* The writer w is done, its row unwritten.
LEMMA DeskGivesUp ==
  ASSUME DeskAssumption, DeskInv, NEW w \in Desk!Writers,
         desk' = [desk EXCEPT ![w] = Desk!Done],
         UNCHANGED <<loan, trail, lastReview, blind, trailCause>>,
         ~Recording(w), loan.version > 0
  PROVE  DeskInv'
<1>1. Desk!Done.step \notin Desk!Unrecorded /\ Desk!Done.step # "idle"
  BY DoneIsTrue DEF Desk!Unrecorded
<1> QED
  BY <1>1, DoneIsTrue, DeskGoesOn, Zenon

LEMMA DeskOutcome ==
  ASSUME DeskAssumption, DeskInv, NEW kind \in {"hold", "autoReject", "none"},
         Desk!ApplyOutcome(kind)
  PROVE  DeskInv'
<1> DEFINE w == Desk!Submission
<1>0. /\ w \in Desk!Writers /\ desk[w] \in DeskEntry /\ DeskTypes
      /\ EntryTrue(w, desk[w], loan.version, lastReview)
  BY WriterFacts DEF DeskInv, DeskTypes, EntriesTrue
<1>1. /\ desk[w].step = "created" /\ UNCHANGED <<loan, trail, lastReview, blind, trailCause>>
      /\ desk' = [desk EXCEPT ![w] =
           IF kind = "none" THEN Desk!Done
           ELSE [desk[w] EXCEPT !.step = "write", !.kind = kind, !.from = loan.status]]
  BY <1>0 DEF Desk!ApplyOutcome, DeskTypes
<1>2. ~Recording(w) /\ loan.version > 0
  BY <1>0, <1>1, DeskBusy DEF Recording, Desk!Unrecorded
<1>3. CASE kind = "none"
  BY <1>0, <1>1, <1>2, <1>3, DeskGivesUp
<1>4. CASE kind # "none"
  <2> DEFINE e == [desk[w] EXCEPT !.step = "write", !.kind = kind, !.from = loan.status]
  <2>1. /\ e \in DeskEntry /\ e.step = "write" /\ e.kind = kind
        /\ e.version = desk[w].version /\ kind \in DeskKinds
    BY <1>0, <1>4 DEF DeskEntry, DeskSteps, DeskKinds, DeskTypes
  <2>2. desk' = [desk EXCEPT ![w] = e]
    BY <1>1, <1>4
  <2> HIDE DEF e
  <2>3. EntryTrue(w, e, loan.version, lastReview)
    BY <1>0, <1>1, <1>4, <2>1 DEF EntryTrue
  <2>4. e.step \notin Desk!Unrecorded /\ e.step # "idle"
    BY <2>1 DEF Desk!Unrecorded
  <2> QED
    BY <1>0, <1>1, <1>2, <2>1, <2>2, <2>3, <2>4, DeskGoesOn
<1> QED
  BY <1>3, <1>4

LEMMA DeskDecides ==
  ASSUME DeskAssumption, DeskInv, NEW r \in Pair, NEW kind \in Desk!ReviewKinds,
         NEW expected \in 1..loan.version, Desk!Decide(r, kind, expected)
  PROVE  DeskInv'
<1>0. r \in Desk!Writers /\ r # Desk!Submission /\ DeskTypes /\ loan.version \in Nat
  BY WriterFacts DEF DeskInv, DeskTypes
<1>1. /\ desk[r].step = "idle" /\ UNCHANGED <<loan, trail, lastReview, blind, trailCause>>
      /\ loan.version > 0 /\ ~Recording(r)
  BY <1>0 DEF Desk!Decide, Recording, Desk!Unrecorded
<1>2. CASE desk' = [desk EXCEPT ![r] = Desk!Done]
  BY <1>0, <1>1, <1>2, DeskGivesUp
<1>3. ASSUME NEW version \in Nat, version <= loan.version,
             desk' = [desk EXCEPT ![r] = [step |-> "write", kind |-> kind,
                                          from |-> loan.status, version |-> version]]
      PROVE  DeskInv'
  <2> DEFINE e == [step |-> "write", kind |-> kind, from |-> loan.status, version |-> version]
  <2>1. e \in DeskEntry /\ e.step = "write" /\ e.version = version /\ e.kind = kind
    BY <1>0 DEF DeskEntry, DeskSteps, DeskKinds, DeskTypes, Desk!ReviewKinds
  <2>2. EntryTrue(r, e, loan.version, lastReview)
    BY <1>0, <1>3, <2>1 DEF EntryTrue, Desk!ReviewKinds, DeskKinds
  <2>3. e.step \notin Desk!Unrecorded /\ e.step # "idle"
    BY <2>1 DEF Desk!Unrecorded
  <2> HIDE DEF e
  <2> QED
    BY <1>0, <1>1, <1>3, <2>1, <2>2, <2>3, DeskGoesOn DEF e
<1>4. \/ desk' = [desk EXCEPT ![r] = Desk!Done]
      \/ \E version \in {expected, loan.version} :
           desk' = [desk EXCEPT ![r] = [step |-> "write", kind |-> kind,
                                        from |-> loan.status, version |-> version]]
  BY DEF Desk!Decide
<1>5. /\ expected \in Nat /\ expected <= loan.version
      /\ loan.version <= loan.version
  BY <1>0
<1> QED
  BY <1>0, <1>2, <1>3, <1>4, <1>5, Zenon

LEMMA DeskReads ==
  ASSUME DeskAssumption, DeskInv, NEW w \in Desk!Writers, Desk!ReadForDisburse(w)
  PROVE  DeskInv'
<1>0. /\ desk[w] \in DeskEntry /\ DeskTypes
      /\ EntryTrue(w, desk[w], loan.version, lastReview)
  BY DEF DeskInv, DeskTypes, EntriesTrue
<1> DEFINE e == [desk[w] EXCEPT !.step = "write", !.from = loan.status]
<1>1. /\ e \in DeskEntry /\ e.step = "write" /\ e.kind = desk[w].kind
      /\ e.version = desk[w].version
  BY <1>0 DEF DeskEntry, DeskSteps, DeskTypes
<1>2. /\ desk[w].step = "started" /\ UNCHANGED <<loan, trail, lastReview, blind, trailCause>>
      /\ desk' = [desk EXCEPT ![w].step = "write", ![w].from = loan.status]
  BY DEF Desk!ReadForDisburse
<1>3. desk' = [desk EXCEPT ![w] = e]
  BY <1>0, <1>2 DEF DeskTypes
<1> HIDE DEF e
<1>4. ~Recording(w) /\ loan.version > 0 /\ e.step \notin Desk!Unrecorded /\ e.step # "idle"
  BY <1>1, <1>2, DeskBusy DEF Recording, Desk!Unrecorded
<1>5. EntryTrue(w, e, loan.version, lastReview)
  <2>1. desk[w].kind = "disburse" /\ "disburse" \in DeskKinds /\ w # Desk!Submission
    BY <1>0, <1>2 DEF EntryTrue, DeskKinds
  <2> QED
    BY <1>0, <1>1, <1>2, <2>1 DEF EntryTrue
<1> QED
  BY <1>1, <1>2, <1>3, <1>4, <1>5, DeskGoesOn

LEMMA DeskFails ==
  ASSUME DeskAssumption, DeskInv, NEW w \in Desk!Writers,
         Desk!VersionConflict(w) \/ Desk!UpdateFails(w)
  PROVE  DeskInv'
<1>1. /\ desk[w].step = "write" /\ UNCHANGED <<loan, trail, lastReview, blind, trailCause>>
      /\ desk' = [desk EXCEPT ![w] = Desk!Done]
  BY DEF Desk!VersionConflict, Desk!UpdateFails
<1>2. ~Recording(w) /\ loan.version > 0
  BY <1>1, DeskBusy DEF Recording, Desk!Unrecorded
<1> QED
  BY <1>1, <1>2, DeskGivesUp

LEMMA DeskUnrecorded ==
  ASSUME DeskAssumption, DeskInv, NEW w \in Desk!Writers, Desk!RecordFails(w)
  PROVE  DeskInv'
<1>1. /\ desk[w].step # "idle" /\ UNCHANGED <<loan, trail, lastReview, blind>>
      /\ desk' = [desk EXCEPT ![w] = Desk!Done] /\ trailCause' # {}
  BY DEF Desk!RecordFails, Desk!Unrecorded
<1>2. loan.version > 0
  BY <1>1, DeskBusy
<1>3. /\ desk' \in [Desk!Writers -> DeskEntry] /\ desk'[w] = Desk!Done
      /\ \A v \in Desk!Writers \ {w} : desk'[v] = desk[v]
  BY <1>1, DoneIsTrue, DeskEntryMoves DEF DeskInv
<1>4. DeskTypes' /\ EntriesTrue'
  BY <1>1, <1>3, DoneIsTrue DEF DeskInv, DeskTypes, EntriesTrue
<1>5. NothingYet' /\ Desk!DecisionsStand' /\ TrailKept'
  BY <1>1, <1>2, <1>3, DoneIsTrue, WriterFacts
     DEF DeskInv, NothingYet, Desk!DecisionsStand, TrailKept
<1> QED
  BY <1>4, <1>5 DEF DeskInv

\* The UPDATE: the row, the reviewers' last word and the entry of its writer.
LEMMA DeskWrites ==
  ASSUME DeskAssumption, DeskInv, NEW w \in Desk!Writers, Desk!UpdateApplication(w)
  PROVE  DeskInv'
<1> DEFINE kind == desk[w].kind
           to == Desk!Decision[desk[w].kind].to
<1>0. /\ desk[w] \in DeskEntry /\ DeskTypes /\ loan.version \in Nat
      /\ EntryTrue(w, desk[w], loan.version, lastReview)
  BY DEF DeskInv, DeskTypes, EntriesTrue
<1>1. /\ desk[w].step = "write" /\ loan' = [status |-> to, version |-> loan.version + 1]
      /\ lastReview' = IF kind \in Desk!ReviewKinds THEN kind ELSE lastReview
      /\ blind' = IF loan.version # desk[w].version THEN blind \cup {kind} ELSE blind
      /\ Desk!Decision[kind].guarded => loan.version = desk[w].version
  BY DEF Desk!UpdateApplication, Desk!Matches
<1>2. kind \in DeskKinds /\ to \in Desk!Statuses /\ loan.version > 0
  BY <1>0, <1>1, DecisionFacts, DeskBusy DEF EntryTrue
<1>3. PICK e \in DeskEntry :
        /\ desk' = [desk EXCEPT ![w] = e]
        /\ \/ /\ kind \in Desk!OneTransaction /\ e = Desk!Done
              /\ trailCause' = {} => trail' = Append(trail, to)
           \/ /\ kind \notin Desk!OneTransaction /\ e.step = "record" /\ e.kind = kind
              /\ e.version = desk[w].version /\ e.from = desk[w].from /\ trail' = trail
              /\ trailCause' = {} => loan.status = desk[w].from
  <2>1. CASE kind \in Desk!OneTransaction
    <3>1. /\ desk' = [desk EXCEPT ![w] = Desk!Done]
          /\ trailCause' = {} => trail' = Append(trail, to)
      BY <2>1 DEF Desk!UpdateApplication
    <3> QED
      BY <2>1, <3>1, DoneIsTrue
  <2>2. CASE kind \notin Desk!OneTransaction
    <3> DEFINE e == [desk[w] EXCEPT !.step = "record"]
    <3>1. /\ desk' = [desk EXCEPT ![w].step = "record"] /\ trail' = trail
          /\ trailCause' = {} => loan.status = desk[w].from
      BY <2>2 DEF Desk!UpdateApplication
    <3>2. /\ e \in DeskEntry /\ e.step = "record" /\ e.kind = kind
          /\ e.version = desk[w].version /\ e.from = desk[w].from
      BY <1>0 DEF DeskEntry, DeskSteps
    <3>3. desk' = [desk EXCEPT ![w] = e]
      BY <1>0, <3>1 DEF DeskTypes
    <3> HIDE DEF e
    <3> QED
      BY <2>2, <3>1, <3>2, <3>3
  <2> QED
    BY <2>1, <2>2
<1>4. trailCause' = {} => trailCause = {} /\ \A v \in Desk!Writers \ {w} : ~Recording(v)
  <2>1. trailCause' = {} => trailCause = {} /\ Desk!Behind(w) = {}
    BY DEF Desk!UpdateApplication
  <2> QED
    BY <2>1, Zenon DEF Desk!Behind, Recording
<1>5. trail' \in Seq(Desk!Statuses)
  <2>1. trail' \in {trail, Append(trail, to)}
    BY DEF Desk!UpdateApplication
  <2> QED
    BY <1>0, <1>2, <2>1, TrailEnd DEF DeskTypes
<1> HIDE DEF kind, to
<1>6. EntryTrue(w, e, loan.version + 1, lastReview')
  <2>1. CASE e = Desk!Done
    BY <2>1, DoneIsTrue
  <2>2. CASE /\ kind \notin Desk!OneTransaction /\ e.step = "record" /\ e.kind = kind
             /\ e.version = desk[w].version
    <3>1. desk[w].version \in Nat /\ "approve" \in Desk!ReviewKinds /\ kind = desk[w].kind
      BY <1>0 DEF DeskEntry, Desk!ReviewKinds, kind
    <3> QED
      BY <1>0, <1>1, <1>2, <2>2, <3>1 DEF EntryTrue
  <2> QED
    BY <1>3, <2>1, <2>2
<1>7. /\ loan' \in [status : Desk!Statuses \cup {"none"}, version : Nat]
      /\ loan'.status = to /\ loan'.version = loan.version + 1
  BY <1>0, <1>1, <1>2
<1>8. /\ desk' \in [Desk!Writers -> DeskEntry] /\ EntriesTrue' /\ NothingYet'
      /\ desk'[w] = e /\ \A v \in Desk!Writers \ {w} : desk'[v] = desk[v]
  <2>1. desk[w].step # "idle" /\ e.step # "idle"
    BY <1>1, <1>3, DoneIsTrue
  <2> QED
    BY <1>3, <1>6, <1>7, <2>1, DeskRowMoves
<1>9. Desk!DecisionsStand'
  <2>1. blind \subseteq blind' /\ Desk!DecisionsStand
    BY <1>1 DEF DeskInv
  <2>2. blind' \subseteq Desk!Unguarded
    BY <1>1, <1>2, <2>1, DecisionFacts DEF Desk!DecisionsStand
  <2>3. ASSUME blind' = {}
        PROVE  /\ to = "Disbursing" => lastReview' = "approve"
               /\ to = "MANUAL_REVIEW" => lastReview' = "none"
    <3>1. loan.version = desk[w].version
      BY <1>1, <2>3
    <3>2. to = "Disbursing" => kind = "disburse"
      BY <1>2, DecisionFacts DEF to, kind
    <3>3. to = "MANUAL_REVIEW" => kind = "hold"
      BY <1>2, DecisionFacts DEF to, kind
    <3>4. kind = "disburse" => lastReview = "approve"
      BY <1>0, <1>1, <3>1 DEF EntryTrue, kind
    <3>5. kind = "hold" => lastReview = "none"
      BY <1>0, <1>1, <3>1 DEF EntryTrue, kind
    <3>6. kind \in {"hold", "disburse"} => lastReview' = lastReview
      BY <1>1 DEF Desk!ReviewKinds
    <3> QED
      BY <3>2, <3>3, <3>4, <3>5, <3>6
  <2> QED
    BY <1>7, <2>2, <2>3 DEF Desk!DecisionsStand
<1>10. ASSUME trailCause' = {} PROVE TrailTrue'
  <2>1. TrailTrue /\ ~Recording(w) /\ \A v \in Desk!Writers : ~Recording(v)
    BY <1>1, <1>4, <1>10 DEF DeskInv, TrailKept, Recording, Desk!Unrecorded
  <2>2. trail # <<>> /\ trail[Len(trail)] = loan.status
    BY <1>2, <2>1 DEF TrailTrue
  <2>3. \A v \in Desk!Writers \ {w} : desk'[v].step \notin Desk!Unrecorded
    BY <1>8, <2>1 DEF Recording
  <2>4. CASE e = Desk!Done /\ trail' = Append(trail, to)
    <3>1. trail' # <<>> /\ trail'[Len(trail')] = loan'.status
      BY <1>0, <1>2, <1>7, <2>4, TrailEnd DEF DeskTypes
    <3>2. \A v \in Desk!Writers : desk'[v].step \notin Desk!Unrecorded
      BY <1>8, <2>3, <2>4, DoneIsTrue DEF Desk!Unrecorded
    <3> QED
      BY <3>1, <3>2 DEF TrailTrue, Recording, Desk!Unrecorded
  <2>5. CASE /\ e.step = "record" /\ e.kind = kind /\ e.from = desk[w].from /\ trail' = trail
             /\ loan.status = desk[w].from
    <3>1. desk'[w].step = "record" /\ "record" \in Desk!Unrecorded
      BY <1>8, <2>5 DEF Desk!Unrecorded
    <3>2. /\ loan'.status = Desk!Decision[desk'[w].kind].to
          /\ trail' # <<>> /\ trail'[Len(trail')] = desk'[w].from
      BY <1>7, <1>8, <2>2, <2>5 DEF kind, to
    <3>3. \A v \in Desk!Writers : desk'[v].step \in {"creating", "record"} => v = w
      BY <2>3 DEF Desk!Unrecorded
    <3> QED
      BY <2>3, <3>1, <3>2, <3>3 DEF TrailTrue, Recording
  <2> QED
    BY <1>3, <1>10, <2>4, <2>5
<1> QED
  BY <1>0, <1>5, <1>7, <1>8, <1>9, <1>10 DEF DeskInv, DeskTypes, TrailKept

\* The audit row; an approval starts the disbursement.
LEMMA DeskRecords ==
  ASSUME DeskAssumption, DeskInv, NEW w \in Desk!Writers, Desk!RecordLoanChange(w)
  PROVE  DeskInv'
<1> DEFINE to == Desk!Decision[desk[w].kind].to
           d == Desk!Disbursement(w)
<1>0. /\ desk[w] \in DeskEntry /\ DeskTypes /\ loan.version \in Nat
      /\ EntryTrue(w, desk[w], loan.version, lastReview)
  BY DEF DeskInv, DeskTypes, EntriesTrue
<1>1. /\ desk[w].step = "record" /\ UNCHANGED <<loan, lastReview, blind, trailCause>>
      /\ trail' = IF desk[w].from # to THEN Append(trail, to) ELSE trail
  BY DEF Desk!RecordLoanChange, Desk!AppendTrail, Desk!Owed
<1>2. desk[w].kind \in DeskKinds /\ to \in Desk!Statuses /\ loan.version > 0
  BY <1>0, <1>1, DecisionFacts, DeskBusy DEF EntryTrue
<1>3. trail' \in Seq(Desk!Statuses)
  BY <1>0, <1>1, <1>2, TrailEnd DEF DeskTypes
<1>4. /\ desk' \in [Desk!Writers -> DeskEntry] /\ desk'[w] = Desk!Done
      /\ \A v \in Desk!Writers \ {w} :
           \/ desk'[v] = desk[v]
           \/ /\ v # Desk!Submission
              /\ EntryTrue(v, desk'[v], loan.version, lastReview)
              /\ desk'[v].step = "started"
  <2>1. CASE desk[w].kind # "approve"
    <3>1. desk' = [desk EXCEPT ![w] = Desk!Done]
      BY <2>1 DEF Desk!RecordLoanChange
    <3> QED
      BY <1>0, <3>1, DoneIsTrue, DeskEntryMoves, Zenon
  <2>2. CASE desk[w].kind = "approve"
    <3>1. w \in Pair /\ d \in Desk!Writers /\ d # w /\ d # Desk!Submission
      BY <1>0, <1>1, <2>2, WriterFacts DEF EntryTrue
    <3>2. PICK n \in Nat : n = desk[w].version + 1
      BY <1>0 DEF DeskEntry
    <3> DEFINE e == [Desk!Idle EXCEPT !.step = "started", !.kind = "disburse", !.version = n]
    <3>3. e \in DeskEntry /\ e.step = "started" /\ e.kind = "disburse" /\ e.version = n
      <4>1. Desk!Idle \in DeskEntry
        BY DEF Desk!Idle, DeskEntry, DeskSteps
      <4> QED
        BY <4>1 DEF DeskEntry, DeskSteps, DeskKinds
    <3>4. desk' = [desk EXCEPT ![w] = Desk!Done, ![d] = e]
      BY <2>2, <3>2, Zenon DEF Desk!RecordLoanChange
    <3> HIDE DEF e, d
    <3>5. /\ desk' \in [Desk!Writers -> DeskEntry] /\ desk'[w] = Desk!Done /\ desk'[d] = e
          /\ \A v \in Desk!Writers \ {w, d} : desk'[v] = desk[v]
      BY <1>0, <3>1, <3>3, <3>4, DoneIsTrue DEF DeskTypes
    <3>6. EntryTrue(d, e, loan.version, lastReview)
      BY <1>0, <1>1, <2>2, <3>1, <3>2, <3>3 DEF EntryTrue
    <3> QED
      BY <3>1, <3>3, <3>5, <3>6
  <2> QED
    BY <2>1, <2>2
<1> HIDE DEF to, d
<1>5. EntriesTrue'
  BY <1>1, <1>4, DoneIsTrue DEF DeskInv, EntriesTrue
<1>6. NothingYet' /\ Desk!DecisionsStand'
  BY <1>1, <1>2, <1>4, DoneIsTrue, WriterFacts DEF DeskInv, NothingYet, Desk!DecisionsStand
<1>7. ASSUME TrailTrue PROVE TrailTrue'
  <2>1. loan.status = to /\ trail # <<>> /\ trail[Len(trail)] = desk[w].from /\ Recording(w)
    BY <1>1, <1>7 DEF TrailTrue, Recording, Desk!Unrecorded, to
  <2>2. trail' # <<>> /\ trail'[Len(trail')] = loan'.status
    BY <1>0, <1>1, <1>2, <2>1, TrailEnd DEF DeskTypes
  <2>3. \A v \in Desk!Writers : desk'[v].step \notin Desk!Unrecorded
    <3>1. \A v \in Desk!Writers \ {w} : ~Recording(v)
      BY <1>7, <2>1 DEF TrailTrue
    <3> QED
      BY <1>4, <3>1, DoneIsTrue DEF Recording, Desk!Unrecorded
  <2> QED
    BY <2>2, <2>3 DEF TrailTrue, Recording, Desk!Unrecorded
<1> QED
  BY <1>0, <1>1, <1>3, <1>4, <1>5, <1>6, <1>7 DEF DeskInv, DeskTypes, TrailKept

LEMMA DeskStep ==
  ASSUME DeskAssumption, DeskInv, [Desk!Next]_deskPart
  PROVE  DeskInv'
<1>1. CASE UNCHANGED deskPart
  BY <1>1 DEF deskPart, DeskInv, DeskTypes, EntriesTrue, NothingYet, Desk!DecisionsStand,
     TrailKept, TrailTrue, Recording
<1>2. CASE Desk!Next
  BY <1>2, DeskApply, DeskCreationRecorded, DeskMarked, DeskOutcome, DeskDecides, DeskReads,
     DeskWrites, DeskFails, DeskRecords, DeskUnrecorded, Zenon DEF Desk!Next
<1> QED
  BY <1>1, <1>2

\* What was decided stands: only the writers that name no version ever land on one
\* they have not seen, and without them a loan is disbursed only when approval was
\* the reviewers' last word and held only before their first; and once no audit row
\* is outstanding the trail replays to the record, unless a row failed, or updates
\* recorded out of order, against an overtaken read or without a change set
\* (routes/loan.ts, loanStore.ts, loanHistory.ts).  For any number of reviewers,
\* each with a decision on a version of their choice.
THEOREM DecisionsTheorem == Spec => []DecisionsOnRecord
<1> USE DeskAssumption
<1> DEFINE Inv == part = "desk" => DeskInv
<1>1. Init => Inv
  BY DeskStart, Zenon DEF Init
<1>2. Inv /\ [Next]_allVars => Inv'
  <2> SUFFICES ASSUME Inv, [Next]_allVars, part' = "desk" PROVE DeskInv'
    BY Zenon
  <2>1. part = "desk" /\ [Desk!Next]_deskPart
    BY StepsOfServices, Zenon
  <2> QED
    BY <2>1, DeskStep
<1>3. Inv => DecisionsOnRecord
  <2>1. DeskInv => Desk!TrailReplays
    BY Zenon DEF DeskInv, TrailKept, TrailTrue, Recording, Desk!TrailReplays
  <2> QED
    BY <2>1, Zenon DEF DeskInv, DecisionsOnRecord, Desk!DecisionsOnRecord
<1> QED
  BY <1>1, <1>2, <1>3, PTL DEF Spec

-----------------------------------------------------------------------------
(* The wallet session: what the page shows hangs together.                 *)

WalletKeys == Pair \cup {"ledger key", "none"}
WalletSessions == [key : WalletKeys, type : {"none", "stellar", "ledger", "evm"},
                   balance : WalletKeys, others : SUBSET {"evm"}]
WalletCalls == [kind : {"none", "stellar", "ledger", "evm"},
                step : {"idle", "access", "balance", "done"}, key : WalletKeys]
WalletChecks == [step : {"idle", "asking", "balance"}, alive : BOOLEAN, key : WalletKeys]

WalletTypes ==
  /\ extension \in Pair \cup {"none"}
  /\ session \in WalletSessions
  /\ connects \in [Pair -> WalletCalls]
  /\ \A c \in Pair : connects[c].step = "access" => connects[c].kind # "none"
  /\ checks \in [Watches -> WalletChecks]
  /\ idle \in [age : Nat, warned : BOOLEAN] /\ inactive \in Nat

LedgerLost == {"watched a Ledger", "connect failed while connected"}
BalanceLost == {"balance of an earlier account", "connect failed while connected"}

\* The type shown goes with the keys shown.
TypeTrue ==
  /\ session.type = "stellar" => session.key # "none"
  /\ session.type = "evm" => "evm" \in session.others
  /\ session.type = "ledger" /\ walletCause \cap LedgerLost = {} => session.key = "ledger key"

\* The balance of an account is on its way.
Fetching(key) ==
  \/ \E c \in Pair : connects[c].step = "balance" /\ connects[c].key = key
  \/ \E w \in Watches : checks[w].step = "balance" /\ checks[w].key = key

BalanceTrue ==
  session.balance \notin {"none", session.key} =>
    walletCause \cap BalanceLost # {} \/ Fetching(session.key)

\* The ticker logs out rather than let the age come to the timeout.
IdleTrue == idle.age < IdleTimeout

WalletInv == WalletTypes /\ TypeTrue /\ BalanceTrue /\ IdleTrue

LEMMA TimesOf ==
  ASSUME NEW timeout \in Nat, NEW warning \in Nat, warning < timeout
  PROVE  0 < timeout
OBVIOUS

LEMMA WalletTimes ==
  ASSUME WalletAssumption
  PROVE  /\ IdleTimeout \in Nat /\ IdleWarning \in Nat /\ IdleWarning < IdleTimeout
         /\ 0 < IdleTimeout
BY TimesOf, Zenon DEF WalletAssumption

LEMMA WalletStart == WalletAssumption /\ Wallet!Init => WalletInv
<1> SUFFICES ASSUME WalletAssumption, Wallet!Init PROVE WalletInv
  OBVIOUS
<1>1. /\ Wallet!NoSession \in WalletSessions /\ Wallet!NoConnect \in WalletCalls
      /\ Wallet!NoCheck \in WalletChecks /\ Wallet!NoConnect.step = "idle"
      /\ Wallet!NoSession.type = "none" /\ Wallet!NoSession.balance = "none"
  BY DEF Wallet!NoSession, Wallet!NoConnect, Wallet!NoCheck, Wallet!None,
     WalletSessions, WalletCalls, WalletChecks, WalletKeys
<1>2. WalletTypes
  BY <1>1 DEF Wallet!Init, WalletTypes
<1>3. TypeTrue /\ BalanceTrue
  BY <1>1 DEF Wallet!Init, TypeTrue, BalanceTrue
<1>4. IdleTrue
  <2>1. idle.age = 0 /\ ~idle.warned /\ inactive = 0
    BY DEF Wallet!Init
  <2> QED
    BY <2>1, WalletTimes, Zenon DEF IdleTrue
<1> QED
  BY <1>2, <1>3, <1>4 DEF WalletInv

\* The session changes, or not: the idle timer starts anew if it does, and every
\* check is that of cs, cancelled perhaps.
LEMMA WalletBecomes ==
  ASSUME WalletAssumption, WalletInv, NEW s \in WalletSessions, NEW cs \in [Watches -> WalletChecks],
         Wallet!Become(s, cs)
  PROVE  /\ session' = s /\ IdleTrue'
         /\ idle' \in [age : Nat, warned : BOOLEAN] /\ inactive' \in Nat
         /\ checks' \in [Watches -> WalletChecks]
         /\ \A w \in Watches : checks'[w].step = cs[w].step /\ checks'[w].key = cs[w].key
<1>1. session' = s
  BY DEF Wallet!Become
<1>2. /\ checks' \in [Watches -> WalletChecks]
      /\ \A w \in Watches : checks'[w].step = cs[w].step /\ checks'[w].key = cs[w].key
  <2>1. CASE s.key = session.key
    BY <2>1 DEF Wallet!Become
  <2>2. CASE s.key # session.key
    <3>1. checks' = [w \in Watches |-> [cs[w] EXCEPT !.alive = FALSE]]
      BY <2>2 DEF Wallet!Become
    <3>2. \A w \in Watches :
            /\ [cs[w] EXCEPT !.alive = FALSE] \in WalletChecks
            /\ [cs[w] EXCEPT !.alive = FALSE].step = cs[w].step
            /\ [cs[w] EXCEPT !.alive = FALSE].key = cs[w].key
      BY DEF WalletChecks
    <3> QED
      BY <3>1, <3>2
  <2> QED
    BY <2>1, <2>2
<1>3. IdleTrue' /\ idle' \in [age : Nat, warned : BOOLEAN] /\ inactive' \in Nat
  <2>1. CASE s = session
    BY <2>1 DEF Wallet!Become, WalletInv, WalletTypes, IdleTrue
  <2>2. CASE s # session
    <3>1. inactive' = 0 /\ \E b \in BOOLEAN : idle' = [age |-> 0, warned |-> b]
      <4>1. idle.warned \in BOOLEAN /\ Wallet!IsConnected(s) \in BOOLEAN
        BY DEF WalletInv, WalletTypes, Wallet!IsConnected
      <4> QED
        BY <2>2, <4>1 DEF Wallet!Become
    <3>2. \A b \in BOOLEAN : /\ [age |-> 0, warned |-> b] \in [age : Nat, warned : BOOLEAN]
                              /\ [age |-> 0, warned |-> b].age = 0
      OBVIOUS
    <3>3. idle' \in [age : Nat, warned : BOOLEAN] /\ idle'.age = 0 /\ inactive' = 0
      BY <3>1, <3>2, Zenon
    <3>4. 0 \in Nat
      OBVIOUS
    <3> QED
      BY <3>3, <3>4, WalletTimes, Zenon DEF IdleTrue
  <2> QED
    BY <2>1, <2>2
<1> QED
  BY <1>1, <1>2, <1>3

\* The session stays, and the balances that are on their way stay there.
LEMMA WalletQuiet ==
  ASSUME WalletInv, WalletTypes', IdleTrue', UNCHANGED <<session, walletCause>>,
         \A c \in Pair : connects[c].step = "balance" => connects'[c] = connects[c],
         \A w \in Watches : checks[w].step = "balance" => checks'[w] = checks[w]
  PROVE  WalletInv'
<1>1. TypeTrue'
  BY DEF WalletInv, TypeTrue
<1>2. Fetching(session.key) => Fetching(session.key)'
  BY DEF Fetching
<1>3. BalanceTrue'
  BY <1>2 DEF WalletInv, BalanceTrue
<1> QED
  BY <1>1, <1>3 DEF WalletInv

LEMMA WalletCallsStart ==
  ASSUME WalletAssumption, WalletInv, NEW c \in Pair, NEW kind \in {"stellar", "ledger", "evm"},
         Wallet!Connect(c, kind)
  PROVE  WalletInv'
<1>0. WalletTypes
  BY DEF WalletInv
<1> DEFINE e == [kind |-> kind, step |-> "access", key |-> "none"]
<1>1. e \in WalletCalls /\ e.step = "access" /\ e.kind # "none"
  BY DEF WalletCalls, WalletKeys
<1>2. /\ connects[c].step = "idle" /\ connects' = [connects EXCEPT ![c] = e]
      /\ UNCHANGED <<extension, session, checks, idle, inactive, walletCause>>
  BY DEF Wallet!Connect, Wallet!None
<1> HIDE DEF e
<1>3. WalletTypes'
  BY <1>0, <1>1, <1>2 DEF WalletTypes
<1>4. \A d \in Pair : connects[d].step = "balance" => connects'[d] = connects[d]
  BY <1>0, <1>2 DEF WalletTypes
<1>5. IdleTrue'
  BY <1>2 DEF WalletInv, IdleTrue
<1> QED
  BY <1>2, <1>3, <1>4, <1>5, WalletQuiet

\* A check starts, or ends with nothing learned.
LEMMA WalletChecksGo ==
  ASSUME WalletAssumption, WalletInv, NEW w \in Watches,
         Wallet!CheckConnection(w) \/ Wallet!CheckFailed(w)
  PROVE  WalletInv'
<1>0. WalletTypes
  BY DEF WalletInv
<1>1. PICK e \in WalletChecks : /\ checks[w].step # "balance" /\ checks' = [checks EXCEPT ![w] = e]
                                /\ UNCHANGED <<extension, session, connects, idle, inactive, walletCause>>
  <2>1. /\ [step |-> "asking", alive |-> TRUE, key |-> "none"] \in WalletChecks
        /\ Wallet!NoCheck \in WalletChecks
    BY DEF WalletChecks, WalletKeys, Wallet!NoCheck, Wallet!None
  <2> QED
    BY <2>1 DEF Wallet!CheckConnection, Wallet!CheckFailed, Wallet!None
<1>2. WalletTypes'
  BY <1>0, <1>1 DEF WalletTypes
<1>3. \A v \in Watches : checks[v].step = "balance" => checks'[v] = checks[v]
  BY <1>0, <1>1 DEF WalletTypes
<1>4. IdleTrue'
  BY <1>1 DEF WalletInv, IdleTrue
<1> QED
  BY <1>1, <1>2, <1>3, <1>4, WalletQuiet

LEMMA IsBelow ==
  \A age, timeout \in Nat : ~(age + 1 >= timeout) => age + 1 < timeout
OBVIOUS

\* The idle time starts anew, or stays.
LEMMA IdleRestarts ==
  ASSUME IdleTimeout \in Nat, IdleWarning \in Nat, IdleWarning < IdleTimeout,
         idle \in [age : Nat, warned : BOOLEAN], inactive \in Nat, IdleTrue,
         \/ UNCHANGED <<idle, inactive>>
         \/ inactive' = 0 /\ idle' = [idle EXCEPT !.age = 0]
         \/ inactive' = 0 /\ idle' = [age |-> 0, warned |-> FALSE]
         \/ inactive' = 0 /\ idle' = idle
  PROVE  idle' \in [age : Nat, warned : BOOLEAN] /\ inactive' \in Nat /\ IdleTrue'
<1>1. CASE UNCHANGED <<idle, inactive>>
  BY <1>1 DEF IdleTrue
<1>2. CASE inactive' = 0 /\ idle' = [idle EXCEPT !.age = 0]
  BY <1>2 DEF IdleTrue
<1>3. CASE inactive' = 0 /\ idle' = [age |-> 0, warned |-> FALSE]
  BY <1>3 DEF IdleTrue
<1>4. CASE inactive' = 0 /\ idle' = idle
  BY <1>4 DEF IdleTrue
<1> QED
  BY <1>1, <1>2, <1>3, <1>4

\* It goes on, and the warning opens.
LEMMA IdleTicks ==
  ASSUME IdleTimeout \in Nat, IdleWarning \in Nat, IdleWarning < IdleTimeout,
         idle \in [age : Nat, warned : BOOLEAN], inactive \in Nat, IdleTrue,
         idle.age + 1 < IdleTimeout, inactive' = inactive + 1,
         idle' = IF idle.age + 1 >= IdleTimeout - IdleWarning /\ ~idle.warned
                 THEN [age |-> 0, warned |-> TRUE] ELSE [idle EXCEPT !.age = idle.age + 1]
  PROVE  idle' \in [age : Nat, warned : BOOLEAN] /\ inactive' \in Nat /\ IdleTrue'
<1>1. CASE idle.age + 1 >= IdleTimeout - IdleWarning /\ ~idle.warned
  BY <1>1 DEF IdleTrue
<1>2. CASE ~(idle.age + 1 >= IdleTimeout - IdleWarning /\ ~idle.warned)
  BY <1>2 DEF IdleTrue
<1> QED
  BY <1>1, <1>2

\* The extension, and what starts the idle time anew.
LEMMA WalletAside ==
  ASSUME WalletAssumption, WalletInv,
         \/ \E k \in Pair \cup {"none"} : Wallet!ExtensionChanges(k)
         \/ Wallet!ProviderRenders \/ Wallet!HandleActivity \/ Wallet!ExtendSession
         \/ UNCHANGED walletPart
  PROVE  WalletInv'
<1>0. WalletTypes /\ IdleTrue
  BY DEF WalletInv
<1>1. /\ UNCHANGED <<session, connects, checks, walletCause>> /\ extension' \in Pair \cup {"none"}
      /\ \/ UNCHANGED <<idle, inactive>>
         \/ inactive' = 0 /\ idle' = [idle EXCEPT !.age = 0]
         \/ inactive' = 0 /\ idle' = [age |-> 0, warned |-> FALSE]
         \/ inactive' = 0 /\ idle' = idle
  BY <1>0 DEF WalletTypes, Wallet!ExtensionChanges, Wallet!ProviderRenders,
     Wallet!HandleActivity, Wallet!ExtendSession, walletPart
<1>2. idle' \in [age : Nat, warned : BOOLEAN] /\ inactive' \in Nat /\ IdleTrue'
  <2>1. idle \in [age : Nat, warned : BOOLEAN] /\ inactive \in Nat
    BY <1>0 DEF WalletTypes
  <2> QED
    BY <1>0, <1>1, <2>1, WalletTimes, IdleRestarts, Zenon
<1>3. WalletTypes'
  BY <1>0, <1>1, <1>2 DEF WalletTypes
<1> QED
  BY <1>1, <1>2, <1>3, WalletQuiet

\* What a session is that nothing is connected to.
LEMMA WalletEmpty ==
  /\ Wallet!NoSession \in WalletSessions /\ Wallet!NoSession.key = "none"
  /\ Wallet!NoSession.type = "none" /\ Wallet!NoSession.balance = "none"
BY DEF Wallet!NoSession, Wallet!None, WalletSessions, WalletKeys

\* disconnect, or the logout of an idle user.
LEMMA WalletCleared ==
  ASSUME WalletAssumption, WalletInv, Wallet!ClearWalletState, UNCHANGED <<extension, connects>>
  PROVE  WalletInv'
<1>0. WalletTypes /\ checks \in [Watches -> WalletChecks]
  BY DEF WalletInv, WalletTypes
<1>1. /\ session' = Wallet!NoSession /\ IdleTrue'
      /\ idle' \in [age : Nat, warned : BOOLEAN] /\ inactive' \in Nat
      /\ checks' \in [Watches -> WalletChecks]
  BY <1>0, WalletEmpty, WalletBecomes DEF Wallet!ClearWalletState
<1>2. WalletTypes'
  BY <1>0, <1>1, WalletEmpty DEF WalletTypes
<1>3. TypeTrue' /\ BalanceTrue'
  BY <1>1, WalletEmpty DEF TypeTrue, BalanceTrue
<1> QED
  BY <1>1, <1>2, <1>3 DEF WalletInv

\* The ticker.
LEMMA WalletTicks ==
  ASSUME WalletAssumption, WalletInv, Wallet!Tick
  PROVE  WalletInv'
<1>0. WalletTypes /\ IdleTrue
  BY DEF WalletInv, WalletTypes
<1>1. CASE Wallet!LogoutSession
  <2>1. UNCHANGED <<extension, connects>>
    BY DEF Wallet!Tick
  <2> QED
    BY <1>1, <2>1, WalletCleared DEF Wallet!LogoutSession
<1>2. CASE /\ idle.age + 1 < IdleTimeout /\ inactive' = inactive + 1
           /\ idle' = IF idle.age + 1 >= IdleTimeout - IdleWarning /\ ~idle.warned
                      THEN [age |-> 0, warned |-> TRUE] ELSE [idle EXCEPT !.age = idle.age + 1]
           /\ UNCHANGED <<session, checks, extension, connects, walletCause>>
  <2>1. idle' \in [age : Nat, warned : BOOLEAN] /\ inactive' \in Nat /\ IdleTrue'
    <3>1. idle \in [age : Nat, warned : BOOLEAN] /\ inactive \in Nat
      BY <1>0 DEF WalletTypes
    <3> QED
      BY <1>0, <1>2, <3>1, WalletTimes, IdleTicks, Zenon
  <2>2. WalletTypes'
    BY <1>0, <1>2, <2>1 DEF WalletTypes
  <2> QED
    BY <1>2, <2>1, <2>2, WalletQuiet
<1>3. Wallet!LogoutSession \/ ~(idle.age + 1 >= IdleTimeout)
  BY Zenon DEF Wallet!Tick
<1>4. ~(idle.age + 1 >= IdleTimeout) =>
        /\ inactive' = inactive + 1
        /\ idle' = IF idle.age + 1 >= IdleTimeout - IdleWarning /\ ~idle.warned
                   THEN [age |-> 0, warned |-> TRUE] ELSE [idle EXCEPT !.age = idle.age + 1]
        /\ UNCHANGED <<session, checks, extension, connects, walletCause>>
  BY Zenon DEF Wallet!Tick
<1>5. ~(idle.age + 1 >= IdleTimeout) => idle.age + 1 < IdleTimeout
  <2>1. idle.age \in Nat /\ IdleTimeout \in Nat
    BY <1>0, WalletTimes DEF WalletTypes
  <2> QED
    BY <2>1, IsBelow, Zenon
<1> QED
  BY <1>1, <1>2, <1>3, <1>4, <1>5, Zenon

\* The session becomes another one of which the same is true.
LEMMA WalletShows ==
  ASSUME WalletAssumption, WalletInv, NEW s \in WalletSessions, NEW cs \in [Watches -> WalletChecks],
         Wallet!Become(s, cs), extension' = extension,
         connects' \in [Pair -> WalletCalls],
         \A c \in Pair : connects'[c].step = "access" => connects'[c].kind # "none",
         TypeTrue', BalanceTrue'
  PROVE  WalletInv'
<1>1. /\ session' = s /\ IdleTrue'
      /\ idle' \in [age : Nat, warned : BOOLEAN] /\ inactive' \in Nat
      /\ checks' \in [Watches -> WalletChecks]
  BY WalletBecomes
<1>2. WalletTypes'
  BY <1>1 DEF WalletInv, WalletTypes
<1> QED
  BY <1>1, <1>2 DEF WalletInv

\* A connect call moves to another step.
LEMMA WalletCallMoves ==
  ASSUME WalletTypes, NEW c \in Pair, NEW step \in {"balance", "done"}, NEW key \in WalletKeys,
         \/ connects' = [connects EXCEPT ![c].step = step]
         \/ connects' = [connects EXCEPT ![c].step = step, ![c].key = key]
  PROVE  /\ connects' \in [Pair -> WalletCalls]
         /\ \A d \in Pair : connects'[d].step = "access" => connects'[d].kind # "none"
         /\ connects'[c].step = step
         /\ connects' = [connects EXCEPT ![c].step = step, ![c].key = key] => connects'[c].key = key
         /\ \A d \in Pair \ {c} : connects'[d] = connects[d]
<1>1. connects \in [Pair -> WalletCalls] /\ connects[c] \in WalletCalls
  BY DEF WalletTypes
<1>2. PICK e \in WalletCalls :
        /\ e.step = step /\ connects' = [connects EXCEPT ![c] = e]
        /\ connects' = [connects EXCEPT ![c].step = step, ![c].key = key] => e.key = key
  <2>1. CASE connects' = [connects EXCEPT ![c].step = step, ![c].key = key]
    <3> DEFINE e == [connects[c] EXCEPT !.step = step, !.key = key]
    <3>1. e \in WalletCalls /\ e.step = step /\ e.key = key
      BY <1>1 DEF WalletCalls
    <3>2. connects' = [connects EXCEPT ![c] = e]
      BY <1>1, <2>1
    <3> HIDE DEF e
    <3> QED
      BY <3>1, <3>2, Zenon
  <2>2. CASE /\ connects' = [connects EXCEPT ![c].step = step]
             /\ connects' # [connects EXCEPT ![c].step = step, ![c].key = key]
    <3> DEFINE e == [connects[c] EXCEPT !.step = step]
    <3>1. e \in WalletCalls /\ e.step = step
      BY <1>1 DEF WalletCalls
    <3>2. connects' = [connects EXCEPT ![c] = e]
      BY <1>1, <2>2
    <3> HIDE DEF e
    <3> QED
      BY <2>2, <3>1, <3>2, Zenon
  <2> QED
    BY <2>1, <2>2
<1>3. /\ connects' \in [Pair -> WalletCalls] /\ connects'[c] = e
      /\ \A d \in Pair \ {c} : connects'[d] = connects[d]
  BY <1>1, <1>2
<1>4. \A d \in Pair : connects'[d].step = "access" => connects'[d].kind # "none"
  BY <1>2, <1>3 DEF WalletTypes
<1> QED
  BY <1>2, <1>3, <1>4

\* The wallet answers a connect call.
LEMMA WalletGranted ==
  ASSUME WalletAssumption, WalletInv, NEW c \in Pair, Wallet!Granted(c)
  PROVE  WalletInv'
<1>0. /\ WalletTypes /\ TypeTrue /\ BalanceTrue /\ session \in WalletSessions
      /\ checks \in [Watches -> WalletChecks] /\ connects[c].step = "access"
      /\ connects[c].kind \in {"stellar", "ledger", "evm"}
      /\ extension' = extension
      /\ "ledger key" \in WalletKeys /\ "ledger key" # "none"
  BY DEF WalletInv, WalletTypes, WalletCalls, Wallet!Granted, WalletKeys
<1>1. ASSUME NEW key \in WalletKeys, key # "none",
             NEW kind \in {"stellar", "ledger"}, kind = "ledger" => key = "ledger key",
             Wallet!Become([session EXCEPT !.key = key, !.type = kind], checks),
             connects' = [connects EXCEPT ![c].step = "balance", ![c].key = key]
      PROVE  WalletInv'
  <2> DEFINE s == [session EXCEPT !.key = key, !.type = kind]
  <2>1. s \in WalletSessions /\ s.key = key /\ s.type = kind
    BY <1>0 DEF WalletSessions
  <2> HIDE DEF s
  <2>2. session' = s
    BY <1>1 DEF Wallet!Become, s
  <2>3. /\ connects' \in [Pair -> WalletCalls]
        /\ \A d \in Pair : connects'[d].step = "access" => connects'[d].kind # "none"
        /\ connects'[c].step = "balance" /\ connects'[c].key = key
    <3>1. "balance" \in {"balance", "done"}
      OBVIOUS
    <3> QED
      BY <1>0, <1>1, <3>1, WalletCallMoves, Zenon
  <2>4. TypeTrue'
    BY <1>1, <2>1, <2>2 DEF TypeTrue
  <2>5. BalanceTrue'
    BY <2>1, <2>2, <2>3 DEF BalanceTrue, Fetching
  <2> QED
    BY <1>0, <1>1, <2>1, <2>3, <2>4, <2>5, WalletShows DEF s
<1>2. ASSUME NEW kind \in {"evm"},
             Wallet!Become([session EXCEPT !.others = @ \cup {kind}, !.type = kind], checks),
             connects' = [connects EXCEPT ![c].step = "done"], walletCause' = walletCause
      PROVE  WalletInv'
  <2> DEFINE s == [session EXCEPT !.others = session.others \cup {kind}, !.type = kind]
  <2>1. /\ s \in WalletSessions /\ s.key = session.key /\ s.type = "evm" /\ "evm" \in s.others
        /\ s.balance = session.balance
    BY <1>0, <1>2 DEF WalletSessions
  <2> HIDE DEF s
  <2>2. Wallet!Become(s, checks)
    BY <1>2 DEF s
  <2>3. session' = s
    BY <2>2 DEF Wallet!Become
  <2>4. /\ connects' \in [Pair -> WalletCalls]
        /\ \A d \in Pair : connects'[d].step = "access" => connects'[d].kind # "none"
        /\ \A d \in Pair \ {c} : connects'[d] = connects[d]
    <3>1. "done" \in {"balance", "done"}
      OBVIOUS
    <3> QED
      BY <1>0, <1>2, <3>1, WalletCallMoves, Zenon
  <2>5. TypeTrue'
    BY <2>1, <2>3 DEF TypeTrue
  <2>6. Fetching(session.key) => Fetching(session.key)'
    <3>1. \A w \in Watches : checks'[w].step = checks[w].step /\ checks'[w].key = checks[w].key
      BY <1>0, <2>1, <2>2, WalletBecomes
    <3> QED
      BY <1>0, <2>1, <2>3, <2>4, <3>1 DEF Fetching
  <2>7. BalanceTrue'
    BY <1>0, <1>2, <2>1, <2>3, <2>6 DEF BalanceTrue
  <2> QED
    BY <1>0, <2>1, <2>2, <2>4, <2>5, <2>7, WalletShows
<1>3. CASE connects[c].kind = "stellar"
  <2>1. /\ extension # "none" /\ extension \in WalletKeys
        /\ Wallet!Become([session EXCEPT !.key = extension, !.type = "stellar"], checks)
        /\ connects' = [connects EXCEPT ![c].step = "balance", ![c].key = extension]
    BY <1>0, <1>3 DEF Wallet!Granted, Wallet!None, WalletTypes, WalletKeys
  <2>2. "stellar" \in {"stellar", "ledger"} /\ "stellar" # "ledger"
    OBVIOUS
  <2> QED
    BY <1>1, <2>1, <2>2, Zenon
<1>4. CASE connects[c].kind = "ledger"
  <2>1. /\ Wallet!Become([session EXCEPT !.key = "ledger key", !.type = "ledger"], checks)
        /\ connects' = [connects EXCEPT ![c].step = "balance", ![c].key = "ledger key"]
    BY <1>0, <1>4 DEF Wallet!Granted, Wallet!None
  <2>2. "ledger" \in {"stellar", "ledger"}
    OBVIOUS
  <2> QED
    BY <1>0, <1>1, <2>1, <2>2, Zenon
<1>5. CASE connects[c].kind = "evm"
  <2>1. /\ Wallet!Become([session EXCEPT !.others = @ \cup {"evm"}, !.type = "evm"], checks)
        /\ connects' = [connects EXCEPT ![c].step = "done"] /\ walletCause' = walletCause
    BY <1>0, <1>5 DEF Wallet!Granted
  <2> QED
    BY <1>2, <2>1
<1> QED
  BY <1>0, <1>3, <1>4, <1>5

\* The catch of a Stellar connect call, or of another.
LEMMA WalletRefused ==
  ASSUME WalletAssumption, WalletInv, NEW c \in Pair, Wallet!Refused(c)
  PROVE  WalletInv'
<1>0. /\ WalletTypes /\ TypeTrue /\ BalanceTrue /\ session \in WalletSessions /\ IdleTrue
      /\ checks \in [Watches -> WalletChecks] /\ connects[c].step = "access"
      /\ extension' = extension /\ connects' = [connects EXCEPT ![c].step = "done"]
  BY DEF WalletInv, WalletTypes, Wallet!Refused
<1>1. /\ connects' \in [Pair -> WalletCalls]
      /\ \A d \in Pair : connects'[d].step = "access" => connects'[d].kind # "none"
      /\ \A d \in Pair \ {c} : connects'[d] = connects[d]
  <2>1. "done" \in {"balance", "done"} /\ "none" \in WalletKeys
    BY DEF WalletKeys
  <2> QED
    BY <1>0, <2>1, WalletCallMoves, Zenon
<1>2. CASE connects[c].kind # "stellar"
  <2>1. UNCHANGED <<session, checks, idle, inactive, walletCause>>
    BY <1>2 DEF Wallet!Refused
  <2>2. WalletTypes' /\ IdleTrue'
    BY <1>0, <1>1, <2>1 DEF WalletTypes, IdleTrue
  <2>3. \A d \in Pair : connects[d].step = "balance" => connects'[d] = connects[d]
    BY <1>0, <1>1
  <2> QED
    BY <2>1, <2>2, <2>3, WalletQuiet
<1>3. CASE connects[c].kind = "stellar"
  <2> DEFINE type == IF session.type = "stellar" THEN "none" ELSE session.type
  <2> DEFINE s == [session EXCEPT !.key = "none", !.type = type]
  <2>1. /\ s \in WalletSessions /\ s.key = "none" /\ s.type = type
        /\ s.others = session.others /\ s.balance = session.balance
    BY <1>0 DEF WalletSessions, WalletKeys
  <2>2. /\ Wallet!Become(s, checks)
        /\ session.key # "none" => "connect failed while connected" \in walletCause'
        /\ walletCause \subseteq walletCause'
    BY <1>3 DEF Wallet!Refused, Wallet!None
  <2>3. type # "stellar" /\ (type # "none" => type = session.type)
    OBVIOUS
  <2> HIDE DEF s, type
  <2>4. session' = s
    BY <2>2 DEF Wallet!Become
  <2>5. TypeTrue'
    BY <1>0, <2>1, <2>2, <2>3, <2>4 DEF TypeTrue, LedgerLost
  <2>6. BalanceTrue'
    <3>1. CASE session.key # "none"
      <4>1. walletCause' \cap BalanceLost # {}
        BY <2>2, <3>1 DEF BalanceLost
      <4> QED
        BY <4>1 DEF BalanceTrue
    <3>2. CASE session.key = "none"
      <4>1. \A w \in Watches : checks'[w].step = checks[w].step /\ checks'[w].key = checks[w].key
        BY <1>0, <2>1, <2>2, WalletBecomes
      <4>2. Fetching(session.key) => Fetching(session.key)'
        BY <1>0, <1>1, <2>1, <2>4, <3>2, <4>1 DEF Fetching
      <4>3. walletCause \cap BalanceLost # {} => walletCause' \cap BalanceLost # {}
        BY <2>2
      <4> QED
        BY <1>0, <2>1, <2>4, <3>2, <4>2, <4>3 DEF BalanceTrue
    <3> QED
      BY <3>1, <3>2
  <2> QED
    BY <1>0, <1>1, <2>1, <2>2, <2>5, <2>6, WalletShows
<1> QED
  BY <1>2, <1>3

\* A balance arrives.
LEMMA WalletShowsBalance ==
  ASSUME WalletAssumption, WalletInv, NEW key \in WalletKeys, NEW found \in BOOLEAN,
         NEW cs \in [Watches -> WalletChecks], Wallet!ShowBalance(key, found, cs),
         extension' = extension, connects' \in [Pair -> WalletCalls],
         \A c \in Pair : connects'[c].step = "access" => connects'[c].kind # "none"
  PROVE  WalletInv'
<1>0. TypeTrue /\ session \in WalletSessions
  BY DEF WalletInv, WalletTypes
<1> DEFINE balance == IF found THEN key ELSE "none"
<1> DEFINE s == [session EXCEPT !.balance = balance]
<1>1. /\ s \in WalletSessions /\ s.key = session.key /\ s.type = session.type
      /\ s.others = session.others /\ s.balance = balance
  BY <1>0 DEF WalletSessions, WalletKeys
<1>2. /\ Wallet!Become(s, cs)
      /\ balance \notin {"none", session.key} => "balance of an earlier account" \in walletCause'
      /\ walletCause \subseteq walletCause' \cup {"balance of an earlier account"}
  BY DEF Wallet!ShowBalance, Wallet!None
<1> HIDE DEF s, balance
<1>3. session' = s
  BY <1>2 DEF Wallet!Become
<1>4. TypeTrue'
  <2>1. walletCause' \cap LedgerLost = {} => walletCause \cap LedgerLost = {}
    BY <1>2 DEF LedgerLost
  <2> QED
    BY <1>0, <1>1, <1>3, <2>1 DEF TypeTrue
<1>5. BalanceTrue'
  BY <1>1, <1>2, <1>3 DEF BalanceTrue, BalanceLost
<1> QED
  BY <1>1, <1>2, <1>4, <1>5, WalletShows

LEMMA WalletBalance ==
  ASSUME WalletAssumption, WalletInv, NEW found \in BOOLEAN,
         \/ \E c \in Pair : Wallet!ConnectBalance(c, found)
         \/ \E w \in Watches : Wallet!CheckBalance(w, found)
  PROVE  WalletInv'
<1>0. /\ WalletTypes /\ connects \in [Pair -> WalletCalls] /\ checks \in [Watches -> WalletChecks]
      /\ \A d \in Pair : connects[d].step = "access" => connects[d].kind # "none"
  BY DEF WalletInv, WalletTypes
<1>1. ASSUME NEW c \in Pair, Wallet!ConnectBalance(c, found) PROVE WalletInv'
  <2>1. /\ connects' = [connects EXCEPT ![c].step = "done"] /\ extension' = extension
        /\ Wallet!ShowBalance(connects[c].key, found, checks)
    BY <1>1, Zenon DEF Wallet!ConnectBalance
  <2>2. /\ connects' \in [Pair -> WalletCalls]
        /\ \A d \in Pair : connects'[d].step = "access" => connects'[d].kind # "none"
    <3>1. "done" \in {"balance", "done"} /\ "none" \in WalletKeys
      BY DEF WalletKeys
    <3> QED
      BY <1>0, <2>1, <3>1, WalletCallMoves, Zenon
  <2>3. connects[c].key \in WalletKeys
    BY <1>0 DEF WalletCalls
  <2> QED
    BY <1>0, <2>1, <2>2, <2>3, WalletShowsBalance, Zenon
<1>2. ASSUME NEW w \in Watches, Wallet!CheckBalance(w, found) PROVE WalletInv'
  <2>1. /\ Wallet!ShowBalance(checks[w].key, found, [checks EXCEPT ![w] = Wallet!NoCheck])
        /\ extension' = extension /\ connects' = connects
    BY <1>2, Zenon DEF Wallet!CheckBalance
  <2>2. /\ [checks EXCEPT ![w] = Wallet!NoCheck] \in [Watches -> WalletChecks]
        /\ checks[w].key \in WalletKeys
    <3>1. Wallet!NoCheck \in WalletChecks
      BY DEF Wallet!NoCheck, Wallet!None, WalletChecks, WalletKeys
    <3> QED
      BY <1>0, <3>1 DEF WalletChecks
  <2>3. /\ connects' \in [Pair -> WalletCalls]
        /\ \A d \in Pair : connects'[d].step = "access" => connects'[d].kind # "none"
    BY <1>0, <2>1
  <2> QED
    BY <1>0, <2>1, <2>2, <2>3, WalletShowsBalance, Zenon
<1> QED
  BY <1>1, <1>2

\* The watcher's check is answered.
LEMMA WalletWatched ==
  ASSUME WalletAssumption, WalletInv, NEW w \in Watches, Wallet!CheckAnswered(w)
  PROVE  WalletInv'
<1>0. /\ WalletTypes /\ TypeTrue /\ BalanceTrue /\ IdleTrue /\ session \in WalletSessions
      /\ checks \in [Watches -> WalletChecks] /\ connects \in [Pair -> WalletCalls]
      /\ \A d \in Pair : connects[d].step = "access" => connects[d].kind # "none"
      /\ checks[w].step = "asking" /\ UNCHANGED <<extension, connects>>
      /\ extension \in Pair \cup {"none"}
  BY DEF WalletInv, WalletTypes, Wallet!CheckAnswered
<1>1. Wallet!NoCheck \in WalletChecks /\ Wallet!NoCheck.step = "idle"
  BY DEF Wallet!NoCheck, Wallet!None, WalletChecks, WalletKeys
<1>2. CASE ~checks[w].alive
  <2>1. /\ checks' = [checks EXCEPT ![w] = Wallet!NoCheck]
        /\ UNCHANGED <<session, idle, inactive, walletCause>>
    BY <1>2 DEF Wallet!CheckAnswered
  <2>2. WalletTypes' /\ IdleTrue'
    BY <1>0, <1>1, <2>1 DEF WalletTypes, IdleTrue
  <2>3. \A v \in Watches : checks[v].step = "balance" => checks'[v] = checks[v]
    BY <1>0, <2>1
  <2> QED
    BY <1>0, <2>1, <2>2, <2>3, WalletQuiet
<1>3. CASE checks[w].alive /\ extension = "none"
  <2> DEFINE type == IF session.type = "stellar" THEN "none" ELSE session.type
  <2> DEFINE s == [session EXCEPT !.key = "none", !.balance = "none", !.type = type]
  <2> DEFINE cs == [checks EXCEPT ![w] = Wallet!NoCheck]
  <2>1. /\ s \in WalletSessions /\ s.key = "none" /\ s.type = type /\ s.balance = "none"
        /\ s.others = session.others
    BY <1>0 DEF WalletSessions, WalletKeys
  <2>2. cs \in [Watches -> WalletChecks]
    BY <1>0, <1>1
  <2>3. /\ Wallet!Become(s, cs) /\ walletCause \subseteq walletCause'
        /\ session.key = "ledger key" => "watched a Ledger" \in walletCause'
    <3>1. s = Wallet!Dropped
      BY DEF Wallet!Dropped, Wallet!None
    <3> HIDE DEF s, cs, type
    <3>2. "ledger key" # "none" /\ Wallet!None = "none"
      BY DEF Wallet!None
    <3> QED
      BY <1>3, <2>1, <3>1, <3>2 DEF Wallet!CheckAnswered, cs
  <2>4. type # "stellar" /\ (type # "none" => type = session.type)
    OBVIOUS
  <2> HIDE DEF s, type, cs
  <2>5. session' = s
    BY <2>3 DEF Wallet!Become
  <2>6. TypeTrue' /\ BalanceTrue'
    BY <1>0, <2>1, <2>3, <2>4, <2>5 DEF TypeTrue, BalanceTrue, LedgerLost
  <2> QED
    BY <1>0, <2>1, <2>2, <2>3, <2>6, WalletShows
<1>4. CASE checks[w].alive /\ extension # "none"
  <2> DEFINE s == [session EXCEPT !.key = extension]
  <2> DEFINE e == IF extension # session.key
                  THEN [step |-> "balance", alive |-> FALSE, key |-> extension]
                  ELSE Wallet!NoCheck
  <2> DEFINE cs == [checks EXCEPT ![w] = e]
  <2>1. /\ s \in WalletSessions /\ s.key = extension /\ s.type = session.type
        /\ s.balance = session.balance /\ s.others = session.others
    BY <1>0 DEF WalletSessions, WalletKeys
  <2>2. /\ e \in WalletChecks
        /\ extension # session.key => e.step = "balance" /\ e.key = extension
    BY <1>0, <1>1 DEF WalletChecks, WalletKeys
  <2>3. /\ Wallet!Become(s, cs) /\ walletCause \subseteq walletCause'
        /\ session.key = "ledger key" /\ extension # "ledger key"
             => "watched a Ledger" \in walletCause'
    <3>1. s = Wallet!Adopted /\ extension # Wallet!None
      BY <1>4 DEF Wallet!Adopted, Wallet!None
    <3>2. /\ Wallet!Become(s, [checks EXCEPT ![w] = e])
          /\ walletCause' = walletCause \cup
               (IF s.key # session.key /\ session.key = "ledger key"
                THEN {"watched a Ledger"} ELSE {})
      <4> HIDE DEF s
      <4> QED
        BY <1>4, <3>1 DEF Wallet!CheckAnswered
    <3> HIDE DEF s, cs, e
    <3> QED
      BY <2>1, <3>2 DEF cs
  <2>4. cs \in [Watches -> WalletChecks] /\ cs[w] = e /\ \A v \in Watches \ {w} : cs[v] = checks[v]
    <3> HIDE DEF e
    <3> QED
      BY <1>0, <2>2
  <2> HIDE DEF s, cs, e
  <2>5. session' = s
    BY <2>3 DEF Wallet!Become
  <2>6. extension # "ledger key" /\ extension # "none"
    BY <1>0, <1>4, Zenon DEF WalletAssumption
  <2>7. TypeTrue'
    BY <1>0, <2>1, <2>3, <2>5, <2>6 DEF TypeTrue, LedgerLost
  <2>8. BalanceTrue'
    <3>1. \A v \in Watches : checks'[v].step = cs[v].step /\ checks'[v].key = cs[v].key
      BY <2>1, <2>3, <2>4, WalletBecomes
    <3>2. CASE extension # session.key
      BY <2>1, <2>2, <2>4, <2>5, <3>1, <3>2 DEF BalanceTrue, Fetching
    <3>3. CASE extension = session.key
      <4>1. Fetching(session.key) => Fetching(session.key)'
        <5>1. \A v \in Watches : checks[v].step = "balance" => v # w
          BY <1>0
        <5>2. \A v \in Watches : checks[v].step = "balance" =>
                checks'[v].step = "balance" /\ checks'[v].key = checks[v].key
          BY <2>4, <3>1, <5>1
        <5>3. session'.key = session.key /\ connects' = connects
          BY <1>0, <2>1, <2>5, <3>3
        <5> QED
          BY <5>2, <5>3 DEF Fetching
      <4>2. walletCause \cap BalanceLost # {} => walletCause' \cap BalanceLost # {}
        BY <2>3
      <4> QED
        BY <1>0, <2>1, <2>5, <3>3, <4>1, <4>2 DEF BalanceTrue
    <3> QED
      BY <3>2, <3>3
  <2> QED
    BY <1>0, <2>1, <2>3, <2>4, <2>7, <2>8, WalletShows
<1> QED
  BY <1>2, <1>3, <1>4

LEMMA WalletStep ==
  ASSUME WalletAssumption, WalletInv, [Wallet!Next]_walletPart
  PROVE  WalletInv'
<1>1. ASSUME Wallet!Disconnect PROVE WalletInv'
  BY <1>1, WalletCleared DEF Wallet!Disconnect
<1>2. CASE UNCHANGED walletPart
  BY <1>2, WalletAside
<1>3. CASE Wallet!Next
  BY <1>1, <1>3, WalletCallsStart, WalletGranted, WalletRefused, WalletBalance, WalletChecksGo,
     WalletWatched, WalletAside, WalletTicks, Zenon DEF Wallet!Next, Wallet!None
<1> QED
  BY <1>2, <1>3

\* What the page shows of the wallet hangs together, type and key, key and balance
\* (WalletContext.tsx): except that a Ledger's type may outlast its key after the
\* watcher took that for Freighter's, or after a connect call failed over a live
\* session, and a balance that came late may be another account's, until the next
\* key granted, balance fetched or end of the session.  For any number of accounts,
\* calls and overlapping checks.
THEOREM WalletTheorem == Spec => []SessionHangsTogether
<1> USE WalletAssumption
<1> DEFINE Inv == part = "wallet" => WalletInv
<1>1. Init => Inv
  BY WalletStart, Zenon DEF Init
<1>2. Inv /\ [Next]_allVars => Inv'
  <2> SUFFICES ASSUME Inv, [Next]_allVars, part' = "wallet" PROVE WalletInv'
    BY Zenon
  <2>1. part = "wallet" /\ [Wallet!Next]_walletPart
    BY StepsOfServices, Zenon
  <2> QED
    BY <2>1, WalletStep
<1>3. Inv => SessionHangsTogether
  <2> SUFFICES ASSUME WalletInv PROVE Wallet!SessionHangsTogether
    BY DEF SessionHangsTogether
  <2>1. TypeTrue /\ BalanceTrue
    BY DEF WalletInv
  <2> QED
    BY <2>1, Zenon DEF TypeTrue, BalanceTrue, Fetching, LedgerLost, BalanceLost,
       Wallet!SessionHangsTogether, Wallet!None
<1> QED
  BY <1>1, <1>2, <1>3, PTL DEF Spec

-----------------------------------------------------------------------------
(* The transaction flow: two instances, of which TransactionFlowProofs has  *)
(* the invariant.                                                          *)

FlowP == INSTANCE TransactionFlowProofs WITH
  Envelopes <- Pair, Submits <- {"submit"}, Polls <- {1, 2}, WalletMayGo <- FALSE
AgainP == INSTANCE TransactionFlowProofs WITH
  Envelopes <- {"envelope"}, Submits <- Pair, Polls <- {1, 2}, WalletMayGo <- TRUE

\* The theorems speak of the instances that are checked.
LEMMA FlowSame ==
  /\ Flow!Init => FlowP!Init
  /\ [Flow!Next]_flowPart => [FlowP!Next]_flowPart
  /\ FlowP!OutcomeShownIsReal => Flow!OutcomeShownIsReal
<1>1. Flow!Init => FlowP!Init
  BY Zenon DEF Flow!Init, FlowP!Init, Flow!None, FlowP!None, Flow!InitialState, FlowP!InitialState,
     Flow!NoPoll, FlowP!NoPoll, Flow!NoSubmit, FlowP!NoSubmit
<1>2. [Flow!Next]_flowPart => [FlowP!Next]_flowPart
  BY Zenon DEF Flow!Next, FlowP!Next, Flow!Rebuild, FlowP!Rebuild, Flow!WalletLost, FlowP!WalletLost,
     Flow!WalletBack, FlowP!WalletBack, Flow!Close, FlowP!Close, Flow!ToggleDataSaver,
     FlowP!ToggleDataSaver, Flow!Previewed, FlowP!Previewed, Flow!Applied, FlowP!Applied,
     Flow!Submit, FlowP!Submit, Flow!Broadcast, FlowP!Broadcast, Flow!SendRefused, FlowP!SendRefused,
     Flow!AnswerLost, FlowP!AnswerLost, Flow!Submitted, FlowP!Submitted,
     Flow!SignatureRefused, FlowP!SignatureRefused, Flow!SubmitFailed, FlowP!SubmitFailed,
     Flow!IntervalFires, FlowP!IntervalFires, Flow!Serve, FlowP!Serve,
     Flow!PollAnswered, FlowP!PollAnswered, Flow!PollFailed, FlowP!PollFailed,
     Flow!Report, FlowP!Report, Flow!Render, FlowP!Render, Flow!Monitor, FlowP!Monitor,
     Flow!NextPoll, FlowP!NextPoll, Flow!Outcome, FlowP!Outcome, Flow!Uncovered, FlowP!Uncovered,
     Flow!MapToUiPhase, FlowP!MapToUiPhase, Flow!None, FlowP!None,
     Flow!InitialState, FlowP!InitialState, Flow!NoPoll, FlowP!NoPoll, Flow!NoSubmit, FlowP!NoSubmit
<1>3. FlowP!OutcomeShownIsReal => Flow!OutcomeShownIsReal
  BY Zenon DEF FlowP!OutcomeShownIsReal, Flow!OutcomeShownIsReal, Flow!None, FlowP!None
<1> QED
  BY <1>1, <1>2, <1>3

LEMMA AgainSame ==
  /\ Again!Init => AgainP!Init
  /\ [Again!Next]_flowPart => [AgainP!Next]_flowPart
  /\ AgainP!OutcomeShownIsReal => Again!OutcomeShownIsReal
<1>1. Again!Init => AgainP!Init
  BY Zenon DEF Again!Init, AgainP!Init, Again!None, AgainP!None, Again!InitialState, AgainP!InitialState,
     Again!NoPoll, AgainP!NoPoll, Again!NoSubmit, AgainP!NoSubmit
<1>2. [Again!Next]_flowPart => [AgainP!Next]_flowPart
  BY Zenon DEF Again!Next, AgainP!Next, Again!Rebuild, AgainP!Rebuild, Again!WalletLost, AgainP!WalletLost,
     Again!WalletBack, AgainP!WalletBack, Again!Close, AgainP!Close, Again!ToggleDataSaver,
     AgainP!ToggleDataSaver, Again!Previewed, AgainP!Previewed, Again!Applied, AgainP!Applied,
     Again!Submit, AgainP!Submit, Again!Broadcast, AgainP!Broadcast, Again!SendRefused, AgainP!SendRefused,
     Again!AnswerLost, AgainP!AnswerLost, Again!Submitted, AgainP!Submitted,
     Again!SignatureRefused, AgainP!SignatureRefused, Again!SubmitFailed, AgainP!SubmitFailed,
     Again!IntervalFires, AgainP!IntervalFires, Again!Serve, AgainP!Serve,
     Again!PollAnswered, AgainP!PollAnswered, Again!PollFailed, AgainP!PollFailed,
     Again!Report, AgainP!Report, Again!Render, AgainP!Render, Again!Monitor, AgainP!Monitor,
     Again!NextPoll, AgainP!NextPoll, Again!Outcome, AgainP!Outcome, Again!Uncovered, AgainP!Uncovered,
     Again!MapToUiPhase, AgainP!MapToUiPhase, Again!None, AgainP!None,
     Again!InitialState, AgainP!InitialState, Again!NoPoll, AgainP!NoPoll, Again!NoSubmit, AgainP!NoSubmit
<1>3. AgainP!OutcomeShownIsReal => Again!OutcomeShownIsReal
  BY Zenon DEF AgainP!OutcomeShownIsReal, Again!OutcomeShownIsReal, Again!None, AgainP!None
<1> QED
  BY <1>1, <1>2, <1>3

LEMMA FlowKept ==
  /\ FlowP!EnvelopesAreNamed /\ Flow!Init => FlowP!FlowInv
  /\ FlowP!EnvelopesAreNamed /\ FlowP!FlowInv /\ [Flow!Next]_flowPart => FlowP!FlowInv'
  /\ FlowP!FlowInv => Flow!OutcomeShownIsReal
BY FlowSame, FlowP!FlowStart, FlowP!FlowStep, FlowP!FlowShown, Zenon DEF flowPart

LEMMA AgainKept ==
  /\ AgainP!EnvelopesAreNamed /\ Again!Init => AgainP!FlowInv
  /\ AgainP!EnvelopesAreNamed /\ AgainP!FlowInv /\ [Again!Next]_flowPart => AgainP!FlowInv'
  /\ AgainP!FlowInv => Again!OutcomeShownIsReal
BY AgainSame, AgainP!FlowStart, AgainP!FlowStep, AgainP!FlowShown, Zenon DEF flowPart

\* A success is shown only for a transaction that succeeded, and "reverted on-chain"
\* only for one that failed, until the modal reads the monitor of an earlier one or
\* a poll is answered late; a modal that cannot be closed is being polled for, until
\* two submits overlap; and a monitor that says it polls does, until answers are
\* late or overlap.  Of the errors of a failed poll or a lost answer nothing is
\* claimed.  The invariant is kept for any envelopes and any number of overlapping
\* submits and polls (DepositModal.tsx, useTransactionMonitor.ts).
THEOREM OutcomeTheorem == Spec => []OutcomeShownIsReal
<1> DEFINE Inv == /\ part = "flow" => FlowP!FlowInv
                  /\ part = "resubmit" => AgainP!FlowInv
<1>0. FlowP!EnvelopesAreNamed /\ AgainP!EnvelopesAreNamed
  BY WalletAssumption DEF FlowP!EnvelopesAreNamed, AgainP!EnvelopesAreNamed, FlowP!None, AgainP!None
<1>1. Init => Inv
  <2>1. Init => (part = "flow" => Flow!Init) /\ (part = "resubmit" => Again!Init)
    BY DEF Init
  <2> QED
    BY <1>0, <2>1, FlowKept, AgainKept, Zenon
<1>2. Inv /\ [Next]_allVars => Inv'
  <2>1. [Next]_allVars => /\ part' = part
                          /\ part = "flow" => [Flow!Next]_flowPart
                          /\ part = "resubmit" => [Again!Next]_flowPart
    BY StepsOfServices, Zenon
  <2> QED
    BY <1>0, <2>1, FlowKept, AgainKept, Zenon
<1>3. Inv => OutcomeShownIsReal
  BY FlowKept, AgainKept, Zenon DEF OutcomeShownIsReal
<1> QED
  BY <1>1, <1>2, <1>3, PTL DEF Spec

-----------------------------------------------------------------------------
(* Late fees: the balance and the waivers, which the audit and the          *)
(* decisions read and write in statements of their own.                     *)

FeeAccounts == [fee : Nat, missed : Nat, status : {"Repaying", "DEFAULTED"},
                due : {"current", "overdue", "grace", "expired"}]
Verdicts == {"APPROVED", "PARTIAL", "DENIED"}
FeeWaivers == [step : {"none", "checked", "PENDING"} \cup Verdicts, waived : Nat]
FeeDecisions == [step : {"idle", "mark", "credit", "done"}, waiver : Pair \cup {"none"},
                 verdict : Verdicts \cup {"none"}, seen : Nat, amount : Nat]

FeeTypes ==
  /\ account \in FeeAccounts
  /\ audit \in [step : {"idle", "found"}, seen : FeeAccounts]
  /\ waivers \in [Pair -> FeeWaivers]
  /\ deciding \in [Rulings -> FeeDecisions]
  /\ charged \in Nat

\* A decision waives no more than it saw; what is not decided waives nothing.
WaivesWithin ==
  /\ \A d \in Rulings : deciding[d].amount <= deciding[d].seen
  /\ \A d \in Rulings : deciding[d].step = "mark" =>
       deciding[d].waiver \in Pair /\ deciding[d].verdict \in Verdicts
  /\ \A w \in Pair : waivers[w].step \notin Verdicts => waivers[w].waived = 0

WaivedOf == [w \in Pair |-> waivers[w].waived]
\* What has been marked as waived and is not yet credited.
OwedOf == [d \in Rulings |-> IF deciding[d].step = "credit" THEN deciding[d].amount ELSE 0]

FeeBad == {"stale balance", "decided twice", "credit failed"}

\* The balance, with what is still to be credited.
FeeBalance ==
  feeCause \cap FeeBad = {} =>
    account.fee = (charged - SumOver(WaivedOf, Pair)) + SumOver(OwedOf, Rulings)

OnePending ==
  "filed twice" \notin feeCause => \A v, w \in Fees!Pending : v = w

\* Every miss was charged; the audit knows how many there were.
MissesCharged ==
  /\ account.missed * FeeAmount <= charged
  /\ audit.step = "found" => audit.seen.missed = account.missed
  /\ account.status = "DEFAULTED" => account.missed >= FeeMisses

FeeInv ==
  FeeTypes /\ WaivesWithin /\ FeeBalance /\ OnePending /\ MissesCharged

\* The sums, when one waiver or one decision changes.
LEMMA WaivedUpdate ==
  ASSUME FeeAssumption, FeeTypes, NEW w \in Pair, NEW b \in FeeWaivers,
         waivers' = [waivers EXCEPT ![w] = b]
  PROVE  /\ SumOver(WaivedOf, Pair) \in Int /\ SumOver(WaivedOf, Pair)' \in Int
         /\ SumOver(WaivedOf, Pair)' = SumOver(WaivedOf, Pair) - waivers[w].waived + b.waived
<1> DEFINE f == WaivedOf
           e == [v \in Pair |-> waivers'[v].waived]
<1>1. /\ \A v \in Pair : f[v] \in Int /\ e[v] \in Int
      /\ \A v \in Pair : v # w => e[v] = f[v]
      /\ f[w] = waivers[w].waived /\ e[w] = b.waived
  BY DEF WaivedOf, FeeTypes, FeeWaivers
<1> HIDE DEF f, e
<1>2. IsFiniteSet(Pair)
  BY FeeAssumption
<1>3. SumOver(f, Pair) \in Int /\ SumOver(e, Pair) \in Int
  BY <1>1, <1>2, SumRemove, Zenon DEF Integral
<1>4. SumOver(e, Pair) = SumOver(f, Pair) - f[w] + e[w]
  BY <1>1, <1>2, SumUpdate
<1> QED
  BY <1>1, <1>3, <1>4, Zenon DEF f, e, WaivedOf

LEMMA OwedUpdate ==
  ASSUME FeeAssumption, FeeTypes, NEW d \in Rulings, NEW b \in FeeDecisions,
         deciding' = [deciding EXCEPT ![d] = b]
  PROVE  /\ SumOver(OwedOf, Rulings) \in Int /\ SumOver(OwedOf, Rulings)' \in Int
         /\ SumOver(OwedOf, Rulings)' =
              SumOver(OwedOf, Rulings)
              - (IF deciding[d].step = "credit" THEN deciding[d].amount ELSE 0)
              + (IF b.step = "credit" THEN b.amount ELSE 0)
<1> DEFINE f == OwedOf
           e == [v \in Rulings |-> IF deciding'[v].step = "credit" THEN deciding'[v].amount ELSE 0]
<1>1. /\ \A v \in Rulings : f[v] \in Int /\ e[v] \in Int
      /\ \A v \in Rulings : v # d => e[v] = f[v]
      /\ f[d] = IF deciding[d].step = "credit" THEN deciding[d].amount ELSE 0
      /\ e[d] = IF b.step = "credit" THEN b.amount ELSE 0
  BY DEF OwedOf, FeeTypes, FeeDecisions
<1> HIDE DEF f, e
<1>2. IsFiniteSet(Rulings)
  BY FeeAssumption
<1>3. SumOver(f, Rulings) \in Int /\ SumOver(e, Rulings) \in Int
  BY <1>1, <1>2, SumRemove, Zenon DEF Integral
<1>4. SumOver(e, Rulings) = SumOver(f, Rulings) - f[d] + e[d]
  BY <1>1, <1>2, SumUpdate
<1> QED
  BY <1>1, <1>3, <1>4, Zenon DEF f, e, OwedOf

LEMMA FeeSums ==
  ASSUME FeeAssumption, FeeTypes
  PROVE  SumOver(WaivedOf, Pair) \in Nat /\ SumOver(OwedOf, Rulings) \in Nat
<1>1. \A w \in Pair : WaivedOf[w] \in Nat
  BY DEF WaivedOf, FeeTypes, FeeWaivers
<1>2. \A d \in Rulings : OwedOf[d] \in Nat
  BY DEF OwedOf, FeeTypes, FeeDecisions
<1>3. IsFiniteSet(Pair) /\ IsFiniteSet(Rulings)
  BY FeeAssumption
<1> QED
  BY <1>1, <1>2, <1>3, SumBounds, Zenon

LEMMA FeeStart == FeeAssumption /\ Fees!Init => FeeInv
<1> SUFFICES ASSUME FeeAssumption, Fees!Init PROVE FeeInv
  OBVIOUS
<1>1. FeeTypes /\ WaivesWithin /\ OnePending
  BY DEF Fees!Init, Fees!NoRun, Fees!NoDecision, Fees!Pending, FeeTypes, FeeAccounts, FeeWaivers,
         FeeDecisions, Verdicts, WaivesWithin, OnePending
<1>2. MissesCharged
  BY FeeAssumption DEF Fees!Init, Fees!NoRun, MissesCharged
<1>3. SumOver(WaivedOf, Pair) = 0 /\ SumOver(OwedOf, Rulings) = 0
  <2>1. /\ \A w \in Pair : WaivedOf[w] = 0
        /\ \A d \in Rulings : OwedOf[d] = 0
    BY DEF Fees!Init, Fees!NoDecision, WaivedOf, OwedOf
  <2>2. IsFiniteSet(Pair) /\ IsFiniteSet(Rulings)
    BY FeeAssumption
  <2> QED
    BY <2>1, <2>2, SumZero, Zenon
<1>4. FeeBalance
  <2>1. account.fee = 0 /\ charged = 0
    BY DEF Fees!Init
  <2> QED
    BY <1>3, <2>1 DEF FeeBalance
<1> QED
  BY <1>1, <1>2, <1>4 DEF FeeInv

-----------------------------------------------------------------------------
\* The audit.
LEMMA OneMore ==
  ASSUME NEW n \in Nat, NEW m \in Nat, NEW a \in Nat, n * a <= m
  PROVE  (n + 1) * a <= m + a
<1>1. (n + 1) * a = n * a + a
  OBVIOUS
<1>2. n * a \in Nat
  OBVIOUS
<1> QED
  BY <1>1, <1>2

LEMMA TimesMonotone ==
  ASSUME NEW n \in Nat, NEW m \in Nat, NEW a \in Nat, n <= m
  PROVE  n * a <= m * a
<1>1. PICK k \in Nat : m = n + k
  <2>1. m - n \in Nat /\ m = n + (m - n)
    OBVIOUS
  <2> QED
    BY <2>1
<1>2. m * a = n * a + k * a /\ k * a \in Nat /\ n * a \in Nat
  BY <1>1
<1> QED
  BY <1>2

LEMMA FeeAudit ==
  ASSUME FeeAssumption, FeeInv,
         \/ Fees!TimePasses \/ Fees!FindActiveLoans \/ Fees!HandleEnterGracePeriod
         \/ Fees!HandleMissedPayment \/ Fees!AuditFails
  PROVE  FeeInv'
<1>0. /\ FeeTypes /\ WaivesWithin /\ FeeBalance /\ OnePending /\ MissesCharged
      /\ account \in FeeAccounts /\ audit.seen \in FeeAccounts /\ audit \in [step : {"idle", "found"}, seen : FeeAccounts]
  BY DEF FeeInv, FeeTypes
<1>1. UNCHANGED <<waivers, deciding>>
  BY DEF Fees!TimePasses, Fees!FindActiveLoans, Fees!HandleEnterGracePeriod,
         Fees!HandleMissedPayment, Fees!AuditFails
<1>2. WaivesWithin'
  BY <1>0, <1>1 DEF WaivesWithin
<1>3. /\ SumOver(WaivedOf, Pair) \in Nat /\ SumOver(OwedOf, Rulings) \in Nat
      /\ SumOver(WaivedOf, Pair)' = SumOver(WaivedOf, Pair)
      /\ SumOver(OwedOf, Rulings)' = SumOver(OwedOf, Rulings)
  <2>1. WaivedOf' = WaivedOf /\ OwedOf' = OwedOf
    BY <1>1 DEF WaivedOf, OwedOf
  <2> QED
    BY <2>1, <1>0, FeeSums, Zenon
<1>4. FeeAmount \in Nat /\ FeeMisses \in Nat
  BY FeeAssumption
<1>5. CASE Fees!HandleMissedPayment
  <2> DEFINE missed == audit.seen.missed + 1
  <2>1. /\ account' = [fee |-> audit.seen.fee + FeeAmount, missed |-> missed,
                       status |-> IF missed >= FeeMisses THEN "DEFAULTED" ELSE account.status,
                       due |-> IF missed >= FeeMisses THEN account.due ELSE "current"]
        /\ charged' = charged + FeeAmount
        /\ feeCause \subseteq feeCause'
        /\ account.fee # audit.seen.fee => "stale balance" \in feeCause'
        /\ audit.step = "found" /\ audit' = Fees!NoRun
    BY <1>5 DEF Fees!HandleMissedPayment
  <2>2. /\ audit.seen.fee \in Nat /\ audit.seen.missed \in Nat /\ charged \in Nat
        /\ account.status \in {"Repaying", "DEFAULTED"}
        /\ account.due \in {"current", "overdue", "grace", "expired"}
    BY <1>0 DEF FeeTypes, FeeAccounts
  <2>3. account' \in FeeAccounts /\ charged' \in Nat
    <3>1. audit.seen.fee + FeeAmount \in Nat /\ missed \in Nat /\ charged + FeeAmount \in Nat
      BY <2>2, <1>4
    <3> HIDE DEF missed
    <3>2. \E status \in {"Repaying", "DEFAULTED"}, due \in {"current", "overdue", "grace", "expired"} :
            account' = [fee |-> audit.seen.fee + FeeAmount, missed |-> missed,
                        status |-> status, due |-> due]
      BY <2>1, <2>2, Zenon
    <3>3. ASSUME NEW status \in {"Repaying", "DEFAULTED"},
                 NEW due \in {"current", "overdue", "grace", "expired"}, NEW fee \in Nat
          PROVE  [fee |-> fee, missed |-> missed, status |-> status, due |-> due] \in FeeAccounts
      BY <3>1 DEF FeeAccounts
    <3> QED
      BY <2>1, <3>1, <3>2, <3>3, Zenon
  <2>4. audit' \in [step : {"idle", "found"}, seen : FeeAccounts] /\ audit'.step = "idle"
    BY <2>1 DEF Fees!NoRun, FeeAccounts
  <2>5. FeeTypes'
    BY <2>3, <2>4, <1>0, <1>1 DEF FeeTypes
  <2>6. FeeBalance'
    <3> SUFFICES ASSUME feeCause' \cap FeeBad = {}
                 PROVE  account'.fee = (charged' - SumOver(WaivedOf, Pair)) + SumOver(OwedOf, Rulings)
      BY <1>3 DEF FeeBalance
    <3>1. feeCause \cap FeeBad = {} /\ account.fee = audit.seen.fee
      BY <2>1 DEF FeeBad
    <3>2. account.fee = (charged - SumOver(WaivedOf, Pair)) + SumOver(OwedOf, Rulings)
      BY <3>1, <1>0 DEF FeeBalance
    <3>3. account'.fee = account.fee + FeeAmount /\ charged' = charged + FeeAmount
      BY <2>1, <3>1
    <3> QED
      BY <3>2, <3>3, <1>3, <1>4, <2>2
  <2>7. OnePending'
    BY <1>0, <1>1, <2>1 DEF OnePending, Fees!Pending
  <2>8. MissesCharged'
    <3>1. audit.seen.missed = account.missed /\ account.missed * FeeAmount <= charged
      BY <1>0, <2>1 DEF MissesCharged
    <3>2. missed * FeeAmount <= charged + FeeAmount
      BY <3>1, <2>2, <1>4, OneMore
    <3>3. account'.missed = missed /\ (account'.status = "DEFAULTED" => missed >= FeeMisses)
      <4>1. account.status = "DEFAULTED" => account.missed >= FeeMisses
        BY <1>0 DEF MissesCharged
      <4>2. account.missed >= FeeMisses => missed >= FeeMisses
        BY <3>1, <2>2, <1>4
      <4>3. /\ account'.missed = missed
            /\ missed >= FeeMisses \/ account'.status = account.status
        BY <2>1
      <4> QED
        BY <4>1, <4>2, <4>3
    <3> HIDE DEF missed
    <3> QED
      BY <2>1, <2>4, <3>2, <3>3 DEF MissesCharged
  <2> QED
    BY <1>2, <2>5, <2>6, <2>7, <2>8 DEF FeeInv
<1>6. CASE Fees!TimePasses \/ Fees!FindActiveLoans \/ Fees!HandleEnterGracePeriod \/ Fees!AuditFails
  <2>1. /\ account' \in FeeAccounts /\ account'.fee = account.fee
        /\ account'.missed = account.missed /\ account'.status = account.status
        /\ UNCHANGED <<charged, feeCause>>
    BY <1>0, <1>6 DEF FeeAccounts, Fees!TimePasses, Fees!FindActiveLoans,
       Fees!HandleEnterGracePeriod, Fees!AuditFails
  <2>2. /\ audit' \in [step : {"idle", "found"}, seen : FeeAccounts]
        /\ audit'.step = "found" =>
             audit'.seen = account \/ (audit.step = "found" /\ audit'.seen = audit.seen)
    BY <1>0, <1>6 DEF Fees!TimePasses, Fees!FindActiveLoans,
       Fees!HandleEnterGracePeriod, Fees!AuditFails, Fees!NoRun, FeeAccounts
  <2>3. FeeTypes'
    BY <2>1, <2>2, <1>0, <1>1 DEF FeeTypes
  <2>4. FeeBalance'
    BY <2>1, <1>0, <1>3 DEF FeeBalance
  <2>5. OnePending'
    BY <1>0, <1>1, <2>1 DEF OnePending, Fees!Pending
  <2>6. MissesCharged'
    BY <2>1, <2>2, <1>0 DEF MissesCharged
  <2> QED
    BY <1>2, <2>3, <2>4, <2>5, <2>6 DEF FeeInv
<1> QED
  BY <1>5, <1>6

\* A request is filed: nothing is waived by that.
LEMMA FeeFiling ==
  ASSUME FeeAssumption, FeeInv, NEW w \in Pair, Fees!CheckWaiver(w) \/ Fees!CreateWaiver(w)
  PROVE  FeeInv'
<1>0. /\ FeeTypes /\ WaivesWithin /\ FeeBalance /\ OnePending /\ MissesCharged
      /\ waivers[w] \in FeeWaivers
  BY DEF FeeInv, FeeTypes
<1>1. PICK step \in {"checked", "PENDING"} : waivers' = [waivers EXCEPT ![w].step = step]
  BY DEF Fees!CheckWaiver, Fees!CreateWaiver
<1> DEFINE b == [waivers[w] EXCEPT !.step = step]
<1>2. /\ UNCHANGED <<account, audit, deciding, charged>> /\ feeCause \subseteq feeCause'
      /\ waivers[w].step \in {"none", "checked"}
      /\ "filed twice" \notin feeCause' =>
           "filed twice" \notin feeCause /\ (step = "PENDING" => Fees!Pending = {})
  <2>1. CASE Fees!CheckWaiver(w)
    <3>1. step = "checked"
      <4>1. waivers'[w].step = "checked" /\ waivers'[w].step = step
        BY <2>1, <1>0, <1>1 DEF Fees!CheckWaiver, FeeTypes, FeeWaivers
      <4> QED
        BY <4>1
    <3> QED
      BY <2>1, <3>1 DEF Fees!CheckWaiver
  <2>2. CASE Fees!CreateWaiver(w)
    BY <2>2 DEF Fees!CreateWaiver
  <2> QED
    BY <2>1, <2>2
<1>3. b \in FeeWaivers /\ b.step = step /\ b.waived = 0 /\ waivers[w].waived = 0
  BY <1>0, <1>2 DEF FeeWaivers, WaivesWithin, Verdicts
<1>4. waivers' = [waivers EXCEPT ![w] = b]
  BY <1>1
<1> HIDE DEF b
<1>5. /\ waivers' \in [Pair -> FeeWaivers] /\ waivers'[w] = b
      /\ \A v \in Pair \ {w} : waivers'[v] = waivers[v]
  BY <1>0, <1>3, <1>4 DEF FeeTypes
<1>6. FeeTypes'
  BY <1>0, <1>2, <1>5 DEF FeeTypes
<1>7. WaivesWithin'
  BY <1>0, <1>2, <1>3, <1>5 DEF WaivesWithin
<1>8. FeeBalance'
  <2>1. SumOver(WaivedOf, Pair)' = SumOver(WaivedOf, Pair)
    <3>1. /\ SumOver(WaivedOf, Pair) \in Int
          /\ SumOver(WaivedOf, Pair)' = SumOver(WaivedOf, Pair) - waivers[w].waived + b.waived
      BY <1>0, <1>3, <1>4, WaivedUpdate
    <3> QED
      BY <3>1, <1>3
  <2>2. SumOver(OwedOf, Rulings)' = SumOver(OwedOf, Rulings)
    BY <1>2, Zenon DEF OwedOf
  <2> QED
    BY <2>1, <2>2, <1>0, <1>2 DEF FeeBalance
<1>9. OnePending'
  <2> SUFFICES ASSUME "filed twice" \notin feeCause', NEW u \in Fees!Pending', NEW v \in Fees!Pending'
               PROVE  u = v
    BY DEF OnePending
  <2>1. CASE step = "PENDING"
    <3>1. \A x \in Pair \ {w} : waivers'[x].step # "PENDING"
      BY <2>1, <1>2, <1>5 DEF Fees!Pending
    <3> QED
      BY <3>1 DEF Fees!Pending
  <2>2. CASE step = "checked"
    <3>1. u \in Fees!Pending /\ v \in Fees!Pending
      BY <2>2, <1>3, <1>5 DEF Fees!Pending
    <3> QED
      BY <3>1, <1>0, <1>2 DEF OnePending
  <2> QED
    BY <2>1, <2>2
<1>10. MissesCharged'
  BY <1>0, <1>2 DEF MissesCharged
<1> QED
  BY <1>6, <1>7, <1>8, <1>9, <1>10 DEF FeeInv

\* One decision changes, and neither the audit nor what is pending or charged.
LEMMA FeeDeciding ==
  ASSUME FeeAssumption, FeeInv, NEW d \in Rulings, NEW b \in FeeDecisions,
         deciding' = [deciding EXCEPT ![d] = b],
         b.amount <= b.seen,
         b.step = "mark" => b.waiver \in Pair /\ b.verdict \in Verdicts,
         waivers' \in [Pair -> FeeWaivers],
         \A w \in Pair : waivers'[w].step \notin Verdicts => waivers'[w].waived = 0,
         \A w \in Pair : waivers'[w].step = "PENDING" => waivers[w].step = "PENDING",
         UNCHANGED <<audit, charged>>, feeCause \subseteq feeCause',
         account' \in FeeAccounts, account'.missed = account.missed,
         account'.status = account.status,
         FeeBalance'
  PROVE  FeeInv'
<1>0. FeeTypes /\ WaivesWithin /\ OnePending /\ MissesCharged
  BY DEF FeeInv
<1>1. /\ deciding' \in [Rulings -> FeeDecisions] /\ deciding'[d] = b
      /\ \A c \in Rulings \ {d} : deciding'[c] = deciding[c]
  BY <1>0 DEF FeeTypes
<1>2. FeeTypes'
  BY <1>0, <1>1 DEF FeeTypes
<1>3. WaivesWithin'
  <2>1. \A c \in Rulings : deciding'[c].amount <= deciding'[c].seen
    BY <1>0, <1>1 DEF WaivesWithin
  <2>2. \A c \in Rulings : deciding'[c].step = "mark" =>
          deciding'[c].waiver \in Pair /\ deciding'[c].verdict \in Verdicts
    BY <1>0, <1>1 DEF WaivesWithin
  <2> QED
    BY <2>1, <2>2 DEF WaivesWithin
<1>4. OnePending'
  BY <1>0 DEF OnePending, Fees!Pending
<1>5. MissesCharged'
  BY <1>0 DEF MissesCharged
<1> QED
  BY <1>2, <1>3, <1>4, <1>5 DEF FeeInv

LEMMA FeeDecide ==
  ASSUME FeeAssumption, FeeInv, NEW d \in Rulings, NEW w \in Pair, NEW verdict \in Verdicts,
         NEW amount \in 0..account.fee, Fees!Decide(d, w, verdict, amount)
  PROVE  FeeInv'
<1> DEFINE b == [step |-> "mark", waiver |-> w, verdict |-> verdict, seen |-> account.fee,
                 amount |-> amount]
<1>0. FeeTypes /\ WaivesWithin /\ FeeBalance /\ account \in FeeAccounts /\ account.fee \in Nat
  BY DEF FeeInv, FeeTypes, FeeAccounts
<1>1. /\ deciding' = [deciding EXCEPT ![d] = b] /\ deciding[d].step = "idle"
      /\ UNCHANGED <<account, audit, waivers, charged, feeCause>>
  BY DEF Fees!Decide
<1>2. b \in FeeDecisions /\ b.amount <= b.seen /\ b.step = "mark" /\ b.waiver \in Pair /\ b.verdict \in Verdicts
  BY <1>0 DEF FeeDecisions
<1> HIDE DEF b
<1>3. SumOver(OwedOf, Rulings)' = SumOver(OwedOf, Rulings)
  <2>1. /\ SumOver(OwedOf, Rulings) \in Int
        /\ SumOver(OwedOf, Rulings)' = SumOver(OwedOf, Rulings)
              - (IF deciding[d].step = "credit" THEN deciding[d].amount ELSE 0)
              + (IF b.step = "credit" THEN b.amount ELSE 0)
    BY <1>0, <1>1, <1>2, OwedUpdate
  <2> QED
    BY <2>1, <1>1, <1>2
<1>4. SumOver(WaivedOf, Pair)' = SumOver(WaivedOf, Pair)
  BY <1>1, Zenon DEF WaivedOf
<1>5. FeeBalance'
  BY <1>0, <1>1, <1>3, <1>4 DEF FeeBalance
<1>6. /\ waivers' \in [Pair -> FeeWaivers] /\ account' \in FeeAccounts
      /\ \A v \in Pair : waivers'[v].step \notin Verdicts => waivers'[v].waived = 0
      /\ \A v \in Pair : waivers'[v].step = "PENDING" => waivers[v].step = "PENDING"
  BY <1>0, <1>1 DEF FeeTypes, WaivesWithin
<1> QED
  BY <1>1, <1>2, <1>5, <1>6, FeeDeciding

\* What is marked as waived is owed until it is credited.
LEMMA FeeMark ==
  ASSUME FeeAssumption, FeeInv, NEW d \in Rulings, Fees!MarkWaiver(d)
  PROVE  FeeInv'
<1> DEFINE w == deciding[d].waiver
           b == [deciding[d] EXCEPT !.step = "credit"]
           v == [step |-> deciding[d].verdict, waived |-> deciding[d].amount]
<1>0. /\ FeeTypes /\ WaivesWithin /\ FeeBalance /\ account \in FeeAccounts
      /\ deciding[d] \in FeeDecisions /\ deciding[d].amount <= deciding[d].seen
  BY DEF FeeInv, FeeTypes, WaivesWithin
<1>1. /\ deciding[d].step = "mark"
      /\ waivers' = [waivers EXCEPT ![w] = v]
      /\ deciding' = [deciding EXCEPT ![d] = b]
      /\ UNCHANGED <<account, audit, charged>> /\ feeCause \subseteq feeCause'
      /\ waivers[w].step # "PENDING" => "decided twice" \in feeCause'
  BY DEF Fees!MarkWaiver
<1>2. w \in Pair /\ deciding[d].verdict \in Verdicts
  BY <1>0, <1>1 DEF WaivesWithin
<1>3. /\ b \in FeeDecisions /\ b.amount = deciding[d].amount /\ b.amount \in Nat
      /\ b.amount <= b.seen /\ b.step = "credit"
      /\ v \in FeeWaivers /\ v.waived = b.amount /\ v.step \in Verdicts
  BY <1>0, <1>2 DEF FeeDecisions, FeeWaivers
<1> HIDE DEF w, b, v
<1>4. /\ waivers' \in [Pair -> FeeWaivers] /\ waivers'[w] = v
      /\ \A u \in Pair \ {w} : waivers'[u] = waivers[u]
  BY <1>0, <1>1, <1>2, <1>3 DEF FeeTypes
<1>5. /\ \A u \in Pair : waivers'[u].step \notin Verdicts => waivers'[u].waived = 0
      /\ \A u \in Pair : waivers'[u].step = "PENDING" => waivers[u].step = "PENDING"
  BY <1>0, <1>2, <1>3, <1>4 DEF WaivesWithin, Verdicts
<1>6. FeeBalance'
  <2> SUFFICES ASSUME feeCause' \cap FeeBad = {}
               PROVE  account.fee = (charged - SumOver(WaivedOf, Pair)') + SumOver(OwedOf, Rulings)'
    BY <1>1 DEF FeeBalance
  <2>1. waivers[w].step = "PENDING" /\ feeCause \cap FeeBad = {}
    BY <1>1 DEF FeeBad
  <2>2. waivers[w].waived = 0
    BY <2>1, <1>0, <1>2 DEF WaivesWithin, Verdicts
  <2>3. /\ SumOver(WaivedOf, Pair) \in Int
        /\ SumOver(WaivedOf, Pair)' = SumOver(WaivedOf, Pair) - waivers[w].waived + v.waived
    BY <1>0, <1>1, <1>2, <1>3, WaivedUpdate
  <2>4. /\ SumOver(OwedOf, Rulings) \in Int
        /\ SumOver(OwedOf, Rulings)' = SumOver(OwedOf, Rulings)
              - (IF deciding[d].step = "credit" THEN deciding[d].amount ELSE 0)
              + (IF b.step = "credit" THEN b.amount ELSE 0)
    BY <1>0, <1>1, <1>3, OwedUpdate
  <2>5. /\ SumOver(WaivedOf, Pair)' = SumOver(WaivedOf, Pair) + b.amount
        /\ SumOver(OwedOf, Rulings)' = SumOver(OwedOf, Rulings) + b.amount
    <3>1. /\ (IF deciding[d].step = "credit" THEN deciding[d].amount ELSE 0) = 0
          /\ (IF b.step = "credit" THEN b.amount ELSE 0) = b.amount
      BY <1>1, <1>3
    <3>2. SumOver(WaivedOf, Pair)' = SumOver(WaivedOf, Pair) - 0 + b.amount
      BY <2>2, <2>3, <1>3
    <3>3. SumOver(OwedOf, Rulings)' = SumOver(OwedOf, Rulings) - 0 + b.amount
      BY <2>4, <3>1
    <3> QED
      BY <2>3, <2>4, <3>2, <3>3, <1>3
  <2>6. account.fee = (charged - SumOver(WaivedOf, Pair)) + SumOver(OwedOf, Rulings)
    BY <2>1, <1>0 DEF FeeBalance
  <2>7. charged \in Nat
    BY <1>0 DEF FeeTypes
  <2> QED
    BY <2>3, <2>4, <2>5, <2>6, <2>7, <1>3
<1>7. account' \in FeeAccounts /\ account'.missed = account.missed /\ account'.status = account.status
  BY <1>0, <1>1
<1>8. b.step # "mark"
  BY <1>3
<1> QED
  BY <1>1, <1>3, <1>4, <1>5, <1>6, <1>7, <1>8, FeeDeciding

\* A credit of a balance that nobody changed lowers it by what is owed.
LEMMA FeeCredit ==
  ASSUME FeeAssumption, FeeInv, NEW d \in Rulings, Fees!CreditLoan(d) \/ Fees!CreditFails(d)
  PROVE  FeeInv'
<1> DEFINE b == [Fees!NoDecision EXCEPT !.step = "done"]
<1>0. /\ FeeTypes /\ WaivesWithin /\ FeeBalance /\ account \in FeeAccounts
      /\ deciding[d] \in FeeDecisions /\ deciding[d].amount <= deciding[d].seen
  BY DEF FeeInv, FeeTypes, WaivesWithin
<1>1. /\ deciding[d].step = "credit"
      /\ deciding' = [deciding EXCEPT ![d] = b]
      /\ UNCHANGED <<audit, waivers, charged>> /\ feeCause \subseteq feeCause'
      /\ account' = [account EXCEPT !.fee = deciding[d].seen - deciding[d].amount]
         \/ account' = account
      /\ feeCause' \cap FeeBad = {} =>
           /\ account.fee = deciding[d].seen
           /\ account' = [account EXCEPT !.fee = deciding[d].seen - deciding[d].amount]
  BY DEF Fees!CreditLoan, Fees!CreditFails, FeeBad
<1>2. b \in FeeDecisions /\ b.amount <= b.seen /\ b.step = "done"
  BY DEF Fees!NoDecision, FeeDecisions
<1>3. /\ deciding[d].seen \in Nat /\ deciding[d].amount \in Nat /\ account.fee \in Nat
      /\ deciding[d].seen - deciding[d].amount \in Nat
  <2>1. deciding[d].seen \in Nat /\ deciding[d].amount \in Nat /\ account.fee \in Nat
    BY <1>0 DEF FeeDecisions, FeeAccounts
  <2> QED
    BY <2>1, <1>0
<1>4. account' \in FeeAccounts /\ account'.missed = account.missed /\ account'.status = account.status
  <2> DEFINE fee == deciding[d].seen - deciding[d].amount
  <2>1. fee \in Nat
    BY <1>3
  <2>2. account' = [account EXCEPT !.fee = fee] \/ account' = account
    BY <1>1
  <2> HIDE DEF fee
  <2> QED
    BY <2>1, <2>2, <1>0 DEF FeeAccounts
<1> HIDE DEF b
<1>5. FeeBalance'
  <2> SUFFICES ASSUME feeCause' \cap FeeBad = {}
               PROVE  account'.fee = (charged - SumOver(WaivedOf, Pair)) + SumOver(OwedOf, Rulings)'
    <3>1. SumOver(WaivedOf, Pair)' = SumOver(WaivedOf, Pair)
      BY <1>1, Zenon DEF WaivedOf
    <3> QED
      BY <3>1, <1>1 DEF FeeBalance
  <2>1. account'.fee = account.fee - deciding[d].amount /\ feeCause \cap FeeBad = {}
    BY <1>0, <1>1 DEF FeeAccounts
  <2>2. /\ SumOver(OwedOf, Rulings) \in Int
        /\ SumOver(OwedOf, Rulings)' = SumOver(OwedOf, Rulings)
              - (IF deciding[d].step = "credit" THEN deciding[d].amount ELSE 0)
              + (IF b.step = "credit" THEN b.amount ELSE 0)
    BY <1>0, <1>1, <1>2, OwedUpdate
  <2>3. SumOver(OwedOf, Rulings)' = SumOver(OwedOf, Rulings) - deciding[d].amount
    BY <2>2, <1>1, <1>2, <1>3
  <2>4. account.fee = (charged - SumOver(WaivedOf, Pair)) + SumOver(OwedOf, Rulings)
    BY <2>1, <1>0 DEF FeeBalance
  <2>5. charged \in Nat /\ SumOver(WaivedOf, Pair) \in Nat
    BY <1>0, FeeSums DEF FeeTypes
  <2> QED
    BY <2>1, <2>2, <2>3, <2>4, <2>5, <1>3
<1>6. /\ waivers' \in [Pair -> FeeWaivers]
      /\ \A u \in Pair : waivers'[u].step \notin Verdicts => waivers'[u].waived = 0
      /\ \A u \in Pair : waivers'[u].step = "PENDING" => waivers[u].step = "PENDING"
  BY <1>0, <1>1 DEF FeeTypes, WaivesWithin
<1>7. b.step # "mark"
  BY <1>2
<1> QED
  BY <1>1, <1>2, <1>4, <1>5, <1>6, <1>7, FeeDeciding

LEMMA FeeStep ==
  ASSUME FeeAssumption, FeeInv, [Fees!Next]_feesPart
  PROVE  FeeInv'
<1>1. CASE UNCHANGED feesPart
  BY <1>1, Zenon DEF feesPart, FeeInv, FeeTypes, WaivesWithin, FeeBalance, WaivedOf, OwedOf,
     OnePending, Fees!Pending, MissesCharged
<1>2. CASE Fees!Next
  BY <1>2, FeeAudit, FeeFiling, FeeDecide, FeeMark, FeeCredit, Zenon DEF Fees!Next, Verdicts
<1> QED
  BY <1>1, <1>2

LEMMA FeesReconcile == FeeAssumption /\ FeeInv => Fees!LateFeesReconcile
<1> SUFFICES ASSUME FeeAssumption, FeeInv PROVE Fees!LateFeesReconcile
  OBVIOUS
<1>0. FeeTypes /\ FeeBalance /\ OnePending /\ MissesCharged
  BY DEF FeeInv
<1>1. ASSUME feeCause \cap FeeBad = {}, Fees!Midway = {}
      PROVE  account.fee = charged - Fees!SumOver(Fees!Waived, Pair)
  <2>1. SumOver(OwedOf, Rulings) = 0
    <3>1. \A d \in Rulings : OwedOf[d] = 0
      BY <1>1 DEF OwedOf, Fees!Midway
    <3>2. IsFiniteSet(Rulings)
      BY FeeAssumption
    <3> QED
      BY <3>1, <3>2, SumZero, Zenon
  <2>2. Fees!SumOver(Fees!Waived, Pair) = SumOver(WaivedOf, Pair)
    BY Zenon DEF Fees!Waived, WaivedOf, Fees!SumOver, SumOver, Fees!MapThenSumSet, MapThenSumSet,
       Fees!MapThenFoldSet, MapThenFoldSet
  <2>3. charged \in Nat /\ SumOver(WaivedOf, Pair) \in Nat
    BY <1>0, FeeSums DEF FeeTypes
  <2>4. account.fee = (charged - SumOver(WaivedOf, Pair)) + SumOver(OwedOf, Rulings)
    BY <1>0, <1>1 DEF FeeBalance
  <2> QED
    BY <2>1, <2>2, <2>3, <2>4
<1>2. ASSUME "filed twice" \notin feeCause PROVE Fees!Cardinality(Fees!Pending) <= 1
  <2>1. \A v, w \in Fees!Pending : v = w
    BY <1>0, <1>2 DEF OnePending
  <2>2. Cardinality(Fees!Pending) <= 1
    <3>1. CASE Fees!Pending = {}
      BY <3>1, FS_EmptySet
    <3>2. CASE Fees!Pending # {}
      <4>1. PICK w \in Fees!Pending : TRUE
        BY <3>2
      <4>2. Fees!Pending = {w}
        BY <2>1, <4>1
      <4>3. Cardinality({w}) = 1
        BY FS_Singleton
      <4>4. Cardinality(Fees!Pending) = 1
        BY <4>2, <4>3, Zenon
      <4> QED
        BY <4>4
    <3> QED
      BY <3>1, <3>2
  <2>3. Fees!Cardinality(Fees!Pending) = Cardinality(Fees!Pending)
    BY Zenon DEF Fees!Cardinality, Cardinality
  <2> QED
    BY <2>2, <2>3
<1>3. ASSUME account.status = "DEFAULTED" PROVE charged >= FeeMisses * FeeAmount
  <2>1. account.missed \in Nat /\ charged \in Nat /\ FeeAmount \in Nat /\ FeeMisses \in Nat
    BY <1>0, FeeAssumption DEF FeeTypes, FeeAccounts
  <2>2. account.missed * FeeAmount <= charged /\ account.missed >= FeeMisses
    BY <1>0, <1>3 DEF MissesCharged
  <2>3. FeeMisses * FeeAmount <= account.missed * FeeAmount
    BY <2>1, <2>2, TimesMonotone
  <2> QED
    BY <2>1, <2>2, <2>3
<1> QED
  BY <1>1, <1>2, <1>3 DEF Fees!LateFeesReconcile, FeeBad

\* The balance is what was charged less what was waived, one request is pending
\* and a default follows charged misses, for any requests, decisions and fee, in
\* every order of audit, filing, deciding and crediting, unless one of the listed
\* things has happened (repaymentAudit.ts, feeWaiver.ts).
THEOREM LateFeesTheorem == Spec => []LateFeesReconcile
<1> DEFINE Inv == part = "fees" => FeeInv
<1>1. Init => Inv
  BY FeeStart, FeeAssumption, Zenon DEF Init
<1>2. Inv /\ [Next]_allVars => Inv'
  <2> SUFFICES ASSUME Inv, [Next]_allVars, part' = "fees" PROVE FeeInv'
    BY Zenon
  <2>1. part = "fees" /\ [Fees!Next]_feesPart
    BY StepsOfServices, Zenon
  <2> QED
    BY <2>1, FeeStep, FeeAssumption
<1>3. Inv => LateFeesReconcile
  BY FeesReconcile, FeeAssumption, Zenon DEF LateFeesReconcile
<1> QED
  BY <1>1, <1>2, <1>3, PTL DEF Spec

-----------------------------------------------------------------------------
(* The audit log: an untouched chain verifies, an altered one does not.     *)

AuditCalls == [step : {"idle", "lookup", "create", "done"}, at : 0..AuditEnd,
               meta : {"plain", "undef"}, prev : Audit!Hashes, seen : Nat]

ChainHashes == Audit!Hashes \cup {Audit!NoHash}
AuditRows == [id : 1..Audited, event : Audit!Calls, at : 0..AuditEnd,
              meta : {"plain", "undef"}, prev : ChainHashes, hash : ChainHashes]

AuditTypes ==
  /\ auditClock \in 0..AuditEnd
  /\ auditCalls \in [Audit!Calls -> AuditCalls]
  /\ \A c \in Audit!Calls : auditCalls[c].at <= auditClock
  /\ auditRows \in SUBSET AuditRows /\ IsFiniteSet(auditRows)
  /\ \A r \in auditRows : r.at <= auditClock
  /\ \A r \in auditRows : r.hash = Audit!NoHash <=> r.prev = Audit!NoHash
  /\ \A r, s \in auditRows : r.id = s.id => r = s

\* Row r hashes what it stores.
Hashed(r) ==
  /\ r.meta = "plain" /\ r.prev \in Audit!Hashes
  /\ r.hash = Audit!ComputeChainHash(r.event, r.at, r.meta, r.prev)

\* No row is older than r, which starts the chain; or it names the newest older one.
Chained(r, rows) ==
  \/ r.prev = Audit!Genesis /\ \A s \in rows : ~(s.at < r.at)
  \/ \E s \in rows : /\ s.at < r.at /\ r.prev = s.hash
                     /\ \A p \in rows : p.at < r.at => p.at <= s.at

\* The rows are one chain in the order of their times, and it grows longer.
OneChain(rows) ==
  /\ \A r \in rows : Hashed(r) /\ Chained(r, rows)
  /\ \A r, s \in rows : r # s => r.at # s.at
  /\ \A r, s \in rows : r.at < s.at => Len(r.hash) < Len(s.hash)

\* A call under way that nobody has overtaken is as late as all rows, and once it
\* has looked up the newest it holds its hash.
Unovertaken(call, rows) ==
  call.step \in {"lookup", "create"} =>
    /\ call.meta = "plain"
    /\ call.seen <= Cardinality(rows)
    /\ call.seen = Cardinality(rows) =>
         /\ \A r \in rows : r.at <= call.at
         /\ call.step = "create" => call.prev = Audit!HeadHash(rows)

Untouched ==
  auditCause = {} =>
    OneChain(auditRows) /\ \A c \in Audit!Calls : Unovertaken(auditCalls[c], auditRows)

AuditInv == AuditTypes /\ Untouched

\* A hash of an entry is a hash, longer than the one it follows, and differs when
\* the entry does.
LEMMA ChainHash ==
  ASSUME NEW e \in Audit!Calls, NEW at \in 0..AuditEnd, NEW h \in Audit!Hashes,
         NEW m \in {"plain", "undef"}, NEW hash, hash = Audit!ComputeChainHash(e, at, m, h)
  PROVE  /\ Len(h) \in Nat /\ hash \in Audit!Hashes /\ Len(hash) = Len(h) + 1
         /\ hash # Audit!ComputeChainHash(e, at, "edited", h)
<1>1. PICK C : C = Audit!Contents
  OBVIOUS
<1>2. Audit!Hashes = Seq(C)
  BY <1>1 DEF Audit!Hashes
<1>3. <<e, at, m>> \in C /\ <<e, at, "edited">> \in C
  BY <1>1 DEF Audit!Contents
<1>4. <<e, at, m>> # <<e, at, "edited">>
  OBVIOUS
<1>5. ASSUME NEW x \in C, NEW y \in C, x # y
      PROVE  /\ Append(h, x) \in Seq(C) /\ Len(Append(h, x)) = Len(h) + 1
             /\ Append(h, x) # Append(h, y)
  <2>1. h \in Seq(C)
    BY <1>2
  <2>2. Append(h, x)[Len(h) + 1] = x /\ Append(h, y)[Len(h) + 1] = y
    BY <2>1
  <2> QED
    BY <1>5, <2>1, <2>2
<1>6. Len(h) \in Nat
  BY <1>2
<1> QED
  BY <1>2, <1>3, <1>4, <1>5, <1>6, Zenon DEF Audit!ComputeChainHash

LEMMA NoHashIsNone ==
  /\ Audit!NoHash \notin Audit!Hashes
  /\ Audit!Genesis \in Audit!Hashes
  /\ Audit!Genesis # Audit!NoHash
  /\ Len(Audit!Genesis) = 0
<1>1. ASSUME NEW C, Audit!NoHash \in Seq(C) PROVE <<>> \in C
  BY <1>1 DEF Audit!NoHash
<1>2. <<>> \notin Audit!Contents
  BY DEF Audit!Contents
<1>3. Audit!NoHash \notin Audit!Hashes
  BY <1>1, <1>2, Zenon DEF Audit!Hashes
<1> QED
  BY <1>3 DEF Audit!Genesis, Audit!Hashes, Audit!NoHash

\* In a set of rows, some of which may share a time, one is the newest.
LEMMA NewestRow ==
  ASSUME AuditTypes, ComponentAssumption, NEW S, S \subseteq auditRows, S # {}
  PROVE  Audit!Latest(S) \in S /\ \A s \in S \ {Audit!Latest(S)} : Audit!Before(s, Audit!Latest(S))
<1>1. \A r \in S : r.at \in 0..AuditEnd /\ r.id \in 1..Audited
  BY DEF AuditTypes, AuditRows
<1>2. \A r, s \in S : r.id = s.id => r = s
  BY DEF AuditTypes
<1>3. PICK last \in {r.at : r \in S} : \A at \in {r.at : r \in S} : at <= last
  <2>1. {r.at : r \in S} \subseteq Nat /\ {r.at : r \in S} # {} /\ AuditEnd \in Nat
        /\ \A at \in {r.at : r \in S} : at <= AuditEnd
    BY <1>1 DEF ComponentAssumption
  <2> QED
    BY <2>1, HasGreatest
<1>4. PICK top \in {r.id : r \in {s \in S : s.at = last}} :
             \A id \in {r.id : r \in {s \in S : s.at = last}} : id <= top
  <2>1. {r.id : r \in {s \in S : s.at = last}} \subseteq Nat
        /\ {r.id : r \in {s \in S : s.at = last}} # {} /\ Audited \in Nat
        /\ \A id \in {r.id : r \in {s \in S : s.at = last}} : id <= Audited
    BY <1>1, <1>3 DEF ComponentAssumption
  <2> QED
    BY <2>1, HasGreatest
<1>5. PICK r \in S : r.at = last /\ r.id = top
  BY <1>4
<1>6. \A s \in S \ {r} : Audit!Before(s, r)
  <2> SUFFICES ASSUME NEW s \in S \ {r} PROVE s.at < r.at \/ (s.at = r.at /\ s.id < r.id)
    BY DEF Audit!Before
  <2>1. s.at <= last /\ (s.at = last => s.id <= top) /\ s.id # top
    BY <1>2, <1>3, <1>4, <1>5
  <2> QED
    BY <1>1, <1>5, <2>1
<1> QED
  BY <1>6, Zenon DEF Audit!Latest

LEMMA HeadIsHash ==
  ASSUME AuditTypes, ComponentAssumption, NEW S, S \subseteq auditRows
  PROVE  Audit!HeadHash(S) \in Audit!Hashes
<1>1. S # {} => Audit!Latest(S).hash \in ChainHashes
  BY NewestRow DEF AuditTypes, AuditRows
<1> QED
  BY <1>1, NoHashIsNone DEF Audit!HeadHash, ChainHashes

LEMMA AuditNames ==
  ASSUME ComponentAssumption
  PROVE  /\ Audit!NewIds = (1..Audited) \ {r.id : r \in auditRows}
         /\ \A S : Audit!Cardinality(S) = Cardinality(S)
<1>1. \A S : Audit!Cardinality(S) = Cardinality(S)
  BY Zenon DEF Audit!Cardinality, Cardinality
<1>2. Cardinality(1..Audited) = Audited
  BY FS_Interval DEF ComponentAssumption
<1>3. Audit!Cardinality(Audit!Calls) = Audited
  BY <1>1, <1>2, Zenon DEF Audit!Calls
<1> QED
  BY <1>1, <1>3, Zenon DEF Audit!NewIds

LEMMA AuditStarts ==
  ASSUME ComponentAssumption, Audit!Init PROVE AuditInv
<1>1. IsFiniteSet({}) /\ Audit!NoCall \in AuditCalls /\ Audit!NoCall.at = 0
      /\ Audit!NoCall.step = "idle" /\ 0 \in 0..AuditEnd
  BY FS_EmptySet, NoHashIsNone DEF Audit!NoCall, AuditCalls, ComponentAssumption
<1>2. AuditTypes
  BY <1>1 DEF Audit!Init, AuditTypes
<1>3. OneChain(auditRows) /\ \A c \in Audit!Calls : Unovertaken(auditCalls[c], auditRows)
  BY <1>1 DEF Audit!Init, OneChain, Unovertaken
<1> QED
  BY <1>2, <1>3, Zenon DEF AuditInv, Untouched

\* What a step can do to the log: one call moves on, and perhaps its row lands.
CallMoves(c, call) ==
  /\ c \in Audit!Calls /\ call \in AuditCalls /\ call.at <= auditClock
  /\ auditCalls' = [auditCalls EXCEPT ![c] = call]
  /\ auditClock' = auditClock

RowLands(row) ==
  /\ row \in AuditRows /\ row.at <= auditClock
  /\ \A r \in auditRows : r.id # row.id
  /\ row.hash = Audit!NoHash <=> row.prev = Audit!NoHash
  /\ auditRows' = auditRows \cup {row}

LEMMA AuditTypesKept ==
  ASSUME AuditTypes, ComponentAssumption, NEW c, NEW call, CallMoves(c, call),
         UNCHANGED auditRows \/ \E row : RowLands(row)
  PROVE  AuditTypes'
<1>1. /\ auditCalls' \in [Audit!Calls -> AuditCalls]
      /\ auditClock' \in 0..AuditEnd
      /\ \A d \in Audit!Calls : auditCalls'[d].at <= auditClock'
  BY DEF CallMoves, AuditTypes
<1>2. CASE UNCHANGED auditRows
  BY <1>1, <1>2 DEF AuditTypes, CallMoves
<1>3. ASSUME NEW row, RowLands(row) PROVE AuditTypes'
  <2>1. auditRows' \in SUBSET AuditRows /\ IsFiniteSet(auditRows')
    BY <1>3, FS_AddElement DEF RowLands, AuditTypes
  <2>2. \A r \in auditRows' : r.at <= auditClock'
    BY <1>3 DEF RowLands, AuditTypes, CallMoves
  <2>3. \A r \in auditRows' : r.hash = Audit!NoHash <=> r.prev = Audit!NoHash
    BY <1>3 DEF RowLands, AuditTypes
  <2>4. \A r, s \in auditRows' : r.id = s.id => r = s
    BY <1>3 DEF RowLands, AuditTypes
  <2> QED
    BY <1>1, <2>1, <2>2, <2>3, <2>4, Zenon DEF AuditTypes
<1> QED
  BY <1>2, <1>3

\* The steps of the log in these terms.
LEMMA AuditSteps ==
  ASSUME AuditTypes, ComponentAssumption, NEW c \in Audit!Calls
  PROVE  /\ \A meta \in Audit!Metadata : Audit!LogAudit(c, meta) =>
              LET call == [step |-> "lookup", at |-> auditClock, meta |-> meta,
                           prev |-> Audit!Genesis, seen |-> Cardinality(auditRows)]
              IN  CallMoves(c, call) /\ UNCHANGED auditRows
         /\ Audit!PreviousChainHash(c) =>
              LET call == [auditCalls[c] EXCEPT !.step = "create",
                                                !.prev = Audit!HeadHash(auditRows)]
              IN  CallMoves(c, call) /\ UNCHANGED auditRows
         /\ Audit!LookupFails(c) =>
              LET call == [auditCalls[c] EXCEPT !.step = "create", !.prev = Audit!Genesis]
              IN  CallMoves(c, call) /\ UNCHANGED auditRows
         /\ Audit!Create(c) \/ Audit!CreateFails(c) \/ Audit!CreateDirectly(c) =>
              CallMoves(c, [Audit!NoCall EXCEPT !.step = "done"])
         /\ Audit!CreateFails(c) => UNCHANGED auditRows
<1>0. /\ auditClock \in 0..AuditEnd /\ Cardinality(auditRows) \in Nat
      /\ Audit!Genesis \in Audit!Hashes /\ Audit!HeadHash(auditRows) \in Audit!Hashes
      /\ auditCalls[c] \in AuditCalls /\ auditCalls[c].at <= auditClock
      /\ AuditEnd \in Nat
  BY NoHashIsNone, HeadIsHash, FS_CardinalityType DEF AuditTypes, ComponentAssumption
<1>1. ASSUME NEW meta \in Audit!Metadata, Audit!LogAudit(c, meta)
      PROVE  LET call == [step |-> "lookup", at |-> auditClock, meta |-> meta,
                          prev |-> Audit!Genesis, seen |-> Cardinality(auditRows)]
             IN  CallMoves(c, call) /\ UNCHANGED auditRows
  <2>1. PICK call : call = [step |-> "lookup", at |-> auditClock, meta |-> meta,
                            prev |-> Audit!Genesis, seen |-> Cardinality(auditRows)]
    OBVIOUS
  <2>2. auditCalls' = [auditCalls EXCEPT ![c] = call] /\ UNCHANGED <<auditClock, auditRows>>
    BY <1>1, <2>1, AuditNames, Zenon DEF Audit!LogAudit
  <2>3. call \in AuditCalls /\ call.at <= auditClock
    BY <1>0, <2>1 DEF AuditCalls, Audit!Metadata
  <2> QED
    BY <2>1, <2>2, <2>3, Zenon DEF CallMoves
<1>2. ASSUME NEW h \in Audit!Hashes,
             auditCalls' = [auditCalls EXCEPT ![c].step = "create", ![c].prev = h],
             UNCHANGED <<auditClock, auditRows>>
      PROVE  LET call == [auditCalls[c] EXCEPT !.step = "create", !.prev = h]
             IN  CallMoves(c, call) /\ UNCHANGED auditRows
  <2>1. auditCalls' = [auditCalls EXCEPT ![c] =
                        [auditCalls[c] EXCEPT !.step = "create", !.prev = h]]
    BY <1>2, Zenon
  <2>2. [auditCalls[c] EXCEPT !.step = "create", !.prev = h] \in AuditCalls
    BY <1>0 DEF AuditCalls
  <2>3. [auditCalls[c] EXCEPT !.step = "create", !.prev = h].at <= auditClock
    BY <1>0 DEF AuditCalls
  <2> QED
    BY <1>2, <2>1, <2>2, <2>3, Zenon DEF CallMoves
<1>3. ASSUME Audit!PreviousChainHash(c)
      PROVE  LET call == [auditCalls[c] EXCEPT !.step = "create",
                                               !.prev = Audit!HeadHash(auditRows)]
             IN  CallMoves(c, call) /\ UNCHANGED auditRows
  BY <1>0, <1>2, <1>3, Zenon DEF Audit!PreviousChainHash
<1>4. ASSUME Audit!LookupFails(c)
      PROVE  LET call == [auditCalls[c] EXCEPT !.step = "create", !.prev = Audit!Genesis]
             IN  CallMoves(c, call) /\ UNCHANGED auditRows
  BY <1>0, <1>2, <1>4, Zenon DEF Audit!LookupFails
<1>5. [Audit!NoCall EXCEPT !.step = "done"] \in AuditCalls
      /\ [Audit!NoCall EXCEPT !.step = "done"].at <= auditClock
  BY <1>0 DEF Audit!NoCall, AuditCalls
<1>6. ASSUME Audit!Create(c) \/ Audit!CreateFails(c) \/ Audit!CreateDirectly(c)
      PROVE  /\ CallMoves(c, [Audit!NoCall EXCEPT !.step = "done"])
             /\ Audit!CreateFails(c) => UNCHANGED auditRows
  BY <1>5, <1>6, Zenon DEF Audit!Create, Audit!CreateFails, Audit!CreateDirectly, CallMoves
<1> QED
  BY <1>1, <1>3, <1>4, <1>6, Zenon

\* The rows that land.
LEMMA AuditLands ==
  ASSUME AuditTypes, ComponentAssumption, NEW c \in Audit!Calls
  PROVE  /\ Audit!Create(c) => \E row : /\ RowLands(row) /\ Audit!Insert(row) /\ row.event = c
                                        /\ auditCalls[c].step = "create"
                                        /\ row.at = auditCalls[c].at
                                        /\ row.meta = Audit!Stored(auditCalls[c].meta)
                                        /\ row.prev = auditCalls[c].prev
                                        /\ row.hash = Audit!ComputeChainHash(c, auditCalls[c].at,
                                             auditCalls[c].meta, auditCalls[c].prev)
         /\ Audit!CreateDirectly(c) =>
              \E row : RowLands(row) /\ Audit!Insert(row) /\ row.hash = Audit!NoHash
<1>0. /\ auditClock \in 0..AuditEnd /\ auditCalls[c] \in AuditCalls
      /\ auditCalls[c].at <= auditClock /\ AuditEnd \in Nat
  BY DEF AuditTypes, ComponentAssumption
<1>1. ASSUME Audit!Create(c)
      PROVE  \E row : /\ RowLands(row) /\ Audit!Insert(row) /\ row.event = c
                      /\ auditCalls[c].step = "create"
                      /\ row.at = auditCalls[c].at
                      /\ row.meta = Audit!Stored(auditCalls[c].meta)
                      /\ row.prev = auditCalls[c].prev
                      /\ row.hash = Audit!ComputeChainHash(c, auditCalls[c].at,
                                      auditCalls[c].meta, auditCalls[c].prev)
  <2>1. PICK at \in 0..AuditEnd, meta \in {"plain", "undef"}, prev \in Audit!Hashes :
          auditCalls[c].at = at /\ auditCalls[c].meta = meta /\ auditCalls[c].prev = prev
    BY <1>0 DEF AuditCalls
  <2>2. PICK hash : hash = Audit!ComputeChainHash(c, at, meta, prev)
    OBVIOUS
  <2>3. PICK id \in Audit!NewIds :
          Audit!Insert([id |-> id, event |-> c, at |-> at, meta |-> Audit!Stored(meta),
                        prev |-> prev, hash |-> hash])
    BY <1>1, <2>1, <2>2, Zenon DEF Audit!Create
  <2>4. hash \in Audit!Hashes /\ hash # Audit!NoHash /\ prev # Audit!NoHash
        /\ Audit!Stored(meta) \in {"plain", "undef"} /\ at <= auditClock
    <3>1. hash \in Audit!Hashes
      BY <2>2, ChainHash, Zenon
    <3>2. Audit!Stored(meta) \in {"plain", "undef"}
      BY DEF Audit!Stored
    <3> QED
      BY <1>0, <2>1, <3>1, <3>2, NoHashIsNone
  <2>5. id \in 1..Audited /\ \A r \in auditRows : r.id # id
    BY <2>3, AuditNames
  <2>6. PICK row : row = [id |-> id, event |-> c, at |-> at, meta |-> Audit!Stored(meta),
                          prev |-> prev, hash |-> hash]
    OBVIOUS
  <2>7. row \in AuditRows
    BY <2>4, <2>5, <2>6 DEF AuditRows, ChainHashes
  <2>8. /\ row.id = id /\ row.event = c /\ row.at = at /\ row.meta = Audit!Stored(meta)
        /\ row.prev = prev /\ row.hash = hash
    BY <2>6
  <2>9. Audit!Insert(row) /\ auditRows' = auditRows \cup {row}
    BY <2>3, <2>6, Zenon DEF Audit!Insert
  <2>10. RowLands(row)
    BY <2>4, <2>5, <2>7, <2>8, <2>9, Zenon DEF RowLands
  <2> QED
    BY <1>1, <2>1, <2>2, <2>8, <2>9, <2>10, Zenon DEF Audit!Create
<1>2. ASSUME Audit!CreateDirectly(c)
      PROVE  \E row : RowLands(row) /\ Audit!Insert(row) /\ row.hash = Audit!NoHash
  <2>1. PICK id \in Audit!NewIds :
          Audit!Insert([id |-> id, event |-> c, at |-> auditClock, meta |-> "plain",
                        prev |-> Audit!NoHash, hash |-> Audit!NoHash])
    BY <1>2, Zenon DEF Audit!CreateDirectly
  <2>2. id \in 1..Audited /\ \A r \in auditRows : r.id # id
    BY <2>1, AuditNames
  <2>3. PICK row : row = [id |-> id, event |-> c, at |-> auditClock, meta |-> "plain",
                          prev |-> Audit!NoHash, hash |-> Audit!NoHash]
    OBVIOUS
  <2>4. row \in AuditRows
    BY <1>0, <2>2, <2>3 DEF AuditRows, ChainHashes
  <2>5. /\ row.id = id /\ row.at = auditClock /\ row.at <= auditClock
        /\ row.prev = Audit!NoHash /\ row.hash = Audit!NoHash
    BY <1>0, <2>3
  <2>6. Audit!Insert(row) /\ auditRows' = auditRows \cup {row}
    BY <2>1, <2>3, Zenon DEF Audit!Insert
  <2> QED
    BY <2>2, <2>4, <2>5, <2>6, Zenon DEF RowLands
<1> QED
  BY <1>1, <1>2, Zenon

\* The row of a call that nobody overtook extends the chain.
LEMMA ChainGrows ==
  ASSUME AuditTypes, ComponentAssumption, OneChain(auditRows), NEW row \in AuditRows,
         Hashed(row), row.prev = Audit!HeadHash(auditRows),
         \A r \in auditRows : r.at < row.at
  PROVE  OneChain(auditRows \cup {row})
<1>1. PICK rows : rows = auditRows
  OBVIOUS
<1>2. \A r \in rows \cup {row} : /\ r.at \in 0..AuditEnd /\ r.at \in Nat /\ r.hash \in Audit!Hashes
                                 /\ Len(r.hash) \in Nat /\ Len(r.hash) = Len(r.prev) + 1
                                 /\ r.hash # Audit!NoHash
  <2>1. ASSUME NEW r \in AuditRows, Hashed(r)
        PROVE  /\ r.at \in 0..AuditEnd /\ r.at \in Nat /\ r.hash \in Audit!Hashes
               /\ Len(r.hash) \in Nat /\ Len(r.hash) = Len(r.prev) + 1
               /\ r.hash # Audit!NoHash
    <3>1. PICK h \in Audit!Hashes, e \in Audit!Calls, at \in 0..AuditEnd :
            /\ h = r.prev /\ e = r.event /\ at = r.at
            /\ r.hash = Audit!ComputeChainHash(e, at, "plain", h)
      BY <2>1 DEF Hashed, AuditRows
    <3>2. PICK hash : hash = r.hash
      OBVIOUS
    <3>3. "plain" \in {"plain", "undef"} /\ hash = Audit!ComputeChainHash(e, at, "plain", h)
      BY <3>1, <3>2
    <3>4. hash \in Audit!Hashes /\ Len(h) \in Nat
      BY <3>3, ChainHash, Zenon
    <3>5. Len(hash) = Len(h) + 1
      BY <3>3, ChainHash
    <3> QED
      BY <3>1, <3>2, <3>4, <3>5, NoHashIsNone DEF ComponentAssumption
  <2> QED
    BY <1>1, <2>1 DEF AuditTypes, OneChain
<1>3. rows = {} => row.prev = Audit!Genesis
  BY <1>1 DEF Audit!HeadHash
<1>4. ASSUME rows # {}
      PROVE  \E z \in rows : row.prev = z.hash /\ \A p \in rows : p.at <= z.at
  <2>1. Audit!Latest(rows) \in rows
        /\ \A s \in rows \ {Audit!Latest(rows)} : Audit!Before(s, Audit!Latest(rows))
    BY <1>1, <1>4, NewestRow
  <2>2. row.prev = Audit!Latest(rows).hash
    BY <1>1, <1>2, <1>4, <2>1 DEF Audit!HeadHash
  <2>3. \A p \in rows : p.at <= Audit!Latest(rows).at
    BY <1>2, <2>1 DEF Audit!Before
  <2> QED
    BY <2>1, <2>2, <2>3
<1>5. \A r \in rows \cup {row} : Chained(r, rows \cup {row})
  <2>1. ASSUME NEW r \in rows PROVE Chained(r, rows \cup {row})
    <3>1. Chained(r, rows) /\ r.at < row.at
      BY <1>1 DEF OneChain
    <3> QED
      BY <1>2, <3>1 DEF Chained
  <2>2. Chained(row, rows \cup {row})
    <3>1. CASE rows = {}
      BY <1>2, <1>3, <3>1 DEF Chained
    <3>2. CASE rows # {}
      <4>1. PICK z \in rows : row.prev = z.hash /\ \A p \in rows : p.at <= z.at
        BY <1>4, <3>2
      <4> QED
        BY <1>1, <1>2, <4>1 DEF Chained
    <3> QED
      BY <3>1, <3>2
  <2> QED
    BY <2>1, <2>2
<1>6. \A r, s \in rows \cup {row} : r # s => r.at # s.at
  BY <1>1, <1>2 DEF OneChain
<1>7. ASSUME NEW r \in rows \cup {row}, NEW s \in rows \cup {row}, r.at < s.at
      PROVE  Len(r.hash) < Len(s.hash)
  <2>1. CASE s \in rows
    <3>1. r \in rows
      BY <1>1, <1>2, <1>7, <2>1
    <3> QED
      BY <1>1, <1>7, <2>1, <3>1 DEF OneChain
  <2>2. CASE s = row
    <3>1. r \in rows
      BY <1>2, <1>7, <2>2
    <3>2. PICK z \in rows : row.prev = z.hash /\ \A p \in rows : p.at <= z.at
      BY <1>4, <3>1
    <3>3. Len(r.hash) <= Len(z.hash)
      <4>1. r.at <= z.at
        BY <3>1, <3>2
      <4>2. r = z \/ r.at # z.at
        BY <1>1, <3>1, <3>2 DEF OneChain
      <4>3. r.at < z.at => Len(r.hash) < Len(z.hash)
        BY <1>1, <3>1, <3>2 DEF OneChain
      <4> QED
        BY <1>2, <3>1, <3>2, <4>1, <4>2, <4>3
    <3> QED
      BY <1>2, <2>2, <3>1, <3>2, <3>3
  <2> QED
    BY <2>1, <2>2
<1>8. \A r \in rows \cup {row} : Hashed(r)
  BY <1>1 DEF OneChain
<1> QED
  BY <1>1, <1>5, <1>6, <1>7, <1>8, Zenon DEF OneChain

AllUnovertaken(calls_, rows) == \A c \in Audit!Calls : Unovertaken(calls_[c], rows)

\* One call moves and the log stays.
LEMMA LogStays ==
  ASSUME AuditTypes, AllUnovertaken(auditCalls, auditRows), NEW c, NEW call,
         CallMoves(c, call), Unovertaken(call, auditRows)
  PROVE  AllUnovertaken(auditCalls', auditRows)
<1>1. \A d \in Audit!Calls : auditCalls'[d] = IF d = c THEN call ELSE auditCalls[d]
  BY DEF AuditTypes, CallMoves
<1> QED
  BY <1>1, Zenon DEF AllUnovertaken

\* Its row lands: whoever else is under way has been overtaken.
LEMMA LogGrows ==
  ASSUME AuditTypes, AllUnovertaken(auditCalls, auditRows), NEW c, NEW call,
         CallMoves(c, call), call.step = "done", NEW row, RowLands(row)
  PROVE  AllUnovertaken(auditCalls', auditRows')
<1>1. \A d \in Audit!Calls : auditCalls'[d] = IF d = c THEN call ELSE auditCalls[d]
  BY DEF AuditTypes, CallMoves
<1>2. /\ Cardinality(auditRows) \in Nat
      /\ Cardinality(auditRows') = Cardinality(auditRows) + 1
  <2>1. row \notin auditRows
    BY DEF RowLands
  <2> QED
    BY <2>1, FS_AddElement, FS_CardinalityType DEF AuditTypes, RowLands
<1>3. ASSUME NEW d \in Audit!Calls, d # c PROVE Unovertaken(auditCalls[d], auditRows')
  <2>1. Unovertaken(auditCalls[d], auditRows) /\ auditCalls[d].seen \in Nat
    BY DEF AllUnovertaken, AuditTypes, AuditCalls
  <2> QED
    BY <1>2, <2>1 DEF Unovertaken
<1>4. Unovertaken(call, auditRows')
  BY DEF Unovertaken
<1> QED
  BY <1>1, <1>3, <1>4, Zenon DEF AllUnovertaken

\* What it takes to leave no cause behind.
LEMMA NoCause ==
  ASSUME auditCause' = {}, NEW c \in Audit!Calls
  PROVE  /\ \A meta : Audit!LogAudit(c, meta) => auditCause = {} /\ meta # "undef"
         /\ ~Audit!LookupFails(c)
         /\ Audit!PreviousChainHash(c) \/ Audit!CreateFails(c) => auditCause = {}
         /\ \A row : Audit!Insert(row) =>
              /\ auditCause = {} /\ \A r \in auditRows : r.at # row.at
              /\ row.hash # Audit!NoHash
              /\ Audit!Cardinality(auditRows) = auditCalls[row.event].seen
<1>1. \A meta : Audit!LogAudit(c, meta) => auditCause = {} /\ meta # "undef"
  BY DEF Audit!LogAudit
<1>2. ~Audit!LookupFails(c)
  BY DEF Audit!LookupFails
<1>3. Audit!PreviousChainHash(c) \/ Audit!CreateFails(c) => auditCause = {}
  BY DEF Audit!PreviousChainHash, Audit!CreateFails
<1>4. ASSUME NEW row, Audit!Insert(row)
      PROVE  /\ auditCause = {} /\ \A r \in auditRows : r.at # row.at
             /\ row.hash # Audit!NoHash
             /\ Audit!Cardinality(auditRows) = auditCalls[row.event].seen
  BY <1>4 DEF Audit!Insert
<1> QED
  BY <1>1, <1>2, <1>3, <1>4, Zenon

\* An untouched log stays so, unless the step leaves a cause.
LEMMA UntouchedKept ==
  ASSUME AuditInv, ComponentAssumption, [Audit!Next]_auditPart, auditCause' = {}
  PROVE  OneChain(auditRows') /\ AllUnovertaken(auditCalls', auditRows')
<1>0. AuditTypes /\ (auditCause = {} => OneChain(auditRows) /\ AllUnovertaken(auditCalls, auditRows))
  BY Zenon DEF AuditInv, Untouched, AllUnovertaken
<1>1. CASE UNCHANGED auditPart \/ Audit!Tick
  <2>1. UNCHANGED <<auditCalls, auditRows, auditCause>>
    BY <1>1 DEF auditPart, Audit!Tick
  <2> QED
    BY <1>0, <2>1
<1>2. ASSUME NEW c \in Audit!Calls, NEW meta \in Audit!Metadata, Audit!LogAudit(c, meta)
      PROVE  OneChain(auditRows') /\ AllUnovertaken(auditCalls', auditRows')
  <2>1. PICK call : /\ call = [step |-> "lookup", at |-> auditClock, meta |-> meta,
                               prev |-> Audit!Genesis, seen |-> Cardinality(auditRows)]
                    /\ CallMoves(c, call) /\ UNCHANGED auditRows
    BY <1>0, <1>2, AuditSteps, Zenon
  <2>2. auditCause = {} /\ meta = "plain"
    BY <1>2, NoCause DEF Audit!Metadata
  <2>3. Unovertaken(call, auditRows)
    <3>1. \A r \in auditRows : r.at <= auditClock
      BY <1>0 DEF AuditTypes
    <3>2. Cardinality(auditRows) \in Nat
      BY <1>0, FS_CardinalityType DEF AuditTypes
    <3> QED
      BY <2>1, <2>2, <3>1, <3>2 DEF Unovertaken
  <2> QED
    BY <1>0, <2>1, <2>2, <2>3, LogStays
<1>3. ASSUME NEW c \in Audit!Calls, Audit!PreviousChainHash(c)
      PROVE  OneChain(auditRows') /\ AllUnovertaken(auditCalls', auditRows')
  <2>1. PICK call : /\ call = [auditCalls[c] EXCEPT !.step = "create",
                                                    !.prev = Audit!HeadHash(auditRows)]
                    /\ CallMoves(c, call) /\ UNCHANGED auditRows
    BY <1>0, <1>3, AuditSteps, Zenon
  <2>2. auditCause = {} /\ auditCalls[c].step = "lookup"
    BY <1>3, NoCause DEF Audit!PreviousChainHash
  <2>3. Unovertaken(auditCalls[c], auditRows) /\ auditCalls[c] \in AuditCalls
    BY <1>0, <2>2 DEF AllUnovertaken, AuditTypes
  <2>4. Unovertaken(call, auditRows)
    <3>1. /\ call.meta = auditCalls[c].meta /\ call.seen = auditCalls[c].seen
          /\ call.at = auditCalls[c].at /\ call.prev = Audit!HeadHash(auditRows)
      BY <2>1, <2>3 DEF AuditCalls
    <3> QED
      BY <2>2, <2>3, <3>1, Zenon DEF Unovertaken
  <2> QED
    BY <1>0, <2>1, <2>2, <2>4, LogStays
<1>4. ASSUME NEW c \in Audit!Calls, Audit!CreateFails(c)
      PROVE  OneChain(auditRows') /\ AllUnovertaken(auditCalls', auditRows')
  <2>1. PICK call : /\ call = [Audit!NoCall EXCEPT !.step = "done"]
                    /\ CallMoves(c, call) /\ UNCHANGED auditRows
    BY <1>0, <1>4, AuditSteps, Zenon
  <2>2. call.step = "done"
    BY <2>1 DEF Audit!NoCall
  <2>3. auditCause = {} /\ Unovertaken(call, auditRows)
    BY <1>4, <2>2, NoCause DEF Unovertaken
  <2> QED
    BY <1>0, <2>1, <2>3, LogStays
<1>5. ASSUME NEW c \in Audit!Calls, Audit!Create(c)
      PROVE  OneChain(auditRows') /\ AllUnovertaken(auditCalls', auditRows')
  <2>1. PICK row : /\ RowLands(row) /\ Audit!Insert(row) /\ row.event = c
                   /\ auditCalls[c].step = "create"
                   /\ row.at = auditCalls[c].at
                   /\ row.meta = Audit!Stored(auditCalls[c].meta)
                   /\ row.prev = auditCalls[c].prev
                   /\ row.hash = Audit!ComputeChainHash(c, auditCalls[c].at,
                                   auditCalls[c].meta, auditCalls[c].prev)
    BY <1>0, <1>5, AuditLands, Zenon
  <2>2. PICK call : call = [Audit!NoCall EXCEPT !.step = "done"] /\ CallMoves(c, call)
    BY <1>0, <1>5, AuditSteps, Zenon
  <2>3. call.step = "done"
    BY <2>2 DEF Audit!NoCall
  <2>4. /\ auditCause = {} /\ \A r \in auditRows : r.at # row.at
        /\ Cardinality(auditRows) = auditCalls[c].seen
    BY <2>1, NoCause, AuditNames, Zenon
  <2>5. Unovertaken(auditCalls[c], auditRows) /\ auditCalls[c] \in AuditCalls
    BY <1>0, <2>4 DEF AllUnovertaken, AuditTypes
  <2>6. /\ auditCalls[c].meta = "plain" /\ row.prev = Audit!HeadHash(auditRows)
        /\ \A r \in auditRows : r.at <= row.at
    BY <2>1, <2>4, <2>5, Zenon DEF Unovertaken
  <2>7. row.meta = "plain" /\ Hashed(row)
    <3>1. row.meta = "plain" /\ auditCalls[c].prev \in Audit!Hashes
      BY <2>1, <2>5, <2>6 DEF Audit!Stored, AuditCalls
    <3> QED
      BY <2>1, <2>6, <3>1, Zenon DEF Hashed
  <2>8. row \in AuditRows /\ auditRows' = auditRows \cup {row} /\ \A r \in auditRows : r.at < row.at
    <3>1. row \in AuditRows /\ auditRows' = auditRows \cup {row}
      BY <2>1 DEF RowLands
    <3>2. row.at \in Int /\ \A r \in auditRows : r.at \in Int
      BY <1>0, <3>1 DEF AuditTypes, AuditRows
    <3> QED
      BY <2>4, <2>6, <3>1, <3>2
  <2>9. OneChain(auditRows')
    BY <1>0, <2>4, <2>6, <2>7, <2>8, ChainGrows, Zenon
  <2> QED
    BY <1>0, <2>1, <2>2, <2>3, <2>4, <2>9, LogGrows
<1>6. ASSUME NEW c \in Audit!Calls, Audit!CreateDirectly(c) \/ Audit!LookupFails(c) PROVE FALSE
  <2>1. Audit!CreateDirectly(c)
    BY <1>6, NoCause
  <2>2. PICK row : Audit!Insert(row) /\ row.hash = Audit!NoHash
    BY <1>0, <2>1, AuditLands, Zenon
  <2> QED
    BY <2>2, NoCause, Zenon
<1> QED
  BY <1>1, <1>2, <1>3, <1>4, <1>5, <1>6, Zenon DEF Audit!Next

LEMMA AuditKept ==
  ASSUME AuditInv, ComponentAssumption, [Audit!Next]_auditPart
  PROVE  AuditInv'
<1>0. AuditTypes
  BY DEF AuditInv
<1>1. AuditTypes'
  <2>1. CASE UNCHANGED auditPart
    BY <1>0, <2>1 DEF auditPart, AuditTypes
  <2>2. CASE Audit!Tick
    <3>1. /\ UNCHANGED <<auditCalls, auditRows>> /\ auditClock' = auditClock + 1
          /\ auditClock < AuditEnd
      BY <2>2 DEF Audit!Tick
    <3>2. auditClock' \in 0..AuditEnd /\ auditClock <= auditClock' /\ auditClock \in Int
          /\ auditClock' \in Int
      BY <1>0, <3>1 DEF AuditTypes, ComponentAssumption
    <3>3. /\ \A c \in Audit!Calls : auditCalls[c].at \in Int
          /\ \A r \in auditRows : r.at \in Int
      BY <1>0 DEF AuditTypes, AuditCalls, AuditRows
    <3>4. /\ \A c \in Audit!Calls : auditCalls'[c].at <= auditClock'
          /\ \A r \in auditRows' : r.at <= auditClock'
      BY <1>0, <3>1, <3>2, <3>3 DEF AuditTypes
    <3> QED
      BY <1>0, <3>1, <3>2, <3>4 DEF AuditTypes
  <2>3. ASSUME NEW c \in Audit!Calls,
               \/ \E meta \in Audit!Metadata : Audit!LogAudit(c, meta)
               \/ Audit!PreviousChainHash(c) \/ Audit!LookupFails(c) \/ Audit!Create(c)
               \/ Audit!CreateFails(c) \/ Audit!CreateDirectly(c)
        PROVE  AuditTypes'
    <3>1. \E call : CallMoves(c, call)
      BY <1>0, <2>3, AuditSteps, Zenon
    <3>2. UNCHANGED auditRows \/ \E row : RowLands(row)
      BY <1>0, <2>3, AuditSteps, AuditLands, Zenon
    <3> QED
      BY <1>0, <3>1, <3>2, AuditTypesKept, Zenon
  <2> QED
    BY <2>1, <2>2, <2>3, Zenon DEF Audit!Next
<1>2. auditCause' = {} => OneChain(auditRows') /\ AllUnovertaken(auditCalls', auditRows')
  BY UntouchedKept
<1> QED
  BY <1>1, <1>2, Zenon DEF AuditInv, Untouched, AllUnovertaken

\* Of a chain, the newest of a part of the rows is the one with the greatest time.
LEMMA LatestOfPart ==
  ASSUME AuditTypes, ComponentAssumption, OneChain(auditRows),
         NEW S, S \subseteq auditRows, NEW x \in S, \A s \in S : s.at <= x.at
  PROVE  Audit!Latest(S) = x
<1>1. \A r \in auditRows : r.at \in Int
  BY DEF AuditTypes, AuditRows
<1>2. Audit!Latest(S) \in S /\ (x # Audit!Latest(S) => Audit!Before(x, Audit!Latest(S)))
  BY NewestRow
<1>3. x # Audit!Latest(S) => Audit!Latest(S).at # x.at
  BY <1>2 DEF OneChain
<1> QED
  BY <1>1, <1>2, <1>3 DEF Audit!Before

\* What the verification of the rows from a time on compares each row with.
LinksTo(rows, from, r) ==
  IF \E s \in {p \in rows : p.at >= from} : Audit!Before(s, r)
  THEN Audit!Latest({s \in {p \in rows : p.at >= from} : Audit!Before(s, r)}).hash
  ELSE Audit!HeadHash({p \in rows : p.at < from})

LEMMA VerifiesRows ==
  ASSUME NEW rows, NEW from
  PROVE  Audit!VerifyAuditRange(rows, from) <=>
           \A r \in {p \in rows : p.at >= from} :
             /\ r.hash # Audit!NoHash /\ r.prev = LinksTo(rows, from, r)
             /\ r.hash = Audit!ComputeChainHash(r.event, r.at, r.meta, r.prev)
BY Zenon DEF Audit!VerifyAuditRange, LinksTo

LEMMA ChainTimes ==
  ASSUME AuditTypes, ComponentAssumption, OneChain(auditRows)
  PROVE  /\ \A r \in auditRows : r.at \in Nat /\ r.at \in 0..AuditEnd
         /\ \A r \in auditRows : r.hash # Audit!NoHash /\ Len(r.hash) \in Nat /\ 0 < Len(r.hash)
         /\ \A r, s \in auditRows : Audit!Before(r, s) <=> r.at < s.at
<1>1. \A r \in auditRows : r.at \in Nat /\ r.at \in 0..AuditEnd
  BY DEF AuditTypes, AuditRows, ComponentAssumption
<1>2. ASSUME NEW r \in auditRows
      PROVE  r.hash # Audit!NoHash /\ Len(r.hash) \in Nat /\ 0 < Len(r.hash)
  <2>1. PICK h \in Audit!Hashes, e \in Audit!Calls, at \in 0..AuditEnd :
          /\ h = r.prev /\ e = r.event /\ at = r.at
          /\ r.hash = Audit!ComputeChainHash(e, at, "plain", h)
    BY DEF OneChain, Hashed, AuditTypes, AuditRows
  <2>2. PICK hash : hash = r.hash
    OBVIOUS
  <2>3. "plain" \in {"plain", "undef"} /\ hash = Audit!ComputeChainHash(e, at, "plain", h)
    BY <2>1, <2>2
  <2>4. hash \in Audit!Hashes /\ Len(h) \in Nat
    BY <2>3, ChainHash, Zenon
  <2>5. Len(hash) = Len(h) + 1
    BY <2>3, ChainHash
  <2> QED
    BY <2>2, <2>4, <2>5, NoHashIsNone
<1>3. \A r, s \in auditRows : Audit!Before(r, s) <=> r.at < s.at
  <2>1. \A r, s \in auditRows : r # s => r.at # s.at
    BY DEF OneChain
  <2>2. \A r \in auditRows : r.id \in Int
    BY DEF AuditTypes, AuditRows
  <2> QED
    BY <1>1, <2>1, <2>2 DEF Audit!Before
<1> QED
  BY <1>1, <1>2, <1>3

\* A chain verifies from every time on.
LEMMA ChainVerifies ==
  ASSUME AuditTypes, ComponentAssumption, OneChain(auditRows), NEW from \in 0..AuditEnd
  PROVE  Audit!VerifyAuditRange(auditRows, from)
<1>1. PICK range : range = {p \in auditRows : p.at >= from}
  OBVIOUS
<1>2. PICK older : older = {p \in auditRows : p.at < from}
  OBVIOUS
<1>3. from \in Nat
  BY DEF ComponentAssumption
<1>4. ASSUME NEW r \in range PROVE r.prev = LinksTo(auditRows, from, r)
  <2>0. r \in auditRows /\ Chained(r, auditRows) /\ from <= r.at /\ r.at \in Nat
    BY <1>1, <1>3, <1>4, ChainTimes DEF OneChain
  <2>1. CASE \E s \in auditRows : s.at < r.at
    <3>1. PICK x \in auditRows : /\ x.at < r.at /\ r.prev = x.hash
                                 /\ \A p \in auditRows : p.at < r.at => p.at <= x.at
      BY <2>0, <2>1 DEF Chained
    <3>2. CASE x \in range
      <4>1. PICK S : S = {s \in range : Audit!Before(s, r)}
        OBVIOUS
      <4>2. x \in S /\ S \subseteq auditRows /\ \A s \in S : s.at <= x.at
        BY <1>1, <2>0, <3>1, <3>2, <4>1, ChainTimes
      <4>3. Audit!Latest(S) = x
        BY <4>2, LatestOfPart
      <4>4. \E s \in range : Audit!Before(s, r)
        BY <4>1, <4>2
      <4> QED
        BY <1>1, <3>1, <4>1, <4>3, <4>4, Zenon DEF LinksTo
    <3>3. CASE x \notin range
      <4>1. \A s \in range : ~Audit!Before(s, r)
        <5>1. x.at < from
          BY <1>1, <1>3, <3>1, <3>3, ChainTimes
        <5>2. ASSUME NEW s \in range, Audit!Before(s, r) PROVE FALSE
          <6>1. s \in auditRows /\ from <= s.at /\ s.at < r.at /\ s.at <= x.at
            BY <1>1, <1>3, <2>0, <3>1, <5>2, ChainTimes
          <6> QED
            BY <1>3, <3>1, <5>1, <6>1, ChainTimes
        <5> QED
          BY <5>2
      <4>2. x \in older /\ older \subseteq auditRows /\ \A s \in older : s.at <= x.at
        BY <1>1, <1>2, <1>3, <2>0, <3>1, <3>3, ChainTimes
      <4>3. Audit!Latest(older) = x /\ x.hash # Audit!NoHash
        BY <3>1, <4>2, LatestOfPart, ChainTimes
      <4>4. Audit!HeadHash(older) = x.hash
        BY <4>2, <4>3, Zenon DEF Audit!HeadHash
      <4> QED
        BY <1>1, <1>2, <3>1, <4>1, <4>4, Zenon DEF LinksTo
    <3> QED
      BY <3>2, <3>3
  <2>2. CASE ~\E s \in auditRows : s.at < r.at
    <3>1. r.prev = Audit!Genesis
      BY <2>0, <2>2 DEF Chained
    <3>2. older = {} /\ \A s \in range : ~Audit!Before(s, r)
      BY <1>1, <1>2, <1>3, <2>0, <2>2, ChainTimes
    <3>3. Audit!HeadHash(older) = Audit!Genesis
      BY <3>2, Zenon DEF Audit!HeadHash
    <3> QED
      BY <1>1, <1>2, <3>1, <3>2, <3>3, Zenon DEF LinksTo
  <2> QED
    BY <2>1, <2>2
<1>5. ASSUME NEW r \in range
      PROVE  /\ r.hash # Audit!NoHash
             /\ r.hash = Audit!ComputeChainHash(r.event, r.at, r.meta, r.prev)
  BY <1>1, <1>5, ChainTimes DEF OneChain, Hashed
<1> QED
  BY <1>1, <1>4, <1>5, VerifiesRows, Zenon

\* An altered row does not hash to what it stores.
LEMMA EditFails ==
  ASSUME AuditTypes, ComponentAssumption, OneChain(auditRows), NEW from,
         NEW r \in auditRows, r.at >= from
  PROVE  ~Audit!VerifyAuditRange((auditRows \ {r}) \cup {[r EXCEPT !.meta = "edited"]}, from)
<1>1. PICK x : x = [r EXCEPT !.meta = "edited"]
  OBVIOUS
<1>2. /\ x.event = r.event /\ x.at = r.at /\ x.prev = r.prev /\ x.hash = r.hash
      /\ x.meta = "edited"
  BY <1>1 DEF AuditTypes, AuditRows
<1>3. PICK h \in Audit!Hashes, e \in Audit!Calls, at \in 0..AuditEnd :
        /\ h = r.prev /\ e = r.event /\ at = r.at
        /\ r.hash = Audit!ComputeChainHash(e, at, "plain", h)
  BY DEF OneChain, Hashed, AuditTypes, AuditRows
<1>4. x.hash # Audit!ComputeChainHash(x.event, x.at, x.meta, x.prev)
  BY <1>2, <1>3, ChainHash
<1>5. x \in {p \in (auditRows \ {r}) \cup {x} : p.at >= from}
  BY <1>2
<1> QED
  BY <1>1, <1>4, <1>5, VerifiesRows, Zenon

\* Without a row that is not the newest, the row after it names a hash that no row
\* before it has.
LEMMA DeleteFails ==
  ASSUME AuditTypes, ComponentAssumption, OneChain(auditRows), NEW from \in 0..AuditEnd,
         NEW r \in auditRows, r.at >= from, r # Audit!Latest(auditRows)
  PROVE  ~Audit!VerifyAuditRange(auditRows \ {r}, from)
<1>0. from \in Nat /\ r.at \in Nat
  BY ChainTimes DEF ComponentAssumption
<1>1. PICK T : T = {s.at : s \in {p \in auditRows : r.at < p.at}}
  OBVIOUS
<1>2. T \subseteq Nat /\ T # {}
  <2>1. Audit!Latest(auditRows) \in auditRows /\ Audit!Before(r, Audit!Latest(auditRows))
    BY NewestRow
  <2>2. r.at < Audit!Latest(auditRows).at
    BY <2>1, ChainTimes
  <2> QED
    BY <1>1, <2>1, <2>2, ChainTimes
<1>3. PICK t \in auditRows : r.at < t.at /\ \A s \in auditRows : r.at < s.at => t.at <= s.at
  <2>1. PICK x \in T : \A y \in T : x <= y
    BY <1>2, WellOrdered
  <2> QED
    BY <1>1, <2>1
<1>4. t.prev = r.hash
  <2>1. PICK x \in auditRows : /\ x.at < t.at /\ t.prev = x.hash
                               /\ \A p \in auditRows : p.at < t.at => p.at <= x.at
    <3>1. Chained(t, auditRows)
      BY DEF OneChain
    <3> QED
      BY <1>3, <3>1 DEF Chained
  <2>2. r.at <= x.at
    BY <1>3, <2>1
  <2>3. ~(r.at < x.at)
    <3>1. x.at \in Nat /\ t.at \in Nat
      BY ChainTimes
    <3> QED
      BY <1>3, <2>1, <3>1
  <2>4. x.at = r.at
    BY <1>0, <2>2, <2>3, ChainTimes
  <2>5. x = r
    BY <2>4 DEF OneChain
  <2> QED
    BY <2>1, <2>5
<1>5. \A s \in auditRows \ {r} : s.at < t.at => Len(s.hash) < Len(r.hash)
  <2> SUFFICES ASSUME NEW s \in auditRows \ {r}, s.at < t.at PROVE Len(s.hash) < Len(r.hash)
    OBVIOUS
  <2>1. s.at \in Nat /\ t.at \in Nat /\ s.at # r.at
    BY ChainTimes DEF OneChain
  <2>2. s.at < r.at
    BY <1>0, <1>3, <2>1
  <2> QED
    BY <2>2 DEF OneChain
<1>6. /\ \A s \in auditRows \ {r} : s.at < t.at => s.hash # r.hash
      /\ Audit!Genesis # r.hash
  BY <1>5, ChainTimes, NoHashIsNone
<1>7. LinksTo(auditRows \ {r}, from, t) # r.hash
  <2>1. PICK S : S = {s \in {p \in auditRows \ {r} : p.at >= from} : Audit!Before(s, t)}
    OBVIOUS
  <2>2. PICK older : older = {p \in auditRows \ {r} : p.at < from}
    OBVIOUS
  <2>3. S \subseteq auditRows \ {r} /\ \A s \in S : s.at < t.at
    BY <2>1, ChainTimes
  <2>4. S # {} => Audit!Latest(S).hash # r.hash
    BY <1>6, <2>3, NewestRow
  <2>5. older \subseteq auditRows \ {r} /\ \A s \in older : s.at < t.at
    BY <1>0, <1>3, <2>2, ChainTimes
  <2>6. Audit!HeadHash(older) # r.hash
    <3>1. older # {} => Audit!Latest(older).hash # r.hash
      BY <1>6, <2>5, NewestRow
    <3> QED
      BY <1>6, <3>1, Zenon DEF Audit!HeadHash
  <2> QED
    BY <2>1, <2>2, <2>4, <2>6, Zenon DEF LinksTo
<1>8. t \in {p \in auditRows \ {r} : p.at >= from}
  BY <1>0, <1>3, ChainTimes
<1> QED
  BY <1>4, <1>7, <1>8, VerifiesRows, Zenon

\* services/auditChain.ts, jobs/auditChainVerification.ts: the log that logAudit
\* alone has written, one call after the other, verifies from every point of time,
\* and fails to when a row is edited or one that is not the newest is deleted.
THEOREM AuditTheorem == Spec => []TamperEvident
<1> DEFINE Inv == part = "audit" => AuditInv
<1>1. Init => Inv
  <2>1. Init => (part = "audit" => Audit!Init)
    BY Zenon DEF Init
  <2> QED
    BY <2>1, ComponentAssumption, AuditStarts, Zenon
<1>2. Inv /\ [Next]_allVars => Inv'
  <2> SUFFICES ASSUME Inv, [Next]_allVars PROVE Inv'
    OBVIOUS
  <2>1. part' = part /\ (part = "audit" => [Audit!Next]_auditPart)
    BY StepsOfServices, Zenon
  <2> QED
    BY <2>1, ComponentAssumption, AuditKept, Zenon
<1>3. AuditInv => Audit!TamperEvident
  <2> SUFFICES ASSUME AuditInv, auditCause = {}, NEW from \in 0..AuditEnd
               PROVE  /\ ~Audit!JobAlerts(from)
                      /\ \A r \in auditRows : r.at >= from =>
                           /\ ~Audit!VerifyAuditRange((auditRows \ {r}) \cup {[r EXCEPT !.meta = "edited"]}, from)
                           /\ r # Audit!Latest(auditRows) => ~Audit!VerifyAuditRange(auditRows \ {r}, from)
    BY Zenon DEF Audit!TamperEvident
  <2>1. AuditTypes /\ OneChain(auditRows)
    BY Zenon DEF AuditInv, Untouched
  <2>2. ~Audit!JobAlerts(from)
    BY <2>1, ComponentAssumption, ChainVerifies, Zenon DEF Audit!JobAlerts
  <2> QED
    BY <2>1, <2>2, ComponentAssumption, EditFails, DeleteFails, Zenon
<1>4. Inv => TamperEvident
  BY <1>3, Zenon DEF TamperEvident
<1> QED
  BY <1>1, <1>2, <1>4, PTL DEF Spec

-----------------------------------------------------------------------------
(* The event indexer: no event is passed over, the totals are those of the  *)
(* rows.                                                                    *)

EventHashes == {Index!EventHash(LedgerEvents[n]) : n \in 1..Len(LedgerEvents)}

IndexLoops == [step : {"load", "fetch", "event", "create", "update", "ended"},
               cursor : 0..Len(LedgerEvents), next : 0..(Len(LedgerEvents) + 1),
               end : 0..Len(LedgerEvents), read : Index!Borrowers, stale : BOOLEAN]

IndexTypes ==
  /\ indexers \in [Pair -> IndexLoops]
  /\ savedCursor \in 0..Len(LedgerEvents)
  /\ eventRows \in SUBSET EventHashes
  /\ borrower \in Index!Borrowers

\* The first n events have their rows.
Covered(n, rows) ==
  \A k \in 1..n :
    LedgerEvents[k].kind \in Index!Recorded => Index!EventHash(LedgerEvents[k]) \in rows

HashAt(x) == Index!EventHash(LedgerEvents[x.next])

\* A loop has seen to all events before the one it is at.
LoopFine(x, rows) ==
  /\ Covered(x.cursor, rows)
  /\ x.step \in {"event", "create", "update"} =>
       x.next \in 1..(x.end + 1) /\ Covered(x.next - 1, rows)
  /\ x.step \in {"create", "update"} =>
       x.next <= x.end /\ LedgerEvents[x.next].kind \in Index!Recorded
  /\ x.step = "update" => HashAt(x) \in rows

\* The rows whose amounts are still to be added to the totals, each by one loop.
Pending(loops) == {HashAt(loops[i]) : i \in {j \in Pair : loops[j].step = "update"}}
PendingDiffer(loops) ==
  \A i, j \in Pair :
    loops[i].step = "update" /\ loops[j].step = "update" /\ HashAt(loops[i]) = HashAt(loops[j])
      => i = j

IndexFine ==
  /\ \A i \in Pair : LoopFine(indexers[i], eventRows)
  /\ Covered(savedCursor, eventRows)
  /\ PendingDiffer(indexers)

\* What a row adds to the totals, and the totals of a set of rows.
Worth(kind) == [r \in EventHashes |-> IF r[1] = kind THEN r[2] ELSE 0]
Total(kind, S) == SumOver(Worth(kind), S)
TotalsOf(S) ==
  [escrowBalance |-> Total("deposit", S) - Total("withdraw", S),
   totalDeposited |-> Total("deposit", S),
   loanOutstanding |-> Total("disburse", S) - Total("repay", S),
   totalDisbursed |-> Total("disburse", S),
   totalRepaid |-> Total("repay", S)]

\* What a loop has read of the borrower is current, unless it is marked stale.
UpToDate(x, b) == x.step \in {"create", "update"} /\ ~x.stale => x.read = b

InStep(loops, rows, b) ==
  /\ b = TotalsOf(rows \ Pending(loops))
  /\ \A i \in Pair : UpToDate(loops[i], b)

IndexInv ==
  /\ IndexTypes
  /\ IndexFine
  /\ totalsCause = {} => InStep(indexers, eventRows, borrower)

LEMMA EventOf ==
  ASSUME IndexAssumption
  PROVE  /\ Len(LedgerEvents) \in Nat /\ IsFiniteSet(EventHashes)
         /\ \A n \in 1..Len(LedgerEvents) :
              /\ LedgerEvents[n].amount \in Nat
              /\ Index!EventHash(LedgerEvents[n]) \in EventHashes
              /\ Index!EventHash(LedgerEvents[n])[1] = LedgerEvents[n].kind
              /\ Index!EventHash(LedgerEvents[n])[2] = LedgerEvents[n].amount
<1>1. Len(LedgerEvents) \in Nat /\ \A n \in 1..Len(LedgerEvents) : LedgerEvents[n].amount \in Nat
  <2>1. PICK E : E = [kind : STRING, amount : Nat, ledger : Nat]
    OBVIOUS
  <2>2. LedgerEvents \in Seq(E)
    BY <2>1 DEF IndexAssumption
  <2>3. \A x \in E : x.amount \in Nat
    BY <2>1
  <2> QED
    BY <2>2, <2>3
<1>2. IsFiniteSet(EventHashes)
  <2>1. PICK f : f = [n \in 1..Len(LedgerEvents) |-> Index!EventHash(LedgerEvents[n])]
    OBVIOUS
  <2>2. f \in Surjection(1..Len(LedgerEvents), EventHashes)
    BY <2>1 DEF EventHashes, Surjection
  <2>3. ExistsSurjection(1..Len(LedgerEvents), EventHashes)
    BY <2>2, Zenon DEF ExistsSurjection
  <2> QED
    BY <1>1, <2>3, FS_NatSurjection
<1>3. ASSUME NEW n \in 1..Len(LedgerEvents)
      PROVE  /\ Index!EventHash(LedgerEvents[n]) \in EventHashes
             /\ Index!EventHash(LedgerEvents[n])[1] = LedgerEvents[n].kind
             /\ Index!EventHash(LedgerEvents[n])[2] = LedgerEvents[n].amount
  <2>1. Index!EventHash(LedgerEvents[n]) \in EventHashes
    BY Zenon DEF EventHashes
  <2> QED
    BY <2>1 DEF Index!EventHash
<1> QED
  BY <1>1, <1>2, <1>3

\* What one more row does to the totals.
LEMMA TotalGrows ==
  ASSUME IndexAssumption, NEW S \in SUBSET EventHashes, NEW kind
  PROVE  /\ Total(kind, S) \in Int
         /\ \A n \in 1..Len(LedgerEvents) :
              LET h == Index!EventHash(LedgerEvents[n])
              IN  h \notin S => Total(kind, S \cup {h}) = Total(kind, S)
                    + (IF LedgerEvents[n].kind = kind THEN LedgerEvents[n].amount ELSE 0)
<1>1. PICK f : f = Worth(kind)
  OBVIOUS
<1>2. \A r \in EventHashes : f[r] \in Int
  <2>1. \A r \in EventHashes : \E n \in 1..Len(LedgerEvents) : r = Index!EventHash(LedgerEvents[n])
    BY DEF EventHashes
  <2>2. \A r \in EventHashes : r[2] \in Nat
    BY <2>1, EventOf
  <2> QED
    BY <1>1, <2>2 DEF Worth
<1>3. IsFiniteSet(S)
  BY EventOf, FS_Subset
<1>4. Integral(f, S)
  BY <1>2 DEF Integral
<1>5. SumOver(f, S) \in Int
  BY <1>3, <1>4, SumRemove, Zenon
<1>6. ASSUME NEW n \in 1..Len(LedgerEvents), NEW h, h = Index!EventHash(LedgerEvents[n]), h \notin S
      PROVE  SumOver(f, S \cup {h}) = SumOver(f, S)
               + (IF LedgerEvents[n].kind = kind THEN LedgerEvents[n].amount ELSE 0)
  <2>1. h \in EventHashes /\ h[1] = LedgerEvents[n].kind /\ h[2] = LedgerEvents[n].amount
    BY <1>6, EventOf
  <2>2. Integral(f, S \cup {h})
    BY <1>2, <2>1 DEF Integral
  <2>3. SumOver(f, S \cup {h}) = f[h] + SumOver(f, S)
    BY <1>3, <1>6, <2>2, SumOneMore, Zenon
  <2>4. f[h] = IF LedgerEvents[n].kind = kind THEN LedgerEvents[n].amount ELSE 0
    BY <1>1, <2>1 DEF Worth
  <2>5. f[h] \in Int
    BY <1>2, <2>1
  <2> QED
    BY <1>5, <2>3, <2>4, <2>5
<1> QED
  BY <1>1, <1>5, <1>6, Zenon DEF Total

LEMMA TotalsTypes ==
  ASSUME NEW b \in Index!Borrowers, NEW e, e.amount \in Nat, e.kind \in Index!Recorded
  PROVE  Index!Totals(b, e) \in Index!Borrowers
<1>0. \A x, y \in Nat : Index!Sub(x, y) \in Nat
  BY DEF Index!Sub
<1>1. e.kind \in {"deposit", "withdraw", "disburse", "repay"}
  BY DEF Index!Recorded
<1>2. CASE e.kind = "deposit"
  <2>1. PICK c : c = [b EXCEPT !.escrowBalance = b.escrowBalance + e.amount]
    OBVIOUS
  <2>2. c \in Index!Borrowers
    BY <2>1 DEF Index!Borrowers
  <2>3. [c EXCEPT !.totalDeposited = b.totalDeposited + e.amount] \in Index!Borrowers
    BY <2>2 DEF Index!Borrowers
  <2>4. Index!Totals(b, e) = [c EXCEPT !.totalDeposited = b.totalDeposited + e.amount]
    BY <1>2, <2>1 DEF Index!Totals, Index!Borrowers
  <2> QED
    BY <2>3, <2>4
<1>3. CASE e.kind = "withdraw"
  BY <1>0, <1>3 DEF Index!Totals, Index!Borrowers
<1>4. CASE e.kind = "disburse"
  <2>1. PICK c : c = [b EXCEPT !.loanOutstanding = b.loanOutstanding + e.amount]
    OBVIOUS
  <2>2. c \in Index!Borrowers
    BY <2>1 DEF Index!Borrowers
  <2>3. [c EXCEPT !.totalDisbursed = b.totalDisbursed + e.amount] \in Index!Borrowers
    BY <2>2 DEF Index!Borrowers
  <2>4. Index!Totals(b, e) = [c EXCEPT !.totalDisbursed = b.totalDisbursed + e.amount]
    BY <1>4, <2>1 DEF Index!Totals, Index!Borrowers
  <2> QED
    BY <2>3, <2>4
<1>5. CASE e.kind = "repay"
  <2>1. PICK c : c = [b EXCEPT !.loanOutstanding = Index!Sub(b.loanOutstanding, e.amount)]
    OBVIOUS
  <2>2. c \in Index!Borrowers
    BY <1>0, <2>1 DEF Index!Borrowers
  <2>3. [c EXCEPT !.totalRepaid = b.totalRepaid + e.amount] \in Index!Borrowers
    BY <2>2 DEF Index!Borrowers
  <2>4. Index!Totals(b, e) = [c EXCEPT !.totalRepaid = b.totalRepaid + e.amount]
    BY <1>5, <2>1 DEF Index!Totals, Index!Borrowers
  <2> QED
    BY <2>3, <2>4
<1> QED
  BY <1>1, <1>2, <1>3, <1>4, <1>5

LEMMA TotalsFollow ==
  ASSUME IndexAssumption, NEW S \in SUBSET EventHashes, NEW n \in 1..Len(LedgerEvents),
         Index!EventHash(LedgerEvents[n]) \notin S, LedgerEvents[n].kind \in Index!Recorded,
         TotalsOf(S) \in Index!Borrowers, ~Index!Clamped(TotalsOf(S), LedgerEvents[n])
  PROVE  Index!Totals(TotalsOf(S), LedgerEvents[n])
           = TotalsOf(S \cup {Index!EventHash(LedgerEvents[n])})
<1>1. PICK T, e : T = S \cup {Index!EventHash(LedgerEvents[n])} /\ e = LedgerEvents[n]
  OBVIOUS
<1>2. PICK d, w, l, p \in Int : /\ d = Total("deposit", S) /\ w = Total("withdraw", S)
                                /\ l = Total("disburse", S) /\ p = Total("repay", S)
  BY TotalGrows
<1>3. /\ Total("deposit", T) = d + (IF e.kind = "deposit" THEN e.amount ELSE 0)
      /\ Total("withdraw", T) = w + (IF e.kind = "withdraw" THEN e.amount ELSE 0)
      /\ Total("disburse", T) = l + (IF e.kind = "disburse" THEN e.amount ELSE 0)
      /\ Total("repay", T) = p + (IF e.kind = "repay" THEN e.amount ELSE 0)
  BY <1>1, <1>2, TotalGrows, Zenon
<1>4. e.amount \in Nat /\ e.kind \in {"deposit", "withdraw", "disburse", "repay"}
  BY <1>1, EventOf DEF Index!Recorded
<1>5. PICK b : b = TotalsOf(S)
  OBVIOUS
<1>6. b = [escrowBalance |-> d - w, totalDeposited |-> d, loanOutstanding |-> l - p,
           totalDisbursed |-> l, totalRepaid |-> p]
  BY <1>2, <1>5, Zenon DEF TotalsOf
<1>7. /\ e.kind = "withdraw" => Index!Sub(d - w, e.amount) = d - (w + e.amount)
      /\ e.kind = "repay" => Index!Sub(l - p, e.amount) = l - (p + e.amount)
  <2>1. b.escrowBalance = d - w /\ b.loanOutstanding = l - p
    BY <1>6
  <2>2. ~Index!Clamped(b, e)
    BY <1>1, <1>5
  <2> QED
    BY <1>4, <2>1, <2>2, SMTT(30) DEF Index!Clamped, Index!Sub
<1>8. Index!Totals(b, e) = TotalsOf(T)
  <2>1. CASE e.kind = "deposit"
    <3>1. TotalsOf(T) = [escrowBalance |-> (d + e.amount) - w, totalDeposited |-> d + e.amount,
                         loanOutstanding |-> l - p, totalDisbursed |-> l, totalRepaid |-> p]
      BY <1>3, <1>4, <2>1 DEF TotalsOf
    <3>2. PICK x, y : x = (d + e.amount) - w /\ y = d + e.amount
      OBVIOUS
    <3>3. b.escrowBalance + e.amount = x /\ b.totalDeposited + e.amount = y
      BY <1>4, <1>6, <1>7, <2>1, <3>2, SMTT(30)
    <3>4. PICK c : c = [b EXCEPT !.escrowBalance = x]
      OBVIOUS
    <3>5. c = [escrowBalance |-> x, totalDeposited |-> d, loanOutstanding |-> l - p,
                totalDisbursed |-> l, totalRepaid |-> p]
      BY <1>6, <3>4
    <3>6. TotalsOf(T) = [c EXCEPT !.totalDeposited = y]
      <4>1. TotalsOf(T) = [escrowBalance |-> x, totalDeposited |-> y,
                         loanOutstanding |-> l - p, totalDisbursed |-> l, totalRepaid |-> p]
        BY <3>1, <3>2, Zenon
      <4> QED
        BY <3>5, <4>1, SMTT(30)
    <3>7. Index!Totals(b, e) = [c EXCEPT !.totalDeposited = y]
      BY <1>6, <2>1, <3>3, <3>4 DEF Index!Totals
    <3> QED
      BY <3>6, <3>7
  <2>2. CASE e.kind = "withdraw"
    <3>1. TotalsOf(T) = [escrowBalance |-> d - (w + e.amount), totalDeposited |-> d,
                         loanOutstanding |-> l - p, totalDisbursed |-> l, totalRepaid |-> p]
      BY <1>3, <1>4, <2>2, SMTT(30) DEF TotalsOf
    <3> QED
      BY <1>4, <1>6, <1>7, <2>2, <3>1, ZenonT(60) DEF Index!Totals
  <2>3. CASE e.kind = "disburse"
    <3>1. TotalsOf(T) = [escrowBalance |-> d - w, totalDeposited |-> d,
                         loanOutstanding |-> (l + e.amount) - p, totalDisbursed |-> l + e.amount,
                         totalRepaid |-> p]
      BY <1>3, <1>4, <2>3 DEF TotalsOf
    <3>2. PICK x, y : x = (l + e.amount) - p /\ y = l + e.amount
      OBVIOUS
    <3>3. b.loanOutstanding + e.amount = x /\ b.totalDisbursed + e.amount = y
      BY <1>4, <1>6, <1>7, <2>3, <3>2, SMTT(30)
    <3>4. PICK c : c = [b EXCEPT !.loanOutstanding = x]
      OBVIOUS
    <3>5. c = [escrowBalance |-> d - w, totalDeposited |-> d, loanOutstanding |-> x,
                totalDisbursed |-> l, totalRepaid |-> p]
      BY <1>6, <3>4, ZenonT(60)
    <3>6. TotalsOf(T) = [c EXCEPT !.totalDisbursed = y]
      <4>1. TotalsOf(T) = [escrowBalance |-> d - w, totalDeposited |-> d,
                         loanOutstanding |-> x, totalDisbursed |-> y,
                         totalRepaid |-> p]
        BY <3>1, <3>2, Zenon
      <4> QED
        BY <3>5, <4>1, SMTT(30)
    <3>7. Index!Totals(b, e) = [c EXCEPT !.totalDisbursed = y]
      BY <1>6, <2>3, <3>3, <3>4 DEF Index!Totals
    <3> QED
      BY <3>6, <3>7, SMTT(30)
  <2>4. CASE e.kind = "repay"
    <3>1. TotalsOf(T) = [escrowBalance |-> d - w, totalDeposited |-> d,
                         loanOutstanding |-> l - (p + e.amount), totalDisbursed |-> l,
                         totalRepaid |-> p + e.amount]
      BY <1>3, <1>4, <2>4 DEF TotalsOf
    <3>2. PICK x, y : x = l - (p + e.amount) /\ y = p + e.amount
      OBVIOUS
    <3>3. Index!Sub(b.loanOutstanding, e.amount) = x /\ b.totalRepaid + e.amount = y
      BY <1>4, <1>6, <1>7, <2>4, <3>2, SMTT(30)
    <3>4. PICK c : c = [b EXCEPT !.loanOutstanding = x]
      OBVIOUS
    <3>5. c = [escrowBalance |-> d - w, totalDeposited |-> d, loanOutstanding |-> x,
                totalDisbursed |-> l, totalRepaid |-> p]
      BY <1>6, <3>4
    <3>6. TotalsOf(T) = [c EXCEPT !.totalRepaid = y]
      <4>1. TotalsOf(T) = [escrowBalance |-> d - w, totalDeposited |-> d,
                         loanOutstanding |-> x, totalDisbursed |-> l,
                         totalRepaid |-> y]
        BY <3>1, <3>2, Zenon
      <4> QED
        BY <3>5, <4>1, SMTT(30)
    <3>7. Index!Totals(b, e) = [c EXCEPT !.totalRepaid = y]
      BY <1>6, <2>4, <3>3, <3>4 DEF Index!Totals
    <3> QED
      BY <3>6, <3>7, SMTT(30)
  <2> QED
    BY <1>4, <2>1, <2>2, <2>3, <2>4
<1> QED
  BY <1>1, <1>5, <1>8, Zenon

-----------------------------------------------------------------------------
LEMMA IndexStarts ==
  ASSUME IndexAssumption, Index!Init
  PROVE  IndexInv
<1>1. Len(LedgerEvents) \in Nat
  BY EventOf
<1>2. Index!NoBorrower \in Index!Borrowers
  BY DEF Index!NoBorrower, Index!Borrowers
<1>3. PICK x : x = Index!Loop("load", 0)
  OBVIOUS
<1>4. x \in IndexLoops /\ x.step = "load" /\ x.cursor = 0
  BY <1>1, <1>2, <1>3 DEF Index!Loop, IndexLoops
<1>5. /\ indexers = [i \in Pair |-> x] /\ savedCursor = 0 /\ eventRows = {}
      /\ borrower = Index!NoBorrower
  BY <1>3, Zenon DEF Index!Init
<1>6. IndexTypes
  BY <1>1, <1>2, <1>4, <1>5 DEF IndexTypes
<1>7. IndexFine
  <2>1. Covered(0, eventRows)
    BY DEF Covered
  <2>2. LoopFine(x, eventRows)
    BY <1>4, <2>1 DEF LoopFine
  <2>3. PendingDiffer(indexers)
    BY <1>4, <1>5 DEF PendingDiffer
  <2> QED
    BY <1>5, <2>1, <2>2, <2>3 DEF IndexFine
<1>8. InStep(indexers, eventRows, borrower)
  <2>1. ASSUME NEW kind PROVE Total(kind, {}) = 0
    <3>1. PICK f : f = Worth(kind)
      OBVIOUS
    <3>2. Integral(f, {})
      BY DEF Integral
    <3>3. SumOver(f, {}) = 0
      BY <3>2, FS_EmptySet, SumRemove, Zenon
    <3> QED
      BY <3>1, <3>3, Zenon DEF Total
  <2>2. TotalsOf({}) = Index!NoBorrower
    BY <2>1 DEF TotalsOf, Index!NoBorrower
  <2>3. {} \ Pending(indexers) = {}
    OBVIOUS
  <2>4. \A i \in Pair : UpToDate(indexers[i], borrower)
    BY <1>4, <1>5 DEF UpToDate
  <2> QED
    BY <1>5, <2>2, <2>3, <2>4 DEF InStep
<1> QED
  BY <1>6, <1>7, <1>8 DEF IndexInv

LEMMA PendingRows ==
  ASSUME NEW loops, NEW h
  PROVE  h \in Pending(loops) <=> \E j \in Pair : loops[j].step = "update" /\ h = HashAt(loops[j])
BY DEF Pending

LEMMA CoveredMore ==
  ASSUME NEW rows, NEW n \in Nat \ {0}, Covered(n - 1, rows),
         LedgerEvents[n].kind \in Index!Recorded => Index!EventHash(LedgerEvents[n]) \in rows
  PROVE  Covered(n, rows)
<1>1. \A k \in 1..n : k \in 1..(n - 1) \/ k = n
  OBVIOUS
<1> QED
  BY <1>1, Zenon DEF Covered

LEMMA CoveredStays ==
  ASSUME NEW rows, NEW more, rows \subseteq more, NEW n, Covered(n, rows)
  PROVE  Covered(n, more)
BY DEF Covered

LEMMA FineStays ==
  ASSUME NEW rows, NEW more, rows \subseteq more, NEW x, LoopFine(x, rows)
  PROVE  LoopFine(x, more)
BY CoveredStays DEF LoopFine

\* What the fields of a loop say of it is all that counts.
LEMMA FineAlike ==
  ASSUME NEW rows, NEW x, NEW y, LoopFine(x, rows),
         y.step = x.step, y.cursor = x.cursor, y.next = x.next, y.end = x.end
  PROVE  LoopFine(y, rows) /\ HashAt(y) = HashAt(x)
BY DEF LoopFine, HashAt

\* A loop goes on, with no row and no totals written.
LEMMA IndexMoves ==
  ASSUME IndexInv, NEW i \in Pair, NEW x \in IndexLoops,
         indexers' = [indexers EXCEPT ![i] = x], x.step # "update", LoopFine(x, eventRows),
         savedCursor' \in 0..Len(LedgerEvents), Covered(savedCursor', eventRows),
         eventRows' = eventRows, borrower' = borrower,
         totalsCause' = {} => /\ totalsCause = {} /\ indexers[i].step # "update"
                              /\ UpToDate(x, borrower)
  PROVE  IndexInv'
<1>0. IndexTypes /\ IndexFine
  BY DEF IndexInv
<1>1. PICK loops : loops = indexers'
  OBVIOUS
<1>2. \A j \in Pair : loops[j] = IF j = i THEN x ELSE indexers[j]
  BY <1>0, <1>1 DEF IndexTypes
<1>3. IndexTypes'
  BY <1>0 DEF IndexTypes
<1>4. \A j \in Pair : LoopFine(loops[j], eventRows)
  BY <1>0, <1>2 DEF IndexFine
<1>5. PendingDiffer(loops)
  BY <1>0, <1>2 DEF IndexFine, PendingDiffer
<1>6. ASSUME totalsCause' = {} PROVE InStep(loops, eventRows, borrower)
  <2>1. InStep(indexers, eventRows, borrower)
    BY <1>6 DEF IndexInv
  <2>2. \A h : h \in Pending(loops) <=> h \in Pending(indexers)
    BY <1>2, <1>6, PendingRows
  <2>3. eventRows \ Pending(loops) = eventRows \ Pending(indexers)
    BY <2>2
  <2>4. \A j \in Pair : UpToDate(loops[j], borrower)
    BY <1>2, <1>6, <2>1, Zenon DEF InStep
  <2> QED
    BY <2>1, <2>3, <2>4, Zenon DEF InStep
<1>7. IndexFine'
  BY <1>1, <1>4, <1>5 DEF IndexFine
<1> QED
  BY <1>1, <1>3, <1>6, <1>7 DEF IndexInv

\* What a loop in the middle of an event is at.
LEMMA AtEvent ==
  ASSUME IndexAssumption, IndexInv, NEW i \in Pair,
         indexers[i].step \in {"event", "create", "update"}, indexers[i].next <= indexers[i].end
  PROVE  /\ indexers[i].next \in 1..Len(LedgerEvents)
         /\ Covered(indexers[i].next - 1, eventRows)
         /\ HashAt(indexers[i]) \in EventHashes
         /\ HashAt(indexers[i]) = Index!EventHash(Index!Event(i))
         /\ Index!Event(i) = LedgerEvents[indexers[i].next]
<1>1. indexers[i] \in IndexLoops /\ LoopFine(indexers[i], eventRows)
  BY DEF IndexInv, IndexTypes, IndexFine
<1>2. indexers[i].next \in 1..Len(LedgerEvents) /\ Covered(indexers[i].next - 1, eventRows)
  BY <1>1, EventOf DEF LoopFine, IndexLoops
<1> QED
  BY <1>2, EventOf, Zenon DEF HashAt, Index!Event

\* The loop that has seen to an event.
LEMMA NextEventFine ==
  ASSUME IndexAssumption, IndexInv, NEW i \in Pair,
         indexers[i].step \in {"event", "create", "update"}, indexers[i].next <= indexers[i].end,
         NEW rows, eventRows \subseteq rows,
         Index!Event(i).kind \in Index!Recorded => HashAt(indexers[i]) \in rows
  PROVE  /\ Index!NextEvent(i) \in IndexLoops
         /\ Index!NextEvent(i).step = "event"
         /\ LoopFine(Index!NextEvent(i), rows)
<1>1. PICK x : x = indexers[i]
  OBVIOUS
<1>2. x \in IndexLoops /\ LoopFine(x, eventRows)
  BY <1>1 DEF IndexInv, IndexTypes, IndexFine
<1>3. PICK n : n = x.next + 1
  OBVIOUS
<1>4. n \in 0..(Len(LedgerEvents) + 1) /\ n \in 1..(x.end + 1) /\ n - 1 = x.next
  <2>1. x.next \in 1..Len(LedgerEvents) /\ x.next <= x.end
    BY <1>1, AtEvent
  <2>2. x.end \in 0..Len(LedgerEvents) /\ Len(LedgerEvents) \in Nat
    BY <1>2, EventOf DEF IndexLoops
  <2>3. \A m, t, l \in Nat : m \in 1..l /\ m <= t /\ t \in 0..l =>
           m + 1 \in 0..(l + 1) /\ m + 1 \in 1..(t + 1) /\ (m + 1) - 1 = m
    OBVIOUS
  <2>4. x.next \in Nat /\ x.end \in Nat
    BY <2>1, <2>2
  <2> QED
    BY <1>3, <2>1, <2>2, <2>3, <2>4, Zenon
<1>5. PICK y : y = [x EXCEPT !.step = "event", !.next = n, !.read = Index!NoBorrower, !.stale = FALSE]
  OBVIOUS
<1>6. y = Index!NextEvent(i)
  BY <1>1, <1>3, <1>5 DEF Index!NextEvent
<1>7. /\ y.step = "event" /\ y.cursor = x.cursor /\ y.next = n /\ y.end = x.end
      /\ y \in IndexLoops
  <2>1. Index!NoBorrower \in Index!Borrowers
    BY DEF Index!NoBorrower, Index!Borrowers
  <2> QED
    BY <1>2, <1>4, <1>5, <2>1 DEF IndexLoops
<1>8. Covered(x.next, rows)
  <2>1. Covered(x.next - 1, rows)
    BY <1>1, AtEvent, CoveredStays
  <2>2. x.next \in Nat \ {0}
    BY <1>1, AtEvent
  <2>3. LedgerEvents[x.next].kind \in Index!Recorded => Index!EventHash(LedgerEvents[x.next]) \in rows
    BY <1>1, AtEvent, Zenon
  <2> QED
    BY <2>1, <2>2, <2>3, CoveredMore, Zenon
<1>9. LoopFine(y, rows)
  BY <1>2, <1>4, <1>7, <1>8, CoveredStays DEF LoopFine
<1> QED
  BY <1>6, <1>7, <1>9, Zenon

LEMMA IndexCreates ==
  ASSUME IndexAssumption, IndexInv, NEW i \in Pair, Index!CreateRow(i)
  PROVE  IndexInv'
<1>0. IndexTypes /\ IndexFine /\ indexers[i] \in IndexLoops /\ LoopFine(indexers[i], eventRows)
  BY DEF IndexInv, IndexTypes, IndexFine
<1>1. indexers[i].step = "create"
  BY DEF Index!CreateRow, Index!At
<1>2. indexers[i].next <= indexers[i].end /\ Index!Event(i).kind \in Index!Recorded
  BY <1>0, <1>1 DEF LoopFine, Index!Event
<1>3. HashAt(indexers[i]) = Index!EventHash(Index!Event(i)) /\ HashAt(indexers[i]) \in EventHashes
  BY <1>1, <1>2, AtEvent
<1>4. CASE HashAt(indexers[i]) \in eventRows
  <2>1. /\ indexers' = [indexers EXCEPT ![i] = Index!NextEvent(i)]
        /\ UNCHANGED <<eventRows, savedCursor, borrower, totalsCause>>
    BY <1>3, <1>4, Zenon DEF Index!CreateRow
  <2>2. PICK x : x = Index!NextEvent(i)
    OBVIOUS
  <2>3. x \in IndexLoops /\ x.step = "event" /\ LoopFine(x, eventRows)
    BY <1>1, <1>2, <1>4, <2>2, NextEventFine
  <2>4. UpToDate(x, borrower)
    BY <2>3 DEF UpToDate
  <2>5. savedCursor \in 0..Len(LedgerEvents) /\ Covered(savedCursor, eventRows)
    BY <1>0 DEF IndexTypes, IndexFine
  <2> QED
    BY <1>1, <2>1, <2>2, <2>3, <2>4, <2>5, IndexMoves
<1>5. CASE HashAt(indexers[i]) \notin eventRows
  <2>1. PICK h, y : h = HashAt(indexers[i]) /\ y = [indexers[i] EXCEPT !.step = "update"]
    OBVIOUS
  <2>2. /\ indexers' = [indexers EXCEPT ![i].step = "update"]
        /\ eventRows' = eventRows \cup {h}
        /\ UNCHANGED <<savedCursor, borrower, totalsCause>>
    BY <1>3, <1>5, <2>1, Zenon DEF Index!CreateRow
  <2>3. /\ y \in IndexLoops /\ y.step = "update" /\ y.cursor = indexers[i].cursor
        /\ y.next = indexers[i].next /\ y.end = indexers[i].end /\ y.read = indexers[i].read
        /\ y.stale = indexers[i].stale
    BY <1>0, <2>1 DEF IndexLoops
  <2>4. PICK loops : loops = indexers'
    OBVIOUS
  <2>5. \A j \in Pair : loops[j] = IF j = i THEN y ELSE indexers[j]
    BY <1>0, <2>1, <2>2, <2>4 DEF IndexTypes
  <2>6. indexers' \in [Pair -> IndexLoops]
    BY <1>0, <2>2, <2>3, <2>1 DEF IndexTypes
  <2>7. IndexTypes'
    BY <1>0, <1>3, <2>1, <2>2, <2>6 DEF IndexTypes
  <2>8. HashAt(y) = h
    BY <2>1, <2>3 DEF HashAt
  <2>9. LoopFine(y, eventRows')
    <3>1. LoopFine(indexers[i], eventRows')
      BY <1>0, <2>2, FineStays
    <3> QED
      BY <1>1, <1>2, <2>2, <2>3, <2>8, <3>1 DEF LoopFine, Index!Event
  <2>10. \A j \in Pair : LoopFine(loops[j], eventRows')
    <3>1. \A j \in Pair : LoopFine(indexers[j], eventRows')
      BY <1>0, <2>2, FineStays DEF IndexFine
    <3> QED
      BY <2>5, <2>9, <3>1, Zenon
  <2>11. \A j \in Pair : indexers[j].step = "update" => HashAt(indexers[j]) \in eventRows
    BY <1>0 DEF IndexFine, LoopFine
  <2>12. PendingDiffer(loops)
    <3>1. PendingDiffer(indexers)
      BY <1>0 DEF IndexFine
    <3> QED
      BY <1>5, <2>1, <2>5, <2>8, <2>11, <3>1 DEF PendingDiffer
  <2>13. Covered(savedCursor', eventRows')
    BY <1>0, <2>2, CoveredStays DEF IndexFine
  <2>14. ASSUME totalsCause' = {} PROVE InStep(loops, eventRows', borrower')
    <3>1. InStep(indexers, eventRows, borrower)
      BY <2>2, <2>14 DEF IndexInv
    <3>2. \A g : g \in Pending(loops) <=> g \in Pending(indexers) \/ g = h
      BY <1>1, <2>3, <2>5, <2>8, PendingRows
    <3>3. eventRows' \ Pending(loops) = eventRows \ Pending(indexers)
      BY <1>5, <2>1, <2>2, <3>2
    <3>4. \A j \in Pair : UpToDate(loops[j], borrower)
      BY <1>1, <2>3, <2>5, <3>1 DEF InStep, UpToDate
    <3> QED
      BY <2>2, <3>1, <3>3, <3>4, Zenon DEF InStep
  <2> QED
    BY <2>4, <2>7, <2>10, <2>12, <2>13, <2>14 DEF IndexInv, IndexFine
<1> QED
  BY <1>4, <1>5

LEMMA IndexUpdates ==
  ASSUME IndexAssumption, IndexInv, NEW i \in Pair, Index!UpdateBorrower(i)
  PROVE  IndexInv'
<1>0. /\ IndexTypes /\ IndexFine
      /\ indexers[i] \in IndexLoops /\ LoopFine(indexers[i], eventRows)
  BY DEF IndexInv, IndexTypes, IndexFine
<1>1. PICK h, e : h = HashAt(indexers[i]) /\ e = Index!Event(i)
  OBVIOUS
<1>2. indexers[i].step = "update"
  BY DEF Index!UpdateBorrower, Index!At
<1>3. indexers[i].next <= indexers[i].end /\ e.kind \in Index!Recorded /\ h \in eventRows
  BY <1>0, <1>1, <1>2 DEF LoopFine, Index!Event
<1>4. PICK n \in 1..Len(LedgerEvents) : e = LedgerEvents[n] /\ h = Index!EventHash(LedgerEvents[n])
  BY <1>1, <1>2, <1>3, AtEvent, Zenon
<1>5. PICK x : x = Index!NextEvent(i)
  OBVIOUS
<1>6. x \in IndexLoops /\ x.step = "event" /\ LoopFine(x, eventRows)
  BY <1>1, <1>2, <1>3, <1>5, NextEventFine
<1>7. PICK loops : loops = indexers'
  OBVIOUS
<1>8. /\ borrower' = Index!Totals(indexers[i].read, e)
      /\ UNCHANGED <<savedCursor, eventRows>>
      /\ totalsCause' = {} => /\ totalsCause = {} /\ ~indexers[i].stale
                              /\ ~Index!Clamped(indexers[i].read, e)
  BY <1>1 DEF Index!UpdateBorrower
<1>9. /\ loops[i] = x /\ loops \in [Pair -> IndexLoops]
      /\ \A j \in Pair : j # i =>
           /\ loops[j].step = indexers[j].step /\ loops[j].cursor = indexers[j].cursor
           /\ loops[j].next = indexers[j].next /\ loops[j].end = indexers[j].end
           /\ loops[j].step \in {"create", "update"} => loops[j].stale
  <2>1. loops = [j \in Pair |->
          IF j = i THEN x
          ELSE [indexers[j] EXCEPT !.stale = Index!At(j, "create") \/ Index!At(j, "update")]]
    BY <1>5, <1>7, Zenon DEF Index!UpdateBorrower
  <2>2. loops[i] = x
    BY <2>1
  <2>3. ASSUME NEW j \in Pair, j # i
        PROVE  /\ loops[j].step = indexers[j].step /\ loops[j].cursor = indexers[j].cursor
               /\ loops[j].next = indexers[j].next /\ loops[j].end = indexers[j].end
               /\ loops[j].step \in {"create", "update"} => loops[j].stale
               /\ loops[j] \in IndexLoops
    <3>1. PICK late \in BOOLEAN : late = (indexers[j].step = "create" \/ indexers[j].step = "update")
      OBVIOUS
    <3>2. loops[j] = [indexers[j] EXCEPT !.stale = late]
      BY <2>1, <2>3, <3>1, Zenon DEF Index!At
    <3>3. indexers[j] \in IndexLoops
      BY <1>0 DEF IndexTypes
    <3>4. /\ loops[j].step = indexers[j].step /\ loops[j].cursor = indexers[j].cursor
          /\ loops[j].next = indexers[j].next /\ loops[j].end = indexers[j].end
          /\ loops[j].stale = late /\ loops[j] \in IndexLoops
      BY <3>2, <3>3 DEF IndexLoops
    <3> QED
      BY <3>1, <3>4
  <2>4. \A j \in Pair : loops[j] \in IndexLoops
    BY <1>6, <2>2, <2>3, Zenon
  <2>5. loops \in [Pair -> IndexLoops]
    BY <2>1, <2>4
  <2> QED
    BY <2>2, <2>3, <2>5, Zenon
<1>10. indexers[i].read \in Index!Borrowers /\ borrower' \in Index!Borrowers
  <2>1. indexers[i].read \in Index!Borrowers
    BY <1>0 DEF IndexLoops
  <2>2. e.amount \in Nat
    BY <1>4, EventOf
  <2> QED
    BY <1>3, <1>8, <2>1, <2>2, TotalsTypes, Zenon
<1>11. IndexTypes'
  BY <1>0, <1>7, <1>8, <1>9, <1>10 DEF IndexTypes
<1>12. \A j \in Pair : j # i => HashAt(loops[j]) = HashAt(indexers[j])
  BY <1>9 DEF HashAt
<1>13. IndexFine'
  <2>1. \A j \in Pair : LoopFine(loops[j], eventRows)
    BY <1>0, <1>6, <1>9, FineAlike DEF IndexFine
  <2>2. PendingDiffer(loops)
    BY <1>0, <1>6, <1>9, <1>12, SMTT(30) DEF IndexFine, PendingDiffer
  <2> QED
    BY <1>0, <1>7, <1>8, <2>1, <2>2 DEF IndexFine
<1>14. ASSUME totalsCause' = {} PROVE InStep(loops, eventRows, borrower')
  <2>1. /\ InStep(indexers, eventRows, borrower)
        /\ ~indexers[i].stale /\ ~Index!Clamped(indexers[i].read, e)
    BY <1>8, <1>14 DEF IndexInv
  <2>2. indexers[i].read = borrower
    BY <1>2, <2>1 DEF InStep, UpToDate
  <2>3. PICK S : S = eventRows \ Pending(indexers)
    OBVIOUS
  <2>4. borrower = TotalsOf(S)
    BY <2>1, <2>3, Zenon DEF InStep
  <2>5. h \in Pending(indexers)
    BY <1>1, <1>2, PendingRows
  <2>6. S \in SUBSET EventHashes /\ h \notin S
    BY <1>0, <2>3, <2>5 DEF IndexTypes
  <2>7. borrower' = TotalsOf(S \cup {h})
    <3>1. TotalsOf(S) \in Index!Borrowers /\ ~Index!Clamped(TotalsOf(S), e)
      BY <1>10, <2>1, <2>2, <2>4, Zenon
    <3>2. Index!Totals(TotalsOf(S), e) = TotalsOf(S \cup {h})
      BY <1>3, <1>4, <2>6, <3>1, TotalsFollow, Zenon
    <3> QED
      BY <1>8, <2>2, <2>4, <3>2, Zenon
  <2>8. \A g : g \in Pending(loops) <=> g \in Pending(indexers) /\ g # h
    <3>1. \A j \in Pair : indexers[j].step = "update" /\ HashAt(indexers[j]) = h => j = i
      BY <1>0, <1>1, <1>2 DEF IndexFine, PendingDiffer
    <3> QED
      BY <1>1, <1>6, <1>9, <1>12, <3>1, PendingRows
  <2>9. eventRows \ Pending(loops) = S \cup {h}
    BY <1>3, <2>3, <2>8
  <2>10. \A j \in Pair : UpToDate(loops[j], borrower')
    BY <1>6, <1>9 DEF UpToDate
  <2> QED
    BY <2>7, <2>9, <2>10, Zenon DEF InStep
<1> QED
  BY <1>7, <1>8, <1>11, <1>13, <1>14 DEF IndexInv

LEMMA LoopTypes ==
  ASSUME IndexAssumption, NEW step \in {"load", "fetch", "ended"}, NEW c \in 0..Len(LedgerEvents),
         Covered(c, eventRows)
  PROVE  /\ Index!Loop(step, c) \in IndexLoops
         /\ Index!Loop(step, c).step = step
         /\ LoopFine(Index!Loop(step, c), eventRows)
         /\ UpToDate(Index!Loop(step, c), borrower)
<1>1. Index!NoBorrower \in Index!Borrowers
  BY DEF Index!NoBorrower, Index!Borrowers
<1>2. PICK x : x = Index!Loop(step, c)
  OBVIOUS
<1>3. x \in IndexLoops /\ x.step = step /\ x.cursor = c
  BY <1>1, <1>2, EventOf DEF IndexLoops, Index!Loop
<1>4. LoopFine(x, eventRows) /\ UpToDate(x, borrower)
  BY <1>3 DEF LoopFine, UpToDate
<1> QED
  BY <1>2, <1>3, <1>4

\* No event is being seen to: the loop goes on from a cursor.
LEMMA IndexFetches ==
  ASSUME IndexAssumption, IndexInv, NEW i \in Pair,
         NEW step \in {"load", "fetch", "ended"}, NEW c \in 0..Len(LedgerEvents),
         Covered(c, eventRows), indexers' = [indexers EXCEPT ![i] = Index!Loop(step, c)],
         savedCursor' = savedCursor \/ savedCursor' = c,
         eventRows' = eventRows, borrower' = borrower,
         totalsCause' = {} => totalsCause = {} /\ indexers[i].step # "update"
  PROVE  IndexInv'
<1>1. PICK x : x = Index!Loop(step, c)
  OBVIOUS
<1>2. x \in IndexLoops /\ x.step # "update" /\ LoopFine(x, eventRows) /\ UpToDate(x, borrower)
  BY <1>1, LoopTypes
<1>3. savedCursor' \in 0..Len(LedgerEvents) /\ Covered(savedCursor', eventRows)
  BY DEF IndexInv, IndexTypes, IndexFine
<1> QED
  BY <1>1, <1>2, <1>3, IndexMoves

LEMMA IndexReads ==
  ASSUME IndexAssumption, IndexInv, NEW i \in Pair,
         \/ Index!Fetch(i) \/ Index!SkipEvent(i) \/ Index!EnsureBorrower(i)
  PROVE  IndexInv'
<1>0. /\ IndexTypes /\ IndexFine
      /\ indexers[i] \in IndexLoops /\ LoopFine(indexers[i], eventRows)
      /\ savedCursor \in 0..Len(LedgerEvents) /\ Covered(savedCursor, eventRows)
  BY DEF IndexInv, IndexTypes, IndexFine
<1>1. CASE Index!Fetch(i)
  <2>1. PICK cursor, from : cursor = indexers[i].cursor /\ from = cursor + 1
    OBVIOUS
  <2>2. cursor \in 0..Len(LedgerEvents) /\ Len(LedgerEvents) \in Nat
    BY <1>0, <2>1, EventOf DEF IndexLoops
  <2>3. PICK end \in cursor..Index!Min({cursor + PageLength, Len(LedgerEvents)}) :
          indexers' = [indexers EXCEPT ![i].step = "event", ![i].next = from, ![i].end = end]
    BY <1>1, <2>1, Zenon DEF Index!Fetch
  <2>4. end \in cursor..Len(LedgerEvents)
    <3>1. cursor + PageLength \in Nat
      BY <2>2 DEF IndexAssumption
    <3>2. \A a, b \in Nat : Index!Min({a, b}) <= b
      <4> TAKE a, b \in Nat
      <4>1. \E x \in {a, b} : \A y \in {a, b} : x <= y
        OBVIOUS
      <4>2. Index!Min({a, b}) \in {a, b} /\ \A y \in {a, b} : Index!Min({a, b}) <= y
        BY <4>1, Zenon DEF Index!Min
      <4> QED
        BY <4>2
    <3>3. \A a, b \in Nat : Index!Min({a, b}) \in Nat
      <4> TAKE a, b \in Nat
      <4>1. \E x \in {a, b} : \A y \in {a, b} : x <= y
        OBVIOUS
      <4>2. Index!Min({a, b}) \in {a, b}
        BY <4>1, Zenon DEF Index!Min
      <4> QED
        BY <4>2
    <3>4. PICK m : m = Index!Min({cursor + PageLength, Len(LedgerEvents)})
      OBVIOUS
    <3>5. m \in Nat /\ m <= Len(LedgerEvents)
      BY <2>2, <3>1, <3>2, <3>3, <3>4, Zenon
    <3>6. end \in cursor..m
      BY <2>3, <3>4, Zenon
    <3> QED
      BY <2>2, <3>5, <3>6
  <2>5. PICK x : x = [indexers[i] EXCEPT !.step = "event", !.next = from, !.end = end]
    OBVIOUS
  <2>6. indexers' = [indexers EXCEPT ![i] = x]
    BY <2>3, <2>5, Zenon
  <2>7. from \in 0..(Len(LedgerEvents) + 1) /\ from \in 1..(end + 1) /\ from - 1 = cursor
    <3>1. \A l, c \in Nat : \A m \in c..l : c + 1 \in 0..(l + 1) /\ c + 1 \in 1..(m + 1) /\ (c + 1) - 1 = c
      OBVIOUS
    <3>2. cursor \in Nat /\ from = cursor + 1
      BY <2>1, <2>2
    <3> QED
      BY <2>2, <2>4, <3>1, <3>2, Zenon
  <2>8. x \in IndexLoops /\ x.step = "event" /\ x.cursor = cursor /\ x.next = from /\ x.end = end
    <3>1. end \in 0..Len(LedgerEvents)
      BY <2>2, <2>4
    <3>2. PICK b, L : b = indexers[i] /\ L = Len(LedgerEvents)
      OBVIOUS
    <3>3. PICK top : top = 0..(L + 1)
      OBVIOUS
    <3>4. IndexLoops = [step : {"load", "fetch", "event", "create", "update", "ended"},
                        cursor : 0..L, next : top, end : 0..L,
                        read : Index!Borrowers, stale : BOOLEAN]
      BY <3>2, <3>3, Zenon DEF IndexLoops
    <3>5. b \in IndexLoops /\ b.cursor = cursor /\ from \in top /\ end \in 0..L
      BY <1>0, <2>1, <2>7, <3>1, <3>2, <3>3, Zenon
    <3>6. x = [b EXCEPT !.step = "event", !.next = from, !.end = end]
      BY <2>5, <3>2, Zenon
    <3> QED
      BY <3>4, <3>5, <3>6
  <2>9. LoopFine(x, eventRows) /\ UpToDate(x, borrower)
    BY <1>0, <2>1, <2>7, <2>8 DEF LoopFine, UpToDate
  <2>10. /\ UNCHANGED <<savedCursor, eventRows, borrower, totalsCause>>
         /\ indexers[i].step # "update"
    BY <1>1 DEF Index!Fetch, Index!At
  <2> QED
    BY <1>0, <2>6, <2>8, <2>9, <2>10, IndexMoves
<1>2. CASE Index!SkipEvent(i)
  <2>1. PICK x : x = Index!NextEvent(i)
    OBVIOUS
  <2>2. /\ indexers' = [indexers EXCEPT ![i] = x]
        /\ UNCHANGED <<savedCursor, eventRows, borrower, totalsCause>>
        /\ indexers[i].step = "event" /\ indexers[i].next <= indexers[i].end
        /\ Index!Event(i).kind \notin Index!Recorded
    BY <1>2, <2>1, Zenon DEF Index!SkipEvent, Index!At
  <2>3. x \in IndexLoops /\ x.step = "event" /\ LoopFine(x, eventRows)
    BY <2>1, <2>2, NextEventFine
  <2>4. UpToDate(x, borrower)
    BY <2>3 DEF UpToDate
  <2> QED
    BY <1>0, <2>2, <2>3, <2>4, IndexMoves
<1>3. CASE Index!EnsureBorrower(i)
  <2>1. PICK x : x = [indexers[i] EXCEPT !.step = "create", !.read = borrower, !.stale = FALSE]
    OBVIOUS
  <2>2. /\ indexers' = [indexers EXCEPT ![i] = x]
        /\ UNCHANGED <<savedCursor, eventRows, borrower, totalsCause>>
        /\ indexers[i].step = "event" /\ indexers[i].next <= indexers[i].end
        /\ Index!Event(i).kind \in Index!Recorded
    BY <1>3, <2>1, Zenon DEF Index!EnsureBorrower, Index!At
  <2>3. /\ x \in IndexLoops /\ x.step = "create" /\ x.cursor = indexers[i].cursor
        /\ x.next = indexers[i].next /\ x.end = indexers[i].end /\ x.read = borrower
    BY <1>0, <2>1 DEF IndexLoops, IndexTypes
  <2>4. LoopFine(x, eventRows) /\ UpToDate(x, borrower)
    BY <1>0, <2>2, <2>3 DEF LoopFine, UpToDate, Index!Event
  <2> QED
    BY <1>0, <2>2, <2>3, <2>4, IndexMoves
<1> QED
  BY <1>1, <1>2, <1>3

LEMMA IndexCursors ==
  ASSUME IndexAssumption, IndexInv, NEW i \in Pair,
         \/ Index!InitializeState(i) \/ Index!SaveIndexerState(i)
         \/ Index!StatementFails(i) \/ Index!Restart(i)
  PROVE  IndexInv'
<1>0. /\ indexers[i] \in IndexLoops /\ LoopFine(indexers[i], eventRows)
      /\ savedCursor \in 0..Len(LedgerEvents) /\ Covered(savedCursor, eventRows)
      /\ Len(LedgerEvents) \in Nat
  BY EventOf DEF IndexInv, IndexTypes, IndexFine
<1>1. 0 \in 0..Len(LedgerEvents) /\ Covered(0, eventRows)
  BY <1>0 DEF Covered
<1>2. PICK cursor, end : cursor = indexers[i].cursor /\ end = indexers[i].end
  OBVIOUS
<1>3. /\ cursor \in 0..Len(LedgerEvents) /\ Covered(cursor, eventRows)
      /\ end \in 0..Len(LedgerEvents)
  BY <1>0, <1>2 DEF LoopFine, IndexLoops
<1>4. ASSUME indexers[i].step = "event", indexers[i].next > indexers[i].end
      PROVE  Covered(end, eventRows)
  <2>1. indexers[i].next \in 1..(end + 1) /\ Covered(indexers[i].next - 1, eventRows)
    BY <1>0, <1>2, <1>4 DEF LoopFine
  <2>2. indexers[i].next - 1 = end
    <3>1. PICK m : m = indexers[i].next
      OBVIOUS
    <3>2. m \in 1..(end + 1) /\ m > end /\ end \in Nat
      BY <1>2, <1>3, <1>4, <2>1, <3>1
    <3>3. m - 1 = end
      BY <3>2
    <3> QED
      BY <3>1, <3>3, Zenon
  <2> QED
    BY <2>1, <2>2, Zenon
<1>5. CASE Index!InitializeState(i)
  <2>1. /\ indexers' = [indexers EXCEPT ![i] = Index!Loop("fetch", savedCursor)]
        /\ UNCHANGED <<savedCursor, eventRows, borrower, totalsCause>>
        /\ indexers[i].step = "load"
    BY <1>5, Zenon DEF Index!InitializeState, Index!At
  <2> QED
    BY <1>0, <2>1, IndexFetches
<1>6. CASE Index!SaveIndexerState(i)
  <2>1. /\ indexers' = [indexers EXCEPT ![i] = Index!Loop("fetch", end)]
        /\ savedCursor' = end /\ UNCHANGED <<eventRows, borrower, totalsCause>>
        /\ indexers[i].step = "event" /\ indexers[i].next > indexers[i].end
    BY <1>2, <1>6, Zenon DEF Index!SaveIndexerState, Index!At
  <2> QED
    BY <1>3, <1>4, <2>1, IndexFetches
<1>7. ASSUME NEW cause, Index!Fault(cause),
             cause = IF Index!At(i, "update") THEN {"totals never written"} ELSE {}
      PROVE  totalsCause' = {} => totalsCause = {} /\ indexers[i].step # "update"
  BY <1>7 DEF Index!Fault, Index!At
<1>8. CASE Index!Restart(i)
  <2>1. /\ indexers' = [indexers EXCEPT ![i] = Index!Loop("load", 0)]
        /\ UNCHANGED <<savedCursor, eventRows, borrower>>
        /\ totalsCause' = {} => totalsCause = {} /\ indexers[i].step # "update"
    BY <1>7, <1>8, Zenon DEF Index!Restart
  <2> QED
    BY <1>1, <2>1, IndexFetches
<1>9. CASE Index!StatementFails(i)
  <2>1. /\ UNCHANGED <<savedCursor, eventRows, borrower>>
        /\ totalsCause' = {} => totalsCause = {} /\ indexers[i].step # "update"
    BY <1>7, <1>9, Zenon DEF Index!StatementFails
  <2>2. \/ indexers' = [indexers EXCEPT ![i] = Index!Loop("fetch", cursor)]
        \/ /\ indexers[i].step = "event" /\ indexers[i].next > indexers[i].end
           /\ indexers' = [indexers EXCEPT ![i] = Index!Loop("fetch", end)]
        \/ indexers' = [indexers EXCEPT ![i] = Index!Loop("ended", 0)]
    BY <1>2, <1>9, Zenon DEF Index!StatementFails, Index!At
  <2>3. CASE indexers' = [indexers EXCEPT ![i] = Index!Loop("fetch", cursor)]
    BY <1>3, <2>1, <2>3, IndexFetches
  <2>4. CASE /\ indexers[i].step = "event" /\ indexers[i].next > indexers[i].end
             /\ indexers' = [indexers EXCEPT ![i] = Index!Loop("fetch", end)]
    BY <1>3, <1>4, <2>1, <2>4, IndexFetches
  <2>5. CASE indexers' = [indexers EXCEPT ![i] = Index!Loop("ended", 0)]
    BY <1>1, <2>1, <2>5, IndexFetches
  <2> QED
    BY <2>2, <2>3, <2>4, <2>5
<1> QED
  BY <1>5, <1>6, <1>8, <1>9

LEMMA IndexKept ==
  ASSUME IndexAssumption, IndexInv, [Index!Next]_indexPart
  PROVE  IndexInv'
<1>1. CASE UNCHANGED indexPart
  BY <1>1 DEF indexPart, IndexInv, IndexTypes, IndexFine
<1>2. CASE Index!Next
  <2>1. PICK i \in Pair :
          \/ Index!InitializeState(i) \/ Index!Fetch(i) \/ Index!SkipEvent(i)
          \/ Index!EnsureBorrower(i) \/ Index!CreateRow(i) \/ Index!UpdateBorrower(i)
          \/ Index!SaveIndexerState(i) \/ Index!StatementFails(i) \/ Index!Restart(i)
    BY <1>2, Zenon DEF Index!Next
  <2> QED
    BY <2>1, IndexReads, IndexCursors, IndexCreates, IndexUpdates, Zenon
<1> QED
  BY <1>1, <1>2

\* The totals of the invariant are those of the property.
LEMMA SumOfTotals ==
  ASSUME IndexAssumption, IndexTypes, NEW kind
  PROVE  Index!SumOf(kind) = Total(kind, eventRows)
<1>1. PICK f : f = [r \in eventRows |-> IF r[1] = kind THEN r[2] ELSE 0]
  OBVIOUS
<1>2. PICK g : g = Worth(kind)
  OBVIOUS
<1>3. Agree(f, g, eventRows)
  BY <1>1, <1>2 DEF Agree, Worth, IndexTypes
<1>4. IsFiniteSet(eventRows)
  BY EventOf, FS_Subset DEF IndexTypes
<1>5. SumOver(f, eventRows) = SumOver(g, eventRows)
  BY <1>3, <1>4, SumAgree, Zenon
<1>6. Index!SumOf(kind) = SumOver(f, eventRows)
  BY <1>1, Zenon DEF Index!SumOf, Index!SumOver, SumOver, Index!MapThenSumSet, MapThenSumSet,
     Index!MapThenFoldSet, MapThenFoldSet
<1> QED
  BY <1>2, <1>5, <1>6, Zenon DEF Total

\* services/eventIndexer.ts, services/db.ts: the saved cursor passes no event that
\* has no row, whichever statements fail and whenever the processes stop; and as
\* long as nothing has happened that they do not survive, the totals are those of
\* the rows.
THEOREM IndexTheorem == Spec => []IndexedFaithfully
<1> DEFINE Inv == part = "index" => IndexInv
<1>1. Init => Inv
  <2>1. Init => (part = "index" => Index!Init)
    BY Zenon DEF Init
  <2> QED
    BY <2>1, IndexAssumption, IndexStarts, Zenon
<1>2. Inv /\ [Next]_allVars => Inv'
  <2> SUFFICES ASSUME Inv, [Next]_allVars PROVE Inv'
    OBVIOUS
  <2>1. part' = part /\ (part = "index" => [Index!Next]_indexPart)
    BY StepsOfServices, Zenon
  <2> QED
    BY <2>1, IndexAssumption, IndexKept, Zenon
<1>3. IndexInv => Index!IndexedFaithfully
  <2> SUFFICES ASSUME IndexInv PROVE Index!IndexedFaithfully
    OBVIOUS
  <2>1. IndexTypes /\ Covered(savedCursor, eventRows)
    BY DEF IndexInv, IndexFine
  <2>2. ASSUME totalsCause = {}, \A i \in Pair : indexers[i].step # "update"
        PROVE  borrower = TotalsOf(eventRows)
    <3>1. borrower = TotalsOf(eventRows \ Pending(indexers))
      BY <2>2 DEF IndexInv, InStep
    <3>2. Pending(indexers) = {}
      BY <2>2, PendingRows
    <3>3. eventRows \ Pending(indexers) = eventRows
      BY <3>2
    <3> QED
      BY <3>1, <3>3, Zenon
  <2>3. \A kind : Total(kind, eventRows) = Index!SumOf(kind)
    BY <2>1, IndexAssumption, SumOfTotals, Zenon
  <2>4. PICK d, w, l, p : /\ d = Total("deposit", eventRows) /\ w = Total("withdraw", eventRows)
                         /\ l = Total("disburse", eventRows) /\ p = Total("repay", eventRows)
    OBVIOUS
  <2>5. /\ d = Index!SumOf("deposit") /\ w = Index!SumOf("withdraw")
        /\ l = Index!SumOf("disburse") /\ p = Index!SumOf("repay")
    BY <2>3, <2>4, Zenon
  <2>6. TotalsOf(eventRows) = [escrowBalance |-> d - w, totalDeposited |-> d,
                               loanOutstanding |-> l - p, totalDisbursed |-> l, totalRepaid |-> p]
    BY <2>4, Zenon DEF TotalsOf
  <2>7. TotalsOf(eventRows)
          = [escrowBalance |-> Index!SumOf("deposit") - Index!SumOf("withdraw"),
             totalDeposited |-> Index!SumOf("deposit"),
             loanOutstanding |-> Index!SumOf("disburse") - Index!SumOf("repay"),
             totalDisbursed |-> Index!SumOf("disburse"),
             totalRepaid |-> Index!SumOf("repay")]
    BY <2>5, <2>6, Zenon
  <2>8. \A n \in 1..savedCursor :
          LedgerEvents[n].kind \in Index!Recorded
            => Index!EventHash(LedgerEvents[n]) \in eventRows
    BY <2>1, Zenon DEF Covered
  <2>9. totalsCause = {} /\ (\A i \in Pair : ~Index!At(i, "update"))
          => borrower = TotalsOf(eventRows)
    BY <2>2, Zenon DEF Index!At
  <2> QED
    BY <2>7, <2>8, <2>9, Zenon DEF Index!IndexedFaithfully
<1>4. Inv => IndexedFaithfully
  BY <1>3, Zenon DEF IndexedFaithfully
<1> QED
  BY <1>1, <1>2, <1>4, PTL DEF Spec
=============================================================================
