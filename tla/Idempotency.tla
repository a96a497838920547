----------------------------- MODULE Idempotency -----------------------------
(***************************************************************************)
(* The idempotency middleware (middleware/idempotency.ts) in front of the   *)
(* handlers of POST /loan/apply, /loan/:id/approve and                      *)
(* /milestone/proposals.  The requests of the model carry one key.          *)
(*                                                                          *)
(* The cache is read before the handler runs and written, without waiting,  *)
(* after a 2xx answer.  Redis (external) may be down for either.            *)
(***************************************************************************)
EXTENDS Integers, FiniteSets

CONSTANTS
  Requests,     \* the requests that carry the key, retries included
  Operations    \* what a request asks for: its route and body

VARIABLES
  requests,     \* the requests, by name
  cached,       \* the Redis entry of the key
  effects,      \* ghost: the requests whose handler changed the database
  idemCause     \* ghost: what has happened that the key does not protect from

idemVars == <<requests, cached, effects, idemCause>>

Nothing == [by |-> "nobody", op |-> "none"]

\* caches: res.json is intercepted; answer: the response sent.
New == [step |-> "new", op |-> "none", caches |-> FALSE, answer |-> Nothing]

Init ==
  /\ requests = [r \in Requests |-> New]
  /\ cached = Nothing
  /\ effects = {}
  /\ idemCause = {}

Others(r, steps) == {q \in Requests \ {r} : requests[q].step \in steps}

\* redis.get returned: an entry is replayed, nothing starts the handler with
\* res.json intercepted.
Lookup(r, op) ==
  /\ requests[r].step = "new"
  /\ requests' = [requests EXCEPT ![r] =
       IF cached # Nothing
       THEN [step |-> "answered", op |-> op, caches |-> FALSE, answer |-> cached]
       ELSE [step |-> "handler", op |-> op, caches |-> TRUE, answer |-> Nothing]]
  /\ idemCause' = idemCause
       \cup (IF cached # Nothing /\ cached.op # op THEN {"key reused"} ELSE {})
       \cup (IF cached = Nothing /\ Others(r, {"handler", "write"}) # {} THEN {"overlap"} ELSE {})
  /\ UNCHANGED <<cached, effects>>

\* No client, or the read fails: the handler runs and nothing will be cached.
LookupUnavailable(r, op) ==
  /\ requests[r].step = "new"
  /\ requests' = [requests EXCEPT ![r] =
       [step |-> "handler", op |-> op, caches |-> FALSE, answer |-> Nothing]]
  /\ idemCause' = idemCause \cup {"cache unavailable"}
  /\ UNCHANGED <<cached, effects>>

\* The handler ran to the end and answers 2xx.
HandlerSucceeds(r) ==
  /\ requests[r].step = "handler"
  /\ effects' = effects \cup {r}
  /\ requests' = [requests EXCEPT
       ![r].step = IF requests[r].caches THEN "write" ELSE "answered",
       ![r].answer = [by |-> r, op |-> requests[r].op]]
  /\ UNCHANGED <<cached, idemCause>>

\* It answers an error, before it changed anything or after (a 422 for an
\* application created and auto-rejected, a 500 from a later step): not cached.
HandlerFails(r, changed) ==
  /\ requests[r].step = "handler"
  /\ effects' = IF changed THEN effects \cup {r} ELSE effects
  /\ idemCause' = IF changed THEN idemCause \cup {"error after the change"} ELSE idemCause
  /\ requests' = [requests EXCEPT ![r].step = "answered"]
  /\ UNCHANGED cached

CacheNothing(r) == \* mutant: the response is never stored
  /\ requests[r].step = "write"
  /\ requests' = [requests EXCEPT ![r].step = "answered"]
  /\ UNCHANGED <<cached, effects, idemCause>>

\* setex of the payload lands, or fails with a warning.  A response of another
\* operation is stored under the same key.
CacheResponse(r) ==
  /\ requests[r].step = "write"
  /\ cached' = requests[r].answer
  /\ requests' = [requests EXCEPT ![r].step = "answered"]
  /\ UNCHANGED <<effects, idemCause>>

CacheWriteFails(r) ==
  /\ requests[r].step = "write"
  /\ requests' = [requests EXCEPT ![r].step = "answered"]
  /\ idemCause' = idemCause \cup {"cache unavailable"}
  /\ UNCHANGED <<cached, effects>>

\* The TTL passes.
Expire ==
  /\ cached # Nothing
  /\ cached' = Nothing
  /\ idemCause' = idemCause \cup {"expired"}
  /\ UNCHANGED <<requests, effects>>

Next ==
  \/ \E r \in Requests :
       \/ \E op \in Operations : Lookup(r, op) \/ LookupUnavailable(r, op)
       \/ HandlerSucceeds(r)
       \/ \E changed \in BOOLEAN : HandlerFails(r, changed)
       \/ CacheResponse(r)
       \/ CacheWriteFails(r)
  \/ Expire

Spec == Init /\ [][Next]_idemVars

-----------------------------------------------------------------------------
Answers == [by : Requests \cup {"nobody"}, op : Operations \cup {"none"}]

\* Types of the requests and of the cache entry.
TypeOK ==
  /\ requests \in [Requests -> [step : {"new", "handler", "write", "answered"},
                                op : Operations \cup {"none"}, caches : BOOLEAN,
                                answer : Answers]]
  /\ cached \in Answers
  /\ effects \subseteq Requests

\* One key, one effect: the handler changes the database twice, or two requests
\* are answered with different results, or a request gets the answer of another
\* operation, only if two requests overlapped before the first answer was
\* stored, Redis could not be reached, the handler failed after its change, the
\* entry expired, or the client used the key for two operations (the cache key
\* names neither the route nor the caller: idempotency.ts:42).
OneEffectPerKey ==
  idemCause = {} =>
    /\ Cardinality(effects) <= 1
    /\ \A r \in Requests : requests[r].answer # Nothing =>
         requests[r].answer.by \in effects /\ requests[r].answer.op = requests[r].op
=============================================================================
