----------------------------- MODULE AuditChain -----------------------------
(***************************************************************************)
(* The tamper-evident audit log: logAudit (services/audit.ts), the hash     *)
(* chain and its verification (services/auditChain.ts), the scheduled       *)
(* verification (jobs/auditChainVerification.ts), and the writers that add  *)
(* rows to the same table without chain fields (loanHistory.ts,             *)
(* loanStore.ts, assignmentQueue.ts and others).                            *)
(*                                                                          *)
(* A call of logAudit is three steps: it takes its createdAt, reads the     *)
(* head of the log, and creates the row without waiting for it.  So calls   *)
(* of one request overlap as well as calls of two requests.                 *)
(*                                                                          *)
(* A SHA-256 hash is injective here: the hash of an entry is the sequence   *)
(* of the contents it covers, and the genesis hash is the empty one.        *)
(***************************************************************************)
EXTENDS Integers, Sequences, FiniteSets

CONSTANTS
  MaxEvents,      \* bound on the audit events written in a behaviour
  MaxClock        \* bound on the clock, in milliseconds

VARIABLES
  auditClock,     \* Date.now()
  auditCalls,     \* the calls of logAudit, by event
  auditRows,      \* table audit_log
  auditCause      \* ghost: what has happened that an intact chain does not survive

auditVars == <<auditClock, auditCalls, auditRows, auditCause>>

Calls == 1..MaxEvents     \* the events, in the order in which they come up

Genesis == <<>>
NoHash == <<<<>>>>       \* a row without the reserved metadata keys

\* "undef" metadata holds a value that the JSON column does not give back as it
\* was hashed: an undefined one, as previousLocation?.country in
\* routes/verification.ts (canonical shows the key, the column drops it), or a
\* Date, as in services/rateSheet.ts.
Metadata == {"plain", "undef"}
Stored(meta) == IF meta = "undef" THEN "plain" ELSE meta

Contents == Calls \X (0..MaxClock) \X {"plain", "undef", "edited"}
Hashes == Seq(Contents)

\* computeChainHash: prevHash followed by the canonical entry.
ComputeChainHash(event, at, meta, prev) == Append(prev, <<event, at, meta>>)

-----------------------------------------------------------------------------
(* The log in the order of (createdAt, id).                                 *)

Before(r, s) == r.at < s.at \/ (r.at = s.at /\ r.id < s.id)

Latest(rows) == CHOOSE r \in rows : \A s \in rows \ {r} : Before(s, r)

\* The hash stored in the newest of rows; genesis when there is none.
HeadHash(rows) ==
  IF rows = {} \/ Latest(rows).hash = NoHash THEN Genesis ELSE Latest(rows).hash

\* verifyChain over the rows of a range, as verifyAuditRange calls it: each
\* row must name the hash of the row before it (the anchor for the first one,
\* whose hash is genesis when it has none) and must hash to what it stores.
\* Within the range a row with no hash has already failed.
VerifyAuditRange(rows, from) ==
  LET range == {r \in rows : r.at >= from}
      older == {r \in rows : r.at < from}
      linksTo(r) == IF \E s \in range : Before(s, r)
                    THEN Latest({s \in range : Before(s, r)}).hash
                    ELSE HeadHash(older)
  IN \A r \in range :
       /\ r.hash # NoHash
       /\ r.prev = linksTo(r)
       /\ r.hash = ComputeChainHash(r.event, r.at, r.meta, r.prev)

\* The scheduled job logs "audit log may have been tampered with".
JobAlerts(from) == ~VerifyAuditRange(auditRows, from)

-----------------------------------------------------------------------------
NoCall == [step |-> "idle", at |-> 0, meta |-> "plain", prev |-> Genesis, seen |-> 0]

\* Ids are random UUIDs: any id not in use.
NewIds == (1..Cardinality(Calls)) \ {r.id : r \in auditRows}

Init ==
  /\ auditClock = 0
  /\ auditCalls = [c \in Calls |-> NoCall]
  /\ auditRows = {}
  /\ auditCause = {}

Upcoming(c) == auditCalls[c].step = "idle" /\ \A d \in 1..c - 1 : auditCalls[d].step # "idle"

\* logAudit up to its first await.
LogAudit(c, meta) ==
  /\ Upcoming(c)
  /\ auditCalls' = [auditCalls EXCEPT ![c] =
       [step |-> "lookup", at |-> auditClock, meta |-> meta,
        prev |-> Genesis, seen |-> Cardinality(auditRows)]]
  /\ auditCause' = auditCause \cup (IF meta = "undef" THEN {"undefined value"} ELSE {})
  /\ UNCHANGED <<auditClock, auditRows>>

PreviousChainHashLate(c) == \* mutant: reads the oldest row
  /\ auditCalls[c].step = "lookup"
  /\ auditCalls' = [auditCalls EXCEPT ![c].step = "create",
       ![c].prev = HeadHash({r \in auditRows : \A s \in auditRows : ~Before(s, r)})]
  /\ UNCHANGED <<auditClock, auditRows, auditCause>>

\* previousChainHash finds the newest row.
PreviousChainHash(c) ==
  /\ auditCalls[c].step = "lookup"
  /\ auditCalls' = [auditCalls EXCEPT ![c].step = "create", ![c].prev = HeadHash(auditRows)]
  /\ UNCHANGED <<auditClock, auditRows, auditCause>>

\* The lookup throws and the entry chains from genesis.
LookupFails(c) ==
  /\ auditCalls[c].step = "lookup"
  /\ auditCalls' = [auditCalls EXCEPT ![c].step = "create", ![c].prev = Genesis]
  /\ auditCause' = auditCause \cup {"lookup failed"}
  /\ UNCHANGED <<auditClock, auditRows>>

Insert(row) ==
  /\ auditRows' = auditRows \cup {row}
  /\ auditCause' = auditCause
       \cup (IF \E r \in auditRows : r.at = row.at THEN {"same millisecond"} ELSE {})
       \cup (IF row.hash = NoHash THEN {"unchained row"} ELSE {})
       \cup (IF Cardinality(auditRows) # auditCalls[row.event].seen /\ row.hash # NoHash
             THEN {"overlap"} ELSE {})

\* The row of an unawaited create lands.
Create(c) ==
  /\ auditCalls[c].step = "create"
  /\ \E id \in NewIds :
       LET call == auditCalls[c] IN
       Insert([id |-> id, event |-> c, at |-> call.at, meta |-> Stored(call.meta),
               prev |-> call.prev,
               hash |-> ComputeChainHash(c, call.at, call.meta, call.prev)])
  /\ auditCalls' = [auditCalls EXCEPT ![c] = [NoCall EXCEPT !.step = "done"]]
  /\ UNCHANGED auditClock

\* It fails; the rejection is only logged.
CreateFails(c) ==
  /\ auditCalls[c].step = "create"
  /\ auditCalls' = [auditCalls EXCEPT ![c] = [NoCall EXCEPT !.step = "done"]]
  /\ UNCHANGED <<auditClock, auditRows, auditCause>>

\* prisma.auditLog.create called directly, without withChainMetadata.
CreateDirectly(c) ==
  /\ Upcoming(c)
  /\ \E id \in NewIds :
       Insert([id |-> id, event |-> c, at |-> auditClock, meta |-> "plain",
               prev |-> NoHash, hash |-> NoHash])
  /\ auditCalls' = [auditCalls EXCEPT ![c] = [NoCall EXCEPT !.step = "done"]]
  /\ UNCHANGED auditClock

Tick ==
  /\ auditClock < MaxClock
  /\ auditClock' = auditClock + 1
  /\ UNCHANGED <<auditCalls, auditRows, auditCause>>

Next ==
  \/ \E c \in Calls :
       \/ \E meta \in Metadata : LogAudit(c, meta)
       \/ PreviousChainHash(c)
       \/ LookupFails(c)
       \/ Create(c)
       \/ CreateFails(c)
       \/ CreateDirectly(c)
  \/ Tick

Spec == Init /\ [][Next]_auditVars

-----------------------------------------------------------------------------
\* Types of the clock, the calls in flight and the rows of the log.
TypeOK ==
  /\ auditClock \in 0..MaxClock
  /\ \A c \in Calls :
       /\ auditCalls[c].step \in {"idle", "lookup", "create", "done"}
       /\ auditCalls[c].at \in 0..auditClock
       /\ auditCalls[c].prev \in Hashes
  /\ \A r \in auditRows :
       /\ r.event \in Calls /\ r.at \in 0..auditClock
       /\ r.meta \in Metadata
       /\ r.hash = NoHash <=> r.prev = NoHash

\* A log that no overlapping calls, equal timestamps, failed lookups, dropped
\* metadata keys or unchained writers have touched verifies from every point of
\* time, and there an altered row, or a deleted row that is not the newest, makes
\* verifyAuditRange fail (services/auditChain.ts:16 "Editing, inserting or
\* deleting a row breaks the recomputed chain").
TamperEvident ==
  auditCause = {} =>
    \A from \in 0..MaxClock :
      /\ ~JobAlerts(from)
      /\ \A r \in auditRows : r.at >= from =>
           /\ ~VerifyAuditRange((auditRows \ {r}) \cup {[r EXCEPT !.meta = "edited"]}, from)
           /\ r # Latest(auditRows) => ~VerifyAuditRange(auditRows \ {r}, from)
=============================================================================
