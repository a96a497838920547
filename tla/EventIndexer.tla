---------------------------- MODULE EventIndexer ----------------------------
(***************************************************************************)
(* The on-chain event indexer (services/eventIndexer.ts) and the record*    *)
(* functions of services/db.ts that keep a borrower's totals.  Every server *)
(* process starts an indexer of its own; all of them share the saved cursor *)
(* and the tables.                                                          *)
(*                                                                          *)
(* Recording an event is three separate statements: the borrower is read,   *)
(* a row is created under the unique hash of the event, and the totals that *)
(* were computed from the borrower read first are written.                  *)
(*                                                                          *)
(* One borrower is modelled: the totals of two never meet.                  *)
(* lastProcessedLedger is left out: with a cursor in hand it only chooses a *)
(* log line.                                                                *)
(***************************************************************************)
EXTENDS Integers, Sequences, FiniteSets, Sums

CONSTANTS
  Indexers,     \* the server processes
  Chain,        \* the events the RPC node serves: [kind, amount, ledger]
  PageSize,     \* most events one answer of the RPC node holds
  MaxFaults     \* bound on crashes and failed statements

VARIABLES
  indexers,     \* the loops, by process
  savedCursor,  \* table eventIndexerState
  eventRows,    \* the deposit, withdrawal, disbursement and repayment tables
  borrower,     \* the totals of the borrower row
  indexFaults,  \* faults so far
  totalsCause   \* ghost: what has happened that the totals do not survive

indexVars == <<indexers, savedCursor, eventRows, borrower, indexFaults, totalsCause>>

Recorded == {"deposit", "withdraw", "disburse", "repay"}
Borrowers == [escrowBalance : Nat, totalDeposited : Nat, loanOutstanding : Nat,
              totalDisbursed : Nat, totalRepaid : Nat]
NoBorrower == [escrowBalance |-> 0, totalDeposited |-> 0, loanOutstanding |-> 0,
               totalDisbursed |-> 0, totalRepaid |-> 0]

\* eventHash covers everything but the position of the event in its ledger.
EventHash(e) == <<e.kind, e.amount, e.ledger>>

Sub(a, b) == IF a < b THEN 0 ELSE a - b     \* subStroops

\* More is taken than the totals say there is: subStroops stops at zero.
Clamped(b, e) ==
  \/ e.kind = "withdraw" /\ b.escrowBalance < e.amount
  \/ e.kind = "repay" /\ b.loanOutstanding < e.amount

\* The data of the borrower.update of the four record functions.
Totals(b, e) ==
  CASE e.kind = "deposit"  -> [b EXCEPT !.escrowBalance = @ + e.amount,
                                        !.totalDeposited = @ + e.amount]
    [] e.kind = "withdraw" -> [b EXCEPT !.escrowBalance = Sub(@, e.amount)]
    [] e.kind = "disburse" -> [b EXCEPT !.loanOutstanding = @ + e.amount,
                                        !.totalDisbursed = @ + e.amount]
    [] e.kind = "repay"    -> [b EXCEPT !.loanOutstanding = Sub(@, e.amount),
                                        !.totalRepaid = @ + e.amount]

-----------------------------------------------------------------------------
\* step: where the loop is; cursor: this.cursor; next, end: the events of the
\* batch still to process; read: the borrower as ensureBorrower returned it;
\* stale (ghost): another process has written the borrower since.
Loop(step, cursor) ==
  [step |-> step, cursor |-> cursor, next |-> 0, end |-> 0, read |-> NoBorrower,
   stale |-> FALSE]

Init ==
  /\ indexers = [i \in Indexers |-> Loop("load", 0)]
  /\ savedCursor = 0
  /\ eventRows = {}
  /\ borrower = NoBorrower
  /\ indexFaults = 0
  /\ totalsCause = {}

At(i, step) == indexers[i].step = step
Event(i) == Chain[indexers[i].next]

NextEvent(i) == [indexers[i] EXCEPT
  !.step = "event", !.next = @ + 1, !.read = NoBorrower, !.stale = FALSE]

\* initializeState, awaited outside the try of the loop.
InitializeState(i) ==
  /\ At(i, "load")
  /\ indexers' = [indexers EXCEPT ![i] = Loop("fetch", savedCursor)]
  /\ UNCHANGED <<savedCursor, eventRows, borrower, indexFaults, totalsCause>>

\* The RPC node answers with some of the events after the cursor.
Fetch(i) ==
  /\ At(i, "fetch")
  /\ \E end \in indexers[i].cursor..Min({indexers[i].cursor + PageSize, Len(Chain)}) :
       indexers' = [indexers EXCEPT
         ![i].step = "event", ![i].next = indexers[i].cursor + 1, ![i].end = end]
  /\ UNCHANGED <<savedCursor, eventRows, borrower, indexFaults, totalsCause>>

\* processEvent returns at once for a topic it does not know, an event with no
\* borrower or amount, and a release.
SkipEvent(i) ==
  /\ At(i, "event") /\ indexers[i].next <= indexers[i].end
  /\ Event(i).kind \notin Recorded
  /\ indexers' = [indexers EXCEPT ![i] = NextEvent(i)]
  /\ UNCHANGED <<savedCursor, eventRows, borrower, indexFaults, totalsCause>>

EnsureBorrower(i) ==
  /\ At(i, "event") /\ indexers[i].next <= indexers[i].end
  /\ Event(i).kind \in Recorded
  /\ indexers' = [indexers EXCEPT ![i].step = "create", ![i].read = borrower,
                                           ![i].stale = FALSE]
  /\ UNCHANGED <<savedCursor, eventRows, borrower, indexFaults, totalsCause>>

\* A unique-constraint error on eventHash means the event is already there.
CreateRow(i) ==
  /\ At(i, "create")
  /\ IF EventHash(Event(i)) \in eventRows
     THEN /\ indexers' = [indexers EXCEPT ![i] = NextEvent(i)]
          /\ UNCHANGED eventRows
     ELSE /\ indexers' = [indexers EXCEPT ![i].step = "update"]
          /\ eventRows' = eventRows \cup {EventHash(Event(i))}
  /\ UNCHANGED <<savedCursor, borrower, indexFaults, totalsCause>>

UpdateBorrower(i) ==
  /\ At(i, "update")
  /\ borrower' = Totals(indexers[i].read, Event(i))
  /\ totalsCause' = totalsCause
       \cup (IF indexers[i].stale THEN {"lost update"} ELSE {})
       \cup (IF Clamped(indexers[i].read, Event(i)) THEN {"clamped"} ELSE {})
  /\ indexers' = [j \in Indexers |->
       IF j = i THEN NextEvent(i)
       ELSE [indexers[j] EXCEPT !.stale = At(j, "create") \/ At(j, "update")]]
  /\ UNCHANGED <<savedCursor, eventRows, indexFaults>>

SaveBeforeProcessing(i) == \* mutant: the cursor is saved with the batch
  /\ At(i, "event")
  /\ savedCursor' = indexers[i].end
  /\ indexers' = IF indexers[i].next > indexers[i].end
                 THEN [indexers EXCEPT ![i] = Loop("fetch", indexers[i].end)]
                 ELSE indexers
  /\ UNCHANGED <<eventRows, borrower, indexFaults, totalsCause>>

\* The end of the batch: the cursor moves in memory and is then saved.
SaveIndexerState(i) ==
  /\ At(i, "event") /\ indexers[i].next > indexers[i].end
  /\ indexers' = [indexers EXCEPT ![i] = Loop("fetch", indexers[i].end)]
  /\ savedCursor' = indexers[i].end
  /\ UNCHANGED <<eventRows, borrower, indexFaults, totalsCause>>

Fault(cause) ==
  /\ indexFaults < MaxFaults
  /\ indexFaults' = indexFaults + 1
  /\ totalsCause' = totalsCause \cup cause

\* A statement throws and the loop fetches again from this.cursor; after the
\* row was created the retry takes the event for a duplicate.  A failed save
\* leaves the cursor moved in memory only; a failed load ends the loop.
StatementFails(i) ==
  /\ Fault(IF At(i, "update") THEN {"totals never written"} ELSE {})
  /\ \/ /\ \/ At(i, "create") \/ At(i, "update")
           \/ At(i, "event") /\ indexers[i].next <= indexers[i].end
        /\ indexers' = [indexers EXCEPT ![i] = Loop("fetch", indexers[i].cursor)]
     \/ /\ At(i, "event") /\ indexers[i].next > indexers[i].end
        /\ indexers' = [indexers EXCEPT ![i] = Loop("fetch", indexers[i].end)]
     \/ /\ At(i, "load")
        /\ indexers' = [indexers EXCEPT ![i] = Loop("ended", 0)]
  /\ UNCHANGED <<savedCursor, eventRows, borrower>>

\* The process dies, or a deploy stops it: shutdown calls stop() and does not
\* wait for the loop.
Restart(i) ==
  /\ ~At(i, "load")
  /\ Fault(IF At(i, "update") THEN {"totals never written"} ELSE {})
  /\ indexers' = [indexers EXCEPT ![i] = Loop("load", 0)]
  /\ UNCHANGED <<savedCursor, eventRows, borrower>>

Next == \E i \in Indexers :
  \/ InitializeState(i) \/ Fetch(i) \/ SkipEvent(i) \/ EnsureBorrower(i)
  \/ CreateRow(i) \/ UpdateBorrower(i) \/ SaveIndexerState(i)
  \/ StatementFails(i) \/ Restart(i)

Spec == Init /\ [][Next]_indexVars

-----------------------------------------------------------------------------
\* Types of the loops, the saved cursor, the rows and the totals.
TypeOK ==
  /\ \A i \in Indexers :
       /\ indexers[i].step \in {"load", "fetch", "event", "create", "update", "ended"}
       /\ indexers[i].cursor \in 0..Len(Chain)
       /\ indexers[i].next \in 0..Len(Chain) + 1
  /\ savedCursor \in 0..Len(Chain)
  /\ eventRows \subseteq {EventHash(Chain[n]) : n \in 1..Len(Chain)}
  /\ borrower \in Borrowers

\* What the rows of the tables add up to.
SumOf(kind) == SumOver([r \in eventRows |-> IF r[1] = kind THEN r[2] ELSE 0], eventRows)

\* No crash, error or second indexer makes the saved cursor pass an event that
\* has no row.  And the totals a borrower is shown are those of the rows, as
\* long as no process wrote totals it computed from a borrower another one has
\* changed since, none stopped between the row and the totals (the retry meets
\* the unique hash and returns without writing them: db.ts:343-350), and nothing
\* was subtracted that exceeds them (as after two equal deposits of a ledger, of
\* which one row is kept).
IndexedFaithfully ==
  /\ \A n \in 1..savedCursor :
       Chain[n].kind \in Recorded => EventHash(Chain[n]) \in eventRows
  /\ totalsCause = {} /\ (\A i \in Indexers : ~At(i, "update")) =>
       borrower = [escrowBalance |-> SumOf("deposit") - SumOf("withdraw"),
                   totalDeposited |-> SumOf("deposit"),
                   loanOutstanding |-> SumOf("disburse") - SumOf("repay"),
                   totalDisbursed |-> SumOf("disburse"),
                   totalRepaid |-> SumOf("repay")]
=============================================================================
