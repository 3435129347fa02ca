------------------------------ MODULE EventLog ------------------------------
(***************************************************************************)
(* The table crablet_events under PostgreSQL's transactions.  A            *)
(* transaction takes its id at its first write and a row takes its         *)
(* position from a sequence when it is inserted, so ids and positions are  *)
(* taken in either order, and rows become visible in the order of the      *)
(* commits, which is a third one.                                          *)
(*                                                                         *)
(* This module is the state and the steps other modules compose: the       *)
(* append protocol (EventStore) and the readers that follow the log        *)
(* (LogReader).  What PostgreSQL does itself is modelled from how V1, V7   *)
(* and eventstore/src/internal/sql.ts use it.                              *)
(***************************************************************************)
EXTENDS ReadSnapshot, FiniteSets

VARIABLES
  nextXid,     \* the next transaction id to be assigned
  running,     \* ids assigned to transactions that have not finished
  lastDone,    \* the highest id that has finished (latestCompletedXid)
  committed,   \* ids that have committed
  nextPos,     \* the next value of the position sequence
  rows         \* the rows of the running and of the committed transactions

logVars == <<nextXid, running, lastDone, committed, nextPos, rows>>

(* A row: where it is in the log, and what it carries. *)
IsRow(r) == /\ r.xid \in Nat \ {0}
            /\ r.pos \in Nat \ {0}

LogInit == /\ nextXid = 1
           /\ running = {}
           /\ lastDone = 0
           /\ committed = {}
           /\ nextPos = 1
           /\ rows = {}

-----------------------------------------------------------------------------
Least(S) == CHOOSE m \in S : \A n \in S : m <= n

(* pg_current_snapshot(), in transaction `own` (0: one without an id).  It *)
(* does not list its own transaction as running, but xmin is not above it. *)
CurrentSnapshot(own) ==
  LET xmax == lastDone + 1
      open == {x \in running : x < xmax}
  IN  [xmin |-> Least(open \cup {xmax}), xmax |-> xmax, xip |-> open \ {own}]

CommittedRows == {r \in rows : r.xid \in committed}

(* What a READ COMMITTED statement of transaction `own` (0: none) sees. *)
Visible(own) == {r \in rows : r.xid \in committed \/ r.xid = own}

(* A mutated form: every row read counts as settled. *)
SettledWhenRead(r) == TRUE

(* The row's transaction had finished when the statement read it, and so   *)
(* had every older one (transaction_id < pg_snapshot_xmin).                *)
Settled(r) == r.xid < CurrentSnapshot(0).xmin

(* The last of a set of rows in log order, or `otherwise` of an empty one. *)
LastOf(S, otherwise) ==
  IF S = {} THEN otherwise
  ELSE LET r == CHOOSE r \in S : \A q \in S : ~ After(q, r)
       IN  [xid |-> r.xid, pos |-> r.pos]

-----------------------------------------------------------------------------
(* pg_current_xact_id(): the transaction's first write. *)
AssignXid == /\ nextXid' = nextXid + 1
             /\ running' = running \cup {nextXid}
             /\ UNCHANGED <<lastDone, committed, nextPos, rows>>

(* One row of append_events_batch's INSERT, by transaction x. *)
InsertRow(x, data) ==
  /\ rows' = rows \cup {[xid |-> x, pos |-> nextPos, data |-> data]}
  /\ nextPos' = nextPos + 1
  /\ UNCHANGED <<nextXid, running, lastDone, committed>>

Finished(x) == /\ running' = running \ {x}
               /\ lastDone' = IF x > lastDone THEN x ELSE lastDone
               /\ UNCHANGED <<nextXid, nextPos>>

CommitXid(x) == /\ Finished(x)
                /\ committed' = committed \cup {x}
                /\ UNCHANGED rows

(* A rollback gives back neither the id nor the positions it took. *)
AbortXid(x) == /\ Finished(x)
               /\ rows' = {r \in rows : r.xid # x}
               /\ UNCHANGED committed
=============================================================================
