----------------------------- MODULE ViewTable ------------------------------
(***************************************************************************)
(* A view's table and the operations its handlers return (ADR-0026):       *)
(* insert, update, upsert and remove of the row with a key.  The same      *)
(* operations are compiled to SQL (internal/ViewOpSql.ts) and applied to   *)
(* plain maps in tests (ViewMemory.ts); both are here, as functions from   *)
(* the rows before to the rows after, so that a module can ask whether     *)
(* they agree.  A table is [column -> start value]: the column's default,  *)
(* Null for a nullable column without one, Required for a column that is   *)
(* NOT NULL and has no default.  Rows are [key -> [column -> value]].      *)
(***************************************************************************)
EXTENDS Integers, Functions

CONSTANTS Null, Required, Refused

\* Changes of columns: by an amount, to a value, or forward only.
NoChange == [add |-> <<>>, set |-> <<>>, max |-> <<>>]
Adding(f) == [NoChange EXCEPT !.add = f]
Setting(f) == [NoChange EXCEPT !.set = f]

Insert(key, given, onConflict) == [op |-> "insert", key |-> key, given |-> given, onConflict |-> onConflict]
Update(key, change) == [op |-> "update", key |-> key, change |-> change]
Upsert(key, change) == [op |-> "upsert", key |-> key, change |-> change]
Remove(key) == [op |-> "remove", key |-> key]

\* Both rows' columns, f's where they have the same; both tables' keys.
Over(f, g) == [x \in (DOMAIN f) \cup (DOMAIN g) |-> IF x \in DOMAIN f THEN f[x] ELSE g[x]]

\* `GREATEST`: NULL is smaller than any value.
Larger(a, b) == IF a = Null THEN b ELSE IF b = Null \/ a >= b THEN a ELSE b

\* The row once the change is made: each column is changed one way only.
Changed(row, change) ==
    [c \in DOMAIN row |->
        IF c \in DOMAIN change.add THEN row[c] + change.add[c]
        ELSE IF c \in DOMAIN change.set THEN change.set[c]
        ELSE IF c \in DOMAIN change.max THEN Larger(row[c], change.max[c])
        ELSE row[c]]

\* The columns an operation writes in a row that is new: what it was given, or the value each change carries.
Given(o) == IF o.op = "insert" THEN o.given ELSE Over(o.change.add, Over(o.change.set, o.change.max))

\* The new row: what the operation gives, and where the other columns start.
Proposed(table, o) == Over(Given(o), table)
Incomplete(row) == \E c \in DOMAIN row : row[c] = Required

\* mutant: an upsert puts its amounts in place of what is there
Overwritten(row, o) == IF o.op = "upsert" THEN Over(Given(o), row) ELSE row
\* What an insert or an upsert does to the row that is there.
OnExisting(row, o) ==
    CASE o.op = "upsert" -> Changed(row, o.change)
      [] o.op = "insert" /\ o.onConflict = "replace" -> Over(o.given, row)
      [] OTHER -> row

Removed(rows, key) == Restrict(rows, DOMAIN rows \ {key})

\* One statement of the compiled SQL.  An INSERT builds its row and checks that no NOT NULL column is without a value before it looks
\* for a conflict, so an upsert of a row that exists is refused too when it could not have created it.
RunOp(table, rows, o) ==
    CASE o.op = "remove" -> Removed(rows, o.key)
      [] o.op = "update" -> IF o.key \in DOMAIN rows THEN [rows EXCEPT ![o.key] = Changed(@, o.change)] ELSE rows
      [] OTHER -> IF Incomplete(Proposed(table, o)) THEN Refused
                  ELSE IF o.key \in DOMAIN rows THEN [rows EXCEPT ![o.key] = OnExisting(@, o)]
                  ELSE Over(rows, [key \in {o.key} |-> Proposed(table, o)])

\* mutant: a removal is not replayed
NeverRemoves(table, rows, o) == IF o.op = "remove" THEN rows ELSE RunOp(table, rows, o)
\* The same operation on plain maps: here the row that exists is looked for first.
ApplyOp(table, rows, o) ==
    IF o.op = "remove" THEN Removed(rows, o.key)
    ELSE IF o.key \in DOMAIN rows
    THEN [rows EXCEPT ![o.key] = IF o.op = "update" THEN Changed(@, o.change) ELSE OnExisting(@, o)]
    ELSE IF o.op = "update" THEN rows
    ELSE IF Incomplete(Proposed(table, o)) THEN Refused ELSE Over(rows, [key \in {o.key} |-> Proposed(table, o)])
=============================================================================
