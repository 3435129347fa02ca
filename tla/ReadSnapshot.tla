---------------------------- MODULE ReadSnapshot ----------------------------
(***************************************************************************)
(* What a read could see, and the cursors of the log.  A snapshot is       *)
(* PostgreSQL's pg_snapshot, "xmin:xmax:xip": every transaction below xmin *)
(* has finished, those of xip were running, those from xmax on had not     *)
(* started.  A cursor is a (transaction id, position) pair.                *)
(*                                                                         *)
(* Pure operators: eventstore/src/ReadSnapshot.ts and LogPosition.ts.      *)
(***************************************************************************)
EXTENDS Naturals

Snapshot == [xmin : Nat, xmax : Nat, xip : SUBSET Nat]

Cursor == [xid : Nat, pos : Nat]

(* LogPosition.zero(): the start of the log, below every event. *)
ZeroCursor == [xid |-> 0, pos |-> 0]

Lesser(m, n) == IF m < n THEN m ELSE n

(* `sees`: the transaction had finished when the snapshot was taken. *)
Sees(s, x) == \/ x < s.xmin
              \/ x < s.xmax /\ x \notin s.xip

(* `intersect`: the snapshot that sees exactly what both see. *)
Intersect(a, b) ==
  LET xmax == Lesser(a.xmax, b.xmax)
  IN  [xmin |-> Lesser(a.xmin, b.xmin),
       xmax |-> xmax,
       xip  |-> {x \in a.xip \cup b.xip : x < xmax}]

(* The order of the log, and of every cursor in it: transaction id first. *)
After(p, q) == \/ p.xid > q.xid
               \/ p.xid = q.xid /\ p.pos > q.pos

(* `earliest` of two cursors: by transaction id when both carry one and    *)
(* they differ, by position otherwise.                                     *)
Earliest(p, q) ==
  IF p.xid # 0 /\ q.xid # 0 /\ p.xid # q.xid
  THEN IF p.xid < q.xid THEN p ELSE q
  ELSE IF p.pos <= q.pos THEN p ELSE q

(* The shape every snapshot the database hands out has. *)
WellFormed(s) == s.xmin <= s.xmax /\ \A x \in s.xip : s.xmin <= x /\ x < s.xmax
=============================================================================
