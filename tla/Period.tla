------------------------------- MODULE Period -------------------------------
(***************************************************************************)
(* A model with a period: the entity's events of one period are its state, *)
(* and the first command of a new period closes the old one and opens the  *)
(* new one in its own append.  Which reads a load makes, one after the     *)
(* other, and what it makes of them (periodModel in commands/src/Model.ts).*)
(*                                                                         *)
(* A period is a number; 0 is none.  Pure operators: a read is what its    *)
(* query is and which rows it returned.                                    *)
(***************************************************************************)
EXTENDS Dcb, Sequences

CONSTANTS LifecycleTypes,  \* handled, in every period
          ScopedTypes,     \* handled, of the period
          OpenedType, ClosedType,
          Periods,
          TagOfPeriod(_),
          Opening(_, _, _), Closing(_, _, _)   \* `open` and `close`: entity, period, rows carried

ASSUME PeriodTypes ==
  /\ {OpenedType, ClosedType} \subseteq ScopedTypes /\ OpenedType # ClosedType
  /\ LifecycleTypes \subseteq Types /\ ScopedTypes \subseteq Types

(* The tags of a period are its own. *)
ASSUME PeriodTags ==
  /\ Periods \subseteq Nat \ {0}
  /\ \A p \in Periods : TagOfPeriod(p) \in Tags /\ \A o \in Periods : TagOfPeriod(o) = TagOfPeriod(p) => o = p

(* The events bound the same way share an item; none, no item. *)
OneItem(types, tags) == IF types = {} THEN {} ELSE {[types |-> types, tags |-> tags]}

(* The entity's events of a period, and its lifecycle in any. *)
PeriodQuery(id, p) == OneItem(LifecycleTypes, {id}) \cup OneItem(ScopedTypes, {id, TagOfPeriod(p)})

TrackingQuery(id) == OneItem({OpenedType, ClosedType}, {id})

ClosingQuery(id, p) == OneItem({ClosedType}, {id, TagOfPeriod(p)})

Marked(read, type, p) == \E r \in read.rows : r.event.type = type /\ TagOfPeriod(p) \in r.event.tags

(* The period is open as this read of it has it. *)
ReadsAsOpen(read, p) == Marked(read, OpenedType, p) /\ ~ Marked(read, ClosedType, p)

PeriodOf(r) == CHOOSE p \in Periods : TagOfPeriod(p) \in r.event.tags

(* The period the last opening opened, unless a later closing closed it.   *)
Tracked(read) ==
  LET openings == {r \in read.rows : r.event.type = OpenedType}
      last     == CHOOSE r \in openings : \A s \in openings : s.xid <= r.xid
  IN  IF openings = {} THEN 0
      ELSE IF \E r \in read.rows : r.event.type = ClosedType /\ PeriodOf(r) = PeriodOf(last) /\ r.xid >= last.xid
           THEN 0
      ELSE PeriodOf(last)

(* The next read of a load at `now`, none when it has read enough: the     *)
(* period of now; if that one is not open, which one is; and that one.     *)
NextPeriodQuery(id, now, reads) ==
  CASE Len(reads) = 0 -> PeriodQuery(id, now)
    [] Len(reads) = 1 -> IF ReadsAsOpen(reads[1], now) THEN {} ELSE TrackingQuery(id)
    [] Len(reads) = 2 -> IF Tracked(reads[2]) = 0 THEN {} ELSE PeriodQuery(id, Tracked(reads[2]))
    [] Len(reads) = 3 -> {}

(* The load decides in the open period p, as the i-th read has it. *)
InOpen(id, p, reads, i) ==
  [rows |-> reads[i].rows, uses |-> {i}, boundary |-> reads[i].query, guard |-> ClosingQuery(id, p),
   prefix |-> {}, scope |-> {TagOfPeriod(p)}, dies |-> FALSE]

(* The load has nothing to decide on: a defect. *)
Dies == [rows |-> {}, uses |-> {}, boundary |-> {}, guard |-> {}, prefix |-> {}, scope |-> {}, dies |-> TRUE]

(* The load turns the period: from `old` (0: none is open) to that of now. *)
Turn(id, old, now, reads) ==
  LET carried == reads[IF old = 0 THEN 1 ELSE 3].rows
      opening == Opening(id, now, carried)
  IN  [rows     |-> reads[1].rows \cup {[event |-> opening]},
       uses     |-> DOMAIN reads,
       boundary |-> UNION {reads[i].query : i \in DOMAIN reads},
       guard    |-> {},
       prefix   |-> {opening} \cup (IF old = 0 THEN {} ELSE {Closing(id, old, carried)}),
       scope    |-> {TagOfPeriod(now)},
       dies     |-> FALSE]

(* What the load returns once its reads are made.  A period is never       *)
(* turned back, and a closed one is not opened again.                      *)
LoadedPeriod(id, now, reads) ==
  LET current == Tracked(reads[2])
  IN  IF ReadsAsOpen(reads[1], now) THEN InOpen(id, now, reads, 1)
      ELSE IF current >= now
           THEN IF ReadsAsOpen(reads[3], current) THEN InOpen(id, current, reads, 3) ELSE Dies
      ELSE IF current = 0 /\ Marked(reads[1], ClosedType, now) THEN Dies
      ELSE Turn(id, current, now, reads)
=============================================================================
