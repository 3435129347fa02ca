------------------------------- MODULE DcbLog -------------------------------
(***************************************************************************)
(* What the event store promises: a log to which whole transactions are    *)
(* appended, one at a time, each deciding on the log as it is at that      *)
(* moment.  This is the conditional append of the Dynamic Consistency      *)
(* Boundary specification, with nothing concurrent left in it.             *)
(*                                                                         *)
(* A row remembers its basis, what its decision had read: <<query,         *)
(* position>> pairs.  The promise is that the basis is exactly what the    *)
(* queries match in the log the append is made to.                         *)
(***************************************************************************)
EXTENDS Dcb, ReadSnapshot, FiniteSets, Sequences

CONSTANTS Requests, NoCause

VARIABLE log     \* the committed rows

Init == log = {}

(* What the queries of append a match in `rs`. *)
BasisIn(a, rs) == UNION {{<<q, r.pos>> : r \in {r \in rs : Matches(q, r.data.event)}} : q \in a.reads}

(* The rows `new` are append a, made to the log `before` by a transaction  *)
(* whose earlier appends make it `prior`.                                  *)
Appended(a, new, before, prior) ==
  /\ Cardinality(new) = Len(a.events)
  /\ \A i \in 1 .. Len(a.events) : \E r \in new :
       r.data.event = a.events[i] /\ r.data.emit = [cause |-> a.cause, ord |-> i]
  /\ ~ \E r \in prior : Matches(a.idem, r.data.event)
  /\ a.cause # NoCause => ~ \E r \in new, p \in prior : r.data.emit = p.data.emit
  /\ \A r \in new : r.data.basis = BasisIn(a, before)
  /\ a.firstWrite => \A r \in new, p \in before :
       (\E q \in a.reads : <<q, p.pos>> \in r.data.basis) => After(r, p)

Transact(q) ==
  LET new     == log' \ log
      Part(k) == {r \in new : r.data.part = k}
  IN
  /\ log \subseteq log'
  /\ new # {}
  /\ \A r \in new : r.data.part \in 1 .. Len(q.appends)
  /\ \A k \in 1 .. Len(q.appends) :
       Appended(q.appends[k], Part(k), log, log \cup (UNION {Part(j) : j \in 1 .. (k - 1)}))

Next == \E q \in Requests : Transact(q)

Spec == Init /\ [][Next]_log
=============================================================================
