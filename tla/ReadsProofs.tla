----------------------------- MODULE ReadsProofs -----------------------------
(***************************************************************************)
(* An answer shows what it says it shows, and nobody sleeps on news: for   *)
(* every set of views, endpoints and pages, every number of writers and    *)
(* faults, and every order of commits, pings and looks.                    *)
(***************************************************************************)
EXTENDS Reads, SequenceTheorems, WellFoundedInduction, TLAPS

-----------------------------------------------------------------------------
(* The log: its snapshots, and the last of a set of its rows.              *)

(* Every non-empty set of naturals has a least element. *)
LEMMA LeastOfNat ==
  ASSUME NEW S \in SUBSET Nat, S # {}
  PROVE  Least(S) \in S /\ \A n \in S : Least(S) <= n
<1>1. OpToRel(<, Nat) = {ss \in Nat \X Nat : ss[1] < ss[2]}
  BY Zenon DEF OpToRel
<1>2. IsWellFoundedOn({ss \in Nat \X Nat : ss[1] < ss[2]}, Nat)
  BY <1>1, NatLessThanWellFounded, Zenon
<1>3. PICK m \in S : \A n \in S : ~ (<<n, m>> \in {ss \in Nat \X Nat : ss[1] < ss[2]})
  BY <1>2, WFMin, Zenon
<1>4. ASSUME NEW n \in S PROVE m <= n
  <2>1. ASSUME n < m PROVE <<n, m>> \in {ss \in Nat \X Nat : ss[1] < ss[2]}
    BY <2>1
  <2> QED
    BY <1>3, <2>1
<1> QED
  BY <1>4 DEF Least

(* A set of naturals below some bound has a greatest element. *)
LEMMA GreatestBelow ==
  ASSUME NEW S \in SUBSET Nat, S # {}, NEW b \in Nat, \A n \in S : n < b
  PROVE  \E m \in S : \A n \in S : n <= m
<1> DEFINE D == {b - n : n \in S}
<1>1. D \in SUBSET Nat /\ D # {}
  <2>1. \A n \in S : b - n \in Nat
    OBVIOUS
  <2>2. D \subseteq Nat
    BY <2>1
  <2>3. D # {}
    OBVIOUS
  <2> QED
    BY <2>2, <2>3
<1>2. Least(D) \in D /\ \A d \in D : Least(D) <= d
  BY <1>1, LeastOfNat
<1>3. PICK m \in S : Least(D) = b - m
  BY <1>2
<1>4. \A n \in S : b - m <= b - n
  BY <1>2, <1>3
<1> QED
  BY <1>4

(* The last of a set of rows whose ids and positions were handed out is    *)
(* one of the set that none of the others is after.                        *)
LEMMA LastOfRows ==
  ASSUME NEW S, S # {}, \A r \in S : IsRow(r),
         NEW x \in Nat, \A r \in S : r.xid < x,
         NEW n \in Nat, \A r \in S : r.pos < n,
         NEW otherwise
  PROVE  \E r \in S : /\ LastOf(S, otherwise) = [xid |-> r.xid, pos |-> r.pos]
                      /\ \A q \in S : ~ After(q, r)
<1> DEFINE xs == {r.xid : r \in S}
<1>1. PICK m \in xs : \A k \in xs : k <= m
  <2>1. xs \in SUBSET Nat /\ xs # {} /\ \A k \in xs : k < x
    BY DEF IsRow
  <2> QED
    BY <2>1, GreatestBelow
<1> DEFINE T == {r \in S : r.xid = m}
           ps == {r.pos : r \in T}
<1>2. PICK p \in ps : \A k \in ps : k <= p
  <2>1. ps \in SUBSET Nat /\ ps # {} /\ \A k \in ps : k < n
    BY DEF IsRow
  <2> QED
    BY <2>1, GreatestBelow
<1>3. PICK r \in T : r.pos = p
  BY <1>2
<1>4. \A q \in S : ~ After(q, r)
  <2> SUFFICES ASSUME NEW q \in S PROVE ~ After(q, r)
    OBVIOUS
  <2>1. q.xid <= r.xid /\ q.xid \in Nat /\ q.pos \in Nat /\ r.xid \in Nat /\ r.pos \in Nat
    BY <1>1, <1>3 DEF IsRow
  <2>2. q.xid = r.xid => q.pos <= r.pos
    BY <1>2, <1>3
  <2> QED
    BY <2>1, <2>2 DEF After
<1>5. LastOf(S, otherwise) = LET c == CHOOSE c \in S : \A q \in S : ~ After(q, c)
                             IN  [xid |-> c.xid, pos |-> c.pos]
  BY DEF LastOf
<1>6. /\ (CHOOSE c \in S : \A q \in S : ~ After(q, c)) \in S
      /\ \A q \in S : ~ After(q, CHOOSE c \in S : \A k \in S : ~ After(k, c))
  BY <1>3, <1>4
<1> QED
  BY <1>5, <1>6

(* A snapshot is the state of the ids: it passes none that runs (but its   *)
(* own) and none that is still to be taken.                                *)
LEMMA SnapshotOfRunning ==
  ASSUME NEW own \in Nat, nextXid \in Nat, lastDone \in Nat, lastDone < nextXid,
         running \in SUBSET Nat, \A x \in running : 0 < x /\ x < nextXid
  PROVE  LET s == CurrentSnapshot(own)
         IN  /\ s \in Snapshot
             /\ 0 < s.xmin /\ s.xmin <= s.xmax /\ s.xmax <= nextXid
             /\ \A x \in running : s.xmin <= x
             /\ \A x \in running \ {own} : ~ Sees(s, x)
<1> DEFINE xmax == lastDone + 1
           open == {x \in running : x < xmax}
           xmin == Least(open \cup {xmax})
           s == CurrentSnapshot(own)
<1>1. xmin \in open \cup {xmax} /\ \A n \in open \cup {xmax} : xmin <= n
  BY LeastOfNat
<1>2. s = [xmin |-> xmin, xmax |-> xmax, xip |-> open \ {own}]
  BY DEF CurrentSnapshot
<1> HIDE DEF xmin
<1>3. xmin \in Nat /\ 0 < xmin /\ xmin <= xmax
  BY <1>1
<1>4. \A x \in running : xmin <= x
  BY <1>1, <1>3
<1>5. s.xmin = xmin /\ s.xmax = xmax /\ s.xip = open \ {own}
  BY <1>2
<1>6. s \in Snapshot
  <2>1. xmax \in Nat
    OBVIOUS
  <2>2. \A x \in open \ {own} : x \in Nat
    OBVIOUS
  <2>3. open \ {own} \in SUBSET Nat
    BY <2>2, Zenon
  <2> HIDE DEF xmax, open
  <2> QED
    BY <1>2, <1>3, <2>1, <2>3 DEF Snapshot
<1>7. ASSUME NEW x \in running, x # own PROVE ~ Sees(s, x)
  <2>1. ~ (x < xmin)
    BY <1>3, <1>4
  <2>2. x < xmax => x \in open \ {own}
    BY <1>7
  <2> HIDE DEF s, xmax, open
  <2> QED
    BY <1>5, <2>1, <2>2 DEF Sees
<1> QED
  BY <1>3, <1>4, <1>5, <1>6, <1>7

(* The log: ids and positions that rows carry were handed out.             *)
LogInv ==
  /\ nextXid \in Nat /\ nextPos \in Nat \ {0} /\ lastDone \in Nat /\ lastDone < nextXid
  /\ running \subseteq Nat /\ \A x \in running : 0 < x /\ x < nextXid
  /\ \A x \in committed : x \in Nat /\ x < nextXid /\ x \notin running
  /\ \A r \in rows : IsRow(r) /\ r.xid < nextXid /\ r.pos < nextPos

(* A view that is where c says, or further: no id that may still commit is *)
(* at or before c, and of what has committed there nothing is missing.     *)
HandledTo(v, c) ==
  /\ c \in Cursor
  /\ c.xid < nextXid /\ \A x \in running : c.xid < x
  /\ \A r \in CommittedRows : Handles(v, r) /\ AtOrPast(c, r) => r \in view[v].holds

ViewInv ==
  /\ view \in [View -> [cursor : Cursor, holds : SUBSET rows, status : {"ACTIVE", "FAILED"}]]
  /\ \A v \in View : view[v].holds \subseteq CommittedRows /\ HandledTo(v, view[v].cursor)

Ping == [id : View, cursor : Cursor]

(* What a subscriber has not looked at: the newest ping of each view it    *)
(* asked for, and no ping is ahead of its view.                            *)
SubscriberOK(s, u) ==
  /\ u \in [on : BOOLEAN, dirty : SUBSET Ping, resync : BOOLEAN, open : BOOLEAN]
  /\ u.open <=> (u.dirty # {} \/ u.resync)
  /\ u.open => u.on
  /\ \A p, q \in u.dirty : p.id = q.id => p = q
  /\ \A p \in u.dirty : p.id \in Wants(s) /\ HandledTo(p.id, p.cursor)

HubInv ==
  /\ link \in {"up", "cut", "down"}
  /\ sent \in Seq(Ping)
  /\ link # "up" => sent = <<>>
  /\ sub = [s \in Subscriber |-> sub[s]]
  /\ \A s \in Subscriber : SubscriberOK(s, sub[s])
  /\ \A k \in DOMAIN sent : HandledTo(sent[k].id, sent[k].cursor)

(* The last ping of a view that is under way, or waits at a subscriber,    *)
(* is of where the view is.                                                *)
OnTheWay(v) == \E k \in DOMAIN sent : sent[k].id = v

NewestInv ==
  /\ \A k \in DOMAIN sent : (\A j \in DOMAIN sent : j > k => sent[j].id # sent[k].id)
                              => sent[k].cursor = view[sent[k].id].cursor
  /\ \A s \in Subscriber : \A p \in sub[s].dirty :
       link = "up" /\ ~ sub[s].resync /\ ~ OnTheWay(p.id) => p.cursor = view[p.id].cursor

Listens == {"look", "pending", "listening", "asleep"}

Waits == [step : Listens \cup {"wait", "caught_up", "failed", "late"}, cursor : Cursor,
          status : {"", "ACTIVE", "FAILED"}]

(* A wait is of a view of the request that waits.  What it read of the     *)
(* view before it asks what is pending is where the view was, and what     *)
(* came since is on its way to it; so is what ends a pause for a ping.     *)
WaitOK(v) ==
  /\ wait[v] \in Waits
  /\ sub[v].on <=> wait[v].step \in Listens
  /\ wait[v].step # "caught_up" => v \in Endpoint /\ request.step = "wait"
  /\ wait[v].step = "pending" =>
       /\ HandledTo(v, wait[v].cursor)
       /\ link = "up" /\ wait[v].cursor # view[v].cursor => HasNews(v, v)
  /\ wait[v].step = "listening" /\ link = "up" =>
       Pending(v, view[v].cursor, request.write) \/ HasNews(v, v)

WaitInv == /\ wait = [v \in View |-> wait[v]]
           /\ \A v \in View : WaitOK(v)

Pages(g) == [step : {"off", "read", "open"}, told : [Follows[g] -> Cursor]]

(* A page that is open is where its views are, or what brings it there is  *)
(* on its way.                                                             *)
PageOK(g) ==
  /\ page[g] \in Pages(g)
  /\ sub[g].on <=> page[g].step # "off"
  /\ page[g].step = "open" /\ link = "up" =>
       \A v \in Follows[g] : page[g].told[v] # view[v].cursor => HasNews(g, v)

PageInv == /\ page = [g \in Page |-> page[g]]
           /\ \A g \in Page : PageOK(g)

Requests == [step : {"check", "wait", "run"}, granted : BOOLEAN,
             policy : [mode : DOMAIN Strictness, target : {"none", "latest", "marker", "forged"}],
             late : BOOLEAN, write : Cursor, answer : {"fresh", "unchecked", "stale"},
             owed : SUBSET CommittedRows]

Shown(v) == {r \in request.owed : Handles(v, r)} \subseteq view[v].holds

(* What a request is owed is at or before the write it waits for, and a    *)
(* view that has caught up with that shows it.                             *)
RequestInv ==
  request # NoRequest =>
    /\ request \in Requests
    /\ request.step \in {"check", "wait"} =>
         /\ request.answer = "fresh"
         /\ request.granted \/ request.policy.mode = "strict"
         /\ \/ request.step = "check" /\ request.policy.target = "latest"
            \/ \A r \in request.owed : AtOrPast(request.write, r)
    /\ request.step = "wait" => \A v \in Endpoint : wait[v].step = "caught_up" => Shown(v)
    /\ request.step = "run" =>
         IF request.answer = "fresh" THEN \A v \in Endpoint : Shown(v) ELSE request.granted

ReadsInv == /\ LogInv /\ ViewInv /\ HubInv /\ NewestInv /\ WaitInv /\ PageInv /\ RequestInv

-----------------------------------------------------------------------------
(* The log and the views *)

(* What a step may do to the log and to the views: what has committed      *)
(* stays, what commits was running, and a view loses nothing.              *)
Grows ==
  /\ nextXid' \in Nat /\ nextXid <= nextXid'
  /\ running' \subseteq Nat /\ \A x \in running' : x \in running \/ nextXid <= x
  /\ CommittedRows \subseteq CommittedRows'
  /\ \A r \in CommittedRows' : r \in CommittedRows \/ r.xid \in running
  /\ \A v \in View : view[v].holds \subseteq view'[v].holds

LEMMA LogStepKeeps ==
  ASSUME LogInv, WriterStep
  PROVE  LogInv' /\ Grows
<1>1. CASE nextXid <= MaxXid /\ AssignXid
  BY <1>1 DEF LogInv, AssignXid, Grows, CommittedRows, IsRow, WriterStep
<1>2. ASSUME NEW x \in running, NEW k \in Kind, InsertRow(x, k)
      PROVE  LogInv' /\ Grows
  <2>1. x \in Nat /\ 0 < x /\ x < nextXid /\ x \notin committed
    BY DEF LogInv
  <2> QED
    BY <1>2, <2>1 DEF LogInv, InsertRow, Grows, CommittedRows, IsRow, WriterStep
<1>3. ASSUME NEW x \in running, CommitXid(x)
      PROVE  LogInv' /\ Grows
  <2>1. x \in Nat /\ 0 < x /\ x < nextXid
    BY DEF LogInv
  <2>2. lastDone' \in Nat /\ lastDone' < nextXid
    BY <1>3, <2>1 DEF LogInv, CommitXid, Finished
  <2>3. /\ nextXid' = nextXid /\ nextPos' = nextPos /\ running' = running \ {x}
        /\ committed' = committed \cup {x} /\ rows' = rows /\ view' = view
    BY <1>3 DEF CommitXid, Finished, WriterStep
  <2>4. LogInv'
    <3>1. \A y \in committed' : y \in Nat /\ y < nextXid' /\ y \notin running'
      BY <2>1, <2>3 DEF LogInv
    <3>2. \A r \in rows' : IsRow(r) /\ r.xid < nextXid' /\ r.pos < nextPos'
      BY <2>3 DEF LogInv
    <3> QED
      BY <2>2, <2>3, <3>1, <3>2 DEF LogInv, IsRow
  <2>5. Grows
    <3>1. /\ CommittedRows \subseteq CommittedRows'
          /\ \A r \in CommittedRows' : r \in CommittedRows \/ r.xid \in running
      BY <2>3 DEF CommittedRows
    <3> QED
      BY <2>3, <3>1 DEF Grows, LogInv
  <2> QED
    BY <2>4, <2>5
<1> QED
  BY <1>1, <1>2, <1>3 DEF WriterStep

(* Where a settled row is, nothing can come up behind it any more.         *)
LEMMA SettledIsPassed ==
  ASSUME LogInv, NEW r \in rows, Settled(r)
  PROVE  r.xid < nextXid /\ \A x \in running : r.xid < x
<1>1. LET s == CurrentSnapshot(0)
      IN  /\ s.xmin \in Nat /\ s.xmin <= nextXid /\ \A x \in running : s.xmin <= x
  BY SnapshotOfRunning DEF LogInv, Snapshot
<1> QED
  BY <1>1 DEF LogInv, Settled, IsRow

(* Whoever was where c says still is.                                      *)
LEMMA HandledStays ==
  ASSUME LogInv, Grows, NEW v \in View, NEW c, HandledTo(v, c)
  PROVE  HandledTo(v, c)'
<1>1. c \in Cursor /\ c.xid \in Nat /\ c.pos \in Nat
  BY DEF HandledTo, Cursor
<1>2. c.xid < nextXid' /\ \A x \in running' : c.xid < x
  BY <1>1 DEF HandledTo, Grows, LogInv
<1>3. ASSUME NEW r \in CommittedRows', Handles(v, r), AtOrPast(c, r)
      PROVE  r \in view'[v].holds
  <2>1. CASE r \in CommittedRows
    BY <1>3, <2>1 DEF HandledTo, Grows
  <2>2. CASE r.xid \in running
    <3>1. c.xid < r.xid /\ r.xid \in Nat
      BY <2>2 DEF HandledTo, LogInv
    <3> QED
      BY <1>1, <1>3, <3>1 DEF AtOrPast, After
  <2> QED
    BY <2>1, <2>2 DEF Grows
<1> QED
  BY <1>1, <1>2, <1>3 DEF HandledTo, Handles

(* A batch takes a view from where it was to the last row of it.           *)
LEMMA BatchIsHandled ==
  ASSUME LogInv, ViewInv, NEW v \in View, NEW last \in Ready(v)
  PROVE  LET batch == {r \in Ready(v) : AtOrPast(last, r)}
             to    == LastOf(batch, ZeroCursor)
         IN  /\ to \in Cursor /\ to.xid < nextXid /\ \A x \in running : to.xid < x
             /\ \A r \in CommittedRows : Handles(v, r) /\ AtOrPast(to, r) => r \in view[v].holds \cup batch
<1> DEFINE batch == {r \in Ready(v) : AtOrPast(last, r)}
           to == LastOf(batch, ZeroCursor)
<1>1. \A r \in Ready(v) : /\ r \in CommittedRows /\ r \in rows /\ Settled(r) /\ Handles(v, r) /\ After(r, view[v].cursor)
                          /\ IsRow(r) /\ r.xid < nextXid /\ r.pos < nextPos /\ r.xid \in Nat /\ r.pos \in Nat
  BY DEF Ready, CommittedRows, LogInv, IsRow
<1>2. last \in batch
  BY <1>1 DEF AtOrPast, After
<1>3. PICK q \in batch : to = [xid |-> q.xid, pos |-> q.pos] /\ \A r \in batch : ~ After(r, q)
  <2>1. nextXid \in Nat /\ nextPos \in Nat /\ \A r \in batch : IsRow(r) /\ r.xid < nextXid /\ r.pos < nextPos
    BY <1>1 DEF LogInv
  <2> QED
    BY <1>2, <2>1, LastOfRows
<1> HIDE DEF to
<1>4. to \in Cursor /\ to.xid = q.xid /\ to.pos = q.pos /\ to.xid \in Nat /\ to.pos \in Nat
  BY <1>1, <1>3 DEF Cursor
<1>5. to.xid < nextXid /\ \A x \in running : to.xid < x
  BY <1>1, <1>3, <1>4, SettledIsPassed
<1>6. ASSUME NEW r \in CommittedRows, Handles(v, r), AtOrPast(to, r), r \notin view[v].holds
      PROVE  r \in batch
  <2>1. r \in rows /\ r.xid \in Nat /\ r.pos \in Nat
    BY DEF CommittedRows, LogInv, IsRow
  <2>2. After(r, view[v].cursor)
    BY <1>6 DEF ViewInv, HandledTo, AtOrPast
  <2>3. Settled(r)
    <3>1. r.xid <= q.xid /\ q.xid \in Nat /\ q.xid < CurrentSnapshot(0).xmin
      BY <1>1, <1>4, <1>6, <2>1 DEF AtOrPast, After, Settled
    <3>2. CurrentSnapshot(0).xmin \in Nat
      BY SnapshotOfRunning DEF LogInv, Snapshot
    <3> QED
      BY <2>1, <3>1, <3>2 DEF Settled
  <2>4. AtOrPast(last, r)
    BY <1>1, <1>2, <1>3, <1>4, <1>6, <2>1 DEF AtOrPast, After
  <2> QED
    BY <1>6, <2>2, <2>3, <2>4 DEF Ready
<1>7. /\ to \in Cursor /\ to.xid < nextXid /\ \A x \in running : to.xid < x
      /\ \A r \in CommittedRows : Handles(v, r) /\ AtOrPast(to, r) => r \in view[v].holds \cup batch
  BY <1>4, <1>5, <1>6
<1> QED
  BY <1>7 DEF to

LEMMA ViewsStay ==
  ASSUME LogInv, ViewInv, Grows,
         view' = [v \in View |-> view'[v]],
         \A v \in View : \E s \in {"ACTIVE", "FAILED"} : view'[v] = [view[v] EXCEPT !.status = s]
  PROVE  ViewInv'
<1>1. ASSUME NEW v \in View
      PROVE  /\ view'[v] \in [cursor : Cursor, holds : SUBSET rows', status : {"ACTIVE", "FAILED"}]
             /\ view'[v].holds \subseteq CommittedRows'
             /\ HandledTo(v, view[v].cursor)' /\ view'[v].cursor = view[v].cursor
  <2>1. PICK s \in {"ACTIVE", "FAILED"} : view'[v] = [view[v] EXCEPT !.status = s]
    OBVIOUS
  <2>2. view[v] \in [cursor : Cursor, holds : SUBSET rows, status : {"ACTIVE", "FAILED"}]
    BY DEF ViewInv
  <2>3. view'[v].cursor = view[v].cursor /\ view'[v].holds = view[v].holds
    BY <2>1, <2>2
  <2>4. view[v].holds \subseteq CommittedRows' /\ CommittedRows' \subseteq rows'
    BY DEF ViewInv, Grows, CommittedRows
  <2>5. HandledTo(v, view[v].cursor)'
    BY HandledStays DEF ViewInv
  <2> QED
    BY <2>1, <2>2, <2>3, <2>4, <2>5
<1>2. view' \in [View -> [cursor : Cursor, holds : SUBSET rows', status : {"ACTIVE", "FAILED"}]]
  BY <1>1
<1> QED
  BY <1>1, <1>2 DEF ViewInv

LEMMA ProjectKeeps ==
  ASSUME LogInv, ViewInv, NEW v \in View, Project(v)
  PROVE  LogInv' /\ Grows /\ ViewInv'
<1>1. PICK last \in Ready(v) :
        view' = [view EXCEPT ![v].cursor = LastOf({r \in Ready(v) : AtOrPast(last, r)}, ZeroCursor),
                             ![v].holds = @ \cup {r \in Ready(v) : AtOrPast(last, r)}]
  BY DEF Project
<1>2. PICK batch, to : batch = {r \in Ready(v) : AtOrPast(last, r)} /\ to = LastOf(batch, ZeroCursor)
  OBVIOUS
<1>3. /\ to \in Cursor /\ to.xid < nextXid /\ \A x \in running : to.xid < x
      /\ \A r \in CommittedRows : Handles(v, r) /\ AtOrPast(to, r) => r \in view[v].holds \cup batch
  BY <1>2, BatchIsHandled
<1>4. UNCHANGED logVars
  BY DEF Project
<1>5. LogInv'
  BY <1>4 DEF LogInv, logVars, IsRow
<1>6. batch \subseteq CommittedRows /\ batch \subseteq rows /\ CommittedRows' = CommittedRows
  BY <1>4, <1>2 DEF Ready, CommittedRows, logVars
<1>7. view \in [View -> [cursor : Cursor, holds : SUBSET rows, status : {"ACTIVE", "FAILED"}]]
  BY DEF ViewInv
<1>8. /\ view' = [view EXCEPT ![v].cursor = to, ![v].holds = @ \cup batch]
      /\ view' = [view EXCEPT ![v] = [view[v] EXCEPT !.cursor = to, !.holds = @ \cup batch]]
  BY <1>1, <1>7, <1>2
<1>9. /\ view'[v].cursor = to /\ view'[v].holds = view[v].holds \cup batch
      /\ \A w \in View \ {v} : view'[w] = view[w]
  BY <1>7, <1>8
<1>10. view' \in [View -> [cursor : Cursor, holds : SUBSET rows', status : {"ACTIVE", "FAILED"}]]
  <2>1. rows' = rows
    BY <1>4 DEF logVars
  <2> QED
    BY <1>3, <1>6, <1>7, <1>8, <2>1
<1>11. Grows
  BY <1>4, <1>6, <1>9 DEF Grows, logVars, LogInv
<1>12. ASSUME NEW w \in View
       PROVE  view'[w].holds \subseteq CommittedRows' /\ HandledTo(w, view[w].cursor)'
  <2>1. CASE w = v
    <3>1. HandledTo(v, to)'
      BY <1>3, <1>4, <1>6, <1>9 DEF HandledTo, logVars, Handles, AtOrPast, After
    <3> QED
      BY <1>6, <1>9, <2>1, <3>1 DEF ViewInv
  <2>2. CASE w # v
    <3>1. PICK c : c = view[w].cursor
      OBVIOUS
    <3>2. HandledTo(w, c)'
      BY <1>11, <3>1, HandledStays DEF ViewInv
    <3> QED
      BY <1>6, <1>9, <2>2, <3>1, <3>2 DEF ViewInv
  <2> QED
    BY <2>1, <2>2
<1> QED
  BY <1>5, <1>10, <1>11, <1>12 DEF ViewInv

(* Every step lets the log and the views grow.                             *)
LEMMA StepGrows ==
  ASSUME LogInv, ViewInv, [Next]_vars
  PROVE  LogInv' /\ Grows /\ ViewInv'
<1>1. CASE WriterStep
  <2>1. LogInv' /\ Grows
    BY <1>1, LogStepKeeps
  <2>2. view' = view
    BY <1>1 DEF WriterStep
  <2>3. /\ view' = [v \in View |-> view'[v]]
        /\ \A v \in View : \E s \in {"ACTIVE", "FAILED"} : view'[v] = [view[v] EXCEPT !.status = s]
    BY <2>2 DEF ViewInv
  <2> QED
    BY <2>1, <2>3, ViewsStay
<1>2. ASSUME NEW v \in View, Project(v)
      PROVE  LogInv' /\ Grows /\ ViewInv'
  BY <1>2, ProjectKeeps
<1>3. ASSUME UNCHANGED logVars,
             view' = view \/ \E v \in View, s \in {"ACTIVE", "FAILED"} : view' = [view EXCEPT ![v].status = s]
      PROVE  LogInv' /\ Grows /\ ViewInv'
  <2>1. LogInv'
    BY <1>3 DEF LogInv, logVars, IsRow
  <2>2. /\ view' = [v \in View |-> view'[v]]
        /\ \A v \in View : \E s \in {"ACTIVE", "FAILED"} : view'[v] = [view[v] EXCEPT !.status = s]
    BY <1>3 DEF ViewInv
  <2>3. \A v \in View : view'[v].holds = view[v].holds
    BY <2>2 DEF ViewInv
  <2>4. Grows
    BY <1>3, <2>3 DEF Grows, logVars, LogInv, CommittedRows
  <2> QED
    BY <2>1, <2>2, <2>4, ViewsStay
<1>4. ASSUME NEW v \in View, Fails(v) \/ Reset(v)
      PROVE  LogInv' /\ Grows /\ ViewInv'
  BY <1>3, <1>4 DEF Fails, Reset, SetStatus
<1>5. ASSUME HubStep PROVE UNCHANGED <<logVars, view>>
  BY <1>5 DEF HubStep, Deliver, Cut, Notices, Connect
<1>6. ASSUME Ask \/ Check \/ TimePasses \/ Settle \/ Run PROVE UNCHANGED <<logVars, view>>
  BY <1>6 DEF Ask, Check, TimePasses, Settle, Run
<1>7. ASSUME NEW v \in View, WaitStep(v) PROVE UNCHANGED <<logVars, view>>
  BY <1>7 DEF WaitStep, Subscribe, Look, AskPending, Woken, PauseEnds, OnlyWaits
<1>8. ASSUME PageStep PROVE UNCHANGED <<logVars, view>>
  BY <1>8 DEF PageStep, OpenFeed, ReadFeed, NextOfFeed, CloseFeed, OnlyPages
<1>9. ASSUME UNCHANGED vars PROVE UNCHANGED <<logVars, view>>
  BY <1>9 DEF vars
<1>10. ASSUME UNCHANGED <<logVars, view>> PROVE LogInv' /\ Grows /\ ViewInv'
  BY <1>3, <1>10
<1> QED
  BY <1>1, <1>2, <1>4, <1>5, <1>6, <1>7, <1>8, <1>9, <1>10 DEF Next, ViewStep

-----------------------------------------------------------------------------
(* The hub *)

(* A step that neither sends nor delivers: the links stay, a subscriber    *)
(* comes, goes or takes its batch, and no view moves.                      *)
Quiet ==
  /\ link' = link /\ sent' = sent
  /\ sub' = [s \in Subscriber |-> sub'[s]]
  /\ \A s \in Subscriber : sub'[s] \in {sub[s], Subscribed, Unsubscribed}
  /\ \A v \in View : view'[v].cursor = view[v].cursor

LEMMA OneSubscriber ==
  ASSUME HubInv, link' = link, sent' = sent, view' = view,
         sub' = sub \/ \E s \in Subscriber : \E u \in {Subscribed, Unsubscribed} : sub' = [sub EXCEPT ![s] = u]
  PROVE  Quiet
BY DEF HubInv, Quiet

LEMMA QuietSteps ==
  ASSUME ViewInv, HubInv, [Next]_vars
  PROVE  Quiet \/ (\E v \in View : Project(v)) \/ Deliver \/ Cut \/ Notices \/ Connect
<1>1. CASE WriterStep
  BY <1>1, OneSubscriber DEF WriterStep, hubVars
<1>2. ASSUME NEW v \in View, Fails(v) \/ Reset(v) PROVE Quiet
  <2>1. UNCHANGED hubVars /\ \E s : view' = [view EXCEPT ![v].status = s]
    BY <1>2 DEF Fails, Reset, SetStatus
  <2> QED
    BY <2>1 DEF ViewInv, HubInv, Quiet, hubVars
<1>3. CASE Ask \/ Check \/ TimePasses \/ Settle \/ Run
  BY <1>3, OneSubscriber DEF Ask, Check, TimePasses, Settle, Run, hubVars
<1>4. ASSUME NEW v \in View, WaitStep(v) PROVE Quiet
  <2>1. v \in Subscriber
    BY DEF Subscriber
  <2> QED
    BY <1>4, <2>1, OneSubscriber DEF WaitStep, Subscribe, Look, AskPending, Woken, PauseEnds, OnlyWaits, Ends, Taken
<1>5. CASE PageStep
  <2>1. Page \subseteq Subscriber
    BY DEF Subscriber
  <2> QED
    BY <1>5, <2>1, OneSubscriber DEF PageStep, OpenFeed, ReadFeed, NextOfFeed, CloseFeed, OnlyPages, Taken
<1>6. CASE UNCHANGED vars
  BY <1>6, OneSubscriber DEF vars, hubVars
<1> QED
  BY <1>1, <1>2, <1>3, <1>4, <1>5, <1>6 DEF Next, ViewStep, HubStep

LEMMA SubscriberStays ==
  ASSUME LogInv, Grows, NEW s \in Subscriber, NEW u, SubscriberOK(s, u)
  PROVE  SubscriberOK(s, u)'
<1>1. ASSUME NEW p \in u.dirty PROVE p.id \in View /\ HandledTo(p.id, p.cursor)'
  BY HandledStays DEF SubscriberOK, Ping
<1> QED
  BY <1>1 DEF SubscriberOK

LEMMA NewSubscriber ==
  ASSUME NEW s \in Subscriber, NEW u \in {Subscribed, Unsubscribed}
  PROVE  SubscriberOK(s, u)'
<1>1. /\ Unsubscribed \in [on : BOOLEAN, dirty : SUBSET Ping, resync : BOOLEAN, open : BOOLEAN]
      /\ Unsubscribed.dirty = {} /\ Unsubscribed.resync = FALSE /\ Unsubscribed.open = FALSE
  BY DEF Unsubscribed
<1>2. /\ Subscribed \in [on : BOOLEAN, dirty : SUBSET Ping, resync : BOOLEAN, open : BOOLEAN]
      /\ Subscribed.dirty = {} /\ Subscribed.resync = FALSE /\ Subscribed.open = FALSE
  BY <1>1 DEF Subscribed
<1> QED
  BY <1>1, <1>2 DEF SubscriberOK

LEMMA AppendElements ==
  ASSUME NEW S, NEW q \in Seq(S), NEW e \in S
  PROVE  /\ Append(q, e) \in Seq(S)
         /\ Len(Append(q, e)) = Len(q) + 1 /\ Append(q, e)[Len(q) + 1] = e
         /\ DOMAIN Append(q, e) = DOMAIN q \cup {Len(q) + 1}
         /\ \A k \in DOMAIN q : k < Len(q) + 1 /\ Append(q, e)[k] = q[k]
<1>1. /\ Append(q, e) \in Seq(S) /\ Len(Append(q, e)) = Len(q) + 1 /\ Append(q, e)[Len(q) + 1] = e
      /\ \A k \in 1 .. Len(q) : Append(q, e)[k] = q[k]
  BY AppendProperties
<1>2. Len(q) \in Nat /\ DOMAIN q = 1 .. Len(q) /\ DOMAIN Append(q, e) = 1 .. (Len(q) + 1)
  BY <1>1
<1> QED
  BY <1>1, <1>2

LEMMA SentStays ==
  ASSUME LogInv, Grows, HubInv, NEW p \in Ping, NEW k \in DOMAIN sent, p = sent[k]
  PROVE  HandledTo(p.id, p.cursor)'
BY HandledStays DEF HubInv, Ping

LEMMA ProjectSends ==
  ASSUME ViewInv, NEW v \in View, Project(v)
  PROVE  /\ sub' = sub /\ link' = link
         /\ sent' = IF link = "up" THEN Append(sent, [id |-> v, cursor |-> view'[v].cursor]) ELSE sent
         /\ \A w \in View \ {v} : view'[w] = view[w]
<1>1. PICK to, batch : /\ view' = [view EXCEPT ![v].cursor = to, ![v].holds = @ \cup batch]
                       /\ sent' = IF link = "up" THEN Append(sent, [id |-> v, cursor |-> to]) ELSE sent
  BY DEF Project
<1>2. view'[v].cursor = to /\ \A w \in View \ {v} : view'[w] = view[w]
  BY <1>1 DEF ViewInv
<1> QED
  BY <1>1, <1>2 DEF Project

LEMMA StepKeepsHubInv ==
  ASSUME LogInv, ViewInv, HubInv, [Next]_vars
  PROVE  HubInv'
<1>1. Grows /\ ViewInv'
  BY StepGrows
<1>2. \A k \in DOMAIN sent : sent[k] \in Ping
  BY DEF HubInv
<1>3. CASE Quiet
  <2>1. \A s \in Subscriber : SubscriberOK(s, sub[s])'
    <3> SUFFICES ASSUME NEW s \in Subscriber, NEW u, u = sub'[s] PROVE SubscriberOK(s, u)'
      OBVIOUS
    <3>1. CASE u = sub[s]
      BY <1>1, <3>1, SubscriberStays DEF HubInv
    <3> QED
      BY <1>3, <3>1, NewSubscriber DEF Quiet
  <2>2. \A k \in DOMAIN sent : HandledTo(sent[k].id, sent[k].cursor)'
    <3> SUFFICES ASSUME NEW k \in DOMAIN sent, NEW p, p = sent[k] PROVE HandledTo(p.id, p.cursor)'
      BY <1>3 DEF Quiet
    <3> QED
      BY <1>1, <1>2, SentStays
  <2> QED
    BY <1>3, <2>1, <2>2 DEF HubInv, Quiet
<1>4. ASSUME sub' = sub PROVE sub' = [s \in Subscriber |-> sub'[s]] /\ \A s \in Subscriber : SubscriberOK(s, sub[s])'
  <2> SUFFICES ASSUME NEW s \in Subscriber, NEW u, u = sub[s] PROVE SubscriberOK(s, u)'
    BY <1>4 DEF HubInv
  <2> QED
    BY <1>1, SubscriberStays DEF HubInv
<1>5. ASSUME NEW v \in View, Project(v) PROVE HubInv'
  <2>1. sub' = sub /\ link' = link
        /\ (sent' = sent \/ (link = "up" /\ sent' = Append(sent, [id |-> v, cursor |-> view'[v].cursor])))
    BY <1>5, ProjectSends
  <2>2. sent' \in Seq(Ping) /\ \A k \in DOMAIN sent' : HandledTo(sent[k].id, sent[k].cursor)'
    <3>1. PICK new : new = [id |-> v, cursor |-> view'[v].cursor]
      OBVIOUS
    <3>2. new \in Ping /\ HandledTo(new.id, new.cursor)'
      BY <1>1, <3>1 DEF ViewInv, Ping, HandledTo
    <3>3. sent \in Seq(Ping) /\ sent' \in {sent, Append(sent, new)}
      BY <2>1, <3>1 DEF HubInv
    <3>4. sent' \in Seq(Ping) /\ \A k \in DOMAIN sent' : (k \in DOMAIN sent /\ sent'[k] = sent[k]) \/ sent'[k] = new
      BY <3>2, <3>3, AppendElements
    <3> SUFFICES ASSUME NEW k \in DOMAIN sent', NEW p, p = sent'[k] PROVE HandledTo(p.id, p.cursor)'
      BY <3>4
    <3> QED
      BY <1>1, <1>2, <3>2, <3>4, SentStays
  <2> QED
    BY <1>4, <2>1, <2>2 DEF HubInv
<1>6. CASE Deliver
  <2>1. link = "up" /\ link' = link /\ sent # <<>> /\ Publish(Head(sent)) /\ sent' = Tail(sent)
    BY <1>6 DEF Deliver
  <2>2. PICK p \in Ping : p = Head(sent) /\ p = sent[1] /\ 1 \in DOMAIN sent
    BY <2>1, HeadTailProperties DEF HubInv
  <2>3. HandledTo(p.id, p.cursor)'
    BY <1>1, <2>2, SentStays
  <2>4. sent' \in Seq(Ping) /\ \A k \in DOMAIN sent' : k + 1 \in DOMAIN sent /\ sent'[k] = sent[k + 1]
    BY <2>1, HeadTailProperties DEF HubInv
  <2>5. \A k \in DOMAIN sent' : HandledTo(sent[k].id, sent[k].cursor)'
    <3> SUFFICES ASSUME NEW k \in DOMAIN sent', NEW q, q = sent'[k] PROVE HandledTo(q.id, q.cursor)'
      OBVIOUS
    <3> QED
      BY <1>1, <1>2, <2>4, SentStays
  <2>6. sub' = [s \in Subscriber |-> sub'[s]] /\ \A s \in Subscriber : SubscriberOK(s, sub[s])'
    <3> SUFFICES ASSUME NEW s \in Subscriber, NEW u, u = sub'[s] PROVE SubscriberOK(s, u)'
      BY <2>1 DEF Publish
    <3>1. SubscriberOK(s, sub[s])
      BY DEF HubInv
    <3>2. CASE u = sub[s]
      BY <1>1, <3>1, <3>2, SubscriberStays
    <3>3. CASE /\ sub[s].on /\ p.id \in Wants(s)
               /\ u = [sub[s] EXCEPT !.dirty = {q \in @ : q.id # p.id} \cup {p}, !.open = TRUE]
      <4>1. PICK old : old = sub[s] /\ SubscriberOK(s, old) /\ SubscriberOK(s, old)'
        BY <1>1, <3>1, SubscriberStays
      <4>2. u = [on |-> TRUE, dirty |-> {q \in old.dirty : q.id # p.id} \cup {p}, resync |-> old.resync, open |-> TRUE]
        BY <3>3, <4>1 DEF SubscriberOK
      <4>3. u \in [on : BOOLEAN, dirty : SUBSET Ping, resync : BOOLEAN, open : BOOLEAN]
        BY <4>1, <4>2 DEF SubscriberOK
      <4>4. \A q \in u.dirty : q = p \/ (q \in old.dirty /\ q.id # p.id)
        BY <4>2
      <4>5. u.on /\ u.open /\ u.dirty # {}
        BY <4>2
      <4> QED
        BY <2>3, <3>3, <4>1, <4>3, <4>4, <4>5 DEF SubscriberOK
    <3> QED
      BY <2>1, <2>2, <3>2, <3>3 DEF Publish
  <2> QED
    BY <2>1, <2>4, <2>5, <2>6 DEF HubInv
<1>7. CASE Cut \/ Notices
  <2>1. sub' = sub /\ link' \in {"cut", "down"} /\ sent' = <<>>
    BY <1>7 DEF Cut, Notices, HubInv
  <2> QED
    BY <1>4, <2>1 DEF HubInv
<1>8. CASE Connect
  <2>1. link' = "up" /\ sent' = sent /\ sent = <<>>
    BY <1>8 DEF Connect, HubInv
  <2>2. sub' = [s \in Subscriber |-> sub'[s]] /\ \A s \in Subscriber : SubscriberOK(s, sub[s])'
    <3> SUFFICES ASSUME NEW s \in Subscriber, NEW u, u = sub'[s] PROVE SubscriberOK(s, u)'
      BY <1>8 DEF Connect
    <3>1. PICK old : old = sub[s] /\ SubscriberOK(s, old) /\ SubscriberOK(s, old)'
      BY <1>1, SubscriberStays DEF HubInv
    <3>2. u = old \/ (old.on /\ u = [old EXCEPT !.resync = TRUE, !.open = TRUE])
      BY <1>8, <3>1 DEF Connect
    <3> QED
      BY <3>1, <3>2 DEF SubscriberOK
  <2> QED
    BY <2>1, <2>2 DEF HubInv
<1> QED
  BY <1>3, <1>5, <1>6, <1>7, <1>8, QuietSteps

LEMMA SentArePings ==
  ASSUME HubInv
  PROVE  sent \in Seq(Ping) /\ \A k \in DOMAIN sent : sent[k] \in Ping /\ sent[k].id \in View /\ k \in Nat
<1>1. sent \in Seq(Ping) /\ Len(sent) \in Nat /\ DOMAIN sent = 1 .. Len(sent)
  BY DEF HubInv
<1>2. ASSUME NEW k \in DOMAIN sent PROVE sent[k] \in Ping /\ k \in Nat
  BY <1>1
<1>3. \A p \in Ping : p.id \in View
  BY DEF Ping
<1> QED
  BY <1>1, <1>2, <1>3

(* The ping of a batch is the newest of its view.                          *)
LEMMA ProjectKeepsNewest ==
  ASSUME ViewInv, ViewInv', HubInv, NewestInv, NEW v \in View, Project(v)
  PROVE  NewestInv'
<1>1. PICK new : new = [id |-> v, cursor |-> view'[v].cursor]
  OBVIOUS
<1>2. /\ sub' = sub /\ link' = link
      /\ IF link = "up" THEN sent' = Append(sent, new) ELSE sent' = sent
      /\ \A w \in View \ {v} : view'[w].cursor = view[w].cursor
  BY <1>1, ProjectSends
<1>3. new \in Ping /\ new.id = v /\ new.cursor = view'[v].cursor
  BY <1>1 DEF ViewInv, Ping
<1>4. sent \in Seq(Ping) /\ \A k \in DOMAIN sent : sent[k] \in Ping /\ sent[k].id \in View /\ k \in Nat
  BY SentArePings
<1>5. \A s \in Subscriber : \A p \in sub[s].dirty : p.id \in View
  BY DEF HubInv, SubscriberOK, Ping
<1>6. CASE link = "up"
  <2>1. /\ Len(sent') = Len(sent) + 1 /\ Len(sent) \in Nat /\ sent'[Len(sent) + 1] = new
        /\ DOMAIN sent' = DOMAIN sent \cup {Len(sent) + 1}
        /\ \A k \in DOMAIN sent : k < Len(sent) + 1 /\ sent'[k] = sent[k]
    BY <1>2, <1>3, <1>4, <1>6, AppendElements
  <2>2. ASSUME NEW k \in DOMAIN sent', \A j \in DOMAIN sent' : j > k => sent'[j].id # sent'[k].id
        PROVE  sent'[k].cursor = view'[sent'[k].id].cursor
    <3>1. CASE k = Len(sent) + 1
      BY <1>3, <2>1, <3>1
    <3>2. CASE k \in DOMAIN sent
      <4>1. sent'[k] = sent[k] /\ sent[k].id # v
        BY <1>3, <1>4, <2>1, <2>2, <3>2
      <4>2. \A j \in DOMAIN sent : j > k => sent[j].id # sent[k].id
        BY <2>1, <2>2, <4>1
      <4> QED
        BY <1>2, <1>4, <3>2, <4>1, <4>2 DEF NewestInv
    <3> QED
      BY <2>1, <3>1, <3>2
  <2>3. \A w \in View : ~ OnTheWay(w)' => w # v /\ ~ OnTheWay(w)
    BY <1>3, <2>1 DEF OnTheWay
  <2>4. ASSUME NEW s \in Subscriber, NEW p \in sub'[s].dirty, ~ sub'[s].resync, ~ OnTheWay(p.id)'
        PROVE  p.cursor = view'[p.id].cursor
    BY <1>2, <1>5, <1>6, <2>3, <2>4 DEF NewestInv
  <2> QED
    BY <2>2, <2>4 DEF NewestInv
<1>7. CASE link # "up"
  BY <1>2, <1>7 DEF NewestInv, HubInv
<1> QED
  BY <1>6, <1>7

(* What is delivered is overtaken by nothing of its view.                  *)
LEMMA DeliverKeepsNewest ==
  ASSUME HubInv, NewestInv, Deliver
  PROVE  NewestInv'
<1>1. link = "up" /\ link' = link /\ view' = view /\ sent # <<>> /\ Publish(Head(sent)) /\ sent' = Tail(sent)
  BY DEF Deliver
<1>2. /\ sent \in Seq(Ping) /\ Head(sent) = sent[1]
      /\ Len(sent) \in Nat /\ Len(sent) > 0 /\ DOMAIN sent = 1 .. Len(sent)
      /\ DOMAIN sent' = 1 .. (Len(sent) - 1)
      /\ \A k \in DOMAIN sent' : sent'[k] = sent[k + 1]
  BY <1>1, HeadTailProperties DEF HubInv
<1>3. PICK p \in Ping : p = sent[1]
  BY <1>2
<1>4. \A w \in View : ~ OnTheWay(w)' => \A j \in DOMAIN sent : j > 1 => sent[j].id # w
  <2> SUFFICES ASSUME NEW w \in View, NEW j \in DOMAIN sent, j > 1, sent[j].id = w
               PROVE  OnTheWay(w)'
    OBVIOUS
  <2>1. j - 1 \in DOMAIN sent' /\ sent'[j - 1] = sent[j]
    BY <1>2
  <2> QED
    BY <2>1 DEF OnTheWay
<1>5. ~ OnTheWay(p.id)' => p.cursor = view[p.id].cursor
  BY <1>2, <1>3, <1>4 DEF NewestInv, Ping
<1>6. \A w \in View : ~ OnTheWay(w)' /\ w # p.id => ~ OnTheWay(w)
  BY <1>2, <1>3, <1>4 DEF OnTheWay
<1>7. ASSUME NEW k \in DOMAIN sent', \A j \in DOMAIN sent' : j > k => sent'[j].id # sent'[k].id
      PROVE  sent'[k].cursor = view'[sent'[k].id].cursor
  <2>1. k + 1 \in DOMAIN sent /\ sent'[k] = sent[k + 1] /\ k \in Nat
    BY <1>2
  <2>2. ASSUME NEW j \in DOMAIN sent, j > k + 1 PROVE sent[j].id # sent[k + 1].id
    <3>1. j - 1 \in DOMAIN sent' /\ sent'[j - 1] = sent[j] /\ j - 1 > k
      BY <1>2, <2>1, <2>2
    <3> QED
      BY <1>7, <2>1, <3>1
  <2> QED
    BY <1>1, <2>1, <2>2 DEF NewestInv
<1>8. ASSUME NEW s \in Subscriber, NEW q \in sub'[s].dirty, ~ sub'[s].resync, ~ OnTheWay(q.id)'
      PROVE  q.cursor = view'[q.id].cursor
  <2>1. SubscriberOK(s, sub[s])
    BY DEF HubInv
  <2>2. sub'[s].resync = sub[s].resync /\ (q = p \/ (q \in sub[s].dirty /\ q.id # p.id))
    <3>1. CASE sub[s].on /\ p.id \in Wants(s)
      <4>1. sub'[s] = [sub[s] EXCEPT !.dirty = {r \in @ : r.id # p.id} \cup {p}, !.open = TRUE]
        BY <1>1, <1>2, <1>3, <3>1 DEF Publish
      <4> QED
        BY <2>1, <4>1 DEF SubscriberOK
    <3>2. CASE ~ (sub[s].on /\ p.id \in Wants(s))
      <4>1. sub'[s] = sub[s]
        BY <1>1, <1>2, <1>3, <3>2 DEF Publish
      <4> QED
        BY <2>1, <3>2, <4>1 DEF SubscriberOK
    <3> QED
      BY <3>1, <3>2
  <2>3. CASE q = p
    BY <1>1, <1>5, <1>8, <2>3
  <2>4. CASE q \in sub[s].dirty /\ q.id # p.id
    <3>1. q.id \in View
      BY <2>1, <2>4 DEF SubscriberOK, Ping
    <3> QED
      BY <1>1, <1>6, <1>8, <2>2, <2>4, <3>1 DEF NewestInv
  <2> QED
    BY <2>2, <2>3, <2>4
<1> QED
  BY <1>7, <1>8 DEF NewestInv

LEMMA StepKeepsNewest ==
  ASSUME LogInv, ViewInv, HubInv, NewestInv, [Next]_vars
  PROVE  NewestInv'
<1>1. ViewInv'
  BY StepGrows
<1>2. CASE Quiet
  <2>1. \A k \in DOMAIN sent : sent[k].id \in View
    BY SentArePings
  <2>2. \A s \in Subscriber : \A p \in sub'[s].dirty : sub'[s] = sub[s] /\ p.id \in View
    BY <1>2 DEF Quiet, HubInv, SubscriberOK, Ping, Subscribed, Unsubscribed
  <2> QED
    BY <1>2, <2>1, <2>2 DEF NewestInv, Quiet, OnTheWay
<1>3. ASSUME NEW v \in View, Project(v) PROVE NewestInv'
  BY <1>1, <1>3, ProjectKeepsNewest
<1>4. CASE Deliver
  BY <1>4, DeliverKeepsNewest
<1>5. CASE Cut \/ Notices
  BY <1>5 DEF Cut, Notices, HubInv, NewestInv
<1>6. CASE Connect
  <2>1. sent' = <<>>
    BY <1>6 DEF Connect, HubInv
  <2>2. \A s \in Subscriber : sub'[s].resync \/ sub'[s].dirty = {}
    BY <1>6 DEF Connect, HubInv, SubscriberOK
  <2> QED
    BY <2>1, <2>2 DEF NewestInv
<1> QED
  BY <1>2, <1>3, <1>4, <1>5, <1>6, QuietSteps

(* What a subscriber has coming it still has after a delivery.             *)
LEMMA DeliverKeepsNews ==
  ASSUME HubInv, Deliver, NEW s \in Subscriber, sub[s].on, NEW v \in Wants(s), HasNews(s, v)
  PROVE  HasNews(s, v)'
<1>1. sent # <<>> /\ Publish(Head(sent)) /\ sent' = Tail(sent)
  BY DEF Deliver
<1>2. /\ sent \in Seq(Ping) /\ Head(sent) = sent[1]
      /\ Len(sent) \in Nat /\ Len(sent) > 0 /\ DOMAIN sent = 1 .. Len(sent)
      /\ DOMAIN sent' = 1 .. (Len(sent) - 1)
      /\ \A k \in DOMAIN sent' : sent'[k] = sent[k + 1]
  BY <1>1, HeadTailProperties DEF HubInv
<1>3. PICK old : old = sub[s] /\ SubscriberOK(s, old)
  BY DEF HubInv
<1>4. sub'[s] = IF sent[1].id \in Wants(s)
                THEN [old EXCEPT !.dirty = {p \in @ : p.id # sent[1].id} \cup {sent[1]}, !.open = TRUE] ELSE old
  BY <1>1, <1>2, <1>3 DEF Publish
<1>5. sub'[s].resync = old.resync
  BY <1>3, <1>4 DEF SubscriberOK
<1>6. /\ \A p \in old.dirty : p \in sub'[s].dirty \/ (p.id = sent[1].id /\ sent[1] \in sub'[s].dirty)
      /\ sent[1].id = v => sent[1] \in sub'[s].dirty
  BY <1>3, <1>4 DEF SubscriberOK
<1>7. CASE old.resync \/ \E p \in old.dirty : p.id = v
  BY <1>3, <1>5, <1>6, <1>7 DEF HasNews
<1>8. ASSUME NEW k \in DOMAIN sent, sent[k].id = v
      PROVE  HasNews(s, v)'
  <2>1. CASE k = 1
    BY <1>6, <1>8, <2>1 DEF HasNews
  <2>2. CASE k # 1
    <3>1. k - 1 \in DOMAIN sent' /\ sent'[k - 1] = sent[k]
      BY <1>2, <2>2
    <3> QED
      BY <1>8, <3>1 DEF HasNews
  <2> QED
    BY <2>1, <2>2
<1> QED
  BY <1>3, <1>7, <1>8 DEF HasNews

(* While the link is up a batch is news, to whoever follows its view.      *)
LEMMA ProjectIsNews ==
  ASSUME ViewInv, ViewInv', HubInv, NEW w \in View, Project(w), link = "up", NEW s \in Subscriber, NEW v \in View
  PROVE  /\ HasNews(s, w)'
         /\ HasNews(s, v) => HasNews(s, v)'
         /\ v # w => view'[v] = view[v]
<1>1. PICK new : new = [id |-> w, cursor |-> view'[w].cursor]
  OBVIOUS
<1>2. /\ sub' = sub /\ sent' = Append(sent, new)
      /\ v # w => view'[v] = view[v]
  BY <1>1, ProjectSends
<1>3. new \in Ping /\ new.id = w
  BY <1>1 DEF ViewInv, Ping
<1>4. sent \in Seq(Ping)
  BY DEF HubInv
<1>5. /\ sent'[Len(sent) + 1] = new /\ DOMAIN sent' = DOMAIN sent \cup {Len(sent) + 1}
      /\ \A k \in DOMAIN sent : sent'[k] = sent[k]
  BY <1>2, <1>3, <1>4, AppendElements
<1> QED
  BY <1>2, <1>3, <1>5 DEF HasNews

(* Who hears again is to look.                                             *)
LEMMA ConnectIsNews ==
  ASSUME HubInv, Connect, NEW s \in Subscriber, sub[s].on, NEW v
  PROVE  HasNews(s, v)'
<1>1. PICK old : old = sub[s] /\ SubscriberOK(s, old)
  BY DEF HubInv
<1>2. sub'[s] = [old EXCEPT !.resync = TRUE, !.open = TRUE]
  BY <1>1 DEF Connect
<1>3. sub'[s].resync
  BY <1>1, <1>2 DEF SubscriberOK
<1> QED
  BY <1>3 DEF HasNews

(* What no step of its own has touched has the news it had.                *)
LEMMA SameNews ==
  ASSUME NEW s, NEW v, sub'[s] = sub[s], sent' = sent
  PROVE  HasNews(s, v)' <=> HasNews(s, v)
BY DEF HasNews

(* Only its own fiber subscribes for a wait or a page, or ends that.       *)
LEMMA OnStays ==
  ASSUME ViewInv, HubInv, NEW s \in Subscriber,
         (\E v \in View : Project(v)) \/ Deliver \/ Cut \/ Notices \/ Connect
  PROVE  sub'[s].on = sub[s].on
<1>1. PICK old : old = sub[s] /\ old \in [on : BOOLEAN, dirty : SUBSET Ping, resync : BOOLEAN, open : BOOLEAN]
  BY DEF HubInv, SubscriberOK
<1>2. CASE (\E v \in View : Project(v)) \/ Cut \/ Notices
  BY <1>2 DEF Project, Cut, Notices
<1>3. CASE Deliver
  BY <1>1, <1>3 DEF Deliver, Publish
<1>4. CASE Connect
  BY <1>1, <1>4 DEF Connect
<1> QED
  BY <1>2, <1>3, <1>4

-----------------------------------------------------------------------------
(* The pages *)

LEMMA FollowsViews ==
  ASSUME NEW g \in Page
  PROVE  Wants(g) = Follows[g] /\ Follows[g] \subseteq View /\ g \in Subscriber /\ g \notin View
BY ReadsConstants DEF Wants, Subscriber

(* A page that nothing of its own has touched, while no ping moves.        *)
LEMMA PageStays ==
  ASSUME Quiet, NEW g \in Page, PageOK(g), page'[g] = page[g], sub'[g] = sub[g]
  PROVE  PageOK(g)'
<1>1. \A v \in Follows[g] : (HasNews(g, v)' <=> HasNews(g, v)) /\ view'[v].cursor = view[v].cursor
  BY FollowsViews, SameNews DEF Quiet
<1> QED
  BY <1>1 DEF PageOK, Pages, Quiet

LEMMA PingsKeepPages ==
  ASSUME ViewInv, ViewInv', HubInv, PageInv, NEW g \in Page, page' = page,
         (\E v \in View : Project(v)) \/ Deliver \/ Cut \/ Notices \/ Connect
  PROVE  PageOK(g)'
<1>1. g \in Subscriber /\ Wants(g) = Follows[g] /\ Follows[g] \subseteq View
  BY FollowsViews
<1>2. PageOK(g)
  BY DEF PageInv
<1>3. page'[g] \in Pages(g) /\ (sub'[g].on <=> page'[g].step # "off")
  BY <1>1, <1>2, OnStays DEF PageOK
<1>4. ASSUME page[g].step = "open", link' = "up", NEW v \in Follows[g], page[g].told[v] # view'[v].cursor
      PROVE  HasNews(g, v)'
  <2>1. sub[g].on
    BY <1>2, <1>4 DEF PageOK
  <2>2. ASSUME NEW w \in View, Project(w) PROVE HasNews(g, v)'
    <3>1. link = "up"
      BY <1>4, <2>2 DEF Project
    <3>2. v = w \/ view'[v] = view[v]
      BY <1>1, <2>2, <3>1, ProjectIsNews
    <3> QED
      BY <1>1, <1>2, <1>4, <2>2, <3>1, <3>2, ProjectIsNews DEF PageOK
  <2>3. CASE Deliver
    <3>1. HasNews(g, v)
      BY <1>2, <1>4, <2>3 DEF PageOK, Deliver
    <3> QED
      BY <1>1, <2>1, <2>3, <3>1, DeliverKeepsNews
  <2>4. CASE Cut \/ Notices
    BY <1>4, <2>4 DEF Cut, Notices
  <2>5. CASE Connect
    BY <1>1, <2>1, <2>5, ConnectIsNews
  <2> QED
    BY <2>2, <2>3, <2>4, <2>5
<1> QED
  BY <1>3, <1>4 DEF PageOK, Pages

LEMMA FeedKeepsPages ==
  ASSUME ViewInv, HubInv, NewestInv, PageInv, NEW g \in Page,
         OpenFeed(g) \/ ReadFeed(g) \/ NextOfFeed(g) \/ CloseFeed(g)
  PROVE  PageInv'
<1>1. g \in Subscriber /\ Wants(g) = Follows[g] /\ Follows[g] \subseteq View
  BY FollowsViews
<1>2. PICK old : old = page[g] /\ old \in Pages(g) /\ PageOK(g)
  BY DEF PageInv, PageOK
<1>3. PICK u : u = sub[g] /\ SubscriberOK(g, u)
  BY <1>1 DEF HubInv
<1>4. UNCHANGED <<view, link, sent>>
  BY DEF OpenFeed, ReadFeed, NextOfFeed, CloseFeed, OnlyPages
<1>5. /\ page' = [page EXCEPT ![g] = page'[g]]
      /\ sub' = [sub EXCEPT ![g] = sub'[g]]
      /\ PageOK(g)'
  <2>1. CASE OpenFeed(g)
    <3>1. page'[g] = [old EXCEPT !.step = "read"] /\ sub'[g] = Subscribed
      BY <1>1, <1>2, <2>1 DEF OpenFeed, PageInv, HubInv
    <3>2. page' = [page EXCEPT ![g] = page'[g]] /\ sub' = [sub EXCEPT ![g] = sub'[g]]
      BY <1>1, <1>2, <2>1 DEF OpenFeed, PageInv, HubInv
    <3> QED
      BY <1>2, <3>1, <3>2 DEF PageOK, Pages, Subscribed, Unsubscribed
  <2>2. CASE ReadFeed(g)
    <3>1. page'[g] = [step |-> "open", told |-> Where(g)] /\ sub' = sub
      BY <1>2, <2>2 DEF ReadFeed, PageInv
    <3>2. page' = [page EXCEPT ![g] = page'[g]] /\ sub' = [sub EXCEPT ![g] = sub'[g]]
      BY <1>1, <1>2, <2>2 DEF ReadFeed, PageInv, HubInv
    <3>3. Where(g) \in [Follows[g] -> Cursor] /\ \A v \in Follows[g] : Where(g)[v] = view[v].cursor
      BY <1>1 DEF Where, ViewInv
    <3> QED
      BY <1>2, <1>4, <2>2, <3>1, <3>2, <3>3 DEF PageOK, Pages, ReadFeed
  <2>3. CASE NextOfFeed(g)
    <3>1. sub'[g] = Subscribed /\ page'[g] = IF u.resync THEN [old EXCEPT !.step = "read"] ELSE [old EXCEPT !.told = Told(g)]
      BY <1>1, <1>2, <1>3, <2>3 DEF NextOfFeed, Taken, PageInv, HubInv
    <3>2. page' = [page EXCEPT ![g] = page'[g]] /\ sub' = [sub EXCEPT ![g] = sub'[g]]
      BY <1>1, <1>2, <2>3 DEF NextOfFeed, Taken, PageInv, HubInv
    <3>3. sub'[g].on
      BY <3>1 DEF Subscribed, Unsubscribed
    <3>4. CASE u.resync
      BY <1>2, <3>1, <3>2, <3>3, <3>4 DEF PageOK, Pages
    <3>5. CASE ~ u.resync
      <4>1. \A v \in Follows[g] : \/ \E p \in u.dirty : p.id = v /\ Told(g)[v] = p.cursor
                                  \/ (\A p \in u.dirty : p.id # v) /\ Told(g)[v] = old.told[v]
        BY <1>2, <1>3 DEF Told
      <4>2. Told(g) \in [Follows[g] -> Cursor]
        <5>1. \A v \in Follows[g] : Told(g)[v] \in Cursor
          BY <1>2, <1>3, <4>1 DEF SubscriberOK, Ping, Pages
        <5> QED
          BY <5>1 DEF Told
      <4>3. old.step = "open"
        BY <1>2, <2>3 DEF NextOfFeed
      <4>4. ASSUME link = "up", NEW v \in Follows[g], Told(g)[v] # view[v].cursor
            PROVE  HasNews(g, v)'
        <5>1. ~ OnTheWay(v) => FALSE
          <6> SUFFICES ASSUME ~ OnTheWay(v) PROVE FALSE
            OBVIOUS
          <6>1. ASSUME NEW p \in u.dirty, p.id = v PROVE p.cursor = view[v].cursor
            BY <1>1, <1>3, <3>5, <4>4, <6>1 DEF NewestInv
          <6>2. (\A p \in u.dirty : p.id # v) => old.told[v] = view[v].cursor
            BY <1>2, <1>3, <3>5, <4>3, <4>4 DEF PageOK, HasNews, OnTheWay
          <6> QED
            BY <4>1, <4>4, <6>1, <6>2
        <5> QED
          BY <1>4, <5>1 DEF HasNews, OnTheWay
      <4>5. page'[g].step = "open" /\ page'[g].told = Told(g) /\ page'[g] \in Pages(g)
        BY <1>2, <3>1, <3>5, <4>2, <4>3 DEF Pages
      <4> QED
        BY <1>4, <3>2, <3>3, <4>4, <4>5 DEF PageOK, Pages
    <3> QED
      BY <3>4, <3>5
  <2>4. CASE CloseFeed(g)
    <3>1. sub'[g] = Unsubscribed /\ page'[g] = Closed(g)
      BY <1>1, <1>2, <2>4 DEF CloseFeed, PageInv, HubInv
    <3>2. page' = [page EXCEPT ![g] = page'[g]] /\ sub' = [sub EXCEPT ![g] = sub'[g]]
      BY <1>1, <1>2, <2>4 DEF CloseFeed, PageInv, HubInv
    <3> QED
      BY <3>1, <3>2 DEF PageOK, Pages, Closed, Unsubscribed, ZeroCursor, Cursor
  <2> QED
    BY <2>1, <2>2, <2>3, <2>4
<1>6. Quiet
  BY <1>1, <1>4, OneSubscriber DEF OpenFeed, ReadFeed, NextOfFeed, CloseFeed, OnlyPages, Taken
<1>7. ASSUME NEW h \in Page, h # g PROVE PageOK(h)'
  <2>1. page'[h] = page[h] /\ sub'[h] = sub[h]
    BY <1>5, <1>7, FollowsViews DEF PageInv, HubInv
  <2> QED
    BY <1>6, <2>1, PageStays DEF PageInv
<1> QED
  BY <1>5, <1>7 DEF PageInv

LEMMA StepKeepsPages ==
  ASSUME LogInv, ViewInv, HubInv, NewestInv, PageInv, [Next]_vars
  PROVE  PageInv'
<1>1. ViewInv'
  BY StepGrows
<1>2. CASE PageStep
  BY <1>2, FeedKeepsPages DEF PageStep
<1>3. CASE (\E v \in View : Project(v)) \/ Deliver \/ Cut \/ Notices \/ Connect
  <2>1. page' = page
    BY <1>3 DEF Project, Deliver, Cut, Notices, Connect
  <2>2. \A g \in Page : PageOK(g)'
    BY <1>1, <1>3, <2>1, PingsKeepPages
  <2> QED
    BY <2>1, <2>2 DEF PageInv
<1>4. CASE /\ ~ PageStep
           /\ ~ ((\E v \in View : Project(v)) \/ Deliver \/ Cut \/ Notices \/ Connect)
  <2>1. Quiet
    BY <1>4, QuietSteps
  <2>2. page' = page /\ \A g \in Page : sub'[g] = sub[g]
    <3>1. CASE WriterStep
      BY <3>1 DEF WriterStep, hubVars
    <3>2. CASE ViewStep
      BY <1>4, <3>2 DEF ViewStep, Fails, Reset, SetStatus, hubVars
    <3>3. CASE Ask \/ Check \/ TimePasses \/ Settle \/ Run
      BY <3>3 DEF Ask, Check, TimePasses, Settle, Run, hubVars
    <3>4. ASSUME NEW v \in View, WaitStep(v) PROVE page' = page /\ \A g \in Page : sub'[g] = sub[g]
      <4>1. page' = page /\ (sub' = sub \/ \E u : sub' = [sub EXCEPT ![v] = u])
        BY <3>4 DEF WaitStep, Subscribe, Look, AskPending, Woken, PauseEnds, OnlyWaits, Ends, Taken
      <4>2. \A g \in Page : g \in Subscriber /\ g # v
        BY FollowsViews
      <4> QED
        BY <4>1, <4>2 DEF HubInv
    <3>5. CASE UNCHANGED vars
      BY <3>5 DEF vars, hubVars
    <3> QED
      BY <1>4, <3>1, <3>2, <3>3, <3>4, <3>5 DEF Next, HubStep
  <2>3. \A g \in Page : PageOK(g)'
    BY <2>1, <2>2, PageStays DEF PageInv
  <2> QED
    BY <2>2, <2>3 DEF PageInv
<1> QED
  BY <1>2, <1>3, <1>4

-----------------------------------------------------------------------------
(* The waits *)

LEMMA WantsItself ==
  ASSUME NEW v \in View
  PROVE  v \in Subscriber /\ Wants(v) = {v} /\ v \in Wants(v)
BY DEF Subscriber, Wants

(* What is left to do for a write is left while the view does not move.    *)
LEMMA PendingStays ==
  ASSUME Grows, NEW v \in View, NEW after, NEW upTo, Pending(v, after, upTo)
  PROVE  Pending(v, after, upTo)'
BY DEF Grows, Pending, Handles, AtOrPast

(* A wait that nothing of its own has touched, while no ping moves.        *)
LEMMA WaitStays ==
  ASSUME LogInv, Grows, Quiet, NEW v \in View, WaitOK(v), wait'[v] = wait[v], sub'[v] = sub[v],
         wait[v].step # "caught_up" => request'.step = "wait" /\ request'.write = request.write
  PROVE  WaitOK(v)'
<1>1. (HasNews(v, v)' <=> HasNews(v, v)) /\ view'[v].cursor = view[v].cursor /\ link' = link
  BY SameNews DEF Quiet
<1>2. ASSUME wait[v].step = "pending" PROVE HandledTo(v, wait[v].cursor)'
  <2>1. PICK c : c = wait[v].cursor
    OBVIOUS
  <2>2. HandledTo(v, c)'
    BY <1>2, <2>1, HandledStays DEF WaitOK
  <2> QED
    BY <2>1, <2>2
<1>3. ASSUME wait[v].step = "listening", link = "up", ~ HasNews(v, v)
      PROVE  Pending(v, view[v].cursor, request.write)'
  <2>1. PICK c, w : c = view[v].cursor /\ w = request.write
    OBVIOUS
  <2>2. Pending(v, c, w)'
    BY <1>3, <2>1, PendingStays DEF WaitOK
  <2> QED
    BY <1>1, <1>3, <2>1, <2>2
<1> QED
  BY <1>1, <1>2, <1>3 DEF WaitOK

LEMMA PingsKeepWaits ==
  ASSUME LogInv, Grows, ViewInv, ViewInv', HubInv, WaitInv, NEW v \in View, wait' = wait, request' = request,
         (\E w \in View : Project(w)) \/ Deliver \/ Cut \/ Notices \/ Connect
  PROVE  WaitOK(v)'
<1>1. v \in Subscriber /\ v \in Wants(v)
  BY WantsItself
<1>2. WaitOK(v)
  BY DEF WaitInv
<1>3. wait'[v] \in Waits /\ (sub'[v].on <=> wait'[v].step \in Listens)
      /\ (wait'[v].step # "caught_up" => v \in Endpoint /\ request'.step = "wait")
  BY <1>1, <1>2, OnStays DEF WaitOK
<1>4. ASSUME wait[v].step = "pending" PROVE HandledTo(v, wait[v].cursor)'
  <2>1. PICK c : c = wait[v].cursor
    OBVIOUS
  <2>2. HandledTo(v, c)'
    BY <1>2, <1>4, <2>1, HandledStays DEF WaitOK
  <2> QED
    BY <2>1, <2>2
<1>5. ASSUME wait[v].step \in {"pending", "listening"}, link' = "up"
      PROVE  \/ HasNews(v, v)'
             \/ ~ HasNews(v, v) /\ link = "up" /\ view'[v].cursor = view[v].cursor
  <2>1. sub[v].on
    BY <1>2, <1>5 DEF WaitOK, Listens
  <2>2. ASSUME NEW w \in View, Project(w)
        PROVE  HasNews(v, v)' \/ (~ HasNews(v, v) /\ link = "up" /\ view'[v].cursor = view[v].cursor)
    <3>1. link = "up"
      BY <1>5, <2>2 DEF Project
    <3> QED
      BY <1>1, <2>2, <3>1, ProjectIsNews
  <2>3. CASE Deliver
    <3>1. link = "up" /\ view' = view
      BY <2>3 DEF Deliver
    <3> QED
      BY <1>1, <2>1, <2>3, <3>1, DeliverKeepsNews
  <2>4. CASE Cut \/ Notices
    BY <1>5, <2>4 DEF Cut, Notices
  <2>5. CASE Connect
    BY <1>1, <2>1, <2>5, ConnectIsNews
  <2> QED
    BY <2>2, <2>3, <2>4, <2>5
<1>6. ASSUME wait[v].step = "listening", link' = "up", ~ HasNews(v, v)'
      PROVE  Pending(v, view[v].cursor, request.write)'
  <2>1. PICK c, w : c = view[v].cursor /\ w = request.write
    OBVIOUS
  <2>2. Pending(v, c, w)'
    BY <1>2, <1>5, <1>6, <2>1, PendingStays DEF WaitOK
  <2> QED
    BY <1>5, <1>6, <2>1, <2>2
<1>7. ASSUME wait[v].step = "pending", link' = "up", ~ HasNews(v, v)'
      PROVE  wait[v].cursor = view'[v].cursor
  BY <1>2, <1>5, <1>7 DEF WaitOK
<1> QED
  BY <1>3, <1>4, <1>6, <1>7 DEF WaitOK

LEMMA AtIsWait ==
  ASSUME NEW s \in Listens \cup {"wait", "caught_up", "failed", "late"}
  PROVE  At(s) \in Waits /\ At(s).step = s
BY DEF At, Waits, ZeroCursor, Cursor

LEMMA PendingIsWait ==
  ASSUME NEW c \in Cursor, NEW s \in {"ACTIVE", "FAILED"}
  PROVE  [step |-> "pending", cursor |-> c, status |-> s] \in Waits
BY DEF Waits, Listens

LEMMA SubscribedIsOn ==
  Subscribed.on = TRUE /\ Unsubscribed.on = FALSE
BY DEF Subscribed, Unsubscribed

LEMMA VerdictIsOne ==
  ASSUME NEW v, NEW write, NEW cursor, NEW status, NEW pending
  PROVE  /\ Verdict(v, write, cursor, status, pending) \in {"caught_up", "failed", "wait"}
         /\ Verdict(v, write, cursor, status, pending) = "wait" => pending
         /\ Verdict(v, write, cursor, status, pending) = "caught_up" => AtOrPast(cursor, write) \/ ~ pending
BY DEF Verdict

(* A wait that ends, and one that looks.                                   *)
LEMMA EndedWait ==
  ASSUME HubInv, WaitInv, NEW v \in View, NEW s \in {"caught_up", "failed", "late"}, Ends(v, s),
         v \in Endpoint, request'.step = "wait"
  PROVE  WaitOK(v)'
<1>1. wait'[v] = At(s) /\ sub'[v] = Unsubscribed
  BY WantsItself DEF Ends, WaitInv, HubInv
<1>2. wait'[v] \in Waits /\ wait'[v].step = s /\ ~ sub'[v].on
  BY <1>1, AtIsWait, SubscribedIsOn
<1> QED
  BY <1>2 DEF WaitOK, Listens

LEMMA LookingWait ==
  ASSUME NEW v \in View, WaitOK(v), wait'[v] = [wait[v] EXCEPT !.step = "look"], sub'[v].on,
         v \in Endpoint, request'.step = "wait"
  PROVE  WaitOK(v)'
<1>1. wait'[v] \in Waits /\ wait'[v].step = "look"
  BY DEF WaitOK, Waits, Listens
<1> QED
  BY <1>1 DEF WaitOK, Listens

LEMMA FiberKeepsWait ==
  ASSUME LogInv, ViewInv, ViewInv', HubInv, WaitInv, NEW v \in View, WaitStep(v)
  PROVE  /\ WaitOK(v)'
         /\ UNCHANGED <<logVars, view, link, sent, request>>
         /\ \A w \in View \ {v} : wait'[w] = wait[w] /\ sub'[w] = sub[w]
         /\ wait' = [w \in View |-> wait'[w]]
<1>1. v \in Subscriber /\ View \subseteq Subscriber
  BY DEF Subscriber
<1>2. WaitOK(v)
  BY DEF WaitInv
<1>3. UNCHANGED <<logVars, view, link, sent, request>>
  BY DEF WaitStep, Subscribe, Look, AskPending, Woken, PauseEnds, OnlyWaits
<1>4. v \in Endpoint /\ request.step = "wait" /\ request'.step = "wait"
  BY <1>2, <1>3 DEF WaitStep, Subscribe, Look, AskPending, Woken, PauseEnds, WaitOK
<1>5. /\ \A w \in View \ {v} : wait'[w] = wait[w] /\ sub'[w] = sub[w]
      /\ wait' = [w \in View |-> wait'[w]]
  <2>1. /\ \E u : wait' = [wait EXCEPT ![v] = u]
        /\ sub' = sub \/ \E u : sub' = [sub EXCEPT ![v] = u]
    BY DEF WaitStep, Subscribe, Look, AskPending, Woken, PauseEnds, Ends, Taken
  <2> QED
    BY <1>1, <2>1 DEF WaitInv, HubInv
<1>6. WaitOK(v)'
  <2>1. CASE Subscribe(v)
    <3>1. wait'[v] = [wait[v] EXCEPT !.step = "look"] /\ sub'[v] = Subscribed
      BY <1>1, <2>1 DEF Subscribe, WaitInv, HubInv
    <3> QED
      BY <1>2, <1>4, <3>1, LookingWait, SubscribedIsOn
  <2>2. CASE Look(v)
    <3>1. CASE Ends(v, "caught_up")
      BY <1>4, <3>1, EndedWait
    <3>2. CASE /\ wait' = [wait EXCEPT ![v] = [step |-> "pending", cursor |-> view[v].cursor, status |-> view[v].status]]
               /\ sub' = sub
      <4>1. wait'[v] = [step |-> "pending", cursor |-> view[v].cursor, status |-> view[v].status]
        BY <3>2 DEF WaitInv
      <4>2. wait'[v] \in Waits
        <5>1. view[v].cursor \in Cursor /\ view[v].status \in {"ACTIVE", "FAILED"}
          BY DEF ViewInv
        <5> QED
          BY <4>1, <5>1, PendingIsWait
      <4>3. sub'[v].on
        BY <1>2, <2>2, <3>2 DEF WaitOK, Listens, Look
      <4>4. HandledTo(v, wait[v].cursor)'
        BY <1>3, <4>1 DEF ViewInv
      <4> QED
        BY <1>3, <1>4, <4>1, <4>2, <4>3, <4>4 DEF WaitOK, Listens
    <3> QED
      BY <2>2, <3>1, <3>2 DEF Look
  <2>3. CASE AskPending(v)
    <3> DEFINE verdict == Verdict(v, request.write, wait[v].cursor, wait[v].status,
                                  Pending(v, wait[v].cursor, request.write))
               pause == IF link = "down" THEN "asleep" ELSE "listening"
    <3>1. verdict \in {"caught_up", "failed", "wait"} /\ (verdict = "wait" => Pending(v, wait[v].cursor, request.write))
      BY VerdictIsOne
    <3>2. wait[v].step = "pending" /\ \/ verdict # "wait" /\ Ends(v, verdict)
                                      \/ Ends(v, "late")
                                      \/ verdict = "wait" /\ wait' = [wait EXCEPT ![v] = At(pause)] /\ sub' = sub
      BY <2>3 DEF AskPending
    <3> HIDE DEF verdict
    <3>3. CASE verdict # "wait" /\ Ends(v, verdict)
      BY <1>4, <3>1, <3>3, EndedWait
    <3>4. CASE Ends(v, "late")
      BY <1>4, <3>4, EndedWait
    <3>5. CASE verdict = "wait" /\ wait' = [wait EXCEPT ![v] = At(pause)] /\ sub' = sub
      <4>1. wait'[v] = At(pause) /\ pause \in Listens
        BY <3>5 DEF WaitInv, Listens
      <4>2. wait'[v] \in Waits /\ wait'[v].step = pause /\ sub'[v].on
        BY <1>2, <3>2, <3>5, <4>1, AtIsWait DEF WaitOK, Listens
      <4>3. ASSUME link = "up", ~ HasNews(v, v) PROVE Pending(v, view[v].cursor, request.write)
        BY <1>2, <3>1, <3>2, <3>5, <4>3 DEF WaitOK
      <4>4. ASSUME link' = "up", ~ HasNews(v, v)' PROVE Pending(v, view[v].cursor, request.write)'
        <5>1. ~ HasNews(v, v)
          BY <1>3, <3>5, <4>4, SameNews
        <5> QED
          BY <1>3, <4>3, <4>4, <5>1 DEF Pending, CommittedRows, logVars, Handles, AtOrPast
      <4> QED
        BY <1>4, <4>1, <4>2, <4>4 DEF WaitOK
    <3> QED
      BY <3>2, <3>3, <3>4, <3>5
  <2>4. CASE Woken(v)
    <3>1. CASE Ends(v, "caught_up")
      BY <1>4, <3>1, EndedWait
    <3>2. CASE wait' = [wait EXCEPT ![v].step = "look"] /\ Taken(v)
      <4>1. wait'[v] = [wait[v] EXCEPT !.step = "look"] /\ sub'[v] = Subscribed
        BY <1>1, <3>2 DEF Taken, WaitInv, HubInv
      <4> QED
        BY <1>2, <1>4, <4>1, LookingWait, SubscribedIsOn
    <3> QED
      BY <2>4, <3>1, <3>2 DEF Woken
  <2>5. CASE PauseEnds(v)
    <3>1. wait'[v] = [wait[v] EXCEPT !.step = "look"] /\ sub'[v].on
      BY <1>2, <2>5 DEF PauseEnds, WaitInv, WaitOK, Listens
    <3> QED
      BY <1>2, <1>4, <3>1, LookingWait
  <2> QED
    BY <2>1, <2>2, <2>3, <2>4, <2>5 DEF WaitStep
<1> QED
  BY <1>3, <1>5, <1>6

(* No wait is under way but of a request that waits.                       *)
LEMMA NoWaitElsewhere ==
  ASSUME WaitInv, request.step # "wait", NEW v \in View
  PROVE  wait[v].step = "caught_up" /\ ~ sub[v].on
BY DEF WaitInv, WaitOK, Listens

LEMMA RequestShape ==
  ASSUME RequestInv, request.step # "none"
  PROVE  request \in Requests
BY DEF RequestInv, NoRequest

(* The first look starts the waits, and the outcomes end them.             *)
LEMMA ReadKeepsWaits ==
  ASSUME WaitInv, RequestInv, Check \/ Settle
  PROVE  wait' = [v \in View |-> wait'[v]] /\ \A v \in View : WaitOK(v)'
<1>1. CASE Check /\ wait' = wait
  BY <1>1, NoWaitElsewhere DEF Check, hubVars, WaitInv, WaitOK, Listens
<1>2. ASSUME Check, request'.step = "wait", NEW verdict, \A v \in View : verdict[v] \in {"caught_up", "failed", "wait"},
             wait' = [v \in View |-> At(IF v \in Endpoint THEN verdict[v] ELSE "caught_up")]
      PROVE  wait' = [v \in View |-> wait'[v]] /\ \A v \in View : WaitOK(v)'
  <2>1. ASSUME NEW v \in View PROVE WaitOK(v)'
    <3>1. PICK s \in {"caught_up", "failed", "wait"} : wait'[v] = At(s) /\ (v \notin Endpoint => s = "caught_up")
      BY <1>2
    <3>2. wait'[v] \in Waits /\ wait'[v].step = s
      BY <3>1, AtIsWait
    <3>3. ~ sub'[v].on
      BY <1>2, NoWaitElsewhere DEF Check, hubVars
    <3> QED
      BY <1>2, <3>1, <3>2, <3>3 DEF WaitOK, Listens
  <2> QED
    BY <1>2, <2>1
<1>3. CASE Settle
  <2>1. ASSUME NEW v \in View PROVE WaitOK(v)'
    <3>1. wait'[v] \in Waits /\ wait'[v].step = "caught_up"
      BY <1>3, AtIsWait DEF Settle
    <3>2. ~ sub'[v].on
      BY <1>3 DEF Settle, hubVars, Over, WaitInv, WaitOK, Listens
    <3> QED
      BY <3>1, <3>2 DEF WaitOK, Listens
  <2> QED
    BY <1>3, <2>1 DEF Settle
<1>4. CASE Check /\ wait' # wait
  <2> DEFINE write == IF request.policy.target = "latest" THEN End ELSE request.write
             verdict == [v \in View |-> Verdict(v, write, view[v].cursor, view[v].status, Pending(v, view[v].cursor, write))]
  <2>1. \A v \in View : verdict[v] \in {"caught_up", "failed", "wait"}
    BY VerdictIsOne
  <2>2. /\ request' = [request EXCEPT !.step = "wait", !.write = write, !.policy.target = "marker"]
        /\ wait' = [v \in View |-> At(IF v \in Endpoint THEN verdict[v] ELSE "caught_up")]
    BY <1>4 DEF Check
  <2>3. request'.step = "wait"
    BY <1>4, <2>2, RequestShape DEF Check, Requests
  <2> HIDE DEF verdict
  <2> QED
    BY <1>2, <1>4, <2>1, <2>2, <2>3
<1> QED
  BY <1>1, <1>3, <1>4

LEMMA StepKeepsWaits ==
  ASSUME LogInv, ViewInv, HubInv, WaitInv, RequestInv, [Next]_vars
  PROVE  WaitInv'
<1>1. Grows /\ ViewInv'
  BY StepGrows
<1>2. CASE (\E v \in View : Project(v)) \/ Deliver \/ Cut \/ Notices \/ Connect
  <2>1. wait' = wait /\ request' = request
    BY <1>2 DEF Project, Deliver, Cut, Notices, Connect, readVars
  <2> QED
    BY <1>1, <1>2, <2>1, PingsKeepWaits DEF WaitInv
<1>3. CASE Check \/ Settle
  BY <1>3, ReadKeepsWaits DEF WaitInv
<1>4. ASSUME NEW v \in View, WaitStep(v), Quiet PROVE WaitInv'
  <2>1. /\ WaitOK(v)'
        /\ UNCHANGED <<logVars, view, link, sent, request>>
        /\ \A w \in View \ {v} : wait'[w] = wait[w] /\ sub'[w] = sub[w]
        /\ wait' = [w \in View |-> wait'[w]]
    BY <1>1, <1>4, FiberKeepsWait
  <2>2. ASSUME NEW w \in View, w # v PROVE WaitOK(w)'
    BY <1>1, <1>4, <2>1, <2>2, WaitStays DEF WaitInv, WaitOK
  <2> QED
    BY <2>1, <2>2 DEF WaitInv
<1>5. ASSUME Quiet, wait' = wait, \A v \in View : sub'[v] = sub[v],
             \A v \in View : wait[v].step # "caught_up" => request'.step = "wait" /\ request'.write = request.write
      PROVE  WaitInv'
  <2>1. \A v \in View : WaitOK(v)'
    BY <1>1, <1>5, WaitStays DEF WaitInv
  <2> QED
    BY <1>5, <2>1 DEF WaitInv
<1>6. \A v \in View : wait[v].step # "caught_up" => request.step = "wait"
  BY DEF WaitInv, WaitOK
<1>7. CASE /\ Quiet /\ ~ (Check \/ Settle)
           /\ ~ ((\E v \in View : Project(v)) \/ Deliver \/ Cut \/ Notices \/ Connect)
  <2>1. CASE WriterStep
    BY <1>5, <1>6, <1>7, <2>1 DEF WriterStep, hubVars, readVars
  <2>2. CASE ViewStep
    BY <1>5, <1>6, <1>7, <2>2 DEF ViewStep, Fails, Reset, SetStatus, hubVars, readVars
  <2>3. CASE Ask \/ Run
    BY <1>5, <1>6, <1>7, <2>3 DEF Ask, Run, hubVars
  <2>4. CASE TimePasses
    <3>1. request' = [request EXCEPT !.late = TRUE] /\ request \in Requests
      BY <2>4, RequestShape DEF TimePasses
    <3>2. request'.step = request.step /\ request'.write = request.write
      BY <3>1 DEF Requests
    <3> QED
      BY <1>5, <1>6, <1>7, <2>4, <3>2 DEF TimePasses, hubVars
  <2>5. CASE \E v \in View : WaitStep(v)
    BY <1>4, <1>7, <2>5
  <2>6. ASSUME NEW g \in Page, OpenFeed(g) \/ ReadFeed(g) \/ NextOfFeed(g) \/ CloseFeed(g) PROVE WaitInv'
    <3>1. wait' = wait /\ request' = request /\ (sub' = sub \/ \E u : sub' = [sub EXCEPT ![g] = u])
      BY <2>6 DEF OpenFeed, ReadFeed, NextOfFeed, CloseFeed, OnlyPages, readVars, Taken
    <3>2. \A v \in View : v \in Subscriber /\ v # g
      BY FollowsViews, WantsItself
    <3>3. \A v \in View : sub'[v] = sub[v]
      BY <3>1, <3>2 DEF HubInv
    <3> QED
      BY <1>5, <1>6, <1>7, <3>1, <3>3
  <2>7. CASE UNCHANGED vars
    BY <1>5, <1>6, <1>7, <2>7 DEF vars, hubVars, readVars
  <2> QED
    BY <1>7, <2>1, <2>2, <2>3, <2>4, <2>5, <2>6, <2>7 DEF Next, HubStep, PageStep
<1> QED
  BY <1>2, <1>3, <1>7, QuietSteps

-----------------------------------------------------------------------------
(* The request *)

LEMMA Modes ==
  /\ DOMAIN Strictness = {"strict", "bounded", "eventual"}
  /\ Strictness["strict"] = 2 /\ Strictness["bounded"] = 1 /\ Strictness["eventual"] = 0
BY DEF Strictness

(* What a request may get at loosest the endpoint allows: an answer that   *)
(* waited for nothing, and one that is stale.                              *)
LEMMA PolicyIsGranted ==
  ASSUME NEW base \in Endpoints, NEW asks \in Asks, ~ Rejected(base, asks)
  PROVE  LET policy == Policy(base, asks)
         IN  /\ policy \in [mode : DOMAIN Strictness, target : {"none", "latest", "marker", "forged"}]
             /\ Granted(base, asks) \in BOOLEAN
             /\ policy.target = "none" => Granted(base, asks)
             /\ Granted(base, asks) \/ policy.mode = "strict"
<1>1. /\ base.mode \in {"strict", "bounded", "eventual"} /\ base.whenNoMarker \in {"latest", "none"}
      /\ base.clientMayRelax \in BOOLEAN
  BY EndpointSettings, Modes
<1>2. /\ asks.mode \in {"", "strict", "bounded", "eventual"}
      /\ asks.with \in {"", "latest", "marker", "forged"} /\ asks.malformed \in BOOLEAN
  BY Modes DEF Asks
<1>3. PICK mode, target : /\ mode = IF asks.mode = "" THEN base.mode ELSE asks.mode
                          /\ target = IF mode = "eventual" THEN "none"
                                      ELSE IF asks.with = "" THEN base.whenNoMarker ELSE asks.with
  OBVIOUS
<1>4. Policy(base, asks) = [mode |-> mode, target |-> target]
  BY <1>3 DEF Policy
<1>5. mode \in {"strict", "bounded", "eventual"} /\ target \in {"none", "latest", "marker", "forged"}
  BY <1>1, <1>2, <1>3
<1>6. base.clientMayRelax \/ asks.mode = "" \/ ~ (Strictness[asks.mode] < Strictness[base.mode])
  BY DEF Rejected
<1>7. \/ base.clientMayRelax
      \/ /\ mode = "bounded" => base.mode # "strict"
         /\ mode = "eventual" => base.mode = "eventual"
  <2>1. CASE asks.mode = "" \/ base.clientMayRelax
    BY <1>3, <2>1
  <2>2. CASE asks.mode # "" /\ ~ base.clientMayRelax
    <3>1. mode = asks.mode /\ ~ (Strictness[mode] < Strictness[base.mode])
      BY <1>6, <1>3, <2>2
    <3>2. mode = "bounded" => base.mode # "strict"
      BY <3>1, Modes
    <3>3. mode = "eventual" => base.mode = "eventual"
      BY <1>1, <3>1, Modes
    <3> QED
      BY <3>2, <3>3
  <2> QED
    BY <2>1, <2>2
<1>8. Policy(base, asks).mode = mode /\ Policy(base, asks).target = target
  BY <1>4
<1>9. target = "none" => mode = "eventual" \/ (asks.with = "" /\ base.whenNoMarker = "none")
  BY <1>2, <1>3
<1>10. Granted(base, asks) = (\/ base.clientMayRelax
                             \/ IF target # "none" THEN base.mode # "strict" \/ mode = "strict"
                                ELSE base.mode = "eventual" \/ (asks.with = "" /\ base.whenNoMarker = "none"))
  BY <1>8 DEF Granted
<1>11. /\ Granted(base, asks) \in BOOLEAN
       /\ target = "none" => Granted(base, asks)
       /\ Granted(base, asks) \/ mode = "strict"
  BY <1>1, <1>5, <1>7, <1>9, <1>10
<1> QED
  BY <1>4, <1>5, <1>8, <1>11, Modes

(* Where a write of the log ends, and where the log does.                  *)
LEMMA EndOfRows ==
  ASSUME LogInv, NEW S \in SUBSET CommittedRows
  PROVE  /\ LastOf(S, ZeroCursor) \in Cursor
         /\ \A r \in S : AtOrPast(LastOf(S, ZeroCursor), r)
<1>1. CASE S = {}
  BY <1>1 DEF LastOf, ZeroCursor, Cursor
<1>2. CASE S # {}
  <2>1. \A r \in S : IsRow(r) /\ r.xid < nextXid /\ r.pos < nextPos
    BY DEF LogInv, CommittedRows
  <2>2. nextXid \in Nat /\ nextPos \in Nat
    BY DEF LogInv
  <2>3. PICK r \in S : LastOf(S, ZeroCursor) = [xid |-> r.xid, pos |-> r.pos] /\ \A q \in S : ~ After(q, r)
    BY <1>2, <2>1, <2>2, LastOfRows
  <2> QED
    BY <2>1, <2>3 DEF IsRow, Cursor, AtOrPast, After
<1> QED
  BY <1>1, <1>2

LEMMA MarkerIsCursor ==
  ASSUME LogInv, NEW m \in Markers \cup {Forged}
  PROVE  m \in Cursor
<1>1. CASE m = Forged
  BY <1>1, ReadsConstants DEF Forged, Cursor
<1>2. CASE m \in Markers
  <2>1. PICK x : m = LastOf({r \in CommittedRows : r.xid = x}, ZeroCursor)
    BY <1>2 DEF Markers
  <2> QED
    BY <2>1, EndOfRows
<1> QED
  BY <1>1, <1>2

(* A view that is past the write, or has nothing to do up to it, shows     *)
(* what the write stands for.                                              *)
LEMMA CaughtUpShows ==
  ASSUME LogInv, ViewInv, NEW v \in View, NEW c, HandledTo(v, c), NEW write \in Cursor,
         NEW owed \in SUBSET CommittedRows, \A r \in owed : AtOrPast(write, r),
         AtOrPast(c, write) \/ ~ Pending(v, c, write)
  PROVE  {r \in owed : Handles(v, r)} \subseteq view[v].holds
<1> SUFFICES ASSUME NEW r \in owed, Handles(v, r) PROVE r \in view[v].holds
  OBVIOUS
<1>1. r \in CommittedRows /\ r.xid \in Nat /\ r.pos \in Nat
  BY DEF CommittedRows, LogInv, IsRow
<1>2. c.xid \in Nat /\ c.pos \in Nat /\ write.xid \in Nat /\ write.pos \in Nat
  BY DEF HandledTo, Cursor
<1>3. AtOrPast(c, r)
  <2>1. CASE AtOrPast(c, write)
    BY <1>1, <1>2, <2>1 DEF AtOrPast, After
  <2>2. CASE ~ Pending(v, c, write)
    BY <1>1, <2>2 DEF Pending, AtOrPast
  <2> QED
    BY <2>1, <2>2
<1> QED
  BY <1>1, <1>3 DEF HandledTo

LEMMA ShownStays ==
  ASSUME Grows, NEW v \in View, Shown(v), request'.owed = request.owed
  PROVE  Shown(v)'
BY DEF Grows, Shown, Handles

(* A request that a step leaves alone, with at most new outcomes that are  *)
(* what they say.                                                          *)
LEMMA RequestStays ==
  ASSUME Grows, RequestInv, request' = request,
         request.step = "wait" => \A v \in Endpoint : wait'[v].step = "caught_up" => Shown(v) \/ wait[v].step = "caught_up"
  PROVE  RequestInv'
<1>1. CASE request = NoRequest
  BY <1>1 DEF RequestInv
<1>2. CASE request # NoRequest
  <2>1. request \in Requests /\ request \in Requests'
    BY <1>2 DEF RequestInv, Requests, Grows
  <2>2. \A v \in Endpoint : Shown(v) => Shown(v)'
    BY ReadsConstants, ShownStays
  <2> QED
    BY <1>2, <2>1, <2>2 DEF RequestInv, AtOrPast
<1> QED
  BY <1>1, <1>2

LEMMA AskKeepsRequest ==
  ASSUME LogInv, Ask
  PROVE  RequestInv'
<1>1. PICK base \in Endpoints, asks \in Asks, m \in Markers \cup {Forged} :
        ~ Rejected(base, asks) /\ request' = Asked(base, asks, m)
  BY DEF Ask
<1>2. PICK policy : policy = Policy(base, asks)
  OBVIOUS
<1>3. /\ policy \in [mode : DOMAIN Strictness, target : {"none", "latest", "marker", "forged"}]
      /\ Granted(base, asks) \in BOOLEAN
      /\ policy.target = "none" => Granted(base, asks)
      /\ Granted(base, asks) \/ policy.mode = "strict"
  BY <1>1, <1>2, PolicyIsGranted
<1>4. m \in Cursor
  BY <1>1, MarkerIsCursor
<1>5. PICK step, answer, owed, granted :
        /\ step = IF policy.target # "none" THEN "check" ELSE "run"
        /\ answer = IF policy.target # "none" THEN "fresh" ELSE "unchecked"
        /\ owed = {r \in CommittedRows : policy.target = "latest" \/ AtOrPast(m, r)}
        /\ granted = Granted(base, asks)
  OBVIOUS
<1>6. request' = [step |-> step, granted |-> granted, policy |-> policy, late |-> FALSE, write |-> m,
                  answer |-> answer, owed |-> owed]
  BY <1>1, <1>2, <1>5 DEF Asked
<1>7. step \in {"check", "run"} /\ answer \in {"fresh", "unchecked"} /\ (step = "check" <=> policy.target # "none")
      /\ (answer = "fresh" <=> step = "check")
  BY <1>5
<1>8. CommittedRows' = CommittedRows
  BY DEF Ask, CommittedRows, logVars
<1>9. owed \subseteq CommittedRows /\ (policy.target = "latest" \/ \A r \in owed : AtOrPast(m, r))
  BY <1>5
<1>10. request' \in Requests'
  BY <1>3, <1>4, <1>5, <1>6, <1>7, <1>8, <1>9 DEF Requests
<1>11. /\ request'.step = step /\ request'.granted = granted /\ request'.policy = policy /\ request'.write = m
       /\ request'.answer = answer /\ request'.owed = owed
  BY <1>6
<1> QED
  BY <1>3, <1>5, <1>7, <1>9, <1>10, <1>11 DEF RequestInv, AtOrPast

LEMMA CheckKeepsRequest ==
  ASSUME LogInv, ViewInv, RequestInv, Check
  PROVE  RequestInv'
<1>1. request.step = "check" /\ request \in Requests
  BY RequestShape DEF Check
<1>2. PICK write : write = IF request.policy.target = "latest" THEN End ELSE request.write
  OBVIOUS
<1>3. write \in Cursor /\ \A r \in request.owed : AtOrPast(write, r)
  <2>1. End \in Cursor /\ \A r \in CommittedRows : AtOrPast(End, r)
    BY EndOfRows DEF End
  <2>2. request.owed \subseteq CommittedRows /\ request.write \in Cursor
    BY <1>1 DEF Requests
  <2>3. request # NoRequest
    BY <1>1 DEF NoRequest
  <2> QED
    BY <1>1, <1>2, <2>1, <2>2, <2>3 DEF RequestInv
<1>4. CommittedRows' = CommittedRows /\ UNCHANGED <<logVars, view>>
  BY DEF Check, CommittedRows, logVars
<1>5. CASE request' = NoRequest
  BY <1>5 DEF RequestInv
<1>6. CASE /\ request' = [request EXCEPT !.step = "wait", !.write = write, !.policy.target = "marker"]
           /\ wait' = [v \in View |-> At(IF v \in Endpoint
                        THEN Verdict(v, write, view[v].cursor, view[v].status, Pending(v, view[v].cursor, write))
                        ELSE "caught_up")]
  <2>1. request' \in Requests'
    BY <1>1, <1>3, <1>4, <1>6 DEF Requests
  <2>2. /\ request'.step = "wait" /\ request'.write = write /\ request'.owed = request.owed
        /\ request'.answer = request.answer /\ request'.granted = request.granted
        /\ request'.policy.mode = request.policy.mode
    BY <1>1, <1>6 DEF Requests
  <2>3. request.answer = "fresh" /\ (request.granted \/ request.policy.mode = "strict")
    BY <1>1 DEF RequestInv, NoRequest
  <2>4. ASSUME NEW v \in Endpoint, wait'[v].step = "caught_up" PROVE Shown(v)'
    <3>1. v \in View
      BY ReadsConstants
    <3>2. PICK c, s : c = view[v].cursor /\ s = Verdict(v, write, c, view[v].status, Pending(v, c, write))
      OBVIOUS
    <3>3. s \in {"caught_up", "failed", "wait"} /\ (s = "caught_up" => AtOrPast(c, write) \/ ~ Pending(v, c, write))
      BY <3>2, VerdictIsOne
    <3>4. s = "caught_up"
      BY <1>6, <2>4, <3>1, <3>2, <3>3, AtIsWait
    <3>5. HandledTo(v, c) /\ request.owed \in SUBSET CommittedRows
      BY <1>1, <3>1, <3>2 DEF ViewInv, Requests
    <3>6. {r \in request.owed : Handles(v, r)} \subseteq view[v].holds
      BY <1>3, <3>1, <3>3, <3>4, <3>5, CaughtUpShows
    <3> QED
      BY <1>4, <2>2, <3>6 DEF Shown, Handles
  <2> QED
    BY <1>3, <2>1, <2>2, <2>3, <2>4 DEF RequestInv, AtOrPast
<1> QED
  BY <1>2, <1>5, <1>6 DEF Check

LEMMA SettleKeepsRequest ==
  ASSUME RequestInv, Settle
  PROVE  RequestInv'
<1>1. request.step = "wait" /\ request \in Requests
  BY RequestShape DEF Settle
<1>2. PICK behind, answer : behind = {wait[v].step : v \in Endpoint} \ {"caught_up"}
                            /\ answer = IF behind = {} THEN request.answer ELSE "stale"
  OBVIOUS
<1>3. CASE request' = NoRequest
  BY <1>3 DEF RequestInv
<1>4. CASE /\ ~ (behind # {} /\ request.policy.mode = "strict")
           /\ request' = [request EXCEPT !.step = "run", !.late = FALSE, !.write = ZeroCursor, !.answer = answer]
  <2>1. CommittedRows' = CommittedRows /\ view' = view
    BY DEF Settle, CommittedRows, logVars
  <2>2. request' \in Requests'
    BY <1>1, <1>2, <1>4, <2>1 DEF Requests, ZeroCursor, Cursor
  <2>3. /\ request'.step = "run" /\ request'.answer = answer /\ request'.granted = request.granted
        /\ request'.owed = request.owed
    BY <1>1, <1>4 DEF Requests
  <2>4. /\ request.answer = "fresh" /\ (request.granted \/ request.policy.mode = "strict")
        /\ \A v \in Endpoint : wait[v].step = "caught_up" => Shown(v)
    BY <1>1 DEF RequestInv, NoRequest
  <2>5. CASE behind = {}
    <3>1. \A v \in Endpoint : wait[v].step = "caught_up"
      BY <1>2, <2>5
    <3> QED
      BY <1>2, <2>1, <2>2, <2>3, <2>4, <2>5, <3>1 DEF RequestInv, Shown, Handles
  <2>6. CASE behind # {}
    <3>1. request'.granted /\ request'.answer = "stale"
      BY <1>2, <1>4, <2>3, <2>4, <2>6
    <3> QED
      BY <2>2, <2>3, <3>1 DEF RequestInv
  <2> QED
    BY <2>5, <2>6
<1> QED
  BY <1>2, <1>3, <1>4 DEF Settle

(* A wait that ends as caught up has seen that its view has: from a cursor *)
(* that it read, or from a ping.                                           *)
LEMMA FiberKeepsRequest ==
  ASSUME LogInv, ViewInv, HubInv, WaitInv, RequestInv, NEW v \in View, WaitStep(v),
         wait'[v].step = "caught_up"
  PROVE  Shown(v)
<1>1. wait[v] \in Waits /\ WaitOK(v) /\ SubscriberOK(v, sub[v])
  BY WantsItself DEF WaitInv, WaitOK, HubInv
<1>2. wait[v].step # "caught_up"
  BY DEF WaitStep, Subscribe, Look, AskPending, Woken, PauseEnds
<1>3. request.step = "wait" /\ request \in Requests /\ request # NoRequest
  BY <1>1, <1>2, RequestShape DEF WaitOK, NoRequest
<1>4. /\ request.write \in Cursor /\ request.owed \in SUBSET CommittedRows
      /\ \A r \in request.owed : AtOrPast(request.write, r)
  BY <1>3 DEF RequestInv, Requests
<1>5. ASSUME NEW c, HandledTo(v, c), AtOrPast(c, request.write) \/ ~ Pending(v, c, request.write)
      PROVE  Shown(v)
  BY <1>4, <1>5, CaughtUpShows DEF Shown
<1>6. \A t : wait' = [wait EXCEPT ![v] = t] => wait'[v] = t
  BY DEF WaitInv
<1>7. CASE Subscribe(v) \/ PauseEnds(v)
  BY <1>1, <1>7 DEF Subscribe, PauseEnds, WaitInv, Waits
<1>8. CASE Look(v)
  <2>1. CASE AtOrPast(view[v].cursor, request.write)
    BY <1>5, <2>1 DEF ViewInv
  <2>2. CASE ~ AtOrPast(view[v].cursor, request.write)
    <3>1. wait'[v].step = "pending"
      BY <1>8, <2>2 DEF Look, WaitInv
    <3> QED
      BY <3>1
  <2> QED
    BY <2>1, <2>2
<1>9. CASE AskPending(v)
  <2> DEFINE verdict == Verdict(v, request.write, wait[v].cursor, wait[v].status,
                                Pending(v, wait[v].cursor, request.write))
             pause == IF link = "down" THEN "asleep" ELSE "listening"
  <2>1. /\ verdict \in {"caught_up", "failed", "wait"}
        /\ verdict = "caught_up" => \/ AtOrPast(wait[v].cursor, request.write)
                                   \/ ~ Pending(v, wait[v].cursor, request.write)
    BY VerdictIsOne
  <2>2. HandledTo(v, wait[v].cursor)
    BY <1>1, <1>9 DEF WaitOK, AskPending
  <2>3. \/ verdict # "wait" /\ wait' = [wait EXCEPT ![v] = At(verdict)]
        \/ wait' = [wait EXCEPT ![v] = At("late")]
        \/ wait' = [wait EXCEPT ![v] = At(pause)]
    BY <1>9 DEF AskPending, Ends
  <2> HIDE DEF verdict
  <2>4. pause \in Listens /\ pause # "caught_up"
    BY DEF Listens
  <2> HIDE DEF pause
  <2>5. wait'[v] \in {At(verdict), At("late"), At(pause)}
    BY <1>6, <2>3
  <2>6. verdict = "caught_up"
    BY <2>1, <2>4, <2>5, AtIsWait
  <2> QED
    BY <1>5, <2>1, <2>2, <2>6
<1>10. CASE Woken(v)
  <2>1. CASE Covers(v, v, request.write)
    <3>1. PICK p \in sub[v].dirty : p.id = v /\ AtOrPast(p.cursor, request.write)
      BY <2>1 DEF Covers
    <3> QED
      BY <1>1, <1>5, <3>1 DEF SubscriberOK
  <2>2. CASE ~ Covers(v, v, request.write)
    BY <1>1, <1>10, <2>2 DEF Woken, WaitInv, Waits
  <2> QED
    BY <2>1, <2>2
<1> QED
  BY <1>7, <1>8, <1>9, <1>10 DEF WaitStep

LEMMA StepKeepsRequest ==
  ASSUME LogInv, ViewInv, HubInv, WaitInv, RequestInv, [Next]_vars
  PROVE  RequestInv'
<1>1. Grows
  BY StepGrows
<1>2. CASE Ask
  BY <1>2, AskKeepsRequest
<1>3. CASE Check
  BY <1>3, CheckKeepsRequest
<1>4. CASE Settle
  BY <1>4, SettleKeepsRequest
<1>5. CASE Run
  BY <1>5 DEF Run, RequestInv
<1>6. CASE TimePasses
  <2>1. request' = [request EXCEPT !.late = TRUE] /\ request \in Requests /\ request.step = "wait"
    BY <1>6, RequestShape DEF TimePasses
  <2>2. UNCHANGED <<logVars, view, wait>>
    BY <1>6 DEF TimePasses
  <2>3. CommittedRows' = CommittedRows
    BY <2>2 DEF CommittedRows, logVars
  <2>4. request' \in Requests'
    BY <2>1, <2>3 DEF Requests
  <2>5. /\ request'.step = request.step /\ request'.write = request.write /\ request'.owed = request.owed
        /\ request'.answer = request.answer /\ request'.granted = request.granted /\ request'.policy = request.policy
    BY <2>1 DEF Requests
  <2>6. \A v \in View : Shown(v)' <=> Shown(v)
    BY <2>2, <2>5 DEF Shown, Handles
  <2> QED
    BY <2>1, <2>2, <2>4, <2>5, <2>6, ReadsConstants DEF RequestInv, NoRequest, AtOrPast
<1>7. ASSUME NEW v \in View, WaitStep(v) PROVE RequestInv'
  <2>1. request' = request
    BY <1>7 DEF WaitStep, Subscribe, Look, AskPending, Woken, PauseEnds, OnlyWaits
  <2>2. \A w \in View : w # v => wait'[w] = wait[w]
    BY <1>7 DEF WaitStep, Subscribe, Look, AskPending, Woken, PauseEnds, Ends, WaitInv
  <2>3. wait'[v].step = "caught_up" => Shown(v)
    BY <1>7, FiberKeepsRequest
  <2> QED
    BY <1>1, <2>1, <2>2, <2>3, ReadsConstants, RequestStays
<1>8. ASSUME wait' = wait, request' = request PROVE RequestInv'
  BY <1>1, <1>8, RequestStays
<1>9. CASE WriterStep \/ ViewStep \/ HubStep \/ PageStep \/ UNCHANGED vars
  <2>1. wait' = wait /\ request' = request
    BY <1>9 DEF WriterStep, ViewStep, Project, Fails, Reset, SetStatus, HubStep, Deliver, Cut, Notices, Connect,
                PageStep, OpenFeed, ReadFeed, NextOfFeed, CloseFeed, OnlyPages, vars, readVars
  <2> QED
    BY <1>8, <2>1
<1> QED
  BY <1>2, <1>3, <1>4, <1>5, <1>6, <1>7, <1>9 DEF Next

-----------------------------------------------------------------------------
LEMMA InitReads ==
  Init => ReadsInv
<1> SUFFICES ASSUME Init PROVE ReadsInv
  OBVIOUS
<1>1. LogInv
  BY DEF Init, LogInit, LogInv
<1>2. ViewInv
  BY DEF Init, LogInit, ViewInv, HandledTo, CommittedRows, ZeroCursor, Cursor
<1>3. sent = <<>> /\ sent \in Seq(Ping) /\ DOMAIN sent = {} /\ link = "down"
  BY DEF Init
<1>4. \A s \in Subscriber : SubscriberOK(s, sub[s])
  BY DEF Init, SubscriberOK, Unsubscribed
<1>5. HubInv
  BY <1>3, <1>4 DEF Init, HubInv
<1>6. NewestInv
  BY <1>3 DEF NewestInv
<1>7. WaitInv
  <2>1. \A v \in View : wait[v] \in Waits /\ wait[v].step = "caught_up" /\ ~ sub[v].on
    BY AtIsWait, WantsItself, SubscribedIsOn DEF Init
  <2> QED
    BY <2>1 DEF Init, WaitInv, WaitOK, Listens
<1>8. PageInv
  <2>1. \A g \in Page : page[g] \in Pages(g) /\ page[g].step = "off" /\ ~ sub[g].on
    BY FollowsViews, SubscribedIsOn DEF Init, Pages, Closed, ZeroCursor, Cursor
  <2> QED
    BY <2>1 DEF Init, PageInv, PageOK
<1>9. RequestInv
  BY DEF Init, RequestInv
<1> QED
  BY <1>1, <1>2, <1>5, <1>6, <1>7, <1>8, <1>9 DEF ReadsInv

THEOREM ReadsKeepReadsInv ==
  Spec => []ReadsInv
<1>1. ReadsInv /\ [Next]_vars => ReadsInv'
  BY StepGrows, StepKeepsHubInv, StepKeepsNewest, StepKeepsWaits, StepKeepsPages, StepKeepsRequest DEF ReadsInv
<1> QED
  BY InitReads, <1>1, PTL DEF Spec

(* An unmarked answer of a read that was to wait shows all its marker, or  *)
(* the log's end when it asked, stood for; a stale one, and one that       *)
(* waited for nothing, is one the endpoint's settings allow                *)
(* (ConsistentRead, waitUntilProcessed, viewVerdict).                      *)
THEOREM AnswersShowTheWrite ==
  Spec => []ReadsWhatWasWritten
<1>1. ReadsInv => ReadsWhatWasWritten
  <2> SUFFICES ASSUME ReadsInv PROVE ReadsWhatWasWritten
    OBVIOUS
  <2>1. ReadsTypeOK
    BY DEF ReadsInv, ViewInv, HubInv, SubscriberOK, WaitInv, WaitOK, Listens, ReadsTypeOK
  <2>2. request.step = "run" => IF request.answer = "fresh" THEN \A v \in Endpoint : Shown(v) ELSE request.granted
    BY DEF ReadsInv, RequestInv, NoRequest
  <2> QED
    BY <2>1, <2>2 DEF ReadsWhatWasWritten, Shown
<1> QED
  BY <1>1, ReadsKeepReadsInv, PTL

(* Neither a wait that pauses for a ping nor a page sleeps on news: what   *)
(* ends the pause, or brings the page to its view, is on its way, lost     *)
(* connections and the time before it listened included (ViewProgressHub,  *)
(* viewProgressFeed).                                                      *)
THEOREM NobodySleepsOnNews ==
  Spec => []SleepersAreTold
<1>1. ReadsInv => SleepersAreTold
  BY DEF ReadsInv, WaitInv, WaitOK, PageInv, PageOK, SleepersAreTold, PausedIsTold, PageIsTold
<1> QED
  BY <1>1, ReadsKeepReadsInv, PTL
=============================================================================
