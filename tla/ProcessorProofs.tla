--------------------------- MODULE ProcessorProofs ---------------------------
(***************************************************************************)
(* A processor skips no event and a view holds exactly its cursor; the     *)
(* outbox is a processor like any other, and whoever looks at it or at the *)
(* log is told the truth: the consumer behind the destination and the      *)
(* reader of the log miss nothing, an answered pause holds, and a report   *)
(* that nothing is pending is true, for every number of instances,         *)
(* writers, events and faults, and every size of a batch and of a page.    *)
(***************************************************************************)
EXTENDS Outbox, FiniteSetTheorems, WellFoundedInduction, TLAPS

-----------------------------------------------------------------------------
(* The log: its snapshots, and the last of a set of its rows.              *)

(* Every non-empty set of naturals has a least element. *)
LEMMA LeastOfNat ==
  ASSUME NEW S \in SUBSET Nat, S # {}
  PROVE  Least(S) \in S /\ \A n \in S : Least(S) <= n
<1>1. OpToRel(<, Nat) = {ss \in Nat \X Nat : ss[1] < ss[2]}
  BY Zenon DEF OpToRel
<1>2. IsWellFoundedOn({ss \in Nat \X Nat : ss[1] < ss[2]}, Nat)
  BY <1>1, NatLessThanWellFounded, Zenon
<1>3. PICK m \in S : \A n \in S : ~ (<<n, m>> \in {ss \in Nat \X Nat : ss[1] < ss[2]})
  BY <1>2, WFMin, Zenon
<1>4. ASSUME NEW n \in S PROVE m <= n
  <2>1. ASSUME n < m PROVE <<n, m>> \in {ss \in Nat \X Nat : ss[1] < ss[2]}
    BY <2>1
  <2> QED
    BY <1>3, <2>1
<1> QED
  BY <1>4 DEF Least

(* A set of naturals below some bound has a greatest element. *)
LEMMA GreatestBelow ==
  ASSUME NEW S \in SUBSET Nat, S # {}, NEW b \in Nat, \A n \in S : n < b
  PROVE  \E m \in S : \A n \in S : n <= m
<1> DEFINE D == {b - n : n \in S}
<1>1. D \in SUBSET Nat /\ D # {}
  <2>1. \A n \in S : b - n \in Nat
    OBVIOUS
  <2>2. D \subseteq Nat
    BY <2>1
  <2>3. D # {}
    OBVIOUS
  <2> QED
    BY <2>2, <2>3
<1>2. Least(D) \in D /\ \A d \in D : Least(D) <= d
  BY <1>1, LeastOfNat
<1>3. PICK m \in S : Least(D) = b - m
  BY <1>2
<1>4. \A n \in S : b - m <= b - n
  BY <1>2, <1>3
<1> QED
  BY <1>4

(* The last of a set of rows whose ids and positions were handed out is    *)
(* one of the set that none of the others is after.                        *)
LEMMA LastOfRows ==
  ASSUME NEW S, S # {}, \A r \in S : IsRow(r),
         NEW x \in Nat, \A r \in S : r.xid < x,
         NEW n \in Nat, \A r \in S : r.pos < n,
         NEW otherwise
  PROVE  \E r \in S : /\ LastOf(S, otherwise) = [xid |-> r.xid, pos |-> r.pos]
                      /\ \A q \in S : ~ After(q, r)
<1> DEFINE xs == {r.xid : r \in S}
<1>1. PICK m \in xs : \A k \in xs : k <= m
  <2>1. xs \in SUBSET Nat /\ xs # {} /\ \A k \in xs : k < x
    BY DEF IsRow
  <2> QED
    BY <2>1, GreatestBelow
<1> DEFINE T == {r \in S : r.xid = m}
           ps == {r.pos : r \in T}
<1>2. PICK p \in ps : \A k \in ps : k <= p
  <2>1. ps \in SUBSET Nat /\ ps # {} /\ \A k \in ps : k < n
    BY DEF IsRow
  <2> QED
    BY <2>1, GreatestBelow
<1>3. PICK r \in T : r.pos = p
  BY <1>2
<1>4. \A q \in S : ~ After(q, r)
  <2> SUFFICES ASSUME NEW q \in S PROVE ~ After(q, r)
    OBVIOUS
  <2>1. q.xid <= r.xid /\ q.xid \in Nat /\ q.pos \in Nat /\ r.xid \in Nat /\ r.pos \in Nat
    BY <1>1, <1>3 DEF IsRow
  <2>2. q.xid = r.xid => q.pos <= r.pos
    BY <1>2, <1>3
  <2> QED
    BY <2>1, <2>2 DEF After
<1>5. LastOf(S, otherwise) = LET c == CHOOSE c \in S : \A q \in S : ~ After(q, c)
                             IN  [xid |-> c.xid, pos |-> c.pos]
  BY DEF LastOf
<1>6. /\ (CHOOSE c \in S : \A q \in S : ~ After(q, c)) \in S
      /\ \A q \in S : ~ After(q, CHOOSE c \in S : \A k \in S : ~ After(k, c))
  BY <1>3, <1>4
<1> QED
  BY <1>5, <1>6

(* A snapshot is the state of the ids: it passes none that runs (but its   *)
(* own) and none that is still to be taken.                                *)
LEMMA SnapshotOfRunning ==
  ASSUME NEW own \in Nat, nextXid \in Nat, lastDone \in Nat, lastDone < nextXid,
         running \in SUBSET Nat, \A x \in running : 0 < x /\ x < nextXid
  PROVE  LET s == CurrentSnapshot(own)
         IN  /\ s \in Snapshot
             /\ 0 < s.xmin /\ s.xmin <= s.xmax /\ s.xmax <= nextXid
             /\ \A x \in running : s.xmin <= x
             /\ \A x \in running \ {own} : ~ Sees(s, x)
<1> DEFINE xmax == lastDone + 1
           open == {x \in running : x < xmax}
           xmin == Least(open \cup {xmax})
           s == CurrentSnapshot(own)
<1>1. xmin \in open \cup {xmax} /\ \A n \in open \cup {xmax} : xmin <= n
  BY LeastOfNat
<1>2. s = [xmin |-> xmin, xmax |-> xmax, xip |-> open \ {own}]
  BY DEF CurrentSnapshot
<1> HIDE DEF xmin
<1>3. xmin \in Nat /\ 0 < xmin /\ xmin <= xmax
  BY <1>1
<1>4. \A x \in running : xmin <= x
  BY <1>1, <1>3
<1>5. s.xmin = xmin /\ s.xmax = xmax /\ s.xip = open \ {own}
  BY <1>2
<1>6. s \in Snapshot
  <2>1. xmax \in Nat
    OBVIOUS
  <2>2. \A x \in open \ {own} : x \in Nat
    OBVIOUS
  <2>3. open \ {own} \in SUBSET Nat
    BY <2>2, Zenon
  <2> HIDE DEF xmax, open
  <2> QED
    BY <1>2, <1>3, <2>1, <2>3 DEF Snapshot
<1>7. ASSUME NEW x \in running, x # own PROVE ~ Sees(s, x)
  <2>1. ~ (x < xmin)
    BY <1>3, <1>4
  <2>2. x < xmax => x \in open \ {own}
    BY <1>7
  <2> HIDE DEF s, xmax, open
  <2> QED
    BY <1>5, <2>1, <2>2 DEF Sees
<1> QED
  BY <1>3, <1>4, <1>5, <1>6, <1>7

-----------------------------------------------------------------------------
(* The processors: the invariant of Poller is inductive.                   *)

(* What the other steps may do to the log while a tick is at work: take    *)
(* ids and positions that no cursor has passed, and end transactions.      *)
LogGrows ==
  /\ nextXid <= nextXid'
  /\ nextXid' \in Nat
  /\ running' \subseteq Nat
  /\ \A x \in running' : x \in running \/ nextXid <= x
  /\ committed \subseteq committed'
  /\ \A r \in rows : r.xid \in committed => r \in rows'
  /\ \A r \in rows' : r \in rows \/ r.xid \in running

LEMMA UnchangedGrows ==
  ASSUME PollerInv, UNCHANGED logVars
  PROVE  LogGrows
BY DEF LogGrows, logVars, PollerInv, PollerTypeOK

LEMMA PassedStays ==
  ASSUME PollerInv, LogGrows, NEW c, c.xid \in Nat, Passed(c)
  PROVE  Passed(c)'
BY DEF PollerInv, PollerTypeOK, LogGrows, Passed

LEMMA HandledToStays ==
  ASSUME PollerInv, LogGrows, handled \subseteq handled', NEW c \in Cursor, HandledTo(c)
  PROVE  HandledTo(c)'
<1>1. Passed(c)'
  BY PassedStays DEF Cursor, HandledTo
<1>2. ASSUME NEW r \in rows', Selected(r), ~ After(r, c)
      PROVE  r.xid \in committed' /\ r \in handled'
  <2>1. CASE r \in rows
    BY <1>2, <2>1 DEF HandledTo, LogGrows, Selected
  <2>2. CASE r.xid \in running
    <3>1. c.xid < r.xid /\ r.xid \in Nat /\ c.xid \in Nat
      BY <2>2 DEF HandledTo, Passed, PollerInv, PollerTypeOK, Cursor
    <3> QED
      BY <1>2, <3>1 DEF After
  <2> QED
    BY <2>1, <2>2 DEF LogGrows
<1> QED
  BY <1>1, <1>2 DEF HandledTo, Selected

LEMMA BatchedStays ==
  ASSUME PollerInv, LogGrows, NEW t \in Ticks, Batched(t), t.todo \subseteq t.batch
  PROVE  Batched(t)' /\ t \in Ticks'
<1>1. ASSUME NEW r \in t.batch
      PROVE  /\ r \in rows /\ r \in rows' /\ r.xid \in Nat /\ r.xid \in committed'
             /\ Passed(r) /\ Passed(r)'
  <2>1. r \in rows /\ r.xid \in committed /\ Passed(r)
    BY DEF Ticks, Batched
  <2>2. r.xid \in Nat
    BY <2>1 DEF PollerInv, PollerTypeOK, IsRowOf, IsRow
  <2> QED
    BY <2>1, <2>2, PassedStays DEF LogGrows
<1>2. ASSUME NEW r \in t.batch, NEW q \in rows', Selected(q), After(q, t.from), After(r, q)
      PROVE  q \in t.batch
  <2>1. CASE q \in rows
    BY <1>2, <2>1 DEF Batched
  <2>2. CASE q.xid \in running
    <3>1. r.xid < q.xid /\ q.xid \in Nat
      BY <1>1, <2>2 DEF Passed, PollerInv, PollerTypeOK
    <3> QED
      BY <1>1, <1>2, <3>1 DEF After
  <2> QED
    BY <2>1, <2>2 DEF LogGrows
<1>3. Batched(t)'
  BY <1>1, <1>2 DEF Batched, Selected
<1>4. t \in Ticks'
  <2>1. t.batch \in SUBSET (rows') /\ t.todo \in SUBSET (rows')
    BY <1>1 DEF Batched
  <2> QED
    BY <2>1 DEF Ticks
<1> QED
  BY <1>3, <1>4

(* A tick that a step leaves alone is as it was. *)
LEMMA TickStays ==
  ASSUME PollerInv, LogGrows, handled \subseteq handled', NEW i \in Instances, NEW t \in Ticks, TickOK(i, t),
         t.step = "commit" => rowLock' = i /\ progress'.cursor = progress.cursor
  PROVE  TickOK(i, t)' /\ t \in Ticks'
<1>1. t.from \in Cursor /\ t.step \in Steps
  BY DEF Ticks
<1>2. t.step \notin BeforeCursor => HandledTo(t.from)'
  BY <1>1, HandledToStays DEF TickOK
<1>3. t.step \notin BeforeBatch => Batched(t)'
  BY BatchedStays DEF TickOK
<1>4. t \in Ticks'
  <2>1. CASE t.step \in BeforeBatch
    BY <2>1 DEF TickOK, Ticks
  <2>2. CASE t.step \notin BeforeBatch
    BY <2>2, BatchedStays DEF TickOK
  <2> QED
    BY <2>1, <2>2
<1>5. (~ Atomic => t.batch \ t.todo \subseteq handled') /\ t.todo \subseteq t.batch
  BY DEF TickOK
<1>6. t.step = "commit" => Atomic /\ rowLock' = i /\ progress'.cursor = t.from
  BY DEF TickOK
<1> QED
  BY <1>2, <1>3, <1>4, <1>5, <1>6 DEF TickOK, Atomic

(* So a step that changes one tick has that tick to answer for. *)
LEMMA OneTick ==
  ASSUME PollerInv, LogGrows, handled \subseteq handled', NEW i \in Instances, NEW new,
         tick' = [tick EXCEPT ![i] = new], new \in Ticks', TickOK(i, new)',
         \A j \in Instances \ {i} : rowLock = j => rowLock' = j /\ progress'.cursor = progress.cursor
  PROVE  tick' \in [Instances -> Ticks'] /\ \A j \in Instances : TickOK(j, tick[j])'
<1>1. tick \in [Instances -> Ticks]
  BY DEF PollerInv, PollerTypeOK
<1>2. ASSUME NEW j \in Instances, j # i
      PROVE  tick'[j] \in Ticks' /\ TickOK(j, tick[j])'
  <2>1. PICK t \in Ticks : t = tick[j] /\ TickOK(j, t) /\ tick'[j] = t
    BY <1>1, <1>2 DEF PollerInv
  <2>2. t.step = "commit" => rowLock' = j /\ progress'.cursor = progress.cursor
    BY <1>2, <2>1 DEF TickOK
  <2>3. TickOK(j, t)' /\ t \in Ticks'
    BY <2>1, <2>2, TickStays
  <2> QED
    BY <2>1, <2>3
<1>3. tick'[i] = new
  BY <1>1
<1> QED
  BY <1>1, <1>2, <1>3

(* What a view holds stays what its cursor says while neither changes.     *)
LEMMA ViewStays ==
  ASSUME PollerInv, LogGrows, \A r \in rows' : r \in rows \/ r.xid \in running,
         handled' = handled, again' = again, progress'.cursor = progress.cursor
  PROVE  ViewIsItsCursor'
<1> DEFINE c == progress.cursor
<1>1. c \in Cursor /\ c.xid \in Nat /\ \A x \in running : c.xid < x /\ x \in Nat
  BY DEF PollerInv, PollerTypeOK, Progress, Cursor, HandledTo, Passed
<1>2. \A r \in rows' : ~ After(r, c) => r \in rows
  BY <1>1 DEF After
<1>3. \A r \in rows : (Selected(r) /\ ~ After(r, c)) => r \in rows'
  BY DEF LogGrows, PollerInv, HandledTo
<1>4. Atomic => handled = {r \in rows : Selected(r) /\ ~ After(r, c)} /\ again = {}
  BY DEF PollerInv, ViewIsItsCursor
<1>5. {r \in rows : Selected(r) /\ ~ After(r, c)} = {r \in rows' : Selected(r) /\ ~ After(r, c)}
  BY <1>2, <1>3
<1> QED
  BY <1>4, <1>5 DEF ViewIsItsCursor, Atomic, Selected

(* What every step that is not the log's and moves no cursor has to keep.  *)
OthersTyped == /\ progress' \in Progress
               /\ rowLock' \in Instances \cup {NoOne}
               /\ owner' \in Instances \cup {NoOne}
               /\ leads' \subseteq Instances
               /\ resetting' \in 0 .. 2
               /\ used' \in [failures : Nat, faults : Nat, requests : Nat]

LEMMA LogTypeStays ==
  ASSUME PollerInv, UNCHANGED logVars, handled' \subseteq rows, \A r \in handled' : r.xid \in committed
  PROVE  /\ nextXid' \in Nat \ {0} /\ nextPos' \in Nat \ {0} /\ lastDone' \in Nat
         /\ running' \in SUBSET Nat /\ committed' \in SUBSET Nat
         /\ \A r \in rows' : IsRowOf(r)
         /\ handled' \subseteq rows'
         /\ IdsInv'
BY DEF logVars, PollerInv, PollerTypeOK, IdsInv

(* A step of one tick that moves no cursor and handles nothing. *)
LEMMA TickOnly ==
  ASSUME PollerInv, OthersTyped, UNCHANGED logVars, handled' = handled, again' = again,
         progress'.cursor = progress.cursor, NEW i \in Instances, NEW new,
         tick' = [tick EXCEPT ![i] = new], new \in Ticks, TickOK(i, new)',
         \A j \in Instances \ {i} : rowLock = j => rowLock' = j
  PROVE  PollerInv'
<1>1. LogGrows
  BY UnchangedGrows
<1>2. new \in Ticks'
  BY DEF Ticks, logVars
<1>3. tick' \in [Instances -> Ticks'] /\ \A j \in Instances : TickOK(j, tick[j])'
  BY <1>1, <1>2, OneTick
<1>4. ViewIsItsCursor'
  BY <1>1, ViewStays DEF logVars
<1>5. HandledTo(progress.cursor)'
  <2>1. PICK c \in Cursor : c = progress.cursor /\ HandledTo(c) /\ progress'.cursor = c
    BY DEF PollerInv, PollerTypeOK, Progress
  <2>2. HandledTo(c)'
    BY <1>1, <2>1, HandledToStays
  <2> QED
    BY <2>1, <2>2
<1>6. handled \subseteq rows /\ again \subseteq handled /\ \A r \in handled : r.xid \in committed
  BY DEF PollerInv, PollerTypeOK, IdsInv
<1>7. PollerTypeOK' /\ IdsInv'
  BY <1>3, <1>6, LogTypeStays DEF PollerTypeOK, OthersTyped
<1> QED
  BY <1>3, <1>4, <1>5, <1>7 DEF PollerInv

(* A step that leaves every tick alone. *)
LEMMA NoTick ==
  ASSUME PollerInv, LogGrows, IdsInv', OthersTyped, UNCHANGED <<tick, rowLock, handled, again>>,
         progress'.cursor = progress.cursor,
         nextXid' \in Nat \ {0}, nextPos' \in Nat \ {0}, lastDone' \in Nat,
         running' \in SUBSET Nat, committed' \in SUBSET Nat, \A r \in rows' : IsRowOf(r)
  PROVE  PollerInv'
<1>1. tick' \in [Instances -> Ticks'] /\ \A j \in Instances : TickOK(j, tick[j])'
  <2> SUFFICES ASSUME NEW j \in Instances PROVE tick'[j] \in Ticks' /\ TickOK(j, tick[j])'
    BY DEF PollerInv, PollerTypeOK
  <2>1. PICK t \in Ticks : t = tick[j] /\ TickOK(j, t) /\ tick'[j] = t
    BY DEF PollerInv, PollerTypeOK
  <2>2. t.step = "commit" => rowLock' = j /\ progress'.cursor = progress.cursor
    BY <2>1 DEF TickOK
  <2>3. TickOK(j, t)' /\ t \in Ticks'
    BY <2>1, <2>2, TickStays
  <2> QED
    BY <2>1, <2>3
<1>2. ViewIsItsCursor'
  BY ViewStays DEF LogGrows
<1>3. HandledTo(progress.cursor)'
  <2>1. PICK c \in Cursor : c = progress.cursor /\ HandledTo(c) /\ progress'.cursor = c
    BY DEF PollerInv, PollerTypeOK, Progress
  <2>2. HandledTo(c)'
    BY <2>1, HandledToStays
  <2> QED
    BY <2>1, <2>2
<1>4. handled \subseteq rows' /\ again \subseteq handled
  BY DEF PollerInv, PollerTypeOK, IdsInv, LogGrows
<1>5. PollerTypeOK'
  BY <1>1, <1>4 DEF PollerTypeOK, OthersTyped
<1> QED
  BY <1>1, <1>2, <1>3, <1>5 DEF PollerInv

LEMMA OthersUnchanged ==
  ASSUME PollerInv
  PROVE  /\ progress \in Progress /\ rowLock \in Instances \cup {NoOne}
         /\ owner \in Instances \cup {NoOne} /\ leads \subseteq Instances
         /\ resetting \in 0 .. 2
         /\ used \in [failures : Nat, faults : Nat, requests : Nat]
BY DEF PollerInv, PollerTypeOK

(* A step that leaves the log and the ticks alone. *)
LEMMA NothingMoves ==
  ASSUME PollerInv, OthersTyped, UNCHANGED <<logVars, tick, rowLock, handled, again>>,
         progress'.cursor = progress.cursor
  PROVE  PollerInv'
<1>1. LogGrows
  BY UnchangedGrows
<1>2. handled \subseteq rows /\ \A r \in handled : r.xid \in committed
  BY DEF PollerInv, PollerTypeOK, IdsInv
<1> QED
  BY <1>1, <1>2, LogTypeStays, NoTick

LEMMA WriterStepKeeps ==
  ASSUME PollerInv, WriterStep
  PROVE  PollerInv'
<1>1. UNCHANGED <<workVars, lockVars, resetting, used>>
  BY DEF WriterStep
<1>2. handled' = handled
  BY <1>1 DEF workVars
<1>0. OthersTyped /\ progress'.cursor = progress.cursor
  BY <1>1, OthersUnchanged DEF OthersTyped, workVars, lockVars
<1>a. UNCHANGED <<tick, rowLock, handled, again>>
  BY <1>1 DEF workVars
<1> USE <1>0, <1>a, NoTick
<1>3. CASE AssignXid
  <2>1. LogGrows /\ running' \in SUBSET Nat
    BY <1>3 DEF AssignXid, LogGrows, PollerInv, PollerTypeOK
  <2>2. IdsInv'
    <3>1. nextXid \notin committed
      BY DEF PollerInv, PollerTypeOK, IdsInv
    <3> QED
      BY <1>3, <3>1 DEF AssignXid, PollerInv, PollerTypeOK, IdsInv, IsRowOf, IsRow
  <2> QED
    BY <1>3, <2>1, <2>2 DEF AssignXid, PollerInv, PollerTypeOK
<1>4. ASSUME NEW x \in running, WriterInserts(x)
      PROVE  PollerInv'
  <2>1. PICK kind \in {"selected", "other"} : InsertRow(x, kind)
    BY <1>4 DEF WriterInserts
  <2>2. LogGrows
    BY <2>1 DEF InsertRow, LogGrows, PollerInv, PollerTypeOK
  <2>3. IdsInv'
    BY <2>1 DEF InsertRow, PollerInv, PollerTypeOK, IdsInv, IsRowOf, IsRow
  <2>4. \A r \in rows' : IsRowOf(r)
    BY <2>1 DEF InsertRow, PollerInv, PollerTypeOK, IdsInv, IsRowOf, IsRow
  <2> QED
    BY <2>1, <2>2, <2>3, <2>4 DEF InsertRow, PollerInv, PollerTypeOK
<1>5. ASSUME NEW x \in running, CommitXid(x)
      PROVE  PollerInv'
  <2>1. LogGrows
    BY <1>5 DEF CommitXid, Finished, LogGrows, PollerInv, PollerTypeOK
  <2>2. IdsInv'
    BY <1>5 DEF CommitXid, Finished, PollerInv, PollerTypeOK, IdsInv, IsRowOf, IsRow
  <2> QED
    BY <1>5, <2>1, <2>2 DEF CommitXid, Finished, PollerInv, PollerTypeOK
<1>6. ASSUME NEW x \in running, AbortXid(x)
      PROVE  PollerInv'
  <2>1. LogGrows
    BY <1>6 DEF AbortXid, Finished, LogGrows, PollerInv, PollerTypeOK, IdsInv
  <2>2. IdsInv'
    BY <1>6 DEF AbortXid, Finished, PollerInv, PollerTypeOK, IdsInv, IsRowOf, IsRow
  <2> QED
    BY <1>6, <2>1, <2>2 DEF AbortXid, Finished, PollerInv, PollerTypeOK
<1> QED
  BY <1>3, <1>4, <1>5, <1>6 DEF WriterStep, WriterBegins

-----------------------------------------------------------------------------
(* The steps of the lock and of the operator. *)
LEMMA LockAndOperatorKeep ==
  ASSUME PollerInv, OperatorStep \/ \E i \in Instances : Acquires(i) \/ LosesSession(i)
  PROVE  PollerInv'
<1> USE OthersUnchanged, NothingMoves
<1>1. ASSUME NEW i \in Instances, Acquires(i) \/ LosesSession(i)
      PROVE  PollerInv'
  <2>1. OthersTyped
    BY <1>1 DEF Acquires, LosesSession, Fault, OthersTyped, workVars
  <2> QED
    BY <1>1, <2>1 DEF Acquires, LosesSession, workVars
<1>2. ASSUME NEW s \in {"ACTIVE", "PAUSED"}, SetStatus(s), resetting' \in 0 .. 2,
             used' \in [failures : Nat, faults : Nat, requests : Nat]
      PROVE  PollerInv'
  <2>1. progress' \in Progress /\ progress'.cursor = progress.cursor
    BY <1>2 DEF SetStatus, Progress
  <2> QED
    BY <1>2, <2>1 DEF SetStatus, OthersTyped, lockVars
<1>3. Asks => used' \in [failures : Nat, faults : Nat, requests : Nat]
  BY DEF Asks
<1>4. CASE Pause \/ Resume
  BY <1>2, <1>3, <1>4 DEF Pause, Resume
<1>5. CASE ResetBegins
  <2>1. progress' \in Progress /\ progress'.cursor = progress.cursor
    BY <1>5 DEF ResetBegins, Progress
  <2> QED
    BY <1>3, <1>5, <2>1 DEF ResetBegins, OthersTyped, lockVars
<1>6. CASE ResetGoesOn
  <2>1. resetting' \in 0 .. 2
    BY <1>6 DEF ResetGoesOn
  <2> QED
    BY <1>2, <1>6, <2>1 DEF ResetGoesOn
<1> QED
  BY <1>1, <1>4, <1>5, <1>6 DEF OperatorStep

-----------------------------------------------------------------------------
(* The steps of a tick that move no cursor and handle nothing. *)

LEMMA EndTickKeeps ==
  ASSUME PollerInv, UNCHANGED logVars, handled' = handled, again' = again,
         progress' \in Progress, progress'.cursor = progress.cursor,
         leads' \subseteq Instances, UNCHANGED <<owner, resetting>>,
         used' \in [failures : Nat, faults : Nat, requests : Nat],
         NEW i \in Instances, EndTick(i)
  PROVE  PollerInv'
<1>1. PICK t \in Ticks : t = tick[i]
  BY DEF PollerInv, PollerTypeOK
<1> DEFINE new == [t EXCEPT !.step = "idle", !.from = ZeroCursor, !.batch = {}, !.todo = {}]
<1>2. new \in Ticks /\ new.step = "idle" /\ new.batch = {} /\ new.todo = {}
  BY DEF Ticks, Steps, ZeroCursor, Cursor
<1>3. tick' = [tick EXCEPT ![i] = new]
  BY <1>1 DEF EndTick
<1> HIDE DEF new
<1>4. PICK n \in Ticks : n = new /\ n.step = "idle" /\ n.batch = {} /\ n.todo = {} /\ tick' = [tick EXCEPT ![i] = n]
  BY <1>2, <1>3
<1>5. TickOK(i, n)'
  BY <1>4 DEF TickOK, BeforeCursor, BeforeBatch
<1>6. OthersTyped
  BY OthersUnchanged DEF OthersTyped, EndTick
<1>7. \A j \in Instances \ {i} : rowLock = j => rowLock' = j
  BY DEF EndTick
<1> QED
  BY <1>4, <1>5, <1>6, <1>7, TickOnly

(* A tick goes on to a step that what it holds is fit for. *)
LEMMA GoKeeps ==
  ASSUME PollerInv, OthersTyped, UNCHANGED logVars, handled' = handled, again' = again,
         progress'.cursor = progress.cursor,
         NEW i \in Instances, NEW step \in Steps, Go(i, step), ~ At(i, "commit"),
         \A j \in Instances \ {i} : rowLock = j => rowLock' = j,
         step \notin BeforeCursor => tick[i].step \notin BeforeCursor,
         step \notin BeforeBatch <=> tick[i].step \notin BeforeBatch,
         step \in {"fence again", "move", "commit"} => tick[i].todo = {},
         step \in {"fence prefix", "move prefix"} => ~ Atomic /\ tick[i].todo # tick[i].batch,
         step = "commit" => Atomic /\ rowLock' = i /\ progress.cursor = tick[i].from
  PROVE  PollerInv'
<1>1. PICK t \in Ticks : t = tick[i] /\ TickOK(i, t) /\ t.step # "commit"
  BY DEF PollerInv, PollerTypeOK, At
<1>2. LogGrows
  BY UnchangedGrows
<1>3. TickOK(i, t)'
  BY <1>1, <1>2, TickStays
<1>4. PICK n \in Ticks : /\ tick' = [tick EXCEPT ![i] = n]
                         /\ n.step = step /\ n.from = t.from /\ n.batch = t.batch /\ n.todo = t.todo
  <2> DEFINE new == [t EXCEPT !.step = step]
  <2>1. new \in Ticks
    BY DEF Ticks
  <2>2. tick' = [tick EXCEPT ![i] = new]
    BY <1>1 DEF Go
  <2>3. new.step = step /\ new.from = t.from /\ new.batch = t.batch /\ new.todo = t.todo
    BY DEF Ticks
  <2> HIDE DEF new
  <2> QED
    BY <2>1, <2>2, <2>3
<1>5. n.step \notin BeforeBatch => Batched(n)'
  BY <1>1, <1>3, <1>4 DEF TickOK, Batched
<1>6. n.step \notin BeforeCursor => HandledTo(n.from)'
  BY <1>1, <1>3, <1>4 DEF TickOK
<1>7. n.step \in BeforeBatch => n.batch = {}
  BY <1>1, <1>4 DEF TickOK
<1>8. n.todo \subseteq n.batch /\ (~ Atomic => n.batch \ n.todo \subseteq handled')
  BY <1>1, <1>4 DEF TickOK
<1>9. TickOK(i, n)'
  BY <1>1, <1>4, <1>5, <1>6, <1>7, <1>8 DEF TickOK, Atomic
<1> QED
  BY <1>4, <1>9, TickOnly

LEMMA QuietStepsKeep ==
  ASSUME PollerInv, NEW i \in Instances,
         \/ ReadStatus(i) \/ AutoRegister(i) \/ FencePasses(i) \/ FenceFails(i)
         \/ MoveInTransaction(i) \/ RollBack(i) \/ RecordError(i) \/ ResetErrorCount(i)
         \/ HandlerFails(i) \/ StatementFails(i) \/ Stops(i)
  PROVE  PollerInv'
<1> USE OthersUnchanged
<1> USE DEF OnlyTick, lockVars
<1>0. /\ progress \in Progress /\ progress.errors + 1 \in Nat
      /\ progress.status \in {"ACTIVE", "PAUSED", "FAILED"}
      /\ used.failures + 1 \in Nat /\ used.faults + 1 \in Nat
  BY DEF Progress
<1>1. CASE ReadStatus(i)
  <2>1. CASE Go(i, "register") /\ UNCHANGED rowLock
    BY <1>1, <2>1, GoKeeps DEF ReadStatus, OthersTyped, Steps, At, BeforeCursor, BeforeBatch
  <2> QED
    BY <1>1, <2>1, EndTickKeeps DEF ReadStatus
<1>2. CASE AutoRegister(i)
  <2>1. progress' \in Progress /\ progress'.cursor = progress.cursor
    BY <1>2 DEF AutoRegister, Progress
  <2> QED
    BY <1>2, <2>1, GoKeeps DEF AutoRegister, OthersTyped, Steps, At, BeforeCursor, BeforeBatch
<1>3. CASE FencePasses(i)
  <2>1. PICK t \in Ticks : t = tick[i] /\ TickOK(i, t)
    BY DEF PollerInv, PollerTypeOK
  <2>2. OthersTyped /\ \A j \in Instances \ {i} : rowLock = j => rowLock' = j
    BY <1>3 DEF FencePasses, OthersTyped
  <2>3. DOMAIN AfterFence = {"fence", "fence again", "fence prefix"}
    BY DEF AfterFence
  <2>4. CASE tick[i].step = "fence"
    <3>1. AfterFence["fence"] = "handle"
      BY Zenon DEF AfterFence
    <3> QED
      BY <1>3, <2>2, <2>4, <3>1, GoKeeps DEF FencePasses, Steps, At, BeforeCursor, BeforeBatch
  <2>5. CASE tick[i].step = "fence again"
    <3>1. AfterFence["fence again"] = "move"
      BY Zenon DEF AfterFence
    <3>2. tick[i].todo = {}
      BY <2>1, <2>5 DEF TickOK
    <3> QED
      BY <1>3, <2>2, <2>5, <3>1, <3>2, GoKeeps DEF FencePasses, Steps, At, BeforeCursor, BeforeBatch
  <2>6. CASE tick[i].step = "fence prefix"
    <3>1. AfterFence["fence prefix"] = "move prefix"
      BY Zenon DEF AfterFence
    <3>2. ~ Atomic /\ tick[i].todo # tick[i].batch
      BY <2>1, <2>6 DEF TickOK
    <3> QED
      BY <1>3, <2>2, <2>6, <3>1, <3>2, GoKeeps DEF FencePasses, Steps, At, BeforeCursor, BeforeBatch
  <2> QED
    BY <1>3, <2>3, <2>4, <2>5, <2>6 DEF FencePasses, AtFence
<1>4. CASE FenceFails(i) \/ RollBack(i)
  BY <1>4, EndTickKeeps DEF FenceFails, RollBack
<1>5. CASE MoveInTransaction(i)
  <2>1. PICK t \in Ticks : t = tick[i] /\ TickOK(i, t)
    BY DEF PollerInv, PollerTypeOK
  <2>2. tick[i].todo = {} /\ progress.cursor = tick[i].from
    BY <1>5, <2>1 DEF MoveInTransaction, TickOK, At, Superseded
  <2>3. \A j \in Instances \ {i} : rowLock # j
    BY <1>5, PollerConstants DEF MoveInTransaction, RowFree
  <2> QED
    BY <1>5, <2>2, <2>3, GoKeeps DEF MoveInTransaction, OthersTyped, Steps, At, BeforeCursor, BeforeBatch
<1>6. CASE RecordError(i)
  <2>1. PICK n \in Nat, s \in {"ACTIVE", "PAUSED", "FAILED"} :
          progress' = [progress EXCEPT !.errors = n, !.status = s]
    BY <1>0, <1>6 DEF RecordError
  <2>2. progress' \in Progress /\ progress'.cursor = progress.cursor
    BY <2>1 DEF Progress
  <2> QED
    BY <1>6, <2>2, EndTickKeeps DEF RecordError
<1>7. CASE ResetErrorCount(i)
  <2>1. progress' \in Progress /\ progress'.cursor = progress.cursor
    BY <1>7 DEF ResetErrorCount, Progress
  <2> QED
    BY <1>7, <2>1, EndTickKeeps DEF ResetErrorCount
<1>8. CASE HandlerFails(i)
  <2>1. OthersTyped
    <3>1. used' \in [failures : Nat, faults : Nat, requests : Nat]
      BY <1>0, <1>8 DEF HandlerFails
    <3> QED
      BY <1>8, <3>1 DEF HandlerFails, OthersTyped
  <2>2. CASE Partial /\ tick[i].todo # tick[i].batch
    <3>1. ~ Atomic
      BY <2>2 DEF Partial, Atomic
    <3> QED
      BY <1>8, <2>1, <2>2, <3>1, GoKeeps DEF HandlerFails, Steps, At, BeforeCursor, BeforeBatch
  <2>3. CASE ~ (Partial /\ tick[i].todo # tick[i].batch)
    BY <1>8, <2>1, <2>3, GoKeeps DEF HandlerFails, Steps, At, BeforeCursor, BeforeBatch
  <2> QED
    BY <2>2, <2>3
<1>9. CASE StatementFails(i)
  <2>1. used' \in [failures : Nat, faults : Nat, requests : Nat]
    BY <1>0, <1>9 DEF StatementFails, Fault
  <2>2. CASE At(i, "move prefix")
    BY <1>9, <2>1, <2>2, GoKeeps DEF StatementFails, OthersTyped, Steps, At, BeforeCursor, BeforeBatch
  <2>3. CASE ~ At(i, "move prefix")
    BY <1>9, <2>1, <2>3, EndTickKeeps DEF StatementFails
  <2> QED
    BY <2>2, <2>3
<1>10. CASE Stops(i)
  <2>1. used' \in [failures : Nat, faults : Nat, requests : Nat] /\ leads' \subseteq Instances
    BY <1>10 DEF Stops, Fault
  <2> QED
    BY <1>10, <2>1, EndTickKeeps DEF Stops
<1> QED
  BY <1>1, <1>2, <1>3, <1>4, <1>5, <1>6, <1>7, <1>8, <1>9, <1>10

(* A handle that is lost changes nothing else of its tick. *)
LEMMA StopsLeadingKeeps ==
  ASSUME PollerInv, NEW i \in Instances, StopsLeading(i)
  PROVE  PollerInv'
<1>1. PICK t \in Ticks : t = tick[i] /\ TickOK(i, t) /\ tick \in [Instances -> Ticks]
  BY DEF PollerInv, PollerTypeOK
<1>2. UNCHANGED <<logVars, progress, rowLock, handled, again>>
  BY DEF StopsLeading
<1>3. OthersTyped
  <2>1. used' \in [failures : Nat, faults : Nat, requests : Nat]
    BY OthersUnchanged DEF StopsLeading, Fault
  <2>2. owner' = owner /\ resetting' = resetting /\ leads' \subseteq Instances
    BY OthersUnchanged DEF StopsLeading
  <2> QED
    BY <1>2, <2>1, <2>2, OthersUnchanged DEF OthersTyped
<1>4. LogGrows
  BY <1>2, UnchangedGrows
<1>5. PICK n \in Ticks : /\ tick' = [tick EXCEPT ![i] = n] /\ n.step = t.step
                         /\ n.from = t.from /\ n.batch = t.batch /\ n.todo = t.todo
  <2>1. PICK fence \in {"none", "held", "lost"} : tick' = [tick EXCEPT ![i].fence = fence]
    BY <1>1 DEF StopsLeading, Ticks
  <2> DEFINE new == [t EXCEPT !.fence = fence]
  <2>2. /\ new \in Ticks /\ new.step = t.step /\ new.from = t.from
        /\ new.batch = t.batch /\ new.todo = t.todo
    BY DEF Ticks
  <2>3. tick' = [tick EXCEPT ![i] = new]
    BY <1>1, <2>1
  <2> HIDE DEF new
  <2> QED
    BY <2>2, <2>3
<1>6. TickOK(i, n)
  <2>1. t.step \notin BeforeBatch => Batched(n)
    BY <1>1, <1>5 DEF TickOK, Batched
  <2>2. t.step \notin BeforeCursor => HandledTo(n.from)
    BY <1>1, <1>5 DEF TickOK
  <2> QED
    BY <1>1, <1>5, <2>1, <2>2 DEF TickOK
<1>7. TickOK(i, n)'
  BY <1>2, <1>4, <1>6, TickStays DEF TickOK
<1> QED
  BY <1>2, <1>3, <1>5, <1>7, TickOnly

(* A tick that starts, and one that reads its cursor. *)
LEMMA StartAndCursorKeep ==
  ASSUME PollerInv, NEW i \in Instances, StartTick(i) \/ GetCursor(i)
  PROVE  PollerInv'
<1>1. PICK t \in Ticks : t = tick[i] /\ TickOK(i, t) /\ tick \in [Instances -> Ticks]
  BY DEF PollerInv, PollerTypeOK
<1>2. OthersTyped /\ UNCHANGED <<logVars, progress, rowLock, handled, again>>
  BY OthersUnchanged DEF StartTick, GetCursor, OnlyTick, OthersTyped, lockVars
<1>3. LogGrows
  BY <1>2, UnchangedGrows
<1>4. CASE StartTick(i)
  <2>1. PICK fence \in {"held", "none"} : tick' = [tick EXCEPT ![i].step = "status", ![i].fence = fence]
    BY <1>4 DEF StartTick
  <2>2. PICK n \in Ticks : tick' = [tick EXCEPT ![i] = n] /\ n.step = "status" /\ n.batch = t.batch /\ n.todo = t.todo
    <3> DEFINE new == [t EXCEPT !.step = "status", !.fence = fence]
    <3>1. new \in Ticks /\ new.step = "status" /\ new.batch = t.batch /\ new.todo = t.todo
      BY DEF Ticks, Steps
    <3>2. tick' = [tick EXCEPT ![i] = new]
      BY <1>1, <2>1
    <3> HIDE DEF new
    <3> QED
      BY <3>1, <3>2
  <2>3. t.step = "idle"
    BY <1>1, <1>4 DEF StartTick, At
  <2>4. TickOK(i, n)'
    BY <1>1, <2>2, <2>3 DEF TickOK, BeforeCursor, BeforeBatch
  <2> QED
    BY <1>2, <2>2, <2>4, TickOnly
<1>5. CASE GetCursor(i)
  <2>1. PICK c \in Cursor : c = progress.cursor /\ HandledTo(c)
    BY DEF PollerInv, PollerTypeOK, Progress
  <2>2. PICK n \in Ticks : tick' = [tick EXCEPT ![i] = n] /\ n.step = "fetch" /\ n.from = c
                           /\ n.batch = t.batch /\ n.todo = t.todo
    <3> DEFINE new == [t EXCEPT !.step = "fetch", !.from = c]
    <3>1. new \in Ticks /\ new.step = "fetch" /\ new.from = c /\ new.batch = t.batch /\ new.todo = t.todo
      BY DEF Ticks, Steps
    <3>2. tick' = [tick EXCEPT ![i] = new]
      BY <1>1, <1>5, <2>1 DEF GetCursor
    <3> HIDE DEF new
    <3> QED
      BY <3>1, <3>2
  <2>3. t.step = "cursor"
    BY <1>1, <1>5 DEF GetCursor, At
  <2>4. HandledTo(c)'
    BY <1>2, <1>3, <2>1, HandledToStays
  <2>5. TickOK(i, n)'
    BY <1>1, <2>2, <2>3, <2>4 DEF TickOK, BeforeCursor, BeforeBatch
  <2> QED
    BY <1>2, <2>2, <2>5, TickOnly
<1> QED
  BY <1>4, <1>5

(* What is fetched starts right after the cursor and leaves nothing out:   *)
(* every event that is not yet fetchable comes after all that are.         *)
LEMMA FetchEventsKeeps ==
  ASSUME PollerInv, NEW i \in Instances, FetchEvents(i)
  PROVE  PollerInv'
<1>1. PICK t \in Ticks : t = tick[i] /\ TickOK(i, t) /\ tick \in [Instances -> Ticks]
  BY DEF PollerInv, PollerTypeOK
<1>2. OthersTyped /\ UNCHANGED <<logVars, progress, handled, again>> /\ t.step = "fetch"
  <2>1. \/ EndTick(i)
        \/ UNCHANGED rowLock
    BY DEF FetchEvents
  <2> QED
    BY <1>1, <2>1, OthersUnchanged DEF FetchEvents, OnlyTick, OthersTyped, lockVars, EndTick, At
<1>3. LogGrows
  BY <1>2, UnchangedGrows
<1>4. PICK B \in SUBSET Ready(t.from) :
             /\ FirstOf(Ready(t.from), B)
             /\ IF B = {} THEN EndTick(i)
                ELSE /\ tick' = [tick EXCEPT ![i].step = "fence", ![i].batch = B, ![i].todo = B]
                     /\ UNCHANGED rowLock
  BY <1>1 DEF FetchEvents
<1>5. CASE B = {}
  BY <1>2, <1>4, <1>5, EndTickKeeps, OthersUnchanged DEF FetchEvents, OnlyTick, lockVars
<1>6. CASE B # {}
  <2>1. PICK n \in Ticks : /\ tick' = [tick EXCEPT ![i] = n]
                           /\ n.step = "fence" /\ n.from = t.from /\ n.batch = B /\ n.todo = B
    <3> DEFINE new == [t EXCEPT !.step = "fence", !.batch = B, !.todo = B]
    <3>1. B \subseteq rows
      BY <1>4 DEF Ready
    <3>2. new \in Ticks /\ new.step = "fence" /\ new.from = t.from /\ new.batch = B /\ new.todo = B
      BY <3>1 DEF Ticks, Steps
    <3>3. tick' = [tick EXCEPT ![i] = new]
      BY <1>1, <1>4, <1>6
    <3> HIDE DEF new
    <3> QED
      BY <3>2, <3>3
  <2>2. PICK xmin \in Nat : /\ xmin = CurrentSnapshot(0).xmin /\ xmin <= nextXid
                            /\ \A x \in running : xmin <= x
    <3>1. CurrentSnapshot(0) \in Snapshot
      BY SnapshotOfRunning DEF PollerInv, PollerTypeOK, IdsInv
    <3>2. CurrentSnapshot(0).xmax <= nextXid /\ CurrentSnapshot(0).xmin <= CurrentSnapshot(0).xmax
      BY SnapshotOfRunning DEF PollerInv, PollerTypeOK, IdsInv
    <3>3. \A x \in running : CurrentSnapshot(0).xmin <= x
      BY SnapshotOfRunning DEF PollerInv, PollerTypeOK, IdsInv
    <3> HIDE DEF CurrentSnapshot
    <3> QED
      BY <3>1, <3>2, <3>3 DEF Snapshot, PollerInv, PollerTypeOK
  <2>3. \A r \in B : /\ Selected(r) /\ r.xid \in committed /\ r.xid < xmin /\ After(r, t.from)
                     /\ r \in rows /\ r.xid \in Nat
    BY <1>4, <2>2 DEF Ready, Fetchable, PollerInv, PollerTypeOK, IsRowOf, IsRow
  <2>4. \A r \in B : Passed(r)
    BY <2>2, <2>3 DEF Passed, PollerInv, PollerTypeOK
  <2>5. ASSUME NEW r \in B, NEW q \in rows, Selected(q), After(q, t.from), After(r, q)
        PROVE  q \in B
    <3>1. q.xid <= r.xid /\ q.xid \in Nat
      BY <2>3, <2>5 DEF After, PollerInv, PollerTypeOK, IsRowOf, IsRow
    <3>2. q.xid < xmin
      BY <2>3, <3>1
    <3>3. q.xid \in committed
      BY <2>2, <3>1, <3>2 DEF PollerInv, PollerTypeOK, IdsInv
    <3>4. q \in Ready(t.from)
      BY <2>2, <2>5, <3>2, <3>3 DEF Ready, Fetchable
    <3> QED
      BY <1>4, <2>5, <3>4 DEF FirstOf
  <2>6. Batched(n)
    BY <1>6, <2>1, <2>3, <2>4, <2>5 DEF Batched
  <2>7. HandledTo(n.from)
    BY <1>1, <1>2, <2>1 DEF TickOK, BeforeCursor
  <2>8. TickOK(i, n)
    BY <2>1, <2>6, <2>7 DEF TickOK, BeforeCursor, BeforeBatch
  <2>9. TickOK(i, n)'
    BY <1>2, <1>3, <2>1, <2>8, TickStays
  <2> QED
    BY <1>2, <1>4, <1>6, <2>1, <2>9, TickOnly
<1> QED
  BY <1>5, <1>6

-----------------------------------------------------------------------------
(* The steps that handle events. *)
LEMMA HandleKeeps ==
  ASSUME PollerInv, NEW i \in Instances, HandleInTransaction(i) \/ HandleEvent(i)
  PROVE  PollerInv'
<1>1. PICK t \in Ticks : t = tick[i] /\ TickOK(i, t) /\ tick \in [Instances -> Ticks]
  BY DEF PollerInv, PollerTypeOK
<1>2. OthersTyped /\ UNCHANGED <<logVars, progress, rowLock>> /\ t.step = "handle"
  BY <1>1, OthersUnchanged DEF HandleInTransaction, HandleEvent, OnlyTick, OthersTyped, lockVars, At
<1>3. LogGrows
  BY <1>2, UnchangedGrows
<1>4. HandledTo(t.from) /\ Batched(t) /\ t.todo \subseteq t.batch
  BY <1>1, <1>2 DEF TickOK, BeforeCursor, BeforeBatch
<1>5. CASE HandleInTransaction(i)
  <2>1. PICK n \in Ticks : /\ tick' = [tick EXCEPT ![i] = n] /\ n.step = "fence again"
                           /\ n.from = t.from /\ n.batch = t.batch /\ n.todo = {}
    <3> DEFINE new == [t EXCEPT !.step = "fence again", !.todo = {}]
    <3>1. /\ new \in Ticks /\ new.step = "fence again" /\ new.from = t.from
          /\ new.batch = t.batch /\ new.todo = {}
      BY DEF Ticks, Steps
    <3>2. tick' = [tick EXCEPT ![i] = new]
      BY <1>1, <1>5 DEF HandleInTransaction
    <3> HIDE DEF new
    <3> QED
      BY <3>1, <3>2
  <2>2. TickOK(i, n)
    BY <1>4, <1>5, <2>1 DEF TickOK, Batched, BeforeCursor, BeforeBatch, HandleInTransaction
  <2>3. handled' = handled /\ again' = again
    BY <1>5 DEF HandleInTransaction, OnlyTick
  <2>4. TickOK(i, n)'
    BY <1>2, <1>3, <2>1, <2>2, <2>3, TickStays
  <2> QED
    BY <1>2, <2>1, <2>3, <2>4, TickOnly
<1>6. CASE HandleEvent(i)
  <2>1. PICK r \in t.todo :
          /\ IsFirstOf(r, t.todo)
          /\ tick' = [tick EXCEPT ![i].todo = @ \ {r},
                                  ![i].step = IF t.todo = {r} THEN "fence again" ELSE @]
          /\ handled' = handled \cup {r} /\ again' = again \cup (handled \cap {r})
    BY <1>1, <1>6 DEF HandleEvent, Done
  <2>2. PICK step \in {"handle", "fence again"} :
          /\ tick' = [tick EXCEPT ![i].todo = @ \ {r}, ![i].step = step]
          /\ step = "fence again" => t.todo = {r}
    BY <1>1, <1>2, <2>1
  <2>3. PICK n \in Ticks : /\ tick' = [tick EXCEPT ![i] = n] /\ n.step = step
                           /\ n.from = t.from /\ n.batch = t.batch /\ n.todo = t.todo \ {r}
    <3> DEFINE new == [t EXCEPT !.step = step, !.todo = t.todo \ {r}]
    <3>1. /\ new \in Ticks /\ new.step = step /\ new.from = t.from
          /\ new.batch = t.batch /\ new.todo = t.todo \ {r}
      BY DEF Ticks, Steps
    <3>2. tick' = [tick EXCEPT ![i] = new]
      BY <1>1, <2>2
    <3> HIDE DEF new
    <3> QED
      BY <3>1, <3>2
  <2>4. r \in t.batch /\ r \in rows /\ r.xid \in committed
    BY <1>4 DEF Ticks, Batched
  <2>5. Batched(n)
    <3>1. ASSUME NEW e \in n.todo, NEW q \in n.batch, After(q, e)
          PROVE  q \in n.todo
      <4>1. e \in t.todo /\ q \in t.batch
        BY <2>3
      <4>2. q \in t.todo
        BY <1>4, <3>1, <4>1 DEF Batched
      <4>3. q # r
        BY <2>1, <3>1, <4>1 DEF IsFirstOf
      <4> QED
        BY <2>3, <4>2, <4>3
    <3> QED
      BY <1>4, <2>3, <3>1 DEF Batched
  <2>6. HandledTo(t.from)'
    <3>1. t.from \in Cursor
      BY DEF Ticks
    <3> QED
      BY <1>3, <1>4, <2>1, <3>1, HandledToStays
  <2>7. Batched(n)'
    <3>1. n.todo \subseteq n.batch
      BY <1>4, <2>3
    <3> QED
      BY <1>3, <2>5, <3>1, BatchedStays
  <2>8. ~ Atomic
    BY <1>6 DEF HandleEvent
  <2>9. n.batch \ n.todo \subseteq handled' /\ n.todo \subseteq n.batch
    BY <1>1, <1>4, <2>1, <2>3, <2>8 DEF TickOK
  <2>10. TickOK(i, n)'
    BY <2>2, <2>3, <2>6, <2>7, <2>8, <2>9 DEF TickOK, Atomic, BeforeCursor, BeforeBatch
  <2>11. n \in Ticks'
    BY <1>2 DEF Ticks, logVars
  <2>12. \A j \in Instances \ {i} : rowLock = j => rowLock' = j /\ progress'.cursor = progress.cursor
    BY <1>2
  <2>13. tick' \in [Instances -> Ticks'] /\ \A j \in Instances : TickOK(j, tick[j])'
    BY <1>3, <2>1, <2>3, <2>10, <2>11, <2>12, OneTick
  <2>14. HandledTo(progress.cursor)'
    <3>1. PICK c \in Cursor : c = progress.cursor /\ HandledTo(c) /\ progress'.cursor = c
      BY <1>2 DEF PollerInv, PollerTypeOK, Progress
    <3>2. HandledTo(c)'
      BY <1>3, <2>1, <3>1, HandledToStays
    <3> QED
      BY <3>1, <3>2
  <2>15. ViewIsItsCursor'
    BY <2>8 DEF ViewIsItsCursor, Atomic
  <2>16. handled' \subseteq rows /\ again' \subseteq handled' /\ \A e \in handled' : e.xid \in committed
    BY <2>1, <2>4 DEF PollerInv, PollerTypeOK, IdsInv
  <2>17. PollerTypeOK' /\ IdsInv'
    BY <1>2, <2>13, <2>16, LogTypeStays DEF PollerTypeOK, OthersTyped
  <2> QED
    BY <2>13, <2>14, <2>15, <2>17 DEF PollerInv
<1> QED
  BY <1>5, <1>6

-----------------------------------------------------------------------------
(* The steps that move the cursor. *)

(* The front of a batch takes the cursor forward over nothing but itself.  *)
LEMMA FrontOfBatch ==
  ASSUME PollerInv, NEW i \in Instances, NEW t \in Ticks, TickOK(i, t), t.step \notin BeforeBatch,
         NEW D \in SUBSET t.batch, D # {}, \A r \in D, q \in t.batch : After(r, q) => q \in D,
         NEW c, c = LastOf(D, ZeroCursor)
  PROVE  /\ c \in Cursor
         /\ Passed(c)
         /\ After(c, t.from)
         /\ \A q \in rows : (Selected(q) /\ ~ After(q, c)) <=> (Selected(q) /\ ~ After(q, t.from)) \/ q \in D
         /\ \A q \in rows : (Selected(q) /\ ~ After(q, t.from)) => q.xid \in committed /\ q \in handled /\ q \notin D
         /\ \A q \in D : q \in rows /\ q.xid \in committed
<1>1. HandledTo(t.from) /\ Batched(t) /\ t.from \in Cursor /\ t.batch \subseteq rows
  BY DEF TickOK, BeforeCursor, BeforeBatch, Ticks
<1>2. \A q \in rows : q.xid \in Nat /\ q.pos \in Nat /\ q.xid < nextXid /\ q.pos < nextPos /\ IsRow(q)
  BY DEF PollerInv, PollerTypeOK, IdsInv, IsRowOf, IsRow
<1>3. PICK r \in D : c = [xid |-> r.xid, pos |-> r.pos] /\ \A q \in D : ~ After(q, r)
  <2>1. nextXid \in Nat /\ nextPos \in Nat /\ \A q \in D : IsRow(q) /\ q.xid < nextXid /\ q.pos < nextPos
    BY <1>1, <1>2 DEF PollerInv, PollerTypeOK
  <2> QED
    BY <2>1, LastOfRows
<1>4. c.xid = r.xid /\ c.pos = r.pos /\ r \in rows
  BY <1>1, <1>3
<1>5. c \in Cursor /\ Passed(c) /\ After(c, t.from)
  BY <1>1, <1>2, <1>3, <1>4 DEF Cursor, Batched, Passed, After
<1>6. \A q \in D : Selected(q) /\ ~ After(q, c) /\ q \in rows /\ q.xid \in committed /\ After(q, t.from)
  BY <1>1, <1>3, <1>4 DEF Batched, After
<1>7. ASSUME NEW q \in rows, Selected(q), ~ After(q, c), After(q, t.from)
      PROVE  q \in D
  <2>1. CASE q.pos = r.pos
    BY <1>4, <2>1 DEF PollerInv, IdsInv
  <2>2. CASE q.pos # r.pos
    <3>1. After(r, q)
      BY <1>2, <1>4, <1>7, <2>2 DEF After
    <3>2. q \in t.batch
      BY <1>1, <1>7, <3>1 DEF Batched
    <3> QED
      BY <3>1, <3>2
  <2> QED
    BY <2>1, <2>2
<1>8. ASSUME NEW q \in rows, ~ After(q, t.from)
      PROVE  ~ After(q, c)
  BY <1>1, <1>2, <1>5, <1>8 DEF After, Cursor
<1>9. \A q \in rows : (Selected(q) /\ ~ After(q, t.from)) => q.xid \in committed /\ q \in handled /\ q \notin D
  BY <1>1, <1>6 DEF HandledTo
<1> QED
  BY <1>5, <1>6, <1>7, <1>8, <1>9

LEMMA PrefixAndCursorKeep ==
  ASSUME PollerInv, NEW i \in Instances, MovePrefix(i) \/ MoveCursor(i)
  PROVE  PollerInv'
<1>1. PICK t \in Ticks : t = tick[i] /\ TickOK(i, t) /\ tick \in [Instances -> Ticks]
  BY DEF PollerInv, PollerTypeOK
<1>2. /\ UNCHANGED <<logVars, rowLock, handled, again, lockVars, resetting, used>> /\ RowFree(i)
  <2>1. RowFree(i)
    BY DEF MovePrefix, MoveCursor
  <2>2. UNCHANGED <<logVars, rowLock, handled, again, lockVars, resetting, used>>
    BY DEF MovePrefix, MoveCursor
  <2> QED
    BY <2>1, <2>2
<1>3. LogGrows
  BY <1>2, UnchangedGrows
<1>4. PICK D \in SUBSET t.batch :
        /\ D = t.batch \ t.todo
        /\ Move(i, LastOf(D, ZeroCursor))
        /\ \/ t.step = "move prefix" /\ Go(i, "failed")
           \/ t.step = "move" /\ Go(i, "reset")
  <2>1. CASE MovePrefix(i)
    BY <1>1, <2>1 DEF MovePrefix, At
  <2>2. CASE MoveCursor(i)
    <3>1. t.todo = {} /\ t.batch \ t.todo = t.batch
      BY <1>1, <2>2 DEF MoveCursor, At, TickOK
    <3> QED
      BY <1>1, <2>2, <3>1 DEF MoveCursor, At
  <2> QED
    BY <2>1, <2>2
<1>5. ~ Atomic /\ t.step \notin BeforeBatch /\ t.step \notin BeforeCursor /\ Batched(t)
  BY <1>1, <1>4 DEF MovePrefix, MoveCursor, TickOK, BeforeBatch, BeforeCursor, At
<1>6. D # {} /\ D \subseteq handled
  BY <1>1, <1>4, <1>5 DEF TickOK, Batched
<1>7. \A r \in D, q \in t.batch : After(r, q) => q \in D
  BY <1>4, <1>5 DEF Batched
<1>8. PICK c : c = LastOf(D, ZeroCursor)
  OBVIOUS
<1>9. c \in Cursor /\ HandledTo(c)
  <2>1. /\ c \in Cursor
        /\ Passed(c)
        /\ \A q \in rows : (Selected(q) /\ ~ After(q, c)) <=> (Selected(q) /\ ~ After(q, t.from)) \/ q \in D
        /\ \A q \in rows : (Selected(q) /\ ~ After(q, t.from)) => q.xid \in committed /\ q \in handled
        /\ \A q \in D : q \in rows /\ q.xid \in committed
    BY <1>1, <1>5, <1>6, <1>7, <1>8, FrontOfBatch
  <2> QED
    BY <1>6, <2>1 DEF HandledTo
<1>10. progress' \in Progress /\ HandledTo(progress'.cursor)
  <2>1. progress \in Progress /\ HandledTo(progress.cursor)
    BY DEF PollerInv, PollerTypeOK
  <2>2. CASE progress' = progress
    BY <2>1, <2>2
  <2>3. CASE progress' = [progress EXCEPT !.cursor = c]
    <3>1. progress' \in Progress /\ progress'.cursor = c
      BY <1>9, <2>1, <2>3 DEF Progress
    <3> QED
      BY <1>9, <3>1
  <2> QED
    BY <1>4, <1>8, <2>2, <2>3 DEF Move
<1>11. OthersTyped
  BY <1>2, <1>10, OthersUnchanged DEF OthersTyped, lockVars
<1>12. HandledTo(progress.cursor)'
  <2>1. PICK d \in Cursor : d = progress'.cursor /\ HandledTo(d)
    BY <1>10 DEF Progress
  <2>2. HandledTo(d)'
    BY <1>2, <1>3, <2>1, HandledToStays
  <2> QED
    BY <2>1, <2>2
<1>13. PICK n \in Ticks : /\ tick' = [tick EXCEPT ![i] = n] /\ n.step \in {"failed", "reset"}
                          /\ n.from = t.from /\ n.batch = t.batch /\ n.todo = t.todo
  <2>1. PICK step \in {"failed", "reset"} : Go(i, step)
    BY <1>4
  <2> DEFINE new == [t EXCEPT !.step = step]
  <2>2. /\ new \in Ticks /\ new.step = step /\ new.from = t.from
        /\ new.batch = t.batch /\ new.todo = t.todo
    BY DEF Ticks, Steps
  <2>3. tick' = [tick EXCEPT ![i] = new]
    BY <1>1, <2>1 DEF Go
  <2> HIDE DEF new
  <2> QED
    BY <2>2, <2>3
<1>14. TickOK(i, n)'
  <2>1. TickOK(i, n)
    BY <1>1, <1>5, <1>13 DEF TickOK, Batched, BeforeBatch, BeforeCursor
  <2> QED
    BY <1>2, <1>3, <1>13, <2>1, TickStays
<1>15. n \in Ticks'
  BY <1>2 DEF Ticks, logVars
<1>16. \A j \in Instances \ {i} : rowLock # j
  BY <1>2, PollerConstants DEF RowFree
<1>17. tick' \in [Instances -> Ticks'] /\ \A j \in Instances : TickOK(j, tick[j])'
  BY <1>2, <1>3, <1>13, <1>14, <1>15, <1>16, OneTick
<1>18. ViewIsItsCursor'
  BY <1>5 DEF ViewIsItsCursor, Atomic
<1>19. handled \subseteq rows /\ again \subseteq handled /\ \A e \in handled : e.xid \in committed
  BY DEF PollerInv, PollerTypeOK, IdsInv
<1>20. PollerTypeOK' /\ IdsInv'
  BY <1>2, <1>11, <1>17, <1>19, LogTypeStays DEF PollerTypeOK, OthersTyped
<1> QED
  BY <1>12, <1>17, <1>18, <1>20 DEF PollerInv

(* The batch's transaction: its effects and its cursor at once. *)
LEMMA CommitBatchKeeps ==
  ASSUME PollerInv, NEW i \in Instances, CommitBatch(i)
  PROVE  PollerInv'
<1>1. PICK t \in Ticks : t = tick[i] /\ TickOK(i, t) /\ tick \in [Instances -> Ticks]
  BY DEF PollerInv, PollerTypeOK
<1>2. PICK c : c = LastOf(t.batch, ZeroCursor)
  OBVIOUS
<1>3. /\ UNCHANGED <<logVars, lockVars, resetting, used>> /\ rowLock' = NoOne
      /\ t.step = "commit" /\ progress' = [progress EXCEPT !.cursor = c]
      /\ handled' = handled \cup t.batch /\ again' = again \cup (handled \cap t.batch)
      /\ Go(i, "reset")
  BY <1>1, <1>2 DEF CommitBatch, At, Done
<1>4. Atomic /\ rowLock = i /\ progress.cursor = t.from /\ Batched(t) /\ t.todo = {} /\ HandledTo(t.from)
  BY <1>1, <1>3 DEF TickOK, BeforeBatch, BeforeCursor
<1>5. LogGrows
  BY <1>3, UnchangedGrows
<1>6. /\ c \in Cursor
      /\ Passed(c)
      /\ \A q \in rows : (Selected(q) /\ ~ After(q, c)) <=> (Selected(q) /\ ~ After(q, t.from)) \/ q \in t.batch
      /\ \A q \in rows : (Selected(q) /\ ~ After(q, t.from)) => q.xid \in committed /\ q \in handled /\ q \notin t.batch
      /\ \A q \in t.batch : q \in rows /\ q.xid \in committed
  <2>1. t.step \notin BeforeBatch /\ t.batch # {}
    BY <1>3, <1>4 DEF BeforeBatch, BeforeCursor, Batched
  <2> QED
    BY <1>1, <1>2, <2>1, FrontOfBatch
<1>7. handled = {q \in rows : Selected(q) /\ ~ After(q, t.from)} /\ again = {}
  BY <1>4 DEF PollerInv, ViewIsItsCursor
<1>8. handled' = {q \in rows : Selected(q) /\ ~ After(q, c)} /\ again' = {}
  BY <1>3, <1>6, <1>7
<1>9. progress' \in Progress /\ progress'.cursor = c
  BY <1>3, <1>6, OthersUnchanged DEF Progress
<1>10. ViewIsItsCursor'
  BY <1>3, <1>8, <1>9 DEF ViewIsItsCursor, Selected, logVars
<1>11. HandledTo(progress.cursor)'
  <2>1. HandledTo(c)'
    BY <1>3, <1>6, <1>8 DEF HandledTo, Passed, logVars, Selected
  <2> QED
    BY <1>9, <2>1
<1>12. OthersTyped
  BY <1>3, <1>9, OthersUnchanged DEF OthersTyped, lockVars
<1>13. PICK n \in Ticks : /\ tick' = [tick EXCEPT ![i] = n] /\ n.step = "reset"
                          /\ n.from = t.from /\ n.batch = t.batch /\ n.todo = {}
  <2> DEFINE new == [t EXCEPT !.step = "reset"]
  <2>1. /\ new \in Ticks /\ new.step = "reset" /\ new.from = t.from
        /\ new.batch = t.batch /\ new.todo = {}
    BY <1>4 DEF Ticks, Steps
  <2>2. tick' = [tick EXCEPT ![i] = new]
    BY <1>1, <1>3 DEF Go
  <2> HIDE DEF new
  <2> QED
    BY <2>1, <2>2
<1>14. TickOK(i, n)'
  <2>1. TickOK(i, n)
    BY <1>4, <1>13 DEF TickOK, Batched, BeforeBatch, BeforeCursor
  <2> QED
    BY <1>3, <1>5, <1>13, <2>1, TickStays
<1>15. n \in Ticks'
  BY <1>3 DEF Ticks, logVars
<1>16. \A j \in Instances \ {i} : rowLock # j
  BY <1>4
<1>17. tick' \in [Instances -> Ticks'] /\ \A j \in Instances : TickOK(j, tick[j])'
  BY <1>3, <1>5, <1>13, <1>14, <1>15, <1>16, OneTick
<1>18. handled' \subseteq rows /\ again' \subseteq handled' /\ \A e \in handled' : e.xid \in committed
  BY <1>3, <1>6, <1>8 DEF PollerInv, PollerTypeOK, IdsInv
<1>19. PollerTypeOK' /\ IdsInv'
  BY <1>3, <1>12, <1>17, <1>18, LogTypeStays DEF PollerTypeOK, OthersTyped
<1> QED
  BY <1>10, <1>11, <1>17, <1>19 DEF PollerInv

-----------------------------------------------------------------------------
LEMMA PollerInitHolds == PollerInit => PollerInv
<1> SUFFICES ASSUME PollerInit PROVE PollerInv
  OBVIOUS
<1> USE PollerConstants DEF PollerInit, LogInit
<1>1. ZeroCursor \in Cursor /\ ZeroCursor.xid = 0
  BY DEF ZeroCursor, Cursor
<1>2. tick \in [Instances -> Ticks]
  BY <1>1 DEF Ticks, Steps
<1>3. PollerTypeOK
  <2>1. progress \in Progress
    BY <1>1 DEF Progress
  <2>2. used \in [failures : Nat, faults : Nat, requests : Nat]
    OBVIOUS
  <2>3. nextXid \in Nat \ {0} /\ nextPos \in Nat \ {0} /\ lastDone \in Nat
    OBVIOUS
  <2>4. running = {} /\ committed = {} /\ rows = {} /\ handled = {} /\ again = {} /\ leads = {}
    OBVIOUS
  <2>5. rowLock = NoOne /\ owner = NoOne /\ resetting \in 0 .. 2
    OBVIOUS
  <2> QED
    BY ONLY <1>2, <2>1, <2>2, <2>3, <2>4, <2>5 DEF PollerTypeOK
<1>4. IdsInv
  BY DEF IdsInv
<1>5. HandledTo(progress.cursor)
  BY <1>1 DEF HandledTo, Passed
<1>6. ViewIsItsCursor
  BY DEF ViewIsItsCursor
<1>7. \A i \in Instances : TickOK(i, tick[i])
  BY DEF TickOK, BeforeCursor, BeforeBatch
<1> QED
  BY <1>3, <1>4, <1>5, <1>6, <1>7 DEF PollerInv

LEMMA PollerNextKeeps ==
  ASSUME PollerInv, [PollerNext]_vars
  PROVE  PollerInv'
<1>1. CASE UNCHANGED vars
  BY <1>1, NothingMoves, OthersUnchanged DEF vars, workVars, lockVars, OthersTyped
<1>2. CASE WriterStep
  BY <1>2, WriterStepKeeps
<1>3. CASE OperatorStep
  BY <1>3, LockAndOperatorKeep
<1>4. ASSUME NEW i \in Instances, InstanceStep(i)
      PROVE  PollerInv'
  BY <1>4, LockAndOperatorKeep, StopsLeadingKeeps, QuietStepsKeep, StartAndCursorKeep, FetchEventsKeeps, HandleKeeps,
     PrefixAndCursorKeep, CommitBatchKeeps DEF InstanceStep, Proceeds, BatchStep
<1> QED
  BY <1>1, <1>2, <1>3, <1>4 DEF PollerNext

(* The invariant of the processors holds for every number of instances,    *)
(* writers and events, and every kind of processor.                        *)
THEOREM PollerKeepsInv == PollerSpec => []PollerInv
<1>1. PollerInit => PollerInv
  BY PollerInitHolds
<1>2. PollerInv /\ [PollerNext]_vars => PollerInv'
  BY PollerNextKeeps
<1> QED
  BY <1>1, <1>2, PTL DEF PollerSpec

(* No processor ever skips an event, whatever the order in which the       *)
(* writers' ids, positions and commits come and whoever runs the ticks     *)
(* (buildBatchQuery, ProgressTracker.moveCursor).                          *)
THEOREM NothingIsSkipped == PollerSpec => []NoSkip
<1>1. PollerInv => NoSkip
  BY DEF PollerInv, HandledTo, NoSkip
<1> QED
  BY <1>1, PollerKeepsInv, PTL

(* A view is exactly what its cursor says, each event applied once,        *)
(* zombies and crashes included (EventProcessor, a batch's transaction).   *)
THEOREM ViewHoldsItsCursor == PollerSpec => []ViewIsItsCursor
<1>1. PollerInv => ViewIsItsCursor
  BY DEF PollerInv
<1> QED
  BY <1>1, PollerKeepsInv, PTL

(* Type correctness of the processors. *)
THEOREM PollerTypeCorrect == PollerSpec => []PollerTypeOK
<1>1. PollerInv => PollerTypeOK
  BY DEF PollerInv
<1> QED
  BY <1>1, PollerKeepsInv, PTL

-----------------------------------------------------------------------------
(* The outbox. *)

LastApplied == LastOf(applied, ZeroCursor)

(* The consumer has applied what was handled, and all there is at or       *)
(* before the last event it applied; what may still arrive is in the log   *)
(* for good, and all that comes before it was handled.                     *)
Sent(w) ==
  /\ w \in rows /\ Selected(w) /\ w.xid \in committed /\ Passed(w)
  /\ \A q \in rows : (Selected(q) /\ After(w, q)) => q \in handled

ConsumerInv ==
  /\ watch = "consumer" => handled \subseteq applied
  /\ watch # "consumer" => wire = {}
  /\ applied \subseteq wire
  /\ \A w \in wire : Sent(w)
  /\ \A r \in rows : (Selected(r) /\ ~ After(r, LastApplied)) => r \in applied

Desk == [answer : {"none", "awaited", "ACTIVE", "PAUSED", "FAILED"}, before : SUBSET Instances]

(* While a pause answered PAUSED is the last word, nothing makes the row   *)
(* ACTIVE, and the ticks at work are those it was answered with.           *)
DeskInv == /\ desk \in Desk
           /\ desk.answer = "PAUSED" => /\ progress.status # "ACTIVE"
                                       /\ resetting = 0
                                       /\ Busy \subseteq desk.before

Report == [step : {"none", "cursor", "count", "done"}, known : SUBSET rows, from : Cursor, pending : Nat]

(* What a listing knew of is in the log for good, and the cursor it counts *)
(* from has been handled up to, however far the processor gets meanwhile.  *)
ReportInv ==
  /\ report \in Report
  /\ \A r \in report.known : Selected(r) /\ r.xid \in committed
  /\ report.step = "count" => HandledTo(report.from)
  /\ CaughtUpIsTrue

(* All there is or can still come at or before the reader's cursor is      *)
(* committed, and it was shown.                                            *)
BrowseInv ==
  /\ browse.after \in Cursor
  /\ Passed(browse.after)
  /\ \A r \in rows : ~ After(r, browse.after) => r \in browse.seen /\ r.xid \in committed

OutboxInv == /\ PollerInv
             /\ IsFiniteSet(rows)
             /\ ConsumerInv
             /\ DeskInv
             /\ ReportInv
             /\ BrowseInv

-----------------------------------------------------------------------------
(* A publisher is not a view: no step of a tick is a batch's transaction.  *)
LEMMA NotAtomic == ~ Atomic
BY OutboxConstants DEF Atomic

(* What publishing and the observers add to a step of the processor leaves *)
(* it a step of the processor, or no step at all.                          *)
LEMMA EveryStepIsTheProcessors ==
  ASSUME [OutboxNext]_outboxVars
  PROVE  [PollerNext]_vars
<1>1. CASE UNCHANGED outboxVars
  BY <1>1 DEF outboxVars
<1>2. CASE WriterStep \/ ResetGoesOn
  BY <1>2 DEF PollerNext, OperatorStep
<1>3. ASSUME NEW i \in Instances, InstanceMoves(i)
      PROVE  PollerNext
  <2>1. CASE Publish(i)
    BY <2>1, NotAtomic DEF Publish, PollerNext, InstanceStep, Proceeds, BatchStep
  <2>2. CASE PublishEnds(i)
    BY <2>2 DEF PublishEnds, PollerNext, InstanceStep
  <2>3. CASE RowStep(i)
    BY <2>3, NotAtomic DEF RowStep, Registers, TakesCursor, MovesOn, CountsError, ForgetsErrors,
       PollerNext, InstanceStep, Proceeds, BatchStep
  <2>4. CASE OtherStep(i)
    BY <2>4 DEF OtherStep, PollerNext, InstanceStep, Proceeds
  <2> QED
    BY <1>3, <2>1, <2>2, <2>3, <2>4 DEF InstanceMoves
<1>4. CASE \E r \in wire : Arrives(r)
  BY <1>4 DEF Arrives
<1>5. CASE PauseProcessor \/ ResumeProcessor \/ ResetProcessor
  BY <1>5 DEF PauseProcessor, ResumeProcessor, ResetProcessor, PollerNext, OperatorStep
<1>6. CASE Answer
  BY <1>6 DEF Answer
<1>7. CASE ReportStep
  BY <1>7 DEF ReportStep, ListBegins, PeekCursor, GetBacklog, BacklogUnreadable, Reported
<1>8. CASE ListEvents
  BY <1>8 DEF ListEvents
<1> QED
  BY <1>1, <1>2, <1>3, <1>4, <1>5, <1>6, <1>7, <1>8 DEF OutboxNext

(* The outbox of the log is a processor of the log: every property of      *)
(* PollerSpec holds of it (OutboxModule's makeOutboxProcessor, built on    *)
(* EventProcessor).                                                        *)
THEOREM OutboxIsAProcessor == OutboxSpec => PollerSpec
<1>1. OutboxInit => PollerInit
  BY DEF OutboxInit
<1>2. [OutboxNext]_outboxVars => [PollerNext]_vars
  BY EveryStepIsTheProcessors
<1> QED
  BY <1>1, <1>2, PTL DEF OutboxSpec, PollerSpec
-----------------------------------------------------------------------------
(* The log under a step *)

LEMMA WriterGrows ==
  ASSUME PollerInv, IsFiniteSet(rows), WriterStep
  PROVE  LogGrows /\ IsFiniteSet(rows')
<1>1. CASE AssignXid
  BY <1>1 DEF AssignXid, LogGrows, PollerInv, PollerTypeOK
<1>2. ASSUME NEW x \in running, WriterInserts(x)
      PROVE  LogGrows /\ IsFiniteSet(rows')
  <2>1. PICK kind \in {"selected", "other"} : InsertRow(x, kind)
    BY <1>2 DEF WriterInserts
  <2>2. LogGrows
    BY <2>1 DEF InsertRow, LogGrows, PollerInv, PollerTypeOK
  <2>3. IsFiniteSet(rows')
    BY <2>1, FS_AddElement DEF InsertRow
  <2> QED
    BY <2>2, <2>3
<1>3. ASSUME NEW x \in running, CommitXid(x)
      PROVE  LogGrows /\ IsFiniteSet(rows')
  BY <1>3 DEF CommitXid, Finished, LogGrows, PollerInv, PollerTypeOK
<1>4. ASSUME NEW x \in running, AbortXid(x)
      PROVE  LogGrows /\ IsFiniteSet(rows')
  <2>1. LogGrows
    BY <1>4 DEF AbortXid, Finished, LogGrows, PollerInv, PollerTypeOK, IdsInv
  <2>2. rows' \subseteq rows
    BY <1>4 DEF AbortXid
  <2> QED
    BY <2>1, <2>2, FS_Subset
<1> QED
  BY <1>1, <1>2, <1>3, <1>4 DEF WriterStep, WriterBegins

(* Only the writers touch the log. *)
LEMMA OthersLeaveTheLog ==
  ASSUME OperatorStep \/ (\E i \in Instances : InstanceStep(i)) \/ UNCHANGED vars
  PROVE  UNCHANGED logVars
<1>1. CASE OperatorStep
  BY <1>1 DEF OperatorStep, Pause, Resume, ResetBegins, ResetGoesOn, SetStatus
<1>2. ASSUME NEW i \in Instances, Acquires(i) \/ LosesSession(i) \/ StopsLeading(i) \/ StartTick(i)
      PROVE  UNCHANGED logVars
  BY <1>2 DEF Acquires, LosesSession, StopsLeading, StartTick
<1>3. ASSUME NEW i \in Instances, HandlerFails(i) \/ StatementFails(i) \/ Stops(i)
      PROVE  UNCHANGED logVars
  BY <1>3 DEF HandlerFails, StatementFails, Stops
<1>4. ASSUME NEW i \in Instances, Proceeds(i)
      PROVE  UNCHANGED logVars
  <2>1. CASE ReadStatus(i) \/ GetCursor(i) \/ FetchEvents(i) \/ FencePasses(i) \/ FenceFails(i)
    BY <2>1 DEF ReadStatus, GetCursor, FetchEvents, FencePasses, FenceFails, OnlyTick
  <2>2. CASE AutoRegister(i) \/ RecordError(i) \/ ResetErrorCount(i)
    BY <2>2 DEF AutoRegister, RecordError, ResetErrorCount
  <2>3. CASE BatchStep(i)
    BY <2>3 DEF BatchStep, HandleInTransaction, MoveInTransaction, RollBack, CommitBatch,
       HandleEvent, MovePrefix, MoveCursor, OnlyTick
  <2> QED
    BY <1>4, <2>1, <2>2, <2>3 DEF Proceeds
<1> QED
  BY <1>1, <1>2, <1>3, <1>4 DEF InstanceStep, vars

(* Nothing but the handling of an event adds to what is handled. *)
LEMMA HandledChanges ==
  ASSUME NEW i \in Instances, InstanceMoves(i)
  PROVE  Publish(i) \/ UNCHANGED handled
<1>1. PublishEnds(i) => UNCHANGED handled
  BY DEF PublishEnds, HandlerFails, StatementFails, Stops
<1>2. RowStep(i) => UNCHANGED handled
  BY DEF RowStep, Registers, TakesCursor, MovesOn, CountsError, ForgetsErrors,
     AutoRegister, GetCursor, MoveCursor, MovePrefix, RecordError, ResetErrorCount, OnlyTick
<1>3. OtherStep(i) => UNCHANGED handled
  BY DEF OtherStep, Acquires, LosesSession, StopsLeading, StartTick, ReadStatus, FetchEvents,
     FencePasses, FenceFails, OnlyTick, workVars
<1> QED
  BY <1>1, <1>2, <1>3 DEF InstanceMoves

LEMMA WhatAStepDoes ==
  ASSUME OutboxInv, [OutboxNext]_outboxVars
  PROVE  PollerInv' /\ LogGrows /\ IsFiniteSet(rows') /\ handled \subseteq handled'
<1>1. [PollerNext]_vars
  BY EveryStepIsTheProcessors
<1>2. PollerInv'
  BY <1>1, PollerNextKeeps DEF OutboxInv
<1>3. LogGrows /\ IsFiniteSet(rows')
  <2>1. CASE WriterStep
    BY <2>1, WriterGrows DEF OutboxInv
  <2>2. CASE UNCHANGED logVars
    BY <2>2, UnchangedGrows DEF OutboxInv, logVars
  <2> QED
    BY <1>1, <2>1, <2>2, OthersLeaveTheLog DEF PollerNext
<1>4. handled \subseteq handled'
  <2>1. CASE UNCHANGED outboxVars
    BY <2>1 DEF outboxVars, vars, workVars
  <2>2. CASE WriterStep \/ ResetGoesOn
    BY <2>2 DEF WriterStep, ResetGoesOn, SetStatus, workVars
  <2>3. ASSUME NEW i \in Instances, InstanceMoves(i)
        PROVE  handled \subseteq handled'
    BY <2>3, HandledChanges DEF Publish, HandleEvent, Done
  <2>4. CASE PauseProcessor \/ ResumeProcessor \/ ResetProcessor
    BY <2>4 DEF PauseProcessor, ResumeProcessor, ResetProcessor, Pause, Resume, ResetBegins, SetStatus
  <2>5. CASE (\E r \in wire : Arrives(r)) \/ Answer \/ ListEvents
    BY <2>5 DEF Arrives, Answer, ListEvents, vars, workVars
  <2>6. CASE ReportStep
    BY <2>6 DEF ReportStep, ListBegins, PeekCursor, GetBacklog, BacklogUnreadable, Reported, vars, workVars
  <2> QED
    BY <2>1, <2>2, <2>3, <2>4, <2>5, <2>6 DEF OutboxNext
<1> QED
  BY <1>2, <1>3, <1>4

-----------------------------------------------------------------------------
(* The consumer *)

(* What is on its way stays what it is: nothing can still come before it.  *)
LEMMA SentStays ==
  ASSUME PollerInv, LogGrows, handled \subseteq handled', NEW w, Sent(w)
  PROVE  Sent(w)'
<1>1. w \in rows' /\ w.xid \in committed' /\ Selected(w) /\ w.xid \in Nat
  BY DEF Sent, LogGrows, PollerInv, PollerTypeOK, IsRowOf, IsRow
<1>2. Passed(w)'
  BY <1>1, PassedStays DEF Sent
<1>3. ASSUME NEW q \in rows', Selected(q), After(w, q)
      PROVE  q \in handled'
  <2>1. CASE q \in rows
    BY <1>3, <2>1 DEF Sent
  <2>2. CASE q.xid \in running
    <3>1. w.xid < q.xid /\ q.xid \in Nat
      BY <2>2 DEF Sent, Passed, PollerInv, PollerTypeOK
    <3> QED
      BY <1>1, <1>3, <3>1 DEF After
  <2> QED
    BY <2>1, <2>2 DEF LogGrows
<1> QED
  BY <1>1, <1>2, <1>3 DEF Sent, Selected

(* Where the consumer is: at the last event it applied, or at the start.   *)
LEMMA LastIsApplied ==
  ASSUME PollerInv, NEW S, \A w \in S : Sent(w), S # {}
  PROVE  \E a \in S : LastOf(S, ZeroCursor) = [xid |-> a.xid, pos |-> a.pos] /\ \A q \in S : ~ After(q, a)
<1>1. \A w \in S : IsRow(w) /\ w.xid < nextXid /\ w.pos < nextPos
  BY DEF Sent, PollerInv, PollerTypeOK, IdsInv, IsRowOf
<1>2. nextXid \in Nat /\ nextPos \in Nat
  BY DEF PollerInv, PollerTypeOK
<1> QED
  BY <1>1, <1>2, LastOfRows

LEMMA LastIsPassed ==
  ASSUME PollerInv, ConsumerInv
  PROVE  LastApplied \in Cursor /\ \A x \in running : LastApplied.xid < x
<1>1. CASE applied = {}
  BY <1>1 DEF LastApplied, LastOf, ZeroCursor, Cursor, PollerInv, PollerTypeOK, IdsInv
<1>2. CASE applied # {}
  <2>1. PICK a \in applied : LastApplied = [xid |-> a.xid, pos |-> a.pos]
    BY <1>2, LastIsApplied DEF ConsumerInv, LastApplied
  <2>2. Sent(a) /\ a.xid \in Nat /\ a.pos \in Nat
    BY DEF ConsumerInv, Sent, PollerInv, PollerTypeOK, IsRowOf, IsRow
  <2> QED
    BY <2>1, <2>2 DEF Sent, Passed, Cursor
<1> QED
  BY <1>1, <1>2

(* A step that brings the consumer nothing leaves it as it was. *)
LEMMA ConsumerStays ==
  ASSUME PollerInv, ConsumerInv, LogGrows, handled \subseteq handled',
         UNCHANGED <<watch, applied>>, watch = "consumer" => handled' = handled,
         wire \subseteq wire', \A w \in wire' \ wire : Sent(w), watch # "consumer" => wire' = {}
  PROVE  ConsumerInv'
<1>1. \A w \in wire' : Sent(w)
  BY DEF ConsumerInv
<1>2. \A w \in wire' : Sent(w)'
  BY <1>1, SentStays
<1>3. ASSUME NEW r \in rows', Selected(r), ~ After(r, LastApplied)
      PROVE  r \in applied
  <2>1. CASE r \in rows
    BY <1>3, <2>1 DEF ConsumerInv
  <2>2. CASE r.xid \in running
    <3>1. LastApplied.xid < r.xid /\ r.xid \in Nat /\ LastApplied.xid \in Nat
      BY <2>2, LastIsPassed DEF Cursor, PollerInv, PollerTypeOK
    <3> QED
      BY <1>3, <3>1 DEF After
  <2> QED
    BY <2>1, <2>2 DEF LogGrows
<1>4. LastApplied' = LastApplied
  BY DEF LastApplied
<1>5. /\ watch' = "consumer" => handled' \subseteq applied'
      /\ watch' # "consumer" => wire' = {}
      /\ applied' \subseteq wire'
  BY DEF ConsumerInv
<1> QED
  BY <1>2, <1>3, <1>4, <1>5 DEF ConsumerInv, Selected

(* The event the publisher is called with comes right after what was       *)
(* handled of its batch, and everything before the batch was.              *)
LEMMA PublishingIsSent ==
  ASSUME PollerInv, NEW i \in Instances, NEW r \in Publishing(i)
  PROVE  Sent(r)
<1>1. PICK t \in Ticks : t = tick[i] /\ TickOK(i, t)
  BY DEF PollerInv, PollerTypeOK
<1>2. r \in t.todo /\ t.step = "handle" /\ IsFirstOf(r, t.todo)
  BY <1>1 DEF Publishing, At
<1>3. HandledTo(t.from) /\ Batched(t) /\ t.todo \subseteq t.batch /\ t.batch \ t.todo \subseteq handled
  BY <1>1, <1>2, NotAtomic DEF TickOK, BeforeCursor, BeforeBatch
<1>4. r \in rows /\ Selected(r) /\ r.xid \in committed /\ Passed(r)
  BY <1>2, <1>3 DEF Ticks, Batched
<1>5. ASSUME NEW q \in rows, Selected(q), After(r, q)
      PROVE  q \in handled
  <2>1. CASE After(q, t.from)
    <3>1. q \in t.batch
      BY <1>2, <1>3, <1>5, <2>1 DEF Batched
    <3>2. q \notin t.todo
      BY <1>2, <1>5 DEF IsFirstOf
    <3> QED
      BY <1>3, <3>1, <3>2
  <2>2. CASE ~ After(q, t.from)
    BY <1>3, <1>5, <2>2 DEF HandledTo
  <2> QED
    BY <2>1, <2>2
<1> QED
  BY <1>4, <1>5 DEF Sent

(* An event that arrives is applied, now or before, and all that comes     *)
(* before it has been.                                                     *)
LEMMA ReceivesKeeps ==
  ASSUME PollerInv, ConsumerInv, watch = "consumer", NEW w, Sent(w), Receives(w)
  PROVE  /\ w \in applied' /\ applied \subseteq applied' /\ applied' \subseteq applied \cup {w}
         /\ \A r \in rows : (Selected(r) /\ ~ After(r, LastApplied')) => r \in applied'
<1>1. \A q \in rows : q.xid \in Nat /\ q.pos \in Nat
  BY DEF PollerInv, PollerTypeOK, IsRowOf, IsRow
<1>2. w \in rows /\ Selected(w)
  BY DEF Sent
<1>3. CASE ~ After(w, LastApplied)
  <2>1. w \in applied /\ applied' = applied
    BY <1>2, <1>3 DEF ConsumerInv, Receives, LastApplied
  <2>2. LastApplied' = LastApplied
    BY <2>1 DEF LastApplied
  <2> QED
    BY <2>1, <2>2 DEF ConsumerInv
<1>4. CASE After(w, LastApplied)
  <2>1. applied' = applied \cup {w}
    BY <1>4 DEF Receives, LastApplied
  <2>2. PICK b \in applied' : /\ LastOf(applied', ZeroCursor) = [xid |-> b.xid, pos |-> b.pos]
                              /\ \A q \in applied' : ~ After(q, b)
    <3>1. applied' # {} /\ \A q \in applied' : Sent(q)
      BY <2>1 DEF ConsumerInv
    <3> QED
      BY <3>1, LastIsApplied
  <2>3. b = w
    <3>1. CASE applied = {}
      BY <2>1, <3>1
    <3>2. CASE applied # {}
      <4>1. PICK a \in applied : LastApplied = [xid |-> a.xid, pos |-> a.pos] /\ \A q \in applied : ~ After(q, a)
        BY <3>2, LastIsApplied DEF ConsumerInv, LastApplied
      <4>2. a \in rows /\ b \in rows
        BY <1>2, <2>1 DEF ConsumerInv, Sent
      <4>3. After(w, a)
        BY <1>4, <4>1 DEF After
      <4>4. ~ After(w, b)
        BY <2>1, <2>2
      <4>5. b \in applied => ~ After(b, a)
        BY <4>1
      <4> QED
        BY <1>1, <1>2, <2>1, <4>2, <4>3, <4>4, <4>5 DEF After
    <3> QED
      BY <3>1, <3>2
  <2>4. LastApplied' = [xid |-> w.xid, pos |-> w.pos]
    BY <2>2, <2>3 DEF LastApplied
  <2>5. ASSUME NEW r \in rows, Selected(r), ~ After(r, LastApplied')
        PROVE  r \in applied'
    <3>1. CASE r.pos = w.pos
      BY <1>2, <2>1, <3>1 DEF PollerInv, IdsInv
    <3>2. CASE r.pos # w.pos
      <4>1. After(w, r)
        BY <1>1, <1>2, <2>4, <2>5, <3>2 DEF After
      <4>2. r \in handled
        BY <2>5, <4>1 DEF Sent
      <4> QED
        BY <2>1, <4>2 DEF ConsumerInv
    <3> QED
      BY <3>1, <3>2
  <2> QED
    BY <2>1, <2>5
<1> QED
  BY <1>3, <1>4

LEMMA ConsumerStepKeeps ==
  ASSUME OutboxInv, [OutboxNext]_outboxVars
  PROVE  ConsumerInv'
<1>1. PollerInv /\ ConsumerInv /\ LogGrows /\ handled \subseteq handled'
  BY WhatAStepDoes DEF OutboxInv
<1>2. ASSUME UNCHANGED <<handled, watch, wire, applied>>
      PROVE  ConsumerInv'
  BY <1>1, <1>2, ConsumerStays DEF ConsumerInv
<1>3. CASE UNCHANGED outboxVars
  BY <1>2, <1>3 DEF outboxVars, observers, vars, workVars
<1>4. CASE (WriterStep \/ ResetGoesOn) /\ UNCHANGED <<watch, observers>>
  BY <1>2, <1>4 DEF WriterStep, ResetGoesOn, SetStatus, observers, workVars
<1>5. ASSUME NEW i \in Instances, InstanceMoves(i)
      PROVE  ConsumerInv'
  <2>1. watch' = watch
    BY <1>5 DEF InstanceMoves
  <2>2. \A r \in Publishing(i) : Sent(r)
    BY <1>1, PublishingIsSent
  <2>3. CASE Publish(i) /\ watch = "consumer"
    <3>1. PICK r \in Publishing(i) : Receives(r)
      BY <2>3 DEF Publish
    <3>2. UNCHANGED logVars /\ handled' = handled \cup {r}
      <4>1. UNCHANGED logVars
        BY <2>3 DEF Publish, HandleEvent
      <4>2. PICK q \in tick[i].todo : IsFirstOf(q, tick[i].todo) /\ handled' = handled \cup {q} /\ At(i, "handle")
        BY <2>3 DEF Publish, HandleEvent, Done
      <4>3. q \in Publishing(i)
        BY <4>2 DEF Publishing
      <4>4. q \in rows /\ r \in rows
        BY <2>2, <4>3 DEF Sent
      <4>5. ~ After(q, r) /\ ~ After(r, q)
        BY <3>1, <4>2 DEF Publishing, IsFirstOf
      <4>6. q = r
        BY <1>1, <4>4, <4>5 DEF After, PollerInv, PollerTypeOK, IdsInv, IsRowOf, IsRow
      <4> QED
        BY <4>1, <4>2, <4>6
    <3>3. /\ r \in applied' /\ applied \subseteq applied' /\ applied' \subseteq applied \cup {r}
          /\ \A q \in rows : (Selected(q) /\ ~ After(q, LastApplied')) => q \in applied'
      BY <1>1, <2>2, <2>3, <3>1, ReceivesKeeps
    <3>4. wire' = wire \cup Publishing(i)
      BY <2>3 DEF Publish, OnTheWire
    <3>5. \A w \in wire' : Sent(w)
      BY <1>1, <2>2, <3>4 DEF ConsumerInv
    <3>6. \A w \in wire' : Sent(w)'
      BY <1>1, <3>5, SentStays
    <3>7. handled' \subseteq applied' /\ applied' \subseteq wire'
      BY <1>1, <2>3, <3>1, <3>2, <3>3, <3>4 DEF ConsumerInv
    <3>8. rows' = rows
      BY <3>2 DEF logVars
    <3> QED
      BY <2>1, <2>3, <3>3, <3>6, <3>7, <3>8 DEF ConsumerInv, Selected
  <2>4. CASE Publish(i) /\ watch # "consumer"
    <3>1. UNCHANGED <<wire, applied>> /\ wire = {}
      BY <1>1, <2>4 DEF Publish, OnTheWire, ConsumerInv
    <3> QED
      BY <1>1, <2>1, <2>4, <3>1, ConsumerStays
  <2>5. CASE ~ Publish(i) /\ PublishEnds(i)
    <3>1. UNCHANGED <<handled, applied>>
      BY <1>5, <2>5, HandledChanges DEF PublishEnds
    <3>2. /\ wire \subseteq wire' /\ \A w \in wire' \ wire : w \in Publishing(i)
          /\ watch # "consumer" => wire' = wire /\ wire = {}
      BY <1>1, <2>5 DEF PublishEnds, OnTheWire, ConsumerInv
    <3> QED
      BY <1>1, <2>1, <2>2, <3>1, <3>2, ConsumerStays
  <2>6. CASE ~ Publish(i) /\ UNCHANGED <<wire, applied>>
    BY <1>2, <1>5, <2>1, <2>6, HandledChanges
  <2> QED
    BY <1>5, <2>3, <2>4, <2>5, <2>6 DEF InstanceMoves
<1>6. ASSUME NEW w \in wire, Arrives(w)
      PROVE  ConsumerInv'
  <2>1. watch = "consumer" /\ Sent(w)
    BY <1>1 DEF ConsumerInv
  <2>2. UNCHANGED <<handled, rows, watch, wire>> /\ Receives(w)
    BY <1>6 DEF Arrives, vars, logVars, workVars
  <2>3. /\ applied \subseteq applied' /\ applied' \subseteq applied \cup {w}
        /\ \A q \in rows : (Selected(q) /\ ~ After(q, LastApplied')) => q \in applied'
    BY <1>1, <2>1, <2>2, ReceivesKeeps
  <2>4. \A v \in wire' : Sent(v)'
    BY <1>1, <2>2, SentStays DEF ConsumerInv
  <2> QED
    BY <1>1, <2>1, <2>2, <2>3, <2>4 DEF ConsumerInv, Selected
<1>7. CASE PauseProcessor \/ ResumeProcessor \/ ResetProcessor
  BY <1>2, <1>7 DEF PauseProcessor, ResumeProcessor, ResetProcessor, Pause, Resume, ResetBegins, SetStatus, Request
<1>8. CASE Answer \/ ListEvents
  BY <1>2, <1>8 DEF Answer, ListEvents, vars, workVars
<1>9. CASE ReportStep
  BY <1>2, <1>9 DEF ReportStep, ListBegins, PeekCursor, GetBacklog, BacklogUnreadable, Reported, vars, workVars
<1> QED
  BY <1>3, <1>4, <1>5, <1>6, <1>7, <1>8, <1>9 DEF OutboxNext

-----------------------------------------------------------------------------
(* The reader of the log *)

(* A cursor nothing can come before any more has shown what it will show.  *)
LEMMA BrowseStays ==
  ASSUME PollerInv, BrowseInv, LogGrows, UNCHANGED browse
  PROVE  BrowseInv'
<1>1. PICK c \in Cursor : c = browse.after
  BY DEF BrowseInv
<1>2. Passed(c)'
  BY <1>1, PassedStays DEF BrowseInv, Cursor
<1>3. ASSUME NEW r \in rows', ~ After(r, c)
      PROVE  r \in browse.seen /\ r.xid \in committed'
  <2>1. CASE r \in rows
    BY <1>1, <1>3, <2>1 DEF BrowseInv, LogGrows
  <2>2. CASE r.xid \in running
    <3>1. c.xid < r.xid /\ r.xid \in Nat /\ c.xid \in Nat
      BY <1>1, <2>2 DEF BrowseInv, Passed, PollerInv, PollerTypeOK, Cursor
    <3> QED
      BY <1>3, <3>1 DEF After
  <2> QED
    BY <2>1, <2>2 DEF LogGrows
<1> QED
  BY <1>1, <1>2, <1>3 DEF BrowseInv

(* What is settled: nothing that runs, or will run, is at or before it.    *)
LEMMA SettledIsPassed ==
  ASSUME PollerInv
  PROVE  /\ \A x \in running, r \in rows : Settled(r) => r.xid < x
         /\ \A r \in rows, q \in rows : (Settled(r) /\ q.xid <= r.xid) => q.xid \in committed /\ Settled(q)
<1>1. PICK xmin \in Nat : xmin = CurrentSnapshot(0).xmin /\ \A x \in running : xmin <= x
  <2>1. CurrentSnapshot(0) \in Snapshot
    BY SnapshotOfRunning DEF PollerInv, PollerTypeOK, IdsInv
  <2>2. \A x \in running : CurrentSnapshot(0).xmin <= x
    BY SnapshotOfRunning DEF PollerInv, PollerTypeOK, IdsInv
  <2> HIDE DEF CurrentSnapshot
  <2> QED
    BY <2>1, <2>2 DEF Snapshot
<1>2. \A r \in rows : r.xid \in Nat /\ r.xid \in running \cup committed /\ (Settled(r) <=> r.xid < xmin)
  BY <1>1 DEF Settled, PollerInv, PollerTypeOK, IdsInv, IsRowOf, IsRow
<1>3. \A x \in running : x \in Nat
  BY DEF PollerInv, PollerTypeOK
<1>4. ASSUME NEW x \in running, NEW r \in rows, Settled(r)
      PROVE  r.xid < x
  BY <1>1, <1>2, <1>3, <1>4
<1>5. ASSUME NEW r \in rows, NEW q \in rows, Settled(r), q.xid <= r.xid
      PROVE  q.xid \in committed /\ Settled(q)
  <2>1. q.xid < xmin
    BY <1>2, <1>5
  <2>2. q.xid \notin running
    BY <1>1, <1>2, <2>1
  <2> QED
    BY <1>2, <2>1, <2>2
<1> QED
  BY <1>4, <1>5

(* A page goes on where the one before it ended and leaves nothing out.    *)
LEMMA PageKeeps ==
  ASSUME PollerInv, BrowseInv, ListEvents
  PROVE  BrowseInv'
<1>1. PICK B \in SUBSET rows :
        /\ QueryPage(browse.after, B)
        /\ browse' = [after |-> LastOf(B, browse.after), seen |-> browse.seen \cup B]
  BY DEF ListEvents
<1>2. UNCHANGED logVars
  BY DEF ListEvents, vars
<1>3. PICK c \in Cursor : c = browse.after
  BY DEF BrowseInv
<1> DEFINE there == {r \in rows : Readable(r) /\ After(r, c)}
<1>4. B \subseteq there /\ \A r \in B, q \in there : After(r, q) => q \in B
  BY <1>1, <1>3 DEF QueryPage
<1>5. \A r \in rows : r.xid \in Nat /\ r.pos \in Nat /\ IsRow(r) /\ r.xid < nextXid /\ r.pos < nextPos
  BY DEF PollerInv, PollerTypeOK, IdsInv, IsRowOf, IsRow
<1>6. PICK d \in Cursor : /\ d = LastOf(B, c)
                          /\ Passed(d)
                          /\ \A r \in rows : ~ After(r, d) => r \in browse.seen \cup B /\ r.xid \in committed
  <2>1. CASE B = {}
    BY <1>3, <2>1 DEF BrowseInv, LastOf
  <2>2. CASE B # {}
    <3>1. PICK last \in B : LastOf(B, c) = [xid |-> last.xid, pos |-> last.pos] /\ \A q \in B : ~ After(q, last)
      <4>1. nextXid \in Nat /\ nextPos \in Nat /\ \A r \in B : IsRow(r) /\ r.xid < nextXid /\ r.pos < nextPos
        BY <1>5 DEF PollerInv, PollerTypeOK
      <4> QED
        BY <2>2, <4>1, LastOfRows
    <3>2. PICK d \in Cursor : d = LastOf(B, c) /\ d.xid = last.xid /\ d.pos = last.pos
      BY <1>5, <3>1 DEF Cursor
    <3>3. last \in rows /\ Settled(last) /\ After(last, c)
      BY <1>4 DEF Readable
    <3>4. Passed(d)
      BY <1>5, <3>2, <3>3, SettledIsPassed DEF Passed
    <3>5. ASSUME NEW r \in rows, ~ After(r, d)
          PROVE  r \in browse.seen \cup B /\ r.xid \in committed
      <4>1. CASE ~ After(r, c)
        BY <1>3, <4>1 DEF BrowseInv
      <4>2. CASE After(r, c)
        <5>1. r.xid <= last.xid
          BY <1>5, <3>2, <3>3, <3>5 DEF After
        <5>2. r.xid \in committed /\ Settled(r)
          BY <3>3, <5>1, SettledIsPassed
        <5>3. r \in there
          BY <4>2, <5>2 DEF Readable
        <5>4. CASE r.pos = last.pos
          BY <3>3, <5>2, <5>4 DEF PollerInv, IdsInv
        <5>5. CASE r.pos # last.pos
          <6>1. After(last, r)
            BY <1>5, <3>2, <3>3, <3>5, <5>5 DEF After
          <6> QED
            BY <1>4, <5>2, <5>3, <6>1
        <5> QED
          BY <5>4, <5>5
      <4> QED
        BY <4>1, <4>2
    <3> QED
      BY <3>2, <3>4, <3>5
  <2> QED
    BY <2>1, <2>2
<1>7. browse'.after = d /\ browse'.seen = browse.seen \cup B
  BY <1>1, <1>3, <1>6
<1>8. Passed(d)'
  BY <1>2, <1>6 DEF Passed, logVars
<1> QED
  BY <1>2, <1>6, <1>7, <1>8 DEF BrowseInv, logVars

LEMMA BrowseStepKeeps ==
  ASSUME OutboxInv, [OutboxNext]_outboxVars
  PROVE  BrowseInv'
<1>1. PollerInv /\ BrowseInv /\ LogGrows
  BY WhatAStepDoes DEF OutboxInv
<1>2. CASE ListEvents
  BY <1>1, <1>2, PageKeeps
<1>3. ~ ListEvents => UNCHANGED browse
  <2>1. UNCHANGED outboxVars => UNCHANGED browse
    BY DEF outboxVars, observers
  <2>2. ((WriterStep \/ ResetGoesOn) /\ UNCHANGED <<watch, observers>>) => UNCHANGED browse
    BY DEF observers
  <2>3. \A i \in Instances : InstanceMoves(i) => UNCHANGED browse
    BY DEF InstanceMoves, Publish, PublishEnds
  <2>4. (PauseProcessor \/ ResumeProcessor \/ ResetProcessor) => UNCHANGED browse
    BY DEF PauseProcessor, ResumeProcessor, ResetProcessor, Request
  <2>5. ((\E r \in wire : Arrives(r)) \/ Answer) => UNCHANGED browse
    BY DEF Arrives, Answer
  <2>6. ReportStep => UNCHANGED browse
    BY DEF ReportStep, ListBegins, PeekCursor, GetBacklog, BacklogUnreadable, Reported
  <2> QED
    BY <2>1, <2>2, <2>3, <2>4, <2>5, <2>6 DEF OutboxNext
<1> QED
  BY <1>1, <1>2, <1>3, BrowseStays

-----------------------------------------------------------------------------
(* The reports *)

(* What was in the log when a report began stays there, and what was       *)
(* handled stays handled.                                                  *)
LEMMA ReportStays ==
  ASSUME PollerInv, ReportInv, LogGrows, handled \subseteq handled', UNCHANGED report
  PROVE  ReportInv'
<1>1. PICK n \in Report : n = report /\ n = report'
  BY DEF ReportInv
<1>2. \A r \in n.known : r \in rows' /\ Selected(r) /\ r.xid \in committed'
  <2>1. n.known \subseteq rows
    BY DEF Report
  <2> QED
    BY <1>1, <2>1 DEF ReportInv, LogGrows
<1>3. n \in Report'
  <2>1. n.known \in SUBSET (rows')
    BY <1>2
  <2> QED
    BY <2>1 DEF Report
<1>4. n.step = "count" => HandledTo(n.from)'
  <2>1. n.from \in Cursor
    BY DEF Report
  <2> QED
    BY <1>1, <2>1, HandledToStays DEF ReportInv
<1>5. (n.step = "done" /\ n.pending = 0) => n.known \subseteq handled'
  BY <1>1 DEF ReportInv, CaughtUpIsTrue
<1> QED
  BY <1>1, <1>2, <1>3, <1>4, <1>5 DEF ReportInv, CaughtUpIsTrue, Selected

LEMMA ReportStepKeeps ==
  ASSUME OutboxInv, [OutboxNext]_outboxVars
  PROVE  ReportInv'
<1>1. PollerInv /\ ReportInv /\ LogGrows /\ handled \subseteq handled' /\ IsFiniteSet(rows)
  BY WhatAStepDoes DEF OutboxInv
<1>2. PICK n \in Report : n = report
  BY <1>1 DEF ReportInv
<1>3. CASE ReportStep
  <2>1. UNCHANGED <<logVars, handled>>
    BY <1>3 DEF ReportStep, ListBegins, PeekCursor, GetBacklog, BacklogUnreadable, Reported, vars, workVars
  <2>2. ZeroCursor \in Cursor
    BY DEF ZeroCursor, Cursor
  <2>3. PICK m \in Report :
          /\ m = report'
          /\ \A r \in m.known : Selected(r) /\ r.xid \in committed
          /\ m.step = "count" => HandledTo(m.from)
          /\ (m.step = "done" /\ m.pending = 0) => m.known \subseteq handled
    <3>1. CASE ListBegins
      <4> DEFINE new == [n EXCEPT !.step = "cursor", !.known = {r \in CommittedRows : Selected(r)}]
      <4>1. new \in Report /\ new.step = "cursor" /\ new.known = {r \in CommittedRows : Selected(r)}
        BY DEF Report, CommittedRows
      <4>2. new = report'
        BY <1>2, <3>1 DEF ListBegins, Reported
      <4> HIDE DEF new
      <4> QED
        BY <4>1, <4>2 DEF CommittedRows
    <3>2. CASE PeekCursor
      <4>1. PICK c \in Cursor : c = progress.cursor /\ HandledTo(c)
        BY <1>1 DEF PollerInv, PollerTypeOK, Progress
      <4> DEFINE new == [n EXCEPT !.step = "count", !.from = c]
      <4>2. new \in Report /\ new.step = "count" /\ new.from = c /\ new.known = n.known
        BY DEF Report
      <4>3. new = report'
        BY <1>2, <3>2, <4>1 DEF PeekCursor, Reported
      <4> HIDE DEF new
      <4> QED
        BY <1>1, <1>2, <4>1, <4>2, <4>3 DEF ReportInv
    <3>3. CASE GetBacklog
      <4> DEFINE waiting == {r \in CommittedRows : Selected(r) /\ Pending(r, n.from)}
                 k == Lesser(Cardinality(waiting), BacklogCap)
                 new == [n EXCEPT !.step = "done", !.from = ZeroCursor, !.pending = k]
      <4>1. IsFiniteSet(waiting) /\ Cardinality(waiting) \in Nat /\ (Cardinality(waiting) = 0 <=> waiting = {})
        <5>1. waiting \subseteq rows
          BY DEF CommittedRows
        <5>2. IsFiniteSet(waiting)
          BY <1>1, <5>1, FS_Subset
        <5> QED
          BY <5>2, FS_CardinalityType, FS_EmptySet
      <4>2. k \in Nat /\ (k = 0 => waiting = {})
        <5> HIDE DEF waiting
        <5> QED
          BY <4>1, OutboxConstants DEF Lesser
      <4>3. new = report' /\ n.step = "count" /\ HandledTo(n.from)
        BY <1>1, <1>2, <3>3 DEF GetBacklog, Reported, ReportInv
      <4>4. waiting = {} => n.known \subseteq handled
        <5> SUFFICES ASSUME waiting = {}, NEW r \in n.known PROVE r \in handled
          OBVIOUS
        <5>1. r \in rows /\ Selected(r) /\ r.xid \in committed
          BY <1>1, <1>2 DEF ReportInv, Report
        <5>2. ~ After(r, n.from)
          BY <5>1 DEF CommittedRows, Pending
        <5> QED
          BY <4>3, <5>1, <5>2 DEF HandledTo
      <4> HIDE DEF waiting, k
      <4>5. new \in Report /\ new.step = "done" /\ new.pending = k /\ new.known = n.known
        BY <2>2, <4>2 DEF Report
      <4> HIDE DEF new
      <4> QED
        BY <1>1, <1>2, <4>2, <4>3, <4>4, <4>5 DEF ReportInv
    <3>4. CASE BacklogUnreadable
      <4> DEFINE new == [n EXCEPT !.step = "none", !.known = {}, !.from = ZeroCursor]
      <4>1. new \in Report /\ new.step = "none" /\ new.known = {}
        BY <2>2 DEF Report
      <4>2. new = report'
        BY <1>2, <3>4 DEF BacklogUnreadable, Reported
      <4> HIDE DEF new
      <4> QED
        BY <4>1, <4>2
    <3> QED
      BY <1>3, <3>1, <3>2, <3>3, <3>4 DEF ReportStep
  <2>4. m \in Report'
    BY <2>1 DEF Report, logVars
  <2>5. m.step = "count" => HandledTo(m.from)'
    BY <2>1, <2>3 DEF HandledTo, Passed, logVars, Selected
  <2> QED
    BY <2>1, <2>3, <2>4, <2>5 DEF ReportInv, CaughtUpIsTrue, Selected, logVars
<1>4. ~ ReportStep => UNCHANGED report
  <2>1. UNCHANGED outboxVars => UNCHANGED report
    BY DEF outboxVars, observers
  <2>2. ((WriterStep \/ ResetGoesOn) /\ UNCHANGED <<watch, observers>>) => UNCHANGED report
    BY DEF observers
  <2>3. \A i \in Instances : InstanceMoves(i) => UNCHANGED report
    BY DEF InstanceMoves, Publish, PublishEnds
  <2>4. (PauseProcessor \/ ResumeProcessor \/ ResetProcessor) => UNCHANGED report
    BY DEF PauseProcessor, ResumeProcessor, ResetProcessor, Request
  <2>5. ((\E r \in wire : Arrives(r)) \/ Answer \/ ListEvents) => UNCHANGED report
    BY DEF Arrives, Answer, ListEvents
  <2> QED
    BY <2>1, <2>2, <2>3, <2>4, <2>5 DEF OutboxNext
<1> QED
  BY <1>1, <1>3, <1>4, ReportStays

-----------------------------------------------------------------------------
(* The operator *)

(* A tick gets to work by finding the row ACTIVE and in no other way, and  *)
(* no tick makes a row ACTIVE that was not.                                *)
LEMMA OnlyAnActiveRowSetsToWork ==
  ASSUME PollerInv, NEW i \in Instances, InstanceMoves(i)
  PROVE  /\ resetting' = resetting
         /\ progress'.status = "ACTIVE" => progress.status = "ACTIVE"
         /\ progress.status = "ACTIVE" \/ Busy' \subseteq Busy
<1> USE DEF OnlyTick, lockVars, workVars
<1>1. tick \in [Instances -> Ticks] /\ progress \in Progress
  BY DEF PollerInv, PollerTypeOK
<1>2. resetting' = resetting
  <2>1. Publish(i) \/ PublishEnds(i) => resetting' = resetting
    BY DEF Publish, PublishEnds, HandleEvent, HandlerFails, StatementFails, Stops
  <2>2. RowStep(i) => resetting' = resetting
    BY DEF RowStep, Registers, TakesCursor, MovesOn, CountsError, ForgetsErrors,
       AutoRegister, GetCursor, MoveCursor, MovePrefix, RecordError, ResetErrorCount
  <2>3. OtherStep(i) => resetting' = resetting
    BY DEF OtherStep, Acquires, LosesSession, StopsLeading, StartTick, ReadStatus, FetchEvents,
       FencePasses, FenceFails
  <2> QED
    BY <2>1, <2>2, <2>3 DEF InstanceMoves
<1>3. progress'.status = "ACTIVE" => progress.status = "ACTIVE"
  <2>1. Publish(i) \/ PublishEnds(i) \/ OtherStep(i) => progress' = progress
    BY DEF Publish, PublishEnds, HandleEvent, HandlerFails, StatementFails, Stops,
       OtherStep, Acquires, LosesSession, StopsLeading, StartTick, ReadStatus, FetchEvents,
       FencePasses, FenceFails
  <2>2. AutoRegister(i) \/ GetCursor(i) \/ MovesOn(i) \/ ResetErrorCount(i) => progress'.status = progress.status
    BY <1>1 DEF AutoRegister, GetCursor, MovesOn, MoveCursor, MovePrefix, Move, ResetErrorCount, Progress
  <2>3. ASSUME RecordError(i)
        PROVE  progress'.status \in {"FAILED", progress.status}
    <3>1. \/ progress' = [progress EXCEPT !.errors = progress.errors + 1, !.status = "FAILED"]
          \/ progress' = [progress EXCEPT !.errors = progress.errors + 1, !.status = progress.status]
      BY <2>3 DEF RecordError
    <3> QED
      BY <1>1, <3>1 DEF Progress
  <2> QED
    BY <2>1, <2>2, <2>3 DEF InstanceMoves, RowStep, Registers, TakesCursor, CountsError, ForgetsErrors
<1>4. ASSUME progress.status # "ACTIVE", NEW j \in Instances, tick'[j].step \notin {"idle", "status"}
      PROVE  tick[j].step \notin {"idle", "status"}
  <2>1. CASE tick' = tick
    BY <1>4, <2>1
  <2>2. CASE EndTick(i)
    <3>1. tick'[i].step = "idle" /\ \A k \in Instances \ {i} : tick'[k] = tick[k]
      BY <1>1, <2>2 DEF EndTick, Ticks
    <3> QED
      BY <1>4, <3>1
  <2>3. ASSUME tick[i].step \notin {"idle", "status"}, \A k \in Instances \ {i} : tick'[k] = tick[k]
        PROVE  tick[j].step \notin {"idle", "status"}
    BY <1>4, <2>3
  <2>4. CASE Publish(i)
    <3>1. tick[i].step = "handle" /\ \A k \in Instances \ {i} : tick'[k] = tick[k]
      BY <1>1, <2>4 DEF Publish, HandleEvent, At
    <3> QED
      BY <2>3, <3>1
  <2>5. CASE HandlerFails(i) \/ StatementFails(i)
    <3>1. HandlerFails(i) => tick[i].step = "handle" /\ \A k \in Instances \ {i} : tick'[k] = tick[k]
      BY <1>1 DEF HandlerFails, At, Go
    <3>2. StatementFails(i) => EndTick(i) \/ (tick[i].step = "move prefix" /\ \A k \in Instances \ {i} : tick'[k] = tick[k])
      BY <1>1 DEF StatementFails, At, Go
    <3> QED
      BY <2>2, <2>3, <2>5, <3>1, <3>2
  <2>6. CASE Stops(i) \/ RecordError(i) \/ ResetErrorCount(i) \/ FenceFails(i)
    BY <2>2, <2>6 DEF Stops, RecordError, ResetErrorCount, FenceFails
  <2>7. CASE AutoRegister(i) \/ GetCursor(i) \/ MovesOn(i)
    <3>1. tick[i].step \in {"register", "cursor", "move", "move prefix"} /\ \A k \in Instances \ {i} : tick'[k] = tick[k]
      BY <1>1, <2>7 DEF AutoRegister, GetCursor, MovesOn, MoveCursor, MovePrefix, At, Go
    <3> QED
      BY <2>3, <3>1
  <2>8. CASE Acquires(i) \/ LosesSession(i)
    BY <2>1, <2>8 DEF Acquires, LosesSession
  <2>9. CASE StopsLeading(i)
    <3>1. PICK fence : tick' = [tick EXCEPT ![i].fence = fence]
      BY <2>9 DEF StopsLeading
    <3>2. \A k \in Instances : tick'[k].step = tick[k].step
      BY <1>1, <3>1 DEF Ticks
    <3> QED
      BY <1>4, <3>2
  <2>10. CASE StartTick(i)
    <3>1. tick'[i].step = "status" /\ \A k \in Instances \ {i} : tick'[k] = tick[k]
      BY <1>1, <2>10 DEF StartTick, Ticks
    <3> QED
      BY <1>4, <3>1
  <2>11. CASE ReadStatus(i)
    BY <1>4, <2>2, <2>11 DEF ReadStatus
  <2>12. CASE FetchEvents(i) \/ FencePasses(i)
    <3>1. FetchEvents(i) => tick[i].step = "fetch" /\ \A k \in Instances \ {i} : tick'[k] = tick[k]
      BY <1>1 DEF FetchEvents, At, EndTick
    <3>2. FencePasses(i) => tick[i].step \in DOMAIN AfterFence /\ \A k \in Instances \ {i} : tick'[k] = tick[k]
      BY <1>1 DEF FencePasses, AtFence, Go
    <3> QED
      BY <2>3, <2>12, <3>1, <3>2 DEF AfterFence
  <2> QED
    BY <2>4, <2>5, <2>6, <2>7, <2>8, <2>9, <2>10, <2>11, <2>12
    DEF InstanceMoves, PublishEnds, RowStep, OtherStep, Registers, TakesCursor, CountsError, ForgetsErrors
<1> QED
  BY <1>2, <1>3, <1>4 DEF Busy

LEMMA DeskStepKeeps ==
  ASSUME OutboxInv, [OutboxNext]_outboxVars
  PROVE  DeskInv'
<1>1. PollerInv /\ DeskInv
  BY DEF OutboxInv
<1>2. ASSUME UNCHANGED <<desk, progress, resetting, tick>>
      PROVE  DeskInv'
  BY <1>1, <1>2 DEF DeskInv, Busy
<1>3. CASE UNCHANGED outboxVars
  BY <1>2, <1>3 DEF outboxVars, observers, vars, workVars
<1>4. CASE (WriterStep \/ ResetGoesOn) /\ UNCHANGED <<watch, observers>>
  <2>1. CASE WriterStep
    BY <1>2, <1>4, <2>1 DEF WriterStep, observers, workVars
  <2>2. CASE ResetGoesOn
    <3>1. desk' = desk /\ resetting # 0
      BY <1>4, <2>2 DEF ResetGoesOn, observers, PollerInv
    <3> QED
      BY <1>1, <3>1 DEF DeskInv
  <2> QED
    BY <1>4, <2>1, <2>2
<1>5. ASSUME NEW i \in Instances, InstanceMoves(i)
      PROVE  DeskInv'
  <2>1. /\ desk' \in Desk /\ desk'.answer = desk.answer
        /\ \/ desk' = desk
           \/ desk'.before = {k \in desk.before : tick'[k].step # "idle"}
    <3>1. CASE desk' = desk
      BY <1>1, <3>1 DEF DeskInv
    <3>2. CASE TicksEnd
      <4> DEFINE B == {k \in desk.before : tick'[k].step # "idle"}
      <4>1. desk' = [desk EXCEPT !.before = B] /\ desk \in Desk
        BY <1>1, <3>2 DEF TicksEnd, DeskInv
      <4>2. B \subseteq desk.before
        OBVIOUS
      <4> HIDE DEF B
      <4>3. desk' \in Desk /\ desk'.answer = desk.answer /\ desk'.before = B
        BY <4>1, <4>2 DEF Desk
      <4> QED
        BY <4>3 DEF B
    <3> QED
      BY <1>5, <3>1, <3>2 DEF InstanceMoves, Publish
  <2> SUFFICES ASSUME desk'.answer = "PAUSED"
               PROVE  progress'.status # "ACTIVE" /\ resetting' = 0 /\ Busy' \subseteq desk'.before
    BY <2>1 DEF DeskInv, Desk
  <2>2. desk.answer = "PAUSED"
    BY <2>1
  <2>3. progress.status # "ACTIVE" /\ resetting = 0 /\ Busy \subseteq desk.before
    BY <1>1, <2>2 DEF DeskInv
  <2>4. progress'.status # "ACTIVE" /\ resetting' = 0 /\ Busy' \subseteq Busy
    BY <1>1, <1>5, <2>3, OnlyAnActiveRowSetsToWork
  <2>5. Busy' \subseteq desk'.before
    BY <2>1, <2>3, <2>4 DEF Busy
  <2> QED
    BY <2>4, <2>5
<1>6. CASE PauseProcessor \/ ResumeProcessor \/ ResetProcessor
  BY <1>6 DEF PauseProcessor, ResumeProcessor, ResetProcessor, Request, DeskInv, Desk
<1>7. CASE Answer
  <2>1. resetting' = 0 /\ progress' = progress /\ tick' = tick
    BY <1>7 DEF Answer, vars, workVars
  <2>2. desk'.answer = "PAUSED" => progress.status = "PAUSED" /\ desk'.before = Busy
    BY <1>7 DEF Answer
  <2>3. desk' \in Desk
    <3>1. progress.status \in {"ACTIVE", "PAUSED", "FAILED"} /\ Busy \in SUBSET Instances
      BY <1>1 DEF PollerInv, PollerTypeOK, Progress, Busy
    <3>2. \E B \in SUBSET Instances : desk' = [answer |-> progress.status, before |-> B]
      BY <1>7, <3>1 DEF Answer
    <3> QED
      BY <3>1, <3>2 DEF Desk
  <2> QED
    BY <2>1, <2>2, <2>3 DEF DeskInv, Busy, Desk
<1>8. CASE (\E r \in wire : Arrives(r)) \/ ListEvents
  BY <1>2, <1>8 DEF Arrives, ListEvents, vars, workVars
<1>9. CASE ReportStep
  BY <1>2, <1>9 DEF ReportStep, ListBegins, PeekCursor, GetBacklog, BacklogUnreadable, Reported, vars, workVars
<1> QED
  BY <1>3, <1>4, <1>5, <1>6, <1>7, <1>8, <1>9 DEF OutboxNext

-----------------------------------------------------------------------------
LEMMA OutboxInitHolds == OutboxInit => OutboxInv
<1> SUFFICES ASSUME OutboxInit PROVE OutboxInv
  OBVIOUS
<1>1. PollerInv /\ rows = {} /\ running = {} /\ handled = {} /\ nextXid = 1
  BY PollerInitHolds DEF OutboxInit, PollerInit, LogInit
<1>2. IsFiniteSet(rows)
  BY <1>1, FS_EmptySet
<1>3. ZeroCursor \in Cursor /\ ZeroCursor.xid = 0
  BY DEF ZeroCursor, Cursor
<1>4. ConsumerInv
  BY <1>1 DEF OutboxInit, ConsumerInv
<1>5. DeskInv
  BY DEF OutboxInit, DeskInv, Desk
<1>6. ReportInv
  BY <1>3 DEF OutboxInit, ReportInv, Report, CaughtUpIsTrue
<1>7. BrowseInv
  BY <1>1, <1>3 DEF OutboxInit, BrowseInv, Passed
<1> QED
  BY <1>1, <1>2, <1>4, <1>5, <1>6, <1>7 DEF OutboxInv

(* The invariant of the outbox and its observers, for every number of      *)
(* instances, writers and events (OutboxPublishingService,                 *)
(* OutboxProgressTracker, ProcessorsApiLive, EventsApiLive).               *)
THEOREM OutboxKeepsInv == OutboxSpec => []OutboxInv
<1>1. OutboxInit => OutboxInv
  BY OutboxInitHolds
<1>2. OutboxInv /\ [OutboxNext]_outboxVars => OutboxInv'
  BY WhatAStepDoes, ConsumerStepKeeps, DeskStepKeeps, ReportStepKeeps, BrowseStepKeeps DEF OutboxInv
<1> QED
  BY <1>1, <1>2, PTL DEF OutboxSpec

(* The publisher of a topic skips no event of it, whatever its observers   *)
(* do meanwhile (buildBatchQuery, OutboxProgressTracker).                  *)
THEOREM OutboxSkipsNothing == OutboxSpec => []NoSkip
BY OutboxIsAProcessor, NothingIsSkipped, PTL

(* A consumer that skips what is at or below the last event it applied     *)
(* misses nothing, though events are published twice, late or by a leader  *)
(* that no longer leads (OutboxPublisher's contract); and a reader that    *)
(* goes on from a page's cursor misses nothing in whatever order           *)
(* transactions commit (queryPage, listEvents).                            *)
THEOREM NothingIsMissed == OutboxSpec => []FollowersMissNothing
<1>1. OutboxInv => FollowersMissNothing
  BY DEF OutboxInv, ConsumerInv, BrowseInv, LastApplied, FollowersMissNothing, CommittedRows
<1> QED
  BY <1>1, OutboxKeepsInv, PTL

(* A pause answered PAUSED lets no tick begin its work until the next      *)
(* request, whatever the ticks under way register or record                *)
(* (actOnProcessor, EventProcessor's reading of the status).               *)
THEOREM PauseHolds == OutboxSpec => []AnsweredPauseHolds
<1>1. OutboxInv => AnsweredPauseHolds
  BY DEF OutboxInv, DeskInv, AnsweredPauseHolds
<1> QED
  BY <1>1, OutboxKeepsInv, PTL

(* A backlog of nothing is true of all that was committed when the listing *)
(* began, though the cursor and the count are two statements and the count *)
(* is capped (peekCursor, getBacklog, BACKLOG_CAP).                        *)
THEOREM ReportsAreTrue == OutboxSpec => []CaughtUpIsTrue
<1>1. OutboxInv => CaughtUpIsTrue
  BY DEF OutboxInv, ReportInv
<1> QED
  BY <1>1, OutboxKeepsInv, PTL
=============================================================================
