-------------------------- MODULE EventStoreProofs --------------------------
(***************************************************************************)
(* The append protocol keeps its types and holds its boundaries, for every *)
(* set of types, tags, sessions and requests, every lock hash and every    *)
(* bound on the runs.  The transactions that commit are a serial run of    *)
(* conditional appends, and with it: a key is used once, effects sort      *)
(* after their causes, a conflict is real, commands do not deadlock.       *)
(***************************************************************************)
EXTENDS EventStore, FiniteSetTheorems, WellFoundedInduction, TLAPS

-----------------------------------------------------------------------------
(* The log: its snapshots, and the last of a set of its rows.              *)

(* Every non-empty set of naturals has a least element. *)
LEMMA LeastOfNat ==
  ASSUME NEW S \in SUBSET Nat, S # {}
  PROVE  Least(S) \in S /\ \A n \in S : Least(S) <= n
<1>1. OpToRel(<, Nat) = {ss \in Nat \X Nat : ss[1] < ss[2]}
  BY Zenon DEF OpToRel
<1>2. IsWellFoundedOn({ss \in Nat \X Nat : ss[1] < ss[2]}, Nat)
  BY <1>1, NatLessThanWellFounded, Zenon
<1>3. PICK m \in S : \A n \in S : ~ (<<n, m>> \in {ss \in Nat \X Nat : ss[1] < ss[2]})
  BY <1>2, WFMin, Zenon
<1>4. ASSUME NEW n \in S PROVE m <= n
  <2>1. ASSUME n < m PROVE <<n, m>> \in {ss \in Nat \X Nat : ss[1] < ss[2]}
    BY <2>1
  <2> QED
    BY <1>3, <2>1
<1> QED
  BY <1>4 DEF Least

(* A set of naturals below some bound has a greatest element. *)
LEMMA GreatestBelow ==
  ASSUME NEW S \in SUBSET Nat, S # {}, NEW b \in Nat, \A n \in S : n < b
  PROVE  \E m \in S : \A n \in S : n <= m
<1> DEFINE D == {b - n : n \in S}
<1>1. D \in SUBSET Nat /\ D # {}
  <2>1. \A n \in S : b - n \in Nat
    OBVIOUS
  <2>2. D \subseteq Nat
    BY <2>1
  <2>3. D # {}
    OBVIOUS
  <2> QED
    BY <2>2, <2>3
<1>2. Least(D) \in D /\ \A d \in D : Least(D) <= d
  BY <1>1, LeastOfNat
<1>3. PICK m \in S : Least(D) = b - m
  BY <1>2
<1>4. \A n \in S : b - m <= b - n
  BY <1>2, <1>3
<1> QED
  BY <1>4

(* The intersection of two snapshots sees exactly what both of them see,   *)
(* for every pair of snapshots the database can hand out                   *)
(* (ReadSnapshot.intersect).                                               *)
THEOREM IntersectSeesBoth ==
  ASSUME NEW a \in Snapshot, NEW b \in Snapshot, NEW x \in Nat,
         WellFormed(a), WellFormed(b)
  PROVE  Sees(Intersect(a, b), x) <=> Sees(a, x) /\ Sees(b, x)
BY DEF Sees, Intersect, WellFormed, Snapshot, Lesser

(* Well-formed or not, what it sees both of them see. *)
LEMMA IntersectSees ==
  ASSUME NEW a \in Snapshot, NEW b \in Snapshot, NEW x \in Nat,
         Sees(Intersect(a, b), x)
  PROVE  Sees(a, x)
BY DEF Sees, Intersect, Snapshot, Lesser

(* The earliest of two cursors that carry transaction ids is not after     *)
(* either of them in the order of the log (LogPosition.earliest).          *)
THEOREM EarliestIsNotAfter ==
  ASSUME NEW p \in Cursor, NEW q \in Cursor, p.xid # 0, q.xid # 0
  PROVE  /\ Earliest(p, q) \in {p, q}
         /\ ~ After(Earliest(p, q), p)
         /\ ~ After(Earliest(p, q), q)
BY DEF Earliest, After, Cursor

(* The last of a set of rows whose ids and positions were handed out is    *)
(* one of the set that none of the others is after.                        *)
LEMMA LastOfRows ==
  ASSUME NEW S, S # {}, \A r \in S : IsRow(r),
         NEW x \in Nat, \A r \in S : r.xid < x,
         NEW n \in Nat, \A r \in S : r.pos < n,
         NEW otherwise
  PROVE  \E r \in S : /\ LastOf(S, otherwise) = [xid |-> r.xid, pos |-> r.pos]
                      /\ \A q \in S : ~ After(q, r)
<1> DEFINE xs == {r.xid : r \in S}
<1>1. PICK m \in xs : \A k \in xs : k <= m
  <2>1. xs \in SUBSET Nat /\ xs # {} /\ \A k \in xs : k < x
    BY DEF IsRow
  <2> QED
    BY <2>1, GreatestBelow
<1> DEFINE T == {r \in S : r.xid = m}
           ps == {r.pos : r \in T}
<1>2. PICK p \in ps : \A k \in ps : k <= p
  <2>1. ps \in SUBSET Nat /\ ps # {} /\ \A k \in ps : k < n
    BY DEF IsRow
  <2> QED
    BY <2>1, GreatestBelow
<1>3. PICK r \in T : r.pos = p
  BY <1>2
<1>4. \A q \in S : ~ After(q, r)
  <2> SUFFICES ASSUME NEW q \in S PROVE ~ After(q, r)
    OBVIOUS
  <2>1. q.xid <= r.xid /\ q.xid \in Nat /\ q.pos \in Nat /\ r.xid \in Nat /\ r.pos \in Nat
    BY <1>1, <1>3 DEF IsRow
  <2>2. q.xid = r.xid => q.pos <= r.pos
    BY <1>2, <1>3
  <2> QED
    BY <2>1, <2>2 DEF After
<1>5. LastOf(S, otherwise) = LET c == CHOOSE c \in S : \A q \in S : ~ After(q, c)
                             IN  [xid |-> c.xid, pos |-> c.pos]
  BY DEF LastOf
<1>6. /\ (CHOOSE c \in S : \A q \in S : ~ After(q, c)) \in S
      /\ \A q \in S : ~ After(q, CHOOSE c \in S : \A k \in S : ~ After(k, c))
  BY <1>3, <1>4
<1> QED
  BY <1>5, <1>6

(* A snapshot is the state of the ids: it passes none that runs (but its   *)
(* own) and none that is still to be taken.                                *)
LEMMA SnapshotOfRunning ==
  ASSUME NEW own \in Nat, nextXid \in Nat, lastDone \in Nat, lastDone < nextXid,
         running \in SUBSET Nat, \A x \in running : 0 < x /\ x < nextXid
  PROVE  LET s == CurrentSnapshot(own)
         IN  /\ s \in Snapshot
             /\ 0 < s.xmin /\ s.xmin <= s.xmax /\ s.xmax <= nextXid
             /\ \A x \in running : s.xmin <= x
             /\ \A x \in running \ {own} : ~ Sees(s, x)
<1> DEFINE xmax == lastDone + 1
           open == {x \in running : x < xmax}
           xmin == Least(open \cup {xmax})
           s == CurrentSnapshot(own)
<1>1. xmin \in open \cup {xmax} /\ \A n \in open \cup {xmax} : xmin <= n
  BY LeastOfNat
<1>2. s = [xmin |-> xmin, xmax |-> xmax, xip |-> open \ {own}]
  BY DEF CurrentSnapshot
<1> HIDE DEF xmin
<1>3. xmin \in Nat /\ 0 < xmin /\ xmin <= xmax
  BY <1>1
<1>4. \A x \in running : xmin <= x
  BY <1>1, <1>3
<1>5. s.xmin = xmin /\ s.xmax = xmax /\ s.xip = open \ {own}
  BY <1>2
<1>6. s \in Snapshot
  <2>1. xmax \in Nat
    OBVIOUS
  <2>2. \A x \in open \ {own} : x \in Nat
    OBVIOUS
  <2>3. open \ {own} \in SUBSET Nat
    BY <2>2, Zenon
  <2> HIDE DEF xmax, open
  <2> QED
    BY <1>2, <1>3, <2>1, <2>3 DEF Snapshot
<1>7. ASSUME NEW x \in running, x # own PROVE ~ Sees(s, x)
  <2>1. ~ (x < xmin)
    BY <1>3, <1>4
  <2>2. x < xmax => x \in open \ {own}
    BY <1>7
  <2> HIDE DEF s, xmax, open
  <2> QED
    BY <1>5, <2>1, <2>2 DEF Sees
<1> QED
  BY <1>3, <1>4, <1>5, <1>6, <1>7

-----------------------------------------------------------------------------
(* Why the writer locks are enough: whatever the types, the tags and the   *)
(* hash, the locks of an append that writes an event and the locks of an   *)
(* append whose condition selects that event cannot be held together.      *)

(* A wanted key is among the locks taken, exclusive if it is wanted so. *)
LEMMA WantedIsLocked ==
  ASSUME NEW events, NEW items, NEW w,
         w \in Wanted(events, items)
  PROVE  \E h \in WriterLocks(events, items) :
           h.id = LockHash[w[1]] /\ (w[2] = "exclusive" => h.excl)
<1> DEFINE wanted == Wanted(events, items)
           h == [id   |-> LockHash[w[1]],
                 excl |-> \E v \in wanted : LockHash[v[1]] = LockHash[w[1]] /\ v[2] = "exclusive"]
<1>1. h \in WriterLocks(events, items)
  BY DEF WriterLocks
<1>2. h.id = LockHash[w[1]]
  OBVIOUS
<1>3. w[2] = "exclusive" => h.excl
  OBVIOUS
<1> QED
  BY <1>1, <1>2, <1>3

(* The writer of an event and the checker of an item that selects it want  *)
(* one key in common, at least one of them exclusively.                    *)
LEMMA WantsMeet ==
  ASSUME NEW e \in Event, NEW i \in Item, ItemMatches(i, e)
  PROVE  \E v \in EventWants(e), w \in ItemWants(i) : v[1] = w[1] /\ w[2] = "exclusive"
<1>1. CASE i.types = {}
  <2>1. <<GlobalKey, "exclusive">> \in ItemWants(i) /\ <<GlobalKey, "shared">> \in EventWants(e)
    BY <1>1 DEF ItemWants, EventWants
  <2> QED
    BY <2>1
<1>2. CASE i.types # {} /\ i.tags = {}
  <2>1. e.type \in i.types
    BY <1>2 DEF ItemMatches
  <2>2. ItemWants(i) = {<<TypeKey(t), "exclusive">> : t \in i.types}
    BY <1>2 DEF ItemWants
  <2>3. <<TypeKey(e.type), "exclusive">> \in ItemWants(i)
    BY <2>1, <2>2
  <2>4. <<TypeKey(e.type), "shared">> \in EventWants(e)
    BY DEF EventWants
  <2> QED
    BY <2>3, <2>4
<1>3. CASE i.types # {} /\ i.tags # {}
  <2>1. PICK g \in i.tags : g \in e.tags
    BY <1>3 DEF ItemMatches
  <2>2. e.type \in i.types
    BY <1>3 DEF ItemMatches
  <2>3. ItemWants(i) = {<<LeafKey(t, k), "exclusive">> : t \in i.types, k \in i.tags}
    BY <1>3 DEF ItemWants
  <2>4. <<LeafKey(e.type, g), "exclusive">> \in ItemWants(i)
    BY <2>1, <2>2, <2>3
  <2>5. <<LeafKey(e.type, g), "exclusive">> \in EventWants(e)
    BY <2>1 DEF EventWants
  <2> QED
    BY <2>4, <2>5
<1> QED
  BY <1>1, <1>2, <1>3

(* The writer locks cover the conditions: an append of an event and an     *)
(* append whose items select it never hold their locks at the same time,   *)
(* whatever else they lock (crablet_writer_lock_keys).                     *)
THEOREM LocksCoverConditions ==
  ASSUME NEW events1, NEW items1, NEW events2, NEW items2,
         NEW e \in events1 \cap Event, NEW i \in items2 \cap Item, ItemMatches(i, e)
  PROVE  \E h \in WriterLocks(events1, items1), g \in WriterLocks(events2, items2) :
           Incompatible(h, g)
<1>1. PICK v \in EventWants(e), w \in ItemWants(i) : v[1] = w[1] /\ w[2] = "exclusive"
  BY WantsMeet
<1>2. PICK h \in WriterLocks(events1, items1) : h.id = LockHash[v[1]]
  <2>1. v \in Wanted(events1, items1)
    BY DEF Wanted
  <2> QED
    BY <2>1, WantedIsLocked
<1>3. PICK g \in WriterLocks(events2, items2) : g.id = LockHash[w[1]] /\ g.excl
  <2>1. w \in Wanted(events2, items2)
    BY DEF Wanted
  <2> QED
    BY <1>1, <2>1, WantedIsLocked
<1> QED
  BY <1>1, <1>2, <1>3 DEF Incompatible

-----------------------------------------------------------------------------

(* The appends of a request are appends. *)
LEMMA RequestAppends ==
  ASSUME NEW q \in Requests, NEW k \in Nat \ {0}, k <= Len(q.appends)
  PROVE  IsAppend(q.appends[k])
<1>1. k \in 1 .. Len(q.appends)
  BY RequestsType
<1> QED
  BY <1>1, RequestsType

(* Writer locks are lock records. *)
LEMMA LocksAreLocks ==
  ASSUME NEW a, IsAppend(a)
  PROVE  LocksOf(a) \in SUBSET Lock
<1> DEFINE evs == {a.events[i] : i \in 1 .. Len(a.events)}
           its == Boundary(a) \cup a.idem
<1>1. evs \subseteq Event
  BY DEF IsAppend
<1>2. its \subseteq Item
  BY DEF IsAppend, Boundary
<1>3. ASSUME NEW w \in Wanted(evs, its) PROVE w[1] \in LockKeys
  <2>1. CASE \E e \in evs : w \in EventWants(e)
    <3>1. PICK e \in evs : w \in EventWants(e)
      BY <2>1
    <3>2. e.type \in Types /\ e.tags \subseteq Tags
      BY <1>1 DEF Event
    <3> QED
      BY <3>1, <3>2 DEF EventWants, LockKeys
  <2>2. CASE \E i \in its : w \in ItemWants(i)
    <3>1. PICK i \in its : w \in ItemWants(i)
      BY <2>2
    <3>2. i.types \subseteq Types /\ i.tags \subseteq Tags
      BY <1>2 DEF Item
    <3>3. CASE i.types = {}
      <4>1. ItemWants(i) = {<<GlobalKey, "exclusive">>}
        BY <3>3 DEF ItemWants
      <4> QED
        BY <3>1, <4>1 DEF LockKeys
    <3>4. CASE i.types # {} /\ i.tags = {}
      <4>1. ItemWants(i) = {<<TypeKey(t), "exclusive">> : t \in i.types}
        BY <3>4 DEF ItemWants
      <4> QED
        BY <3>1, <3>2, <4>1 DEF LockKeys
    <3>5. CASE i.types # {} /\ i.tags # {}
      <4>1. ItemWants(i) = {<<LeafKey(t, g), "exclusive">> : t \in i.types, g \in i.tags}
        BY <3>5 DEF ItemWants
      <4> QED
        BY <3>1, <3>2, <4>1 DEF LockKeys
    <3> QED
      BY <3>3, <3>4, <3>5
  <2> QED
    BY <2>1, <2>2 DEF Wanted
<1>4. ASSUME NEW w \in Wanted(evs, its)
      PROVE  [id |-> LockHash[w[1]],
              excl |-> \E v \in Wanted(evs, its) : LockHash[v[1]] = LockHash[w[1]] /\ v[2] = "exclusive"] \in Lock
  <2>1. LockHash[w[1]] \in Nat
    BY <1>3, LockHashType
  <2> QED
    BY <2>1 DEF Lock
<1>5. WriterLocks(evs, its) \subseteq Lock
  BY <1>4 DEF WriterLocks
<1> QED
  BY <1>5 DEF LocksOf

(* A session between transactions is well-typed. *)
LEMMA IdleType ==
  ASSUME NEW o \in Outcomes
  PROVE  Idle(o) \in Txn
<1>1. (CHOOSE q \in Requests : TRUE) \in Requests
  BY RequestsType
<1>2. [xmin |-> 0, xmax |-> 0, xip |-> {}] \in Snapshot
  BY DEF Snapshot
<1>3. ZeroCursor \in Cursor
  BY DEF ZeroCursor, Cursor
<1> QED
  BY <1>1, <1>2, <1>3 DEF Idle, Txn, Phases

(* The next append, or the end, of a well-typed transaction is well-typed. *)
LEMMA AtPartType ==
  ASSUME NEW t \in Txn, NEW k \in Nat \ {0}
  PROVE  AtPart(t, k) \in Txn
<1>1. CASE k > Len(t.request.appends)
  BY <1>1 DEF AtPart, Txn, Phases
<1>2. CASE ~ (k > Len(t.request.appends))
  <2>1. IsAppend(t.request.appends[k])
    <3>1. t.request \in Requests
      BY DEF Txn
    <3>2. Len(t.request.appends) \in Nat
      BY <3>1, RequestsType
    <3> QED
      BY <1>2, <3>1, <3>2, RequestAppends
  <2>2. t.request.appends[k].reads \in SUBSET SUBSET Item
    BY <2>1 DEF IsAppend
  <2>3. ZeroCursor \in Cursor
    BY DEF ZeroCursor, Cursor
  <2> QED
    BY <1>2, <2>2, <2>3 DEF AtPart, Txn, Phases
<1> QED
  BY <1>1, <1>2

(* The steps of a session, the six ways to end without a commit as one. *)
LEMMA StepKinds ==
  ASSUME NEW s \in Sessions, SessionStep(s)
  PROVE  \/ Begin(s) \/ WriteElsewhere(s) \/ TakeSnapshot(s) \/ ReadEvents(s)
         \/ StartAppend(s) \/ TakeLock(s) \/ NoDuplicate(s) \/ NoConflict(s)
         \/ TakeXid(s) \/ InsertEvent(s) \/ Commit(s)
         \/ \E o \in Outcomes : EndUncommitted(s, o)
<1>1. \A o \in {"rolled back", "duplicate", "conflict", "not fresh", "deadlock"} : o \in Outcomes
  BY DEF Outcomes
<1>2. (NotFresh(s) \/ IsDuplicate(s) \/ IsConflict(s) \/ IsEmitted(s) \/ Rollback(s) \/ DeadlockVictim(s))
      => \E o \in Outcomes : EndUncommitted(s, o)
  BY <1>1 DEF NotFresh, IsDuplicate, IsConflict, IsEmitted, Rollback, DeadlockVictim
<1> QED
  BY <1>2 DEF SessionStep, Proceed, MayWait

(* What a session becomes, and that the others stay as they are. *)
LEMMA BecomeFacts ==
  ASSUME TypeOK, NEW s \in Sessions, NEW t, Become(s, t)
  PROVE  /\ txn'[s] = t
         /\ \A d \in Sessions : d # s => txn'[d] = txn[d]
         /\ t \in Txn => txn' \in [Sessions -> Txn]
BY DEF TypeOK, Become

(* The append a transaction is at is an append. *)
LEMMA AtAnAppend ==
  ASSUME TypeOK, PhaseInv, NEW s \in Sessions, InAppend(txn[s])
  PROVE  /\ IsAppend(AppendOf(s))
         /\ txn[s].wrote + 1 \in 1 .. Len(AppendOf(s).events)
<1>1. txn[s] \in Txn
  BY DEF TypeOK
<1>2. txn[s].request \in Requests /\ txn[s].part \in Nat \ {0} /\ txn[s].wrote \in Nat
  BY <1>1 DEF Txn
<1>3. txn[s].part <= Len(txn[s].request.appends) /\ txn[s].wrote < Len(AppendOf(s).events)
  BY DEF PhaseInv, PhaseOK, AppendOf
<1>4. IsAppend(AppendOf(s))
  BY <1>2, <1>3, RequestAppends DEF AppendOf, AppendAt
<1>5. Len(AppendOf(s).events) \in Nat
  BY <1>4 DEF IsAppend
<1> QED
  BY <1>2, <1>3, <1>4, <1>5

LogTypeOK == /\ nextXid \in Nat \ {0}
             /\ running \in SUBSET Nat
             /\ lastDone \in Nat
             /\ committed \in SUBSET Nat
             /\ nextPos \in Nat \ {0}
             /\ \A r \in rows : IsRow(r) /\ r.data.event \in Event

(* A failed transaction leaves a well-typed state. *)
LEMMA EndUncommittedType ==
  ASSUME TypeOK, NEW s \in Sessions, NEW o \in Outcomes, EndUncommitted(s, o)
  PROVE  TypeOK'
<1>1. txn' \in [Sessions -> Txn]
  BY IdleType, BecomeFacts DEF EndUncommitted
<1>2. txn[s].xid \in Nat
  BY DEF TypeOK, Txn
<1>3. LogTypeOK'
  <2>1. CASE UNCHANGED logVars
    BY <2>1 DEF LogTypeOK, TypeOK, logVars, IsRow
  <2>2. CASE AbortXid(txn[s].xid)
    BY <1>2, <2>2 DEF LogTypeOK, TypeOK, AbortXid, Finished, IsRow
  <2> QED
    BY <2>1, <2>2 DEF EndUncommitted
<1>4. runs' \in 0 .. MaxRuns
  BY DEF EndUncommitted, TypeOK
<1> QED
  BY <1>1, <1>3, <1>4 DEF TypeOK, LogTypeOK

(* Every step of a session keeps the types. *)
LEMMA TypeStep ==
  ASSUME TypeOK, LogInv, PhaseInv, NEW s \in Sessions, SessionStep(s)
  PROVE  TypeOK'
<1> DEFINE t == txn[s]
<1>0. /\ t \in Txn
      /\ LogTypeOK
      /\ runs \in 0 .. MaxRuns
  BY DEF TypeOK, LogTypeOK
<1>u. UNCHANGED logVars => LogTypeOK'
  BY <1>0 DEF LogTypeOK, logVars, IsRow
<1>x. AssignXid => LogTypeOK'
  BY <1>0 DEF LogTypeOK, AssignXid, IsRow
<1>z. SUFFICES LogTypeOK' /\ txn' \in [Sessions -> Txn] /\ runs' \in 0 .. MaxRuns
  BY DEF TypeOK, LogTypeOK
<1>1. CASE Begin(s)
  <2>1. PICK q \in Requests :
          Become(s, IF q.writesFirst THEN [[Idle("none") EXCEPT !.request = q] EXCEPT !.phase = "begin"]
                    ELSE AtPart([Idle("none") EXCEPT !.request = q], 1))
    BY <1>1 DEF Begin
  <2>2. Idle("none") \in Txn
    BY IdleType DEF Outcomes
  <2>3. [Idle("none") EXCEPT !.request = q] \in Txn
    BY <2>2 DEF Txn
  <2>4. [[Idle("none") EXCEPT !.request = q] EXCEPT !.phase = "begin"] \in Txn
    BY <2>3 DEF Txn, Phases
  <2>5. AtPart([Idle("none") EXCEPT !.request = q], 1) \in Txn
    BY <2>3, AtPartType
  <2>6. txn' \in [Sessions -> Txn]
    BY <2>1, <2>4, <2>5, BecomeFacts
  <2>7. runs' \in 0 .. MaxRuns
    BY <1>0, <1>1, MaxRunsType DEF Begin
  <2> QED
    BY <1>1, <1>u, <2>6, <2>7 DEF Begin
<1>2. CASE WriteElsewhere(s)
  <2>1. [t EXCEPT !.xid = nextXid] \in Txn
    BY <1>0 DEF Txn, LogTypeOK
  <2>2. AtPart([t EXCEPT !.xid = nextXid], 1) \in Txn
    BY <2>1, AtPartType
  <2> QED
    BY <1>0, <1>2, <1>x, <2>2, BecomeFacts DEF WriteElsewhere
<1>3. CASE TakeSnapshot(s)
  <2>1. PICK q \in t.unread :
          Become(s, [t EXCEPT !.phase = "read", !.query = q, !.snap = CurrentSnapshot(t.xid),
                              !.known = IF t.unread = AppendOf(s).reads
                                        THEN committed ELSE @ \cap committed])
    BY <1>3 DEF TakeSnapshot
  <2>2. CurrentSnapshot(t.xid) \in Snapshot
    BY <1>0, SnapshotOfRunning DEF LogInv, LogTypeOK, Txn
  <2>3. q \in SUBSET Item
    BY <1>0 DEF Txn
  <2>4. [t EXCEPT !.phase = "read", !.query = q, !.snap = CurrentSnapshot(t.xid),
                  !.known = IF t.unread = AppendOf(s).reads
                            THEN committed ELSE @ \cap committed] \in Txn
    BY <1>0, <2>2, <2>3 DEF Txn, Phases, LogTypeOK
  <2> QED
    BY <1>0, <1>3, <1>u, <2>1, <2>4, BecomeFacts DEF TakeSnapshot
<1>4. CASE ReadEvents(s)
  <2> DEFINE result  == {r \in Visible(t.xid) : Matches(t.query, r.data.event)}
             settled == {r \in result : Settled(r)}
             first   == t.unread = AppendOf(s).reads
             phase   == IF t.unread = {t.query} THEN "append" ELSE "snapshot"
             unread  == t.unread \ {t.query}
             loaded  == t.loaded \cup {<<t.query, r.pos>> : r \in {r \in result : r.xid # t.xid}}
             seen    == IF first THEN t.snap ELSE Intersect(t.seen, t.snap)
             cursor  == IF AppendOf(s).reads = {t.query} THEN LastOf(settled, ZeroCursor)
                        ELSE IF first THEN Horizon(t.snap) ELSE Earliest(t.cursor, Horizon(t.snap))
             new == [t EXCEPT !.phase = phase, !.unread = unread, !.loaded = loaded,
                              !.seen = seen, !.cursor = cursor]
  <2>1. Become(s, new)
    BY <1>4 DEF ReadEvents, Horizon
  <2>2. {<<t.query, r.pos>> : r \in {r \in result : r.xid # t.xid}} \subseteq (SUBSET Item) \X Nat
    BY <1>0 DEF Txn, Visible, LogTypeOK, IsRow
  <2>3. Intersect(t.seen, t.snap) \in Snapshot
    BY <1>0 DEF Txn, Snapshot, Intersect, Lesser
  <2>4. Horizon(t.snap) \in Cursor
    BY <1>0 DEF Txn, Snapshot, Cursor, Horizon
  <2>5. Earliest(t.cursor, Horizon(t.snap)) \in Cursor
    BY <1>0, <2>4 DEF Txn, Earliest
  <2>6. LastOf(settled, ZeroCursor) \in Cursor
    <3>1. CASE settled = {}
      BY <3>1 DEF LastOf, ZeroCursor, Cursor
    <3>2. CASE settled # {}
      <4>1. \A r \in settled : IsRow(r) /\ r.xid < nextXid /\ r.pos < nextPos
        BY <1>0 DEF LogInv, LogTypeOK, Visible
      <4>2. nextXid \in Nat /\ nextPos \in Nat
        BY <1>0 DEF LogTypeOK
      <4>3. PICK r \in settled : LastOf(settled, ZeroCursor) = [xid |-> r.xid, pos |-> r.pos]
        BY <3>2, <4>1, <4>2, LastOfRows
      <4> QED
        BY <4>1, <4>3 DEF IsRow, Cursor
    <3> QED
      BY <3>1, <3>2
  <2> HIDE DEF result, settled
  <2>7. /\ phase \in Phases
        /\ unread \in SUBSET SUBSET Item
        /\ loaded \in SUBSET ((SUBSET Item) \X Nat)
    BY <1>0, <2>2 DEF Txn, Phases
  <2>8. seen \in Snapshot /\ cursor \in Cursor
    BY <1>0, <2>3, <2>4, <2>5, <2>6 DEF Txn
  <2> HIDE DEF phase, unread, loaded, seen, cursor
  <2>9. new \in Txn
    BY <1>0, <2>7, <2>8 DEF Txn
  <2> HIDE DEF new
  <2> QED
    BY <1>0, <1>4, <1>u, <2>1, <2>9, BecomeFacts DEF ReadEvents
<1>5. CASE \E o \in Outcomes : EndUncommitted(s, o)
  BY <1>5, EndUncommittedType DEF TypeOK, LogTypeOK
<1>6. CASE StartAppend(s)
  <2>1. LocksOf(AppendOf(s)) \in SUBSET Lock
    BY <1>6, AtAnAppend, LocksAreLocks DEF StartAppend, At, InAppend
  <2>2. [t EXCEPT !.phase = "lock", !.todo = LocksOf(AppendOf(s))] \in Txn
    BY <1>0, <2>1 DEF Txn, Phases
  <2> QED
    BY <1>0, <1>6, <1>u, <2>2, BecomeFacts DEF StartAppend
<1>7. CASE TakeLock(s)
  <2>1. PICK l \in t.todo :
          Become(s, [t EXCEPT !.todo = @ \ {l}, !.held = @ \cup {l},
                              !.phase = IF t.todo = {l} THEN "idempotency" ELSE @])
    BY <1>7 DEF TakeLock
  <2>2. [t EXCEPT !.todo = @ \ {l}, !.held = @ \cup {l},
                  !.phase = IF t.todo = {l} THEN "idempotency" ELSE @] \in Txn
    BY <1>0 DEF Txn, Phases
  <2> QED
    BY <1>0, <1>7, <1>u, <2>1, <2>2, BecomeFacts DEF TakeLock
<1>8. CASE NoDuplicate(s)
  <2>1. [t EXCEPT !.phase = "conflict"] \in Txn
    BY <1>0 DEF Txn, Phases
  <2> QED
    BY <1>0, <1>8, <1>u, <2>1, BecomeFacts DEF NoDuplicate
<1>9. CASE NoConflict(s)
  <2>1. [t EXCEPT !.phase = IF t.xid = 0 THEN "xid" ELSE "insert"] \in Txn
    BY <1>0 DEF Txn, Phases
  <2> QED
    BY <1>0, <1>9, <1>u, <2>1, BecomeFacts DEF NoConflict
<1>10. CASE TakeXid(s)
  <2>1. [t EXCEPT !.xid = nextXid, !.phase = "insert"] \in Txn
    BY <1>0 DEF Txn, Phases, LogTypeOK
  <2> QED
    BY <1>0, <1>10, <1>x, <2>1, BecomeFacts DEF TakeXid
<1>11. CASE InsertEvent(s)
  <2> DEFINE a == AppendOf(s)
             i == t.wrote + 1
             row == [xid |-> t.xid, pos |-> nextPos,
                     data |-> [event |-> a.events[i], emit |-> EmitKey(s),
                               append |-> a, part |-> t.part, basis |-> t.loaded]]
  <2>1. /\ IsAppend(a)
        /\ i \in 1 .. Len(a.events)
    BY <1>11, AtAnAppend DEF InsertEvent, At, InAppend
  <2>2. a.events[i] \in Event
    BY <2>1 DEF IsAppend
  <2>3. t.xid \in Nat \ {0}
    BY <1>0, <1>11 DEF InsertEvent, At, PhaseInv, PhaseOK, Txn
  <2>4. LogTypeOK'
    <3>1. /\ rows' = rows \cup {row}
          /\ nextPos' = nextPos + 1
          /\ UNCHANGED <<nextXid, running, lastDone, committed>>
      BY <1>11 DEF InsertEvent, InsertRow
    <3>2. IsRow(row) /\ row.data.event \in Event
      BY <1>0, <2>2, <2>3 DEF IsRow, LogTypeOK
    <3> HIDE DEF row
    <3> QED
      BY <1>0, <3>1, <3>2 DEF LogTypeOK, IsRow
  <2>5. AtPart(t, t.part + 1) \in Txn
    <3>1. t.part + 1 \in Nat \ {0}
      BY <1>0 DEF Txn
    <3> QED
      BY <1>0, <3>1, AtPartType
  <2>6. [t EXCEPT !.wrote = i] \in Txn
    BY <1>0 DEF Txn
  <2>7. txn' \in [Sessions -> Txn]
    BY <1>11, <2>5, <2>6, BecomeFacts DEF InsertEvent
  <2> QED
    BY <1>0, <1>11, <2>4, <2>7 DEF InsertEvent
<1>12. CASE Commit(s)
  <2>1. t.xid \in Nat
    BY <1>0 DEF Txn
  <2>2. CommitXid(t.xid) => LogTypeOK'
    BY <1>0, <2>1 DEF CommitXid, Finished, LogTypeOK, IsRow
  <2>3. txn' \in [Sessions -> Txn]
    BY <1>12, IdleType, BecomeFacts DEF Commit, Outcomes
  <2> QED
    BY <1>0, <1>12, <1>u, <2>2, <2>3 DEF Commit
<1>13. \/ Begin(s) \/ WriteElsewhere(s) \/ TakeSnapshot(s) \/ ReadEvents(s)
       \/ StartAppend(s) \/ TakeLock(s) \/ NoDuplicate(s) \/ NoConflict(s)
       \/ TakeXid(s) \/ InsertEvent(s) \/ Commit(s)
       \/ \E o \in Outcomes : EndUncommitted(s, o)
  BY StepKinds
<1> QED
  BY <1>1, <1>2, <1>3, <1>4, <1>5, <1>6, <1>7, <1>8, <1>9, <1>10, <1>11, <1>12, <1>13

(* Going on to the next append keeps what the transaction holds. *)
LEMMA AtPartKeeps ==
  ASSUME NEW t \in Txn, NEW k \in Nat \ {0}
  PROVE  LET n == AtPart(t, k)
         IN  /\ n.xid = t.xid /\ n.held = t.held
             /\ n.phase \in {"commit", "append", "snapshot"}
             /\ InAppend(n) => n.unread = AppendAt(n).reads
             /\ PhaseOK(n)
<1>0. t.request \in Requests /\ Len(t.request.appends) \in Nat
  BY RequestsType DEF Txn
<1>1. CASE k > Len(t.request.appends)
  BY <1>1 DEF AtPart, Txn, InAppend, PhaseOK
<1>2. CASE k <= Len(t.request.appends)
  <2>1. IsAppend(t.request.appends[k])
    BY <1>0, <1>2, RequestAppends
  <2>2. 0 < Len(t.request.appends[k].events)
    BY <2>1 DEF IsAppend
  <2>3. ~ (k > Len(t.request.appends))
    BY <1>0, <1>2
  <2> QED
    BY <1>2, <2>2, <2>3 DEF AtPart, Txn, InAppend, PhaseOK, AppendAt
<1> QED
  BY <1>0, <1>1, <1>2

(* What each statement inside a transaction leaves of the session. *)
Keeps(n, t) == /\ n.request = t.request /\ n.part = t.part
               /\ n.wrote = t.wrote /\ n.held = t.held

KeepsReads(n, t) == /\ n.unread = t.unread /\ n.seen = t.seen
                    /\ n.cursor = t.cursor /\ n.loaded = t.loaded

LEMMA TakeSnapshotEffect ==
  ASSUME TypeOK, NEW s \in Sessions, TakeSnapshot(s)
  PROVE  /\ Keeps(txn'[s], txn[s]) /\ KeepsReads(txn'[s], txn[s])
         /\ txn'[s].xid = txn[s].xid
         /\ txn[s].phase = "snapshot" /\ txn'[s].phase = "read"
         /\ txn'[s].query \in txn[s].unread
         /\ txn'[s].snap = CurrentSnapshot(txn[s].xid)
<1> DEFINE t == txn[s]
<1>0. t \in Txn
  BY DEF TypeOK
<1>a. PICK q \in t.unread : \E k :
        Become(s, [t EXCEPT !.phase = "read", !.query = q, !.snap = CurrentSnapshot(t.xid), !.known = k])
  BY DEF TakeSnapshot
<1>1. PICK k :
        Become(s, [t EXCEPT !.phase = "read", !.query = q, !.snap = CurrentSnapshot(t.xid), !.known = k])
  BY <1>a
<1> DEFINE n == [t EXCEPT !.phase = "read", !.query = q, !.snap = CurrentSnapshot(t.xid), !.known = k]
<1>2. txn'[s] = n /\ t.phase = "snapshot"
  BY <1>1, BecomeFacts DEF TakeSnapshot, At
<1>3. /\ Keeps(n, t) /\ KeepsReads(n, t) /\ n.xid = t.xid
      /\ n.phase = "read" /\ n.query = q /\ n.snap = CurrentSnapshot(t.xid)
  BY <1>0 DEF Txn, Keeps, KeepsReads
<1> HIDE DEF n
<1> QED
  BY <1>2, <1>3

LEMMA ReadEventsEffect ==
  ASSUME TypeOK, NEW s \in Sessions, ReadEvents(s)
  PROVE  LET t == txn[s]
             n == txn'[s]
             result  == {r \in Visible(t.xid) : Matches(t.query, r.data.event)}
             settled == {r \in result : Settled(r)}
             first   == t.unread = AppendAt(t).reads
         IN  /\ Keeps(n, t) /\ n.xid = t.xid
             /\ t.phase = "read"
             /\ n.phase = IF t.unread = {t.query} THEN "append" ELSE "snapshot"
             /\ n.unread = t.unread \ {t.query}
             /\ n.loaded = t.loaded \cup {<<t.query, r.pos>> : r \in {r \in result : r.xid # t.xid}}
             /\ n.seen = IF first THEN t.snap ELSE Intersect(t.seen, t.snap)
             /\ n.cursor = IF AppendAt(t).reads = {t.query} THEN LastOf(settled, ZeroCursor)
                           ELSE IF first THEN Horizon(t.snap) ELSE Earliest(t.cursor, Horizon(t.snap))
<1> DEFINE t == txn[s]
           result  == {r \in Visible(t.xid) : Matches(t.query, r.data.event)}
           settled == {r \in result : Settled(r)}
           first   == t.unread = AppendAt(t).reads
           phase   == IF t.unread = {t.query} THEN "append" ELSE "snapshot"
           unread  == t.unread \ {t.query}
           loaded  == t.loaded \cup {<<t.query, r.pos>> : r \in {r \in result : r.xid # t.xid}}
           seen    == IF first THEN t.snap ELSE Intersect(t.seen, t.snap)
           cursor  == IF AppendAt(t).reads = {t.query} THEN LastOf(settled, ZeroCursor)
                      ELSE IF first THEN Horizon(t.snap) ELSE Earliest(t.cursor, Horizon(t.snap))
           new == [t EXCEPT !.phase = phase, !.unread = unread, !.loaded = loaded,
                            !.seen = seen, !.cursor = cursor]
<1>0. t \in Txn
  BY DEF TypeOK
<1>1. Become(s, new) /\ t.phase = "read"
  BY DEF ReadEvents, Horizon, AppendOf, At
<1>2. txn'[s] = new
  BY <1>1, BecomeFacts
<1> HIDE DEF phase, unread, loaded, seen, cursor
<1>3. /\ Keeps(new, t) /\ new.xid = t.xid
      /\ new.phase = phase /\ new.unread = unread /\ new.loaded = loaded
      /\ new.seen = seen /\ new.cursor = cursor
  BY <1>0 DEF Txn, Keeps
<1> HIDE DEF new
<1> QED
  BY <1>1, <1>2, <1>3 DEF phase, unread, loaded, seen, cursor

LEMMA AppendEffects ==
  ASSUME TypeOK, NEW s \in Sessions
  PROVE  LET t == txn[s]
             n == txn'[s]
         IN  /\ StartAppend(s) \/ NoDuplicate(s) \/ NoConflict(s)
                  => Keeps(n, t) /\ KeepsReads(n, t) /\ n.xid = t.xid
             /\ StartAppend(s) => t.phase = "append" /\ n.phase = "lock" /\ n.todo = LocksOf(AppendAt(t))
             /\ NoDuplicate(s) => t.phase = "idempotency" /\ n.phase = "conflict"
             /\ NoConflict(s)  => t.phase = "conflict" /\ n.phase = IF t.xid = 0 THEN "xid" ELSE "insert"
             /\ TakeXid(s)     => /\ Keeps(n, t) /\ KeepsReads(n, t) /\ n.xid = nextXid
                                  /\ t.phase = "xid" /\ n.phase = "insert"
<1> DEFINE t == txn[s]
<1>0. t \in Txn
  BY DEF TypeOK
<1>1. CASE StartAppend(s)
  <2>1. txn'[s] = [t EXCEPT !.phase = "lock", !.todo = LocksOf(AppendAt(t))]
    BY <1>1, BecomeFacts DEF StartAppend, AppendOf
  <2> QED
    BY <1>0, <1>1, <2>1 DEF Txn, Keeps, KeepsReads, StartAppend, At, NoDuplicate, NoConflict, TakeXid
<1>2. CASE NoDuplicate(s)
  <2>1. txn'[s] = [t EXCEPT !.phase = "conflict"]
    BY <1>2, BecomeFacts DEF NoDuplicate
  <2> QED
    BY <1>0, <1>2, <2>1 DEF Txn, Keeps, KeepsReads, StartAppend, At, NoDuplicate, NoConflict, TakeXid
<1>3. CASE NoConflict(s)
  <2>1. txn'[s] = [t EXCEPT !.phase = IF t.xid = 0 THEN "xid" ELSE "insert"]
    BY <1>3, BecomeFacts DEF NoConflict
  <2> QED
    BY <1>0, <1>3, <2>1 DEF Txn, Keeps, KeepsReads, StartAppend, At, NoDuplicate, NoConflict, TakeXid
<1>4. CASE TakeXid(s)
  <2>1. txn'[s] = [t EXCEPT !.xid = nextXid, !.phase = "insert"]
    BY <1>4, BecomeFacts DEF TakeXid
  <2> QED
    BY <1>0, <1>4, <2>1 DEF Txn, Keeps, KeepsReads, StartAppend, At, NoDuplicate, NoConflict, TakeXid
<1> QED
  BY <1>1, <1>2, <1>3, <1>4

LEMMA TakeLockEffect ==
  ASSUME TypeOK, NEW s \in Sessions, TakeLock(s)
  PROVE  LET t == txn[s]
             n == txn'[s]
         IN  /\ n.request = t.request /\ n.part = t.part /\ n.wrote = t.wrote
             /\ KeepsReads(n, t) /\ n.xid = t.xid
             /\ t.phase = "lock"
             /\ \E l \in t.todo : /\ n.held = t.held \cup {l}
                                  /\ n.todo = t.todo \ {l}
                                  /\ n.phase = IF t.todo = {l} THEN "idempotency" ELSE "lock"
                                  /\ \A d \in Sessions \ {s} : ~ Blocks(d, l)
<1> DEFINE t == txn[s]
<1>0. t \in Txn
  BY DEF TypeOK
<1>1. PICK l \in t.todo :
        /\ \A d \in Sessions \ {s} : ~ Blocks(d, l)
        /\ Become(s, [t EXCEPT !.todo = @ \ {l}, !.held = @ \cup {l},
                               !.phase = IF t.todo = {l} THEN "idempotency" ELSE @])
  BY DEF TakeLock
<1>2. t.phase = "lock"
  BY DEF TakeLock, At
<1>3. txn'[s] = [t EXCEPT !.todo = @ \ {l}, !.held = @ \cup {l},
                          !.phase = IF t.todo = {l} THEN "idempotency" ELSE @]
  BY <1>1, BecomeFacts
<1> HIDE DEF t
<1>4. LET n == [t EXCEPT !.todo = @ \ {l}, !.held = @ \cup {l},
                         !.phase = IF t.todo = {l} THEN "idempotency" ELSE @]
      IN  /\ n.request = t.request /\ n.part = t.part /\ n.wrote = t.wrote
          /\ KeepsReads(n, t) /\ n.xid = t.xid
          /\ n.held = t.held \cup {l} /\ n.todo = t.todo \ {l}
          /\ n.phase = IF t.todo = {l} THEN "idempotency" ELSE "lock"
  BY <1>0, <1>2 DEF Txn, KeepsReads
<1> QED
  BY <1>1, <1>2, <1>3, <1>4 DEF t

(* The next event of the same append, or the end of it. *)
LEMMA InsertEventEffect ==
  ASSUME TypeOK, NEW s \in Sessions, InsertEvent(s)
  PROVE  LET t == txn[s]
             n == txn'[s]
         IN  /\ t.phase = "insert"
             /\ \/ /\ t.wrote + 1 # Len(AppendAt(t).events)
                   /\ n.request = t.request /\ n.part = t.part /\ n.wrote = t.wrote + 1
                   /\ KeepsReads(n, t) /\ n.held = t.held /\ n.xid = t.xid /\ n.phase = "insert"
                \/ n = AtPart(t, t.part + 1) /\ t.part + 1 \in Nat \ {0}
<1> DEFINE t == txn[s]
<1>0. t \in Txn
  BY DEF TypeOK
<1>1. t.phase = "insert" /\ t.part + 1 \in Nat \ {0}
  BY <1>0 DEF InsertEvent, At, Txn
<1>2. txn'[s] = IF t.wrote + 1 = Len(AppendAt(t).events) THEN AtPart(t, t.part + 1)
                ELSE [t EXCEPT !.wrote = t.wrote + 1]
  BY BecomeFacts DEF InsertEvent, AppendOf
<1> HIDE DEF t
<1>3. LET n == [t EXCEPT !.wrote = t.wrote + 1]
      IN  /\ n.request = t.request /\ n.part = t.part /\ n.wrote = t.wrote + 1
          /\ KeepsReads(n, t) /\ n.held = t.held /\ n.xid = t.xid /\ n.phase = t.phase
  BY <1>0 DEF Txn, KeepsReads
<1> QED
  BY <1>1, <1>2, <1>3 DEF t

(* A session that begins, or that has ended. *)
LEMMA BeginEffect ==
  ASSUME TypeOK, PhaseInv, NEW s \in Sessions, Begin(s)
  PROVE  LET n == txn'[s]
         IN  /\ txn[s].phase = "idle" /\ txn[s].xid = 0
             /\ n.xid = 0 /\ n.held = {} /\ PhaseOK(n)
             /\ n.phase \in {"begin", "commit", "append", "snapshot"}
             /\ InAppend(n) => n.unread = AppendAt(n).reads
<1>1. txn[s].phase = "idle" /\ txn[s].xid = 0
  BY DEF Begin, At, PhaseInv, PhaseOK
<1>2. PICK q \in Requests :
        Become(s, IF q.writesFirst THEN [[Idle("none") EXCEPT !.request = q] EXCEPT !.phase = "begin"]
                  ELSE AtPart([Idle("none") EXCEPT !.request = q], 1))
  BY DEF Begin
<1> DEFINE b == [Idle("none") EXCEPT !.request = q]
           w == [b EXCEPT !.phase = "begin"]
<1>3. b \in Txn /\ b.xid = 0 /\ b.held = {}
  <2>1. Idle("none") \in Txn
    BY IdleType DEF Outcomes
  <2>2. Idle("none").xid = 0 /\ Idle("none").held = {}
    BY DEF Idle
  <2> QED
    BY <2>1, <2>2 DEF Txn
<1> HIDE DEF b
<1>4. w.xid = 0 /\ w.held = {} /\ w.phase = "begin"
  BY <1>3 DEF Txn
<1> HIDE DEF w
<1>5. txn'[s] = w \/ txn'[s] = AtPart(b, 1)
  BY <1>2, BecomeFacts DEF b, w
<1>6. CASE txn'[s] = w
  BY <1>1, <1>4, <1>6 DEF PhaseOK, InAppend
<1>7. CASE txn'[s] = AtPart(b, 1)
  BY <1>1, <1>3, <1>7, AtPartKeeps
<1> QED
  BY <1>5, <1>6, <1>7

LEMMA WriteElsewhereEffect ==
  ASSUME TypeOK, PhaseInv, NEW s \in Sessions, WriteElsewhere(s)
  PROVE  LET n == txn'[s]
         IN  /\ txn[s].phase = "begin" /\ txn[s].xid = 0
             /\ n.xid = nextXid /\ n.held = txn[s].held /\ PhaseOK(n)
             /\ n.phase \in {"commit", "append", "snapshot"}
             /\ InAppend(n) => n.unread = AppendAt(n).reads
<1>1. txn[s].phase = "begin" /\ txn[s].xid = 0
  BY DEF WriteElsewhere, At, PhaseInv, PhaseOK
<1> DEFINE b == [txn[s] EXCEPT !.xid = nextXid]
<1>2. b \in Txn /\ b.xid = nextXid /\ b.held = txn[s].held
  BY DEF TypeOK, Txn
<1>3. txn'[s] = AtPart(b, 1)
  BY BecomeFacts DEF WriteElsewhere
<1> HIDE DEF b
<1> QED
  BY <1>1, <1>2, <1>3, AtPartKeeps

LEMMA EndEffect ==
  ASSUME TypeOK, NEW s \in Sessions,
         Commit(s) \/ \E o \in Outcomes : EndUncommitted(s, o)
  PROVE  /\ txn'[s].phase = "idle" /\ txn'[s].xid = 0 /\ txn'[s].held = {}
         /\ PhaseOK(txn'[s])
<1>1. \A o : Idle(o).phase = "idle" /\ Idle(o).xid = 0 /\ Idle(o).held = {}
  BY DEF Idle
<1>2. \E o : txn'[s] = Idle(o)
  BY BecomeFacts DEF Commit, EndUncommitted
<1> QED
  BY <1>1, <1>2 DEF PhaseOK, InAppend

(* A step is one session's. *)
LEMMA OthersKept ==
  ASSUME TypeOK, NEW s \in Sessions, SessionStep(s), NEW d \in Sessions, d # s
  PROVE  txn'[d] = txn[d]
<1>1. \E t : Become(s, t)
  BY StepKinds DEF Begin, WriteElsewhere, TakeSnapshot, ReadEvents, StartAppend, TakeLock,
                   NoDuplicate, NoConflict, TakeXid, InsertEvent, Commit, EndUncommitted
<1> QED
  BY <1>1, BecomeFacts

(* What a step does to the log. *)
LEMMA LogEffect ==
  ASSUME NEW s \in Sessions, SessionStep(s)
  PROVE  \/ UNCHANGED logVars
         \/ AssignXid
         \/ InsertEvent(s)
         \/ Commit(s) /\ txn[s].xid # 0 /\ CommitXid(txn[s].xid)
         \/ txn[s].xid # 0 /\ AbortXid(txn[s].xid)
BY StepKinds DEF Begin, WriteElsewhere, TakeSnapshot, ReadEvents, StartAppend, TakeLock,
                 NoDuplicate, NoConflict, TakeXid, Commit, EndUncommitted

(* What a step does to the ids that run. *)
LEMMA XidEffect ==
  ASSUME TypeOK, LogInv, PhaseInv, NEW s \in Sessions, SessionStep(s)
  PROVE  \/ UNCHANGED <<nextXid, running>> /\ txn'[s].xid = txn[s].xid
         \/ AssignXid /\ txn[s].xid = 0 /\ txn'[s].xid = nextXid
         \/ UNCHANGED nextXid /\ running' = running \ {txn[s].xid} /\ txn'[s].xid = 0
<1>1. CASE Begin(s)
  BY <1>1, BeginEffect DEF Begin, logVars
<1>2. CASE WriteElsewhere(s)
  BY <1>2, WriteElsewhereEffect DEF WriteElsewhere
<1>3. CASE TakeSnapshot(s)
  BY <1>3, TakeSnapshotEffect DEF TakeSnapshot, logVars
<1>4. CASE ReadEvents(s)
  BY <1>4, ReadEventsEffect DEF ReadEvents, logVars
<1>5. CASE StartAppend(s) \/ NoDuplicate(s) \/ NoConflict(s)
  BY <1>5, AppendEffects DEF StartAppend, NoDuplicate, NoConflict, logVars
<1>6. CASE TakeLock(s)
  BY <1>6, TakeLockEffect DEF TakeLock, logVars
<1>7. CASE TakeXid(s)
  BY <1>7, AppendEffects DEF TakeXid, PhaseInv, PhaseOK
<1>8. CASE InsertEvent(s)
  <2>1. txn[s] \in Txn
    BY DEF TypeOK
  <2>2. txn'[s].xid = txn[s].xid
    BY <1>8, <2>1, InsertEventEffect, AtPartKeeps
  <2> QED
    BY <1>8, <2>2 DEF InsertEvent, InsertRow
<1>9. CASE Commit(s) \/ \E o \in Outcomes : EndUncommitted(s, o)
  <2>1. txn'[s].xid = 0
    BY <1>9, EndEffect
  <2>2. CASE txn[s].xid = 0
    <3>1. running \ {0} = running
      BY DEF LogInv
    <3> QED
      BY <1>9, <2>1, <2>2, <3>1 DEF Commit, EndUncommitted, logVars
  <2>3. CASE txn[s].xid # 0
    BY <1>9, <2>1, <2>3 DEF Commit, EndUncommitted, CommitXid, AbortXid, Finished
  <2> QED
    BY <2>2, <2>3
<1> QED
  BY <1>1, <1>2, <1>3, <1>4, <1>5, <1>6, <1>7, <1>8, <1>9, StepKinds

-----------------------------------------------------------------------------
(* The ids and the rows of the log. *)
LEMMA LogStep ==
  ASSUME TypeOK, LogInv, OwnerInv, PhaseInv, NEW s \in Sessions, SessionStep(s)
  PROVE  LogInv'
<1> DEFINE x == txn[s].xid
<1>0. /\ nextXid \in Nat \ {0} /\ nextPos \in Nat \ {0} /\ lastDone \in Nat
      /\ running \subseteq Nat /\ committed \subseteq Nat
      /\ \A r \in rows : r.xid \in Nat /\ r.pos \in Nat
  BY DEF TypeOK, IsRow
<1>1. CASE UNCHANGED logVars
  BY <1>1 DEF LogInv, logVars
<1>2. CASE AssignXid
  BY <1>0, <1>2 DEF LogInv, AssignXid
<1>3. CASE InsertEvent(s)
  <2>1. x \in running
    BY <1>3 DEF InsertEvent, At, PhaseInv, PhaseOK, OwnerInv
  <2>2. /\ nextPos' = nextPos + 1 /\ UNCHANGED <<nextXid, running, lastDone, committed>>
        /\ \A r \in rows' : r \in rows \/ (r.xid = x /\ r.pos = nextPos)
    BY <1>3 DEF InsertEvent, InsertRow
  <2> QED
    BY <1>0, <2>1, <2>2 DEF LogInv
<1>4. CASE x # 0 /\ CommitXid(x)
  <2>1. x \in running
    BY <1>4 DEF OwnerInv
  <2> QED
    BY <1>0, <1>4, <2>1 DEF LogInv, CommitXid, Finished
<1>5. CASE x # 0 /\ AbortXid(x)
  <2>1. x \in running
    BY <1>5 DEF OwnerInv
  <2> QED
    BY <1>0, <1>5, <2>1 DEF LogInv, AbortXid, Finished
<1> QED
  BY <1>1, <1>2, <1>3, <1>4, <1>5, LogEffect

(* Whose the running ids are. *)
LEMMA OwnerStep ==
  ASSUME TypeOK, LogInv, OwnerInv, PhaseInv, NEW s \in Sessions, SessionStep(s)
  PROVE  OwnerInv'
<1>1. \A d \in Sessions : d # s => txn'[d] = txn[d]
  BY OthersKept
<1>2. CASE UNCHANGED running /\ txn'[s].xid = txn[s].xid
  BY <1>1, <1>2 DEF OwnerInv
<1>3. CASE AssignXid /\ txn[s].xid = 0 /\ txn'[s].xid = nextXid
  <2>1. nextXid \notin running /\ 0 \notin running
    BY DEF LogInv, TypeOK
  <2>2. running' = running \cup {nextXid}
    BY <1>3 DEF AssignXid
  <2> QED
    BY <1>1, <1>3, <2>1, <2>2 DEF OwnerInv
<1>4. CASE running' = running \ {txn[s].xid} /\ txn'[s].xid = 0
  BY <1>1, <1>4 DEF OwnerInv
<1> QED
  BY <1>2, <1>3, <1>4, XidEffect

(* Where the transactions are. *)
LEMMA PhaseStep ==
  ASSUME TypeOK, PhaseInv, NEW s \in Sessions, SessionStep(s)
  PROVE  PhaseInv'
<1> DEFINE t == txn[s]
           n == txn'[s]
<1>0. t \in Txn /\ PhaseOK(t) /\ nextXid # 0
  BY DEF TypeOK, PhaseInv
<1>i. InAppend(t) => /\ IsAppend(AppendAt(t))
                     /\ t.wrote + 1 \in 1 .. Len(AppendAt(t).events)
                     /\ Len(AppendAt(t).events) \in Nat
  BY AtAnAppend DEF AppendOf, IsAppend
<1>z. SUFFICES PhaseOK(n)
  BY OthersKept DEF PhaseInv
<1>1. CASE Begin(s)
  BY <1>1, BeginEffect
<1>2. CASE WriteElsewhere(s)
  BY <1>2, WriteElsewhereEffect
<1>3. CASE TakeSnapshot(s)
  BY <1>0, <1>3, TakeSnapshotEffect DEF Keeps, KeepsReads, PhaseOK, InAppend, AppendAt
<1>4. CASE ReadEvents(s)
  BY <1>0, <1>4, ReadEventsEffect DEF Keeps, PhaseOK, InAppend, AppendAt
<1>5. CASE StartAppend(s) \/ NoDuplicate(s) \/ NoConflict(s)
  BY <1>0, <1>5, AppendEffects DEF Keeps, KeepsReads, PhaseOK, InAppend, AppendAt
<1>6. CASE TakeLock(s)
  BY <1>0, <1>6, TakeLockEffect DEF KeepsReads, PhaseOK, InAppend, AppendAt
<1>7. CASE TakeXid(s)
  BY <1>0, <1>7, AppendEffects DEF Keeps, KeepsReads, PhaseOK, InAppend, AppendAt
<1>8. CASE InsertEvent(s)
  <2>1. CASE n = AtPart(t, t.part + 1) /\ t.part + 1 \in Nat \ {0}
    BY <1>0, <2>1, AtPartKeeps
  <2>2. CASE /\ t.phase = "insert" /\ t.wrote + 1 # Len(AppendAt(t).events)
             /\ n.request = t.request /\ n.part = t.part /\ n.wrote = t.wrote + 1
             /\ KeepsReads(n, t) /\ n.xid = t.xid /\ n.phase = "insert"
    <3>1. t.wrote + 1 < Len(AppendAt(t).events)
      BY <1>i, <2>2 DEF InAppend
    <3> QED
      BY <1>0, <2>2, <3>1 DEF KeepsReads, PhaseOK, InAppend, AppendAt
  <2> QED
    BY <1>8, <2>1, <2>2, InsertEventEffect
<1>9. CASE Commit(s) \/ \E o \in Outcomes : EndUncommitted(s, o)
  BY <1>9, EndEffect
<1> QED
  BY <1>1, <1>2, <1>3, <1>4, <1>5, <1>6, <1>7, <1>8, <1>9, StepKinds

(* The row a step inserts, and the rows that stay. *)
LEMMA RowsEffect ==
  ASSUME TypeOK, PhaseInv, NEW s \in Sessions, SessionStep(s), NEW r \in rows'
  PROVE  \/ r \in rows
         \/ /\ InsertEvent(s)
            /\ r.xid = txn[s].xid /\ r.pos = nextPos
            /\ r.data.append = AppendAt(txn[s]) /\ r.data.basis = txn[s].loaded
            /\ r.data.event = AppendAt(txn[s]).events[txn[s].wrote + 1]
<1>1. CASE InsertEvent(s)
  BY <1>1 DEF InsertEvent, InsertRow, AppendOf
<1>2. CASE ~ InsertEvent(s)
  BY <1>2, LogEffect DEF logVars, AssignXid, CommitXid, Finished, AbortXid
<1> QED
  BY <1>1, <1>2

(* The rows are events of appends. *)
LEMMA RowStep ==
  ASSUME TypeOK, PhaseInv, RowInv, NEW s \in Sessions, SessionStep(s)
  PROVE  RowInv'
<1> SUFFICES ASSUME NEW r \in rows'
             PROVE  /\ IsAppend(r.data.append)
                    /\ r.data.event \in {r.data.append.events[i] : i \in 1 .. Len(r.data.append.events)}
  BY DEF RowInv
<1>1. CASE r \in rows
  BY <1>1 DEF RowInv
<1>2. CASE r \notin rows
  <2>1. /\ IsAppend(AppendAt(txn[s]))
        /\ txn[s].wrote + 1 \in 1 .. Len(AppendAt(txn[s]).events)
    BY <1>2, RowsEffect, AtAnAppend DEF InsertEvent, At, InAppend, AppendOf
  <2> QED
    BY <1>2, <2>1, RowsEffect
<1> QED
  BY <1>1, <1>2

-----------------------------------------------------------------------------
(* The writer locks. *)
LEMMA HeldEffect ==
  ASSUME TypeOK, PhaseInv, NEW s \in Sessions, SessionStep(s)
  PROVE  \/ txn'[s].held = txn[s].held
         \/ txn'[s].held = {} /\ txn'[s].xid = 0
         \/ TakeLock(s)
<1>0. txn[s] \in Txn
  BY DEF TypeOK
<1>1. CASE InsertEvent(s)
  BY <1>0, <1>1, InsertEventEffect, AtPartKeeps
<1> QED
  BY <1>1, StepKinds, BeginEffect, WriteElsewhereEffect, TakeSnapshotEffect, ReadEventsEffect,
     AppendEffects, EndEffect DEF Keeps

LEMMA LocksStep ==
  ASSUME TypeOK, PhaseInv, LockInv, NEW s \in Sessions, SessionStep(s)
  PROVE  LocksOK(txn'[s])
<1> DEFINE t == txn[s]
           n == txn'[s]
<1>0. LocksOK(t) /\ t \in Txn
  BY DEF LockInv, TypeOK
<1>1. CASE Begin(s) \/ WriteElsewhere(s)
  BY <1>1, BeginEffect, WriteElsewhereEffect DEF LocksOK
<1>2. CASE TakeSnapshot(s) \/ ReadEvents(s)
  BY <1>2, TakeSnapshotEffect, ReadEventsEffect DEF LocksOK
<1>3. CASE StartAppend(s)
  BY <1>3, AppendEffects DEF LocksOK, Keeps, AppendAt
<1>4. CASE NoDuplicate(s) \/ NoConflict(s) \/ TakeXid(s)
  BY <1>0, <1>4, AppendEffects DEF LocksOK, Keeps, AppendAt
<1>5. CASE TakeLock(s)
  <2>1. AppendAt(n) = AppendAt(t) /\ t.phase = "lock"
    BY <1>5, TakeLockEffect DEF AppendAt
  <2>2. PICK l \in t.todo : /\ n.held = t.held \cup {l} /\ n.todo = t.todo \ {l}
                            /\ n.phase = IF t.todo = {l} THEN "idempotency" ELSE "lock"
    BY <1>5, TakeLockEffect
  <2>3. LocksOf(AppendAt(t)) \subseteq n.held \cup n.todo
    BY <1>0, <2>1, <2>2 DEF LocksOK
  <2> QED
    BY <2>1, <2>2, <2>3 DEF LocksOK
<1>6. CASE InsertEvent(s)
  <2>1. CASE n = AtPart(t, t.part + 1) /\ t.part + 1 \in Nat \ {0}
    BY <1>0, <2>1, AtPartKeeps DEF LocksOK
  <2>2. CASE /\ t.phase = "insert" /\ n.phase = "insert"
             /\ n.request = t.request /\ n.part = t.part /\ n.held = t.held
    BY <1>0, <2>2 DEF LocksOK, AppendAt
  <2> QED
    BY <1>6, <2>1, <2>2, InsertEventEffect
<1>7. CASE Commit(s) \/ \E o \in Outcomes : EndUncommitted(s, o)
  BY <1>7, EndEffect DEF LocksOK
<1> QED
  BY <1>1, <1>2, <1>3, <1>4, <1>5, <1>6, <1>7, StepKinds

LEMMA LockStep ==
  ASSUME TypeOK, LogInv, OwnerInv, PhaseInv, LockInv, NEW s \in Sessions, SessionStep(s)
  PROVE  LockInv'
<1>0. \A d \in Sessions : d # s => txn'[d] = txn[d]
  BY OthersKept
<1>1. ASSUME NEW d \in Sessions, d # s, NEW h \in txn'[s].held, NEW g \in txn[d].held
      PROVE  ~ Incompatible(h, g) /\ ~ Incompatible(g, h)
  <2>1. CASE h \in txn[s].held
    BY <1>1, <2>1 DEF LockInv
  <2>2. CASE h \notin txn[s].held
    <3>1. TakeLock(s)
      BY <2>2, HeldEffect
    <3>2. ~ Blocks(d, h)
      BY <1>1, <2>2, <3>1, TakeLockEffect
    <3> QED
      BY <3>2 DEF Blocks, Incompatible
  <2> QED
    BY <2>1, <2>2
<1>2. \A d \in Sessions : LocksOK(txn'[d])
  BY <1>0, LocksStep DEF LockInv
<1>3. ASSUME NEW r \in rows', NEW d \in Sessions, r.xid = txn'[d].xid
      PROVE  LocksOf(r.data.append) \subseteq txn'[d].held
  <2>1. CASE r \in rows
    <3>1. r.xid # 0 /\ r.xid # nextXid
      BY <2>1 DEF TypeOK, IsRow, LogInv
    <3>2. CASE d # s
      BY <1>0, <1>3, <2>1, <3>2 DEF LockInv
    <3>3. CASE d = s
      <4>1. txn'[s].xid = txn[s].xid
        BY <1>3, <3>1, <3>3, XidEffect
      <4>2. LocksOf(r.data.append) \subseteq txn[s].held
        BY <1>3, <2>1, <3>3, <4>1 DEF LockInv
      <4>3. txn[s].held \subseteq txn'[s].held
        BY <1>3, <3>1, <3>3, HeldEffect, TakeLockEffect
      <4> QED
        BY <3>3, <4>2, <4>3
    <3> QED
      BY <3>2, <3>3
  <2>2. CASE r \notin rows
    <3>1. InsertEvent(s) /\ r.xid = txn[s].xid /\ r.data.append = AppendAt(txn[s])
      BY <2>2, RowsEffect
    <3>2. txn[s].phase = "insert" /\ txn[s].xid # 0
      BY <3>1 DEF InsertEvent, At, PhaseInv, PhaseOK
    <3>3. d = s
      <4>1. d # s => txn[d].xid = txn[s].xid
        BY <1>0, <1>3, <3>1
      <4> QED
        BY <3>2, <4>1 DEF OwnerInv
    <3>4. txn'[s].held = txn[s].held
      <4>1. txn[s] \in Txn
        BY DEF TypeOK
      <4> QED
        BY <3>1, <4>1, InsertEventEffect, AtPartKeeps
    <3>5. LocksOf(AppendAt(txn[s])) \subseteq txn[s].held
      BY <3>2 DEF LockInv, LocksOK
    <3> QED
      BY <3>1, <3>3, <3>4, <3>5
  <2> QED
    BY <2>1, <2>2
<1>4. \A d, e \in Sessions : d # e => \A h \in txn'[d].held, g \in txn'[e].held : ~ Incompatible(h, g)
  BY <1>0, <1>1 DEF LockInv
<1> QED
  BY <1>2, <1>3, <1>4 DEF LockInv

-----------------------------------------------------------------------------
(* What the reads may have missed. *)
LEMMA CommittedEffect ==
  ASSUME TypeOK, LogInv, OwnerInv, PhaseInv, NEW s \in Sessions, SessionStep(s),
         NEW r \in CommittedRows'
  PROVE  \/ r \in CommittedRows
         \/ /\ Commit(s) /\ r \in rows
            /\ r.xid = txn[s].xid /\ r.xid # 0 /\ r.xid \in running
<1>0. r \in rows' /\ r.xid \in committed'
  BY DEF CommittedRows
<1>1. CASE InsertEvent(s)
  <2>1. txn[s].xid \in running
    BY <1>1 DEF InsertEvent, At, PhaseInv, PhaseOK, OwnerInv
  <2>2. committed' = committed /\ txn[s].xid \notin committed
    BY <1>1, <2>1 DEF InsertEvent, InsertRow, LogInv
  <2> QED
    BY <1>0, <2>2, RowsEffect DEF CommittedRows
<1>2. CASE Commit(s) /\ txn[s].xid # 0 /\ CommitXid(txn[s].xid)
  BY <1>0, <1>2 DEF CommitXid, Finished, CommittedRows, OwnerInv
<1>3. CASE UNCHANGED logVars \/ AssignXid \/ AbortXid(txn[s].xid)
  BY <1>0, <1>3 DEF logVars, AssignXid, AbortXid, Finished, CommittedRows
<1> QED
  BY <1>1, <1>2, <1>3, LogEffect

LEMMA RunningEffect ==
  ASSUME TypeOK, LogInv, PhaseInv, NEW s \in Sessions, SessionStep(s)
  PROVE  nextXid' \in {nextXid, nextXid + 1} /\ running' \subseteq running \cup {nextXid}
BY XidEffect DEF AssignXid

(* An id that is taken later was still to be taken. *)
LEMMA StillBlind ==
  ASSUME NEW snap \in Snapshot, NEW xid, nextXid \in Nat, running \subseteq Nat,
         nextXid' \in {nextXid, nextXid + 1}, running' \subseteq running \cup {nextXid},
         snap.xmin <= nextXid, snap.xmax <= nextXid,
         \A x \in running \ {xid} : ~ Sees(snap, x)
  PROVE  /\ snap.xmin <= nextXid' /\ snap.xmax <= nextXid'
         /\ \A x \in running' \ {xid} : ~ Sees(snap, x)
<1>1. ~ Sees(snap, nextXid)
  BY DEF Sees, Snapshot
<1>2. snap.xmin \in Nat /\ snap.xmax \in Nat
  BY DEF Snapshot
<1> QED
  BY <1>1, <1>2

LEMMA StillBehind ==
  ASSUME NEW c \in Cursor, NEW xid, nextXid \in Nat, running \subseteq Nat,
         nextXid' \in {nextXid, nextXid + 1}, running' \subseteq running \cup {nextXid},
         Before(c, nextXid), \A x \in running \ {xid} : Before(c, x)
  PROVE  Before(c, nextXid') /\ \A x \in running' \ {xid} : Before(c, x)
<1>1. Before(c, nextXid + 1)
  BY DEF Before, Cursor
<1> QED
  BY <1>1

(* Another session's step takes nothing from what a session has read. *)
LEMMA OtherReadStep ==
  ASSUME TypeOK, LogInv, OwnerInv, PhaseInv, ReadInv, NEW s \in Sessions, SessionStep(s),
         NEW d \in Sessions, d # s
  PROVE  ReadOK(txn[d])'
<1> DEFINE u == txn[d]
<1>0. txn'[d] = u /\ u \in Txn /\ ReadOK(u)
  BY OthersKept DEF TypeOK, ReadInv
<1>t. /\ u.snap \in Snapshot /\ u.seen \in Snapshot /\ u.cursor \in Cursor
      /\ nextXid \in Nat /\ running \subseteq Nat
      /\ Horizon(u.snap) \in Cursor
  BY <1>0 DEF TypeOK, Txn, Horizon, Cursor, Snapshot
<1>r. nextXid' \in {nextXid, nextXid + 1} /\ running' \subseteq running \cup {nextXid}
  BY RunningEffect
<1>1. \A snap \in Snapshot : BlindTo(u, snap) =>
        /\ snap.xmin <= nextXid' /\ snap.xmax <= nextXid'
        /\ \A x \in running' \ {u.xid} : ~ Sees(snap, x)
  BY <1>t, <1>r, StillBlind DEF BlindTo, Others
<1>2. \A c \in Cursor : Behind(u, c) =>
        Before(c, nextXid') /\ \A x \in running' \ {u.xid} : Before(c, x)
  BY <1>t, <1>r, StillBehind DEF Behind, Others
<1>3. ASSUME u.phase = "read"
      PROVE  BlindTo(u, u.snap)' /\ u.snap.xmin > 0 /\ Behind(u, Horizon(u.snap))'
  <2>1. BlindTo(u, u.snap)'
    BY <1>0, <1>t, <1>1, <1>3 DEF ReadOK, BlindTo, Others
  <2>2. Behind(u, Horizon(u.snap))'
    BY <1>0, <1>t, <1>2, <1>3 DEF ReadOK, Behind, Others
  <2> QED
    BY <1>0, <1>3, <2>1, <2>2 DEF ReadOK
<1>4. ASSUME HasRead(u)
      PROVE  BlindTo(u, u.seen)' /\ Behind(u, u.cursor)'
  <2>1. BlindTo(u, u.seen)'
    BY <1>0, <1>t, <1>1, <1>4 DEF ReadOK, BlindTo, Others
  <2>2. Behind(u, u.cursor)'
    BY <1>0, <1>t, <1>2, <1>4 DEF ReadOK, Behind, Others
  <2> QED
    BY <2>1, <2>2
<1>5. ASSUME HasRead(u), NEW q \in AppendAt(u).reads \ u.unread,
             NEW r \in CommittedRows', Matches(q, r.data.event),
             Sees(u.seen, r.xid) \/ ~ After(r, u.cursor)
      PROVE  <<q, r.pos>> \in u.loaded
  <2>1. CASE r \in CommittedRows
    BY <1>0, <1>5, <2>1 DEF ReadOK, Returned
  <2>2. CASE /\ r \in rows /\ r.xid = txn[s].xid /\ r.xid # 0 /\ r.xid \in running
    <3>1. r.xid \in Others(u)
      BY <2>2 DEF OwnerInv, Others
    <3>2. ~ Sees(u.seen, r.xid) /\ Before(u.cursor, r.xid)
      BY <1>0, <1>5, <3>1 DEF ReadOK, BlindTo, Behind
    <3>3. r.pos \in Nat /\ r.pos > 0 /\ r.xid \in Nat
      BY <2>2 DEF TypeOK, IsRow
    <3>4. After(r, u.cursor)
      BY <1>t, <3>2, <3>3 DEF Before, After, Cursor
    <3> QED
      BY <1>5, <3>2, <3>4
  <2> QED
    BY <2>1, <2>2, CommittedEffect
<1>6. HasRead(u)' <=> HasRead(u)
  BY <1>0 DEF HasRead, Reading, AppendAt
<1>7. HasRead(u) => \A q \in AppendAt(u).reads \ u.unread : Returned(u, q)'
  BY <1>0, <1>5 DEF Returned
<1> QED
  BY <1>0, <1>3, <1>4, <1>6, <1>7 DEF ReadOK, AppendAt

(* The reads a session makes: what ReadEvents leaves it with. *)
LEMMA OwnReadStep ==
  ASSUME TypeOK, LogInv, OwnerInv, PhaseInv, ReadInv, NEW s \in Sessions, ReadEvents(s)
  PROVE  ReadOK(txn[s])'
<1> DEFINE t == txn[s]
           n == txn'[s]
           a == AppendAt(t)
           first   == t.unread = a.reads
           result  == {r \in Visible(t.xid) : Matches(t.query, r.data.event)}
           settled == {r \in result : Settled(r)}
           horizon == Horizon(t.snap)
<1>0. /\ t \in Txn /\ ReadOK(t) /\ PhaseOK(t)
      /\ UNCHANGED logVars
  BY DEF TypeOK, ReadInv, PhaseInv, ReadEvents
<1>t. /\ t.snap \in Snapshot /\ t.seen \in Snapshot /\ t.cursor \in Cursor /\ horizon \in Cursor
      /\ nextXid \in Nat /\ running \subseteq Nat /\ 0 < nextXid /\ \A x \in running : 0 < x
      /\ t.xid \in Nat
  BY <1>0 DEF TypeOK, Txn, Horizon, Cursor, Snapshot, LogInv
<1>e. /\ n.xid = t.xid /\ n.request = t.request /\ n.part = t.part
      /\ t.phase = "read" /\ n.phase \in {"append", "snapshot"}
      /\ n.unread = t.unread \ {t.query}
      /\ n.loaded = t.loaded \cup {<<t.query, r.pos>> : r \in {r \in result : r.xid # t.xid}}
      /\ n.seen = IF first THEN t.snap ELSE Intersect(t.seen, t.snap)
      /\ n.cursor = IF a.reads = {t.query} THEN LastOf(settled, ZeroCursor)
                    ELSE IF first THEN horizon ELSE Earliest(t.cursor, horizon)
  BY ReadEventsEffect DEF Keeps
<1>q. /\ t.query \in t.unread /\ t.unread \subseteq a.reads
      /\ BlindTo(t, t.snap) /\ t.snap.xmin > 0 /\ Behind(t, horizon)
  BY <1>0, <1>e DEF PhaseOK, InAppend, ReadOK
<1>h. ~ first => /\ HasRead(t) /\ a.reads # {t.query}
                 /\ BlindTo(t, t.seen) /\ Behind(t, t.cursor)
  BY <1>0, <1>e, <1>q DEF HasRead, Reading, ReadOK
<1>m. ASSUME ~ first PROVE t.cursor.xid > 0
  <2>1. PICK q \in a.reads : q \notin t.unread
    BY <1>m, <1>q
  <2>2. \A p \in a.reads : a.reads # {p}
    BY <1>q, <2>1
  <2> QED
    BY <1>0, <1>h, <1>m, <2>2 DEF ReadOK
<1> HIDE DEF t, n, a
<1>1. BlindTo(t, n.seen)
  <2>1. CASE first
    BY <1>e, <1>q, <2>1
  <2>2. CASE ~ first
    <3>1. n.seen = Intersect(t.seen, t.snap)
      BY <1>e, <2>2
    <3>2. \A x \in Others(t) : ~ Sees(Intersect(t.seen, t.snap), x)
      BY <1>h, <1>t, <2>2, IntersectSees DEF BlindTo, Others
    <3>3. Intersect(t.seen, t.snap).xmin <= nextXid /\ Intersect(t.seen, t.snap).xmax <= nextXid
      BY <1>h, <1>q, <2>2 DEF BlindTo, Intersect, Lesser
    <3> QED
      BY <3>1, <3>2, <3>3 DEF BlindTo
  <2> QED
    BY <2>1, <2>2
<1>2. Behind(t, n.cursor)
  <2>1. CASE a.reads = {t.query} /\ settled = {}
    <3>1. n.cursor = ZeroCursor
      BY <1>e, <2>1 DEF LastOf
    <3> QED
      BY <1>t, <3>1 DEF ZeroCursor, Behind, Before, Others
  <2>2. CASE a.reads = {t.query} /\ settled # {}
    <3>1. \A r \in settled : IsRow(r) /\ r.xid < nextXid /\ r.pos < nextPos /\ r.xid < CurrentSnapshot(0).xmin
      BY DEF TypeOK, LogInv, Visible, Settled
    <3>2. nextPos \in Nat
      BY DEF TypeOK
    <3> HIDE DEF settled
    <3>3. PICK r \in settled : n.cursor = [xid |-> r.xid, pos |-> r.pos]
      BY <1>e, <1>t, <2>2, <3>1, <3>2, LastOfRows
    <3>4. CurrentSnapshot(0).xmin \in Nat /\ \A x \in running : CurrentSnapshot(0).xmin <= x
      BY SnapshotOfRunning DEF TypeOK, LogInv, Snapshot
    <3>5. \A x \in running : r.xid < x
      BY <1>t, <3>1, <3>4 DEF IsRow
    <3> QED
      BY <3>1, <3>3, <3>5 DEF Behind, Before, Others
  <2>3. CASE a.reads # {t.query} /\ first
    BY <1>e, <1>q, <2>3
  <2>4. CASE a.reads # {t.query} /\ ~ first
    <3>1. n.cursor \in {t.cursor, horizon}
      BY <1>e, <2>4 DEF Earliest
    <3> QED
      BY <1>h, <1>q, <2>4, <3>1
  <2> QED
    BY <2>1, <2>2, <2>3, <2>4
<1>3. (\A q \in a.reads : a.reads # {q}) => n.cursor.xid > 0
  <2> SUFFICES ASSUME a.reads # {t.query} PROVE n.cursor.xid > 0
    BY <1>q
  <2>1. horizon.xid > 0
    BY <1>q DEF Horizon
  <2>2. CASE first
    BY <1>e, <2>1, <2>2
  <2>3. CASE ~ first
    BY <1>e, <1>m, <2>1, <2>3 DEF Earliest
  <2> QED
    BY <2>2, <2>3
<1>4. ASSUME NEW r \in CommittedRows, Matches(t.query, r.data.event)
      PROVE  <<t.query, r.pos>> \in n.loaded
  <2>1. r.xid # t.xid
    BY <1>4 DEF CommittedRows, LogInv, OwnerInv, t
  <2>2. r \in result
    BY <1>4 DEF CommittedRows, Visible
  <2> QED
    BY <1>e, <2>1, <2>2
<1>5. ASSUME NEW q \in a.reads \ t.unread, NEW r \in CommittedRows, Matches(q, r.data.event),
             Sees(n.seen, r.xid) \/ ~ After(r, n.cursor)
      PROVE  <<q, r.pos>> \in n.loaded
  <2>1. ~ first
    BY <1>5
  <2>2. /\ n.seen = Intersect(t.seen, t.snap)
        /\ n.cursor = Earliest(t.cursor, horizon)
    BY <1>e, <1>h, <2>1
  <2>3. r.xid \in Nat /\ r.pos \in Nat
    BY <1>5 DEF CommittedRows, TypeOK, IsRow
  <2>4. Sees(n.seen, r.xid) => Sees(t.seen, r.xid)
    BY <1>t, <2>2, <2>3, IntersectSees
  <2>5. After(r, t.cursor) => After(r, n.cursor)
    <3>1. t.cursor.xid > 0 /\ horizon.xid > 0
      BY <1>m, <1>q, <2>1 DEF Horizon
    <3> HIDE DEF horizon
    <3> QED
      BY <1>t, <2>2, <2>3, <3>1 DEF Earliest, After, Cursor
  <2>6. Returned(t, q)
    BY <1>0, <1>5, <1>h, <2>1 DEF ReadOK, a
  <2>7. <<q, r.pos>> \in t.loaded
    BY <1>5, <2>4, <2>5, <2>6 DEF Returned
  <2> QED
    BY <1>e, <2>7
<1>6. \A q \in a.reads \ n.unread : Returned(n, q)
  BY <1>4, <1>5, <1>e DEF Returned
<1>7. ReadOK(n)
  <2>1. AppendAt(n) = a
    BY <1>e DEF AppendAt, a
  <2>2. BlindTo(n, n.seen) /\ Behind(n, n.cursor)
    BY <1>1, <1>2, <1>e DEF BlindTo, Behind, Others
  <2> QED
    BY <1>3, <1>6, <1>e, <2>1, <2>2 DEF ReadOK
<1> QED
  BY <1>0, <1>7 DEF ReadOK, BlindTo, Behind, Others, HasRead, Returned, CommittedRows, logVars, n

LEMMA ReadStep ==
  ASSUME TypeOK, LogInv, OwnerInv, PhaseInv, ReadInv, NEW s \in Sessions, SessionStep(s)
  PROVE  ReadInv'
<1> DEFINE t == txn[s]
           n == txn'[s]
<1>0. t \in Txn /\ ReadOK(t) /\ PhaseOK(t)
  BY DEF TypeOK, ReadInv, PhaseInv
<1>z. SUFFICES ReadOK(txn[s])'
  BY OtherReadStep DEF ReadInv
<1>1. CASE n.phase # "read" /\ (Reading(n) => n.unread = AppendAt(n).reads)
  BY <1>1 DEF ReadOK, HasRead
<1>2. CASE TakeSnapshot(s)
  <2>1. /\ n.xid = t.xid /\ n.request = t.request /\ n.part = t.part /\ KeepsReads(n, t)
        /\ t.phase = "snapshot" /\ n.phase = "read" /\ n.snap = CurrentSnapshot(t.xid)
        /\ UNCHANGED logVars
    BY <1>2, TakeSnapshotEffect DEF Keeps, TakeSnapshot
  <2>2. /\ n.snap \in Snapshot
        /\ 0 < n.snap.xmin /\ n.snap.xmin <= n.snap.xmax /\ n.snap.xmax <= nextXid
        /\ \A x \in running : n.snap.xmin <= x
        /\ \A x \in running \ {t.xid} : ~ Sees(n.snap, x)
    <3>1. t.xid \in Nat
      BY <1>0 DEF Txn
    <3> QED
      BY <2>1, <3>1, SnapshotOfRunning DEF TypeOK, LogInv
  <2>3. BlindTo(n, n.snap)
    BY <2>1, <2>2 DEF BlindTo, Others, Snapshot, TypeOK
  <2>4. Behind(n, Horizon(n.snap))
    BY <2>1, <2>2 DEF Behind, Before, Others, Horizon, Snapshot, TypeOK
  <2>5. HasRead(n) => HasRead(t)
    BY <2>1 DEF HasRead, Reading, AppendAt, KeepsReads
  <2>6. ReadOK(n)
    BY <1>0, <2>1, <2>2, <2>3, <2>4, <2>5 DEF ReadOK, KeepsReads, AppendAt, BlindTo, Behind, Others, Returned
  <2> HIDE DEF t
  <2> QED
    BY <2>1, <2>6 DEF ReadOK, BlindTo, Behind, Others, HasRead, Returned, CommittedRows, logVars
<1>3. CASE ReadEvents(s)
  BY <1>3, OwnReadStep
<1>4. CASE StartAppend(s) \/ NoDuplicate(s) \/ TakeLock(s)
  <2>1. /\ n.xid = t.xid /\ n.request = t.request /\ n.part = t.part /\ KeepsReads(n, t)
        /\ t.phase \in {"append", "lock", "idempotency"}
        /\ n.phase \in {"lock", "idempotency", "conflict"}
        /\ UNCHANGED logVars
    BY <1>4, AppendEffects, TakeLockEffect DEF Keeps, StartAppend, NoDuplicate, TakeLock
  <2>2. HasRead(n) => HasRead(t)
    BY <2>1 DEF HasRead, Reading, AppendAt, KeepsReads
  <2>3. ReadOK(n)
    BY <1>0, <2>1, <2>2 DEF ReadOK, KeepsReads, AppendAt, BlindTo, Behind, Others, Returned
  <2> HIDE DEF t
  <2> QED
    BY <2>1, <2>3 DEF ReadOK, BlindTo, Behind, Others, HasRead, Returned, CommittedRows, logVars
<1>5. CASE Begin(s) \/ WriteElsewhere(s)
  BY <1>1, <1>5, BeginEffect, WriteElsewhereEffect DEF InAppend, Reading
<1>6. CASE NoConflict(s) \/ TakeXid(s)
  BY <1>1, <1>6, AppendEffects DEF Reading
<1>7. CASE InsertEvent(s)
  BY <1>0, <1>1, <1>7, InsertEventEffect, AtPartKeeps DEF InAppend, Reading
<1>8. CASE Commit(s) \/ \E o \in Outcomes : EndUncommitted(s, o)
  BY <1>1, <1>8, EndEffect DEF Reading
<1> QED
  BY <1>2, <1>3, <1>4, <1>5, <1>6, <1>7, <1>8, StepKinds

-----------------------------------------------------------------------------
(* A row that a query of an append selects: its writer and the append's    *)
(* checker hold locks that exclude each other.                             *)
LEMMA LocksExclude ==
  ASSUME TypeOK, RowInv, NEW p \in rows, NEW a, IsAppend(a), NEW q \in a.reads,
         Matches(q, p.data.event),
         NEW held1, LocksOf(p.data.append) \subseteq held1,
         NEW held2, LocksOf(a) \subseteq held2
  PROVE  \E h \in held1, g \in held2 : Incompatible(h, g)
<1> DEFINE b == p.data.append
           evs(c) == {c.events[i] : i \in 1 .. Len(c.events)}
<1>1. p.data.event \in evs(b) \cap Event
  BY DEF RowInv, TypeOK
<1>2. PICK i \in q : ItemMatches(i, p.data.event)
  BY DEF Matches
<1>3. i \in (Boundary(a) \cup a.idem) \cap Item
  BY <1>2 DEF Boundary, IsAppend
<1>4. \E h \in WriterLocks(evs(b), Boundary(b) \cup b.idem),
         g \in WriterLocks(evs(a), Boundary(a) \cup a.idem) : Incompatible(h, g)
  BY <1>1, <1>2, <1>3, LocksCoverConditions
<1> QED
  BY <1>4 DEF LocksOf

(* What commits is no row that a checked append's queries select. *)
LEMMA CommitExcluded ==
  ASSUME TypeOK, LogInv, OwnerInv, PhaseInv, RowInv, LockInv,
         NEW s \in Sessions, NEW d \in Sessions, d # s,
         NEW p \in rows, p.xid = txn[s].xid,
         NEW a, IsAppend(a), LocksOf(a) \subseteq txn[d].held,
         NEW q \in a.reads
  PROVE  ~ Matches(q, p.data.event)
<1> SUFFICES ASSUME Matches(q, p.data.event) PROVE FALSE
  OBVIOUS
<1>1. LocksOf(p.data.append) \subseteq txn[s].held
  BY DEF LockInv
<1>2. \E h \in txn[s].held, g \in txn[d].held : Incompatible(h, g)
  BY <1>1, LocksExclude
<1> QED
  BY <1>2 DEF LockInv

(* A check that finds no conflict has read everything its queries match. *)
LEMMA CheckedCovers ==
  ASSUME TypeOK, LogInv, OwnerInv, PhaseInv, ReadInv, NEW s \in Sessions, NoConflict(s)
  PROVE  Covers(txn[s].loaded, AppendAt(txn[s]))
<1> DEFINE t == txn[s]
           a == AppendAt(t)
<1> SUFFICES ASSUME NEW q \in a.reads, NEW p \in CommittedRows, Matches(q, p.data.event)
             PROVE  <<q, p.pos>> \in t.loaded
  BY DEF Covers
<1>1. t.phase = "conflict" /\ t.unread = {} /\ Conflicts(s) = {}
  BY DEF NoConflict, At, PhaseInv, PhaseOK
<1>2. p.xid # t.xid /\ p \in Visible(t.xid)
  BY DEF CommittedRows, Visible, LogInv, OwnerInv
<1>3. Matches(Boundary(a), p.data.event)
  BY DEF Matches, Boundary
<1>4. Sees(t.seen, p.xid) \/ ~ After(p, t.cursor)
  BY <1>1, <1>2, <1>3 DEF Conflicts, AppendOf
<1>5. HasRead(t)
  BY <1>1 DEF HasRead, Reading
<1>6. Returned(t, q)
  BY <1>1, <1>5 DEF ReadInv, ReadOK
<1> QED
  BY <1>4, <1>6 DEF Returned

LEMMA HeldStep ==
  ASSUME Inv, NEW s \in Sessions, SessionStep(s)
  PROVE  BoundaryHeld'
<1> USE DEF Inv
<1> DEFINE t == txn[s]
           n == txn'[s]
<1>0. t \in Txn
  BY DEF TypeOK
<1>1. ASSUME NEW d \in Sessions, d # s, Checked(txn'[d]),
             NEW q \in AppendAt(txn'[d]).reads, NEW p \in CommittedRows', Matches(q, p.data.event)
      PROVE  <<q, p.pos>> \in txn'[d].loaded
  <2>1. txn'[d] = txn[d]
    BY <1>1, OthersKept
  <2>2. CASE p \in CommittedRows
    BY <1>1, <2>1, <2>2 DEF BoundaryHeld, Covers, AppendOf
  <2>3. CASE p \in rows /\ p.xid = txn[s].xid
    <3>1. IsAppend(AppendAt(txn[d])) /\ LocksOf(AppendAt(txn[d])) \subseteq txn[d].held
      BY <1>1, <2>1, AtAnAppend DEF Checked, LockInv, LocksOK, InAppend, AppendOf
    <3> QED
      BY <1>1, <2>1, <2>3, <3>1, CommitExcluded
  <2> QED
    BY <2>2, <2>3, CommittedEffect
<1>2. ASSUME Checked(n),
             NEW q \in AppendAt(n).reads, NEW p \in CommittedRows', Matches(q, p.data.event)
      PROVE  <<q, p.pos>> \in n.loaded
  <2>1. NoConflict(s) \/ TakeXid(s) \/ InsertEvent(s)
    BY <1>0, <1>2, StepKinds, BeginEffect, WriteElsewhereEffect, TakeSnapshotEffect, ReadEventsEffect,
       AppendEffects, TakeLockEffect, EndEffect DEF Checked
  <2>2. p \in CommittedRows
    <3>1. ~ Commit(s)
      BY <2>1 DEF NoConflict, TakeXid, InsertEvent, Commit, At
    <3> QED
      BY <3>1, CommittedEffect
  <2>3. AppendAt(n) = AppendAt(t) /\ n.loaded = t.loaded
    <3>1. CASE NoConflict(s) \/ TakeXid(s)
      BY <3>1, AppendEffects DEF Keeps, KeepsReads, AppendAt
    <3>2. CASE InsertEvent(s)
      BY <1>0, <1>2, <3>2, InsertEventEffect, AtPartKeeps DEF Checked, KeepsReads, AppendAt
    <3> QED
      BY <2>1, <3>1, <3>2
  <2>4. Covers(t.loaded, AppendAt(t))
    <3>1. CASE NoConflict(s)
      BY <3>1, CheckedCovers
    <3>2. CASE TakeXid(s) \/ InsertEvent(s)
      BY <3>2, AppendEffects, InsertEventEffect DEF BoundaryHeld, Checked, AppendOf
    <3> QED
      BY <2>1, <3>1, <3>2
  <2> QED
    BY <1>2, <2>2, <2>3, <2>4 DEF Covers
<1>3. ASSUME NEW r \in rows', r.xid \notin committed',
             NEW q \in r.data.append.reads, NEW p \in CommittedRows', Matches(q, p.data.event)
      PROVE  <<q, p.pos>> \in r.data.basis
  <2>1. CASE r \in rows
    <3>1. committed \subseteq committed'
      BY LogEffect DEF logVars, AssignXid, InsertEvent, InsertRow, CommitXid, AbortXid
    <3>2. CASE p \in CommittedRows
      BY <1>3, <2>1, <3>1, <3>2 DEF BoundaryHeld, Covers
    <3>3. CASE Commit(s) /\ p \in rows /\ p.xid = txn[s].xid /\ p.xid # 0
      <4>1. r.xid \in running
        BY <1>3, <2>1, <3>1 DEF LogInv
      <4>2. r.xid # txn[s].xid
        <5>1. p.xid \in committed'
          BY <1>3 DEF CommittedRows
        <5> QED
          BY <1>3, <3>3, <5>1
      <4>3. PICK d \in Sessions : txn[d].xid = r.xid
        BY <4>1 DEF OwnerInv
      <4>4. d # s /\ IsAppend(r.data.append) /\ LocksOf(r.data.append) \subseteq txn[d].held
        BY <2>1, <4>2, <4>3 DEF RowInv, LockInv
      <4> QED
        BY <1>3, <3>3, <4>4, CommitExcluded
    <3> QED
      BY <3>2, <3>3, CommittedEffect
  <2>2. CASE r \notin rows
    <3>1. InsertEvent(s) /\ r.data.append = AppendAt(t) /\ r.data.basis = t.loaded
      BY <2>2, RowsEffect
    <3>2. Covers(t.loaded, AppendAt(t))
      BY <3>1, InsertEventEffect DEF BoundaryHeld, Checked, AppendOf
    <3>3. p \in CommittedRows
      BY <3>1, CommittedEffect DEF InsertEvent, Commit, At
    <3> QED
      BY <1>3, <3>1, <3>2, <3>3 DEF Covers
  <2> QED
    BY <2>1, <2>2
<1>4. \A d \in Sessions : Checked(txn'[d]) => Covers(txn[d].loaded, AppendOf(d))'
  BY <1>1, <1>2 DEF Covers, AppendOf, AppendAt
<1>5. \A r \in rows' : r.xid \notin committed' => Covers(r.data.basis, r.data.append)'
  BY <1>3 DEF Covers
<1> QED
  BY <1>4, <1>5 DEF BoundaryHeld, Checked

-----------------------------------------------------------------------------
LEMMA InvInit == StoreInit => Inv
<1> SUFFICES ASSUME StoreInit PROVE Inv
  OBVIOUS
<1>1. \A s \in Sessions : txn[s] = Idle("none")
  BY DEF StoreInit
<1>2. /\ Idle("none").phase = "idle" /\ Idle("none").xid = 0 /\ Idle("none").held = {}
  BY DEF Idle
<1>3. nextXid = 1 /\ running = {} /\ lastDone = 0 /\ committed = {} /\ nextPos = 1 /\ rows = {}
  BY DEF StoreInit, LogInit
<1>4. TypeOK
  <2>1. Idle("none") \in Txn
    BY IdleType DEF Outcomes
  <2> QED
    BY <1>3, <2>1, MaxRunsType DEF TypeOK, StoreInit
<1>5. LogInv /\ OwnerInv /\ RowInv
  BY <1>1, <1>2, <1>3 DEF LogInv, OwnerInv, RowInv
<1>6. PhaseInv
  BY <1>1, <1>2 DEF PhaseInv, PhaseOK, InAppend
<1>7. LockInv
  BY <1>1, <1>2, <1>3 DEF LockInv, LocksOK
<1>8. ReadInv
  BY <1>1, <1>2 DEF ReadInv, ReadOK, HasRead, Reading
<1>9. BoundaryHeld
  BY <1>1, <1>2, <1>3 DEF BoundaryHeld, Checked
<1> QED
  BY <1>4, <1>5, <1>6, <1>7, <1>8, <1>9 DEF Inv

LEMMA InvStep == Inv /\ [StoreNext]_vars => Inv'
<1> SUFFICES ASSUME Inv, [StoreNext]_vars PROVE Inv'
  OBVIOUS
<1>1. CASE \E s \in Sessions : SessionStep(s)
  <2>1. PICK s \in Sessions : SessionStep(s)
    BY <1>1
  <2>2. TypeOK' /\ LogInv' /\ OwnerInv' /\ PhaseInv'
    BY <2>1, TypeStep, LogStep, OwnerStep, PhaseStep DEF Inv
  <2>3. RowInv' /\ LockInv' /\ ReadInv'
    BY <2>1, RowStep, LockStep, ReadStep DEF Inv
  <2>4. BoundaryHeld'
    BY <2>1, HeldStep
  <2> QED
    BY <2>2, <2>3, <2>4 DEF Inv
<1>2. CASE UNCHANGED vars
  <2>1. UNCHANGED <<nextXid, running, lastDone, committed, nextPos, rows, txn, runs>>
    BY <1>2 DEF vars, logVars
  <2>2. TypeOK' /\ LogInv' /\ OwnerInv' /\ PhaseInv' /\ RowInv'
    BY <2>1 DEF Inv, TypeOK, LogInv, OwnerInv, PhaseInv, RowInv
  <2>3. LockInv'
    BY <2>1 DEF Inv, LockInv
  <2>4. ReadInv'
    BY <2>1 DEF Inv, ReadInv, ReadOK, BlindTo, Behind, Others, HasRead, Returned, CommittedRows
  <2>5. BoundaryHeld'
    BY <2>1 DEF Inv, BoundaryHeld, Covers, CommittedRows, AppendOf, Checked
  <2> QED
    BY <2>2, <2>3, <2>4, <2>5 DEF Inv
<1> QED
  BY <1>1, <1>2 DEF StoreNext, Terminated

(* In every state the store can reach, what a transaction has checked, or  *)
(* has written and not committed, is still everything its queries match:   *)
(* the writer locks of append_events_if keep every matching event out      *)
(* until the transaction ends.  With it, the invariant it rests on, and    *)
(* the types of the state.                                                 *)
THEOREM StoreKeepsInv == StoreSpec => []Inv
<1>1. StoreInit => Inv
  BY InvInit
<1>2. Inv /\ [StoreNext]_vars => Inv'
  BY InvStep
<1> QED
  BY <1>1, <1>2, PTL DEF StoreSpec

(* Every variable keeps its type. *)
THEOREM StoreTypeCorrect == StoreSpec => []TypeOK
<1>1. Inv => TypeOK
  BY DEF Inv
<1> QED
  BY <1>1, StoreKeepsInv, PTL

(* The boundary of a checked append holds still until its transaction ends. *)
THEOREM StoreHoldsBoundaries == StoreSpec => []BoundaryHeld
<1>1. Inv => BoundaryHeld
  BY DEF Inv
<1> QED
  BY <1>1, StoreKeepsInv, PTL

-----------------------------------------------------------------------------
(* The store is serial: what Inv has to say more for it. *)

(* A command's append, until its transaction has its id, has none.         *)
FreshInv ==
  \A s \in Sessions :
    txn[s].phase \in {"lock", "idempotency", "conflict"} /\ AppendOf(s).firstWrite
      => txn[s].xid = 0

(* What the reads returned is in the log and stays there.                  *)
InLog(basis, a) == basis \subseteq AbstractLog!BasisIn(a, CommittedRows)

BasisInv ==
  /\ \A s \in Sessions : InAppend(txn[s]) => InLog(txn[s].loaded, AppendOf(s))
  /\ \A r \in rows : InLog(r.data.basis, r.data.append)

(* Positions are used once, and what a command has read has a lower        *)
(* transaction id than the command.                                        *)
Above(xid, a, basis) ==
  a.firstWrite => \A p \in rows : (\E q \in a.reads : <<q, p.pos>> \in basis) => p.xid < xid

OrderInv ==
  /\ \A r, p \in rows : r.pos = p.pos => r = p
  /\ \A s \in Sessions : At(s, "insert") => Above(txn[s].xid, AppendOf(s), txn[s].loaded)
  /\ \A r \in rows : Above(r.xid, r.data.append, r.data.basis)

(* The rows a transaction has written are its events so far: all of those  *)
(* of the appends it has left behind, the first ones of the one it is at.  *)
Written(t, k) == IF k < t.part THEN Len(t.request.appends[k].events)
                 ELSE IF k = t.part /\ InAppend(t) THEN t.wrote ELSE 0

PartOf(t, k) == {r \in rows : r.xid = t.xid /\ r.data.part = k}

IsEventOf(r, a, n) == /\ r.data.append = a
                      /\ r.data.emit.ord \in 1 .. n
                      /\ r.data.emit = [cause |-> a.cause, ord |-> r.data.emit.ord]
                      /\ r.data.event = a.events[r.data.emit.ord]

WroteOK(t) ==
  /\ t.phase = "commit" => t.part > Len(t.request.appends)
  /\ t.xid = 0 => t.part = 1
  /\ t.phase # "insert" => t.wrote = 0
  /\ \A r \in rows : t.xid = r.xid => r.data.part \in 1 .. Len(t.request.appends)
  /\ \A k \in 1 .. Len(t.request.appends) :
       /\ \A r \in PartOf(t, k) : IsEventOf(r, t.request.appends[k], Written(t, k))
       /\ \A i \in 1 .. Written(t, k) : \E r \in PartOf(t, k) : r.data.emit.ord = i
       /\ \A r, p \in PartOf(t, k) : r.data.emit.ord = p.data.emit.ord => r = p

WriteInv == \A s \in Sessions : WroteOK(txn[s])

(* One row for each emit key.                                              *)
EmitInv ==
  \A r, p \in rows : r.data.emit = p.data.emit /\ r.data.emit.cause # NoCause => r = p

(* Past its look for a duplicate and until it ends, a transaction's key is *)
(* its own.                                                                *)
KeyedBy(a, p) == Matches(a.idem, p.data.event)

Keyed(t) == t.phase \in {"conflict", "xid", "insert"}

KeyInv ==
  /\ \A s \in Sessions : Keyed(txn[s]) =>
       \A p \in rows : KeyedBy(AppendOf(s), p) => p.xid = txn[s].xid /\ p.data.part = txn[s].part
  /\ \A r, p \in rows : r.xid \notin committed /\ KeyedBy(r.data.append, p)
                          => p.xid = r.xid /\ p.data.part >= r.data.part
  /\ \A r, p \in rows : (/\ r.data.append.idem = p.data.append.idem
                         /\ KeyedBy(r.data.append, r) /\ KeyedBy(r.data.append, p))
                          => r.xid = p.xid /\ r.data.part = p.data.part

(* A transaction at its first append takes its locks in order.             *)
QueueOK(t) ==
  /\ t.phase \in {"begin", "snapshot", "read", "append"} /\ t.part = 1 => t.held = {}
  /\ t.phase = "lock" => t.todo \subseteq LocksOf(AppendAt(t))
  /\ t.phase = "lock" /\ t.part = 1 => \A h \in t.held, l \in t.todo : h.id < l.id

QueueInv == \A s \in Sessions : QueueOK(txn[s])

(* What had committed when an append began to read, every read has seen.   *)
Passed(snap, x) == x < snap.xmax /\ x \notin snap.xip

KnownOK(t) ==
  /\ t.phase = "read" => \A x \in t.known : Passed(t.snap, x)
  /\ HasRead(t) => \A x \in t.known : Passed(t.seen, x)

KnownInv == /\ \A x \in committed : x <= lastDone
            /\ \A s \in Sessions : KnownOK(txn[s])

SerialInv == /\ Inv
             /\ FreshInv /\ BasisInv /\ OrderInv /\ WriteInv
             /\ EmitInv /\ KeyInv /\ QueueInv /\ KnownInv

-----------------------------------------------------------------------------
(* What the steps leave behind, beyond the lemmas of EventStoreProofs.     *)

LEMMA AtPartNext ==
  ASSUME NEW t \in Txn, NEW k \in Nat \ {0}
  PROVE  LET n == AtPart(t, k)
         IN  /\ n.request = t.request /\ n.part = k /\ n.xid = t.xid /\ n.held = t.held
             /\ n.outcome = t.outcome /\ n.wrote = 0 /\ n.loaded = {}
             /\ n.phase \in {"commit", "append", "snapshot"}
             /\ n.phase = "commit" <=> k > Len(t.request.appends)
             /\ InAppend(n) => n.unread = AppendAt(n).reads /\ n.known = {}
BY DEF AtPart, Txn, InAppend, AppendAt

(* A transaction at its first append, or with none to make.                *)
AtStart(n) == /\ n.part = 1 /\ n.wrote = 0 /\ n.loaded = {} /\ n.held = {}
              /\ n.phase \in {"begin", "commit", "append", "snapshot"}
              /\ n.phase = "commit" => 1 > Len(n.request.appends)
              /\ InAppend(n) => n.unread = AppendAt(n).reads

LEMMA BeginNext ==
  ASSUME TypeOK, NEW s \in Sessions, Begin(s)
  PROVE  AtStart(txn'[s]) /\ txn'[s].xid = 0 /\ txn'[s].outcome = "none"
<1>1. PICK q \in Requests :
        Become(s, IF q.writesFirst THEN [[Idle("none") EXCEPT !.request = q] EXCEPT !.phase = "begin"]
                  ELSE AtPart([Idle("none") EXCEPT !.request = q], 1))
  BY DEF Begin
<1> DEFINE b == [Idle("none") EXCEPT !.request = q]
           w == [b EXCEPT !.phase = "begin"]
<1>2. /\ b \in Txn /\ b.xid = 0 /\ b.held = {} /\ b.part = 1 /\ b.wrote = 0
      /\ b.loaded = {} /\ b.outcome = "none"
  <2>1. Idle("none") \in Txn
    BY IdleType DEF Outcomes
  <2>2. LET i == Idle("none") IN /\ i.xid = 0 /\ i.held = {} /\ i.part = 1 /\ i.wrote = 0
                                 /\ i.loaded = {} /\ i.outcome = "none"
    BY DEF Idle
  <2> QED
    BY <2>1, <2>2 DEF Txn
<1> HIDE DEF b
<1>3. /\ w.xid = 0 /\ w.held = {} /\ w.part = 1 /\ w.wrote = 0
      /\ w.loaded = {} /\ w.outcome = "none" /\ w.phase = "begin"
  BY <1>2 DEF Txn
<1> HIDE DEF w
<1>4. txn'[s] = w \/ txn'[s] = AtPart(b, 1)
  BY <1>1, BecomeFacts DEF b, w
<1>5. CASE txn'[s] = w
  BY <1>3, <1>5 DEF AtStart, InAppend
<1>6. CASE txn'[s] = AtPart(b, 1)
  BY <1>2, <1>6, AtPartNext DEF AtStart
<1> QED
  BY <1>4, <1>5, <1>6

LEMMA WriteElsewhereNext ==
  ASSUME TypeOK, QueueInv, WriteInv, PhaseInv, NEW s \in Sessions, WriteElsewhere(s)
  PROVE  AtStart(txn'[s]) /\ txn'[s].xid = nextXid /\ txn'[s].outcome = txn[s].outcome
<1> DEFINE b == [txn[s] EXCEPT !.xid = nextXid]
<1>1. txn[s].phase = "begin" /\ txn[s].xid = 0 /\ txn[s].part = 1 /\ txn[s].held = {}
  BY DEF WriteElsewhere, At, PhaseInv, PhaseOK, WriteInv, WroteOK, QueueInv, QueueOK
<1>2. b \in Txn /\ b.xid = nextXid /\ b.held = {} /\ b.outcome = txn[s].outcome
  BY <1>1 DEF TypeOK, Txn
<1>3. txn'[s] = AtPart(b, 1)
  BY BecomeFacts DEF WriteElsewhere
<1> HIDE DEF b
<1> QED
  BY <1>2, <1>3, AtPartNext DEF AtStart

LEMMA EndNext ==
  ASSUME TypeOK, NEW s \in Sessions,
         Commit(s) \/ \E o \in Outcomes : EndUncommitted(s, o)
  PROVE  LET n == txn'[s]
         IN  n.phase = "idle" /\ n.part = 1 /\ n.wrote = 0 /\ n.xid = 0 /\ n.held = {}
<1>1. \A o : LET i == Idle(o)
             IN  i.phase = "idle" /\ i.part = 1 /\ i.wrote = 0 /\ i.xid = 0 /\ i.held = {}
  BY DEF Idle
<1>2. \E o : txn'[s] = Idle(o)
  BY BecomeFacts DEF Commit, EndUncommitted
<1> QED
  BY <1>1, <1>2

(* The row that InsertEvent adds.                                          *)
NewRow(s) ==
  [xid |-> txn[s].xid, pos |-> nextPos,
   data |-> [event |-> AppendOf(s).events[txn[s].wrote + 1], emit |-> EmitKey(s),
             append |-> AppendOf(s), part |-> txn[s].part, basis |-> txn[s].loaded]]

LEMMA InsertedRow ==
  ASSUME NEW s \in Sessions, InsertEvent(s)
  PROVE  /\ rows' = rows \cup {NewRow(s)} /\ nextPos' = nextPos + 1
         /\ UNCHANGED <<nextXid, running, lastDone, committed>>
         /\ Holders(EmitKey(s)) = {}
BY DEF InsertEvent, InsertRow, NewRow

LEMMA NewRowFields ==
  ASSUME NEW s \in Sessions
  PROVE  /\ NewRow(s).xid = txn[s].xid /\ NewRow(s).pos = nextPos
         /\ NewRow(s).data.event = AppendOf(s).events[txn[s].wrote + 1]
         /\ NewRow(s).data.emit = EmitKey(s)
         /\ NewRow(s).data.append = AppendOf(s) /\ NewRow(s).data.part = txn[s].part
         /\ NewRow(s).data.basis = txn[s].loaded
BY DEF NewRow

(* The rows after a step: those before it but an aborted transaction's,    *)
(* and the inserted one.                                                   *)
LEMMA RowsNext ==
  ASSUME NEW s \in Sessions, SessionStep(s)
  PROVE  /\ \A r \in rows' : r \in rows \/ (InsertEvent(s) /\ r = NewRow(s))
         /\ \A r \in rows : r.xid # txn[s].xid => r \in rows'
BY LogEffect, InsertedRow DEF logVars, AssignXid, CommitXid, Finished, AbortXid

(* The committed log only grows.                                           *)
LEMMA CommittedGrows ==
  ASSUME TypeOK, LogInv, OwnerInv, NEW s \in Sessions, SessionStep(s)
  PROVE  CommittedRows \subseteq CommittedRows' /\ committed \subseteq committed'
<1>1. CASE UNCHANGED logVars \/ AssignXid
  BY <1>1 DEF logVars, AssignXid, CommittedRows
<1>2. CASE InsertEvent(s)
  BY <1>2, InsertedRow DEF CommittedRows
<1>3. CASE CommitXid(txn[s].xid)
  BY <1>3 DEF CommitXid, CommittedRows
<1>4. CASE txn[s].xid # 0 /\ AbortXid(txn[s].xid)
  <2>1. txn[s].xid \notin committed
    BY <1>4 DEF OwnerInv, LogInv
  <2> QED
    BY <1>4, <2>1 DEF AbortXid, CommittedRows
<1> QED
  BY <1>1, <1>2, <1>3, <1>4, LogEffect

(* What an append's queries match in a set of rows.                        *)
LEMMA InBasis ==
  ASSUME NEW a, NEW rs, NEW e
  PROVE  e \in AbstractLog!BasisIn(a, rs) <=>
           \E q \in a.reads, p \in rs : Matches(q, p.data.event) /\ e = <<q, p.pos>>
<1>1. \A q, v : AbstractLog!Matches(q, v) <=> Matches(q, v)
  BY DEF AbstractLog!Matches, AbstractLog!ItemMatches, Matches, ItemMatches
<1> QED
  BY <1>1 DEF AbstractLog!BasisIn

-----------------------------------------------------------------------------
(* A command's append is its transaction's first write.                    *)
LEMMA FreshStep ==
  ASSUME TypeOK, PhaseInv, FreshInv, NEW s \in Sessions, SessionStep(s)
  PROVE  FreshInv'
<1> DEFINE t == txn[s]
           n == txn'[s]
           Late(u) == u.phase \in {"lock", "idempotency", "conflict"}
<1>1. SUFFICES ASSUME Late(n), AppendAt(n).firstWrite PROVE n.xid = 0
  BY OthersKept DEF FreshInv, AppendOf, AppendAt
<1>2. StartAppend(s) \/ TakeLock(s) \/ NoDuplicate(s)
  <2>1. ~ (Begin(s) \/ WriteElsewhere(s))
    BY <1>1, BeginEffect, WriteElsewhereEffect
  <2>2. ~ (TakeSnapshot(s) \/ ReadEvents(s))
    BY <1>1, TakeSnapshotEffect, ReadEventsEffect
  <2>3. ~ (NoConflict(s) \/ TakeXid(s))
    BY <1>1, AppendEffects
  <2>4. ~ InsertEvent(s)
    <3>1. t \in Txn
      BY DEF TypeOK
    <3> QED
      BY <1>1, <3>1, InsertEventEffect, AtPartNext
  <2>5. ~ (Commit(s) \/ \E o \in Outcomes : EndUncommitted(s, o))
    BY <1>1, EndEffect
  <2> QED
    BY <2>1, <2>2, <2>3, <2>4, <2>5, StepKinds
<1>3. AppendAt(n) = AppendAt(t) /\ n.xid = t.xid
  BY <1>2, AppendEffects, TakeLockEffect DEF Keeps, AppendAt
<1>4. CASE StartAppend(s)
  BY <1>1, <1>3, <1>4 DEF StartAppend, AppendOf
<1>5. CASE TakeLock(s) \/ NoDuplicate(s)
  BY <1>1, <1>3, <1>5, TakeLockEffect, AppendEffects DEF FreshInv, AppendOf
<1> QED
  BY <1>2, <1>4, <1>5

-----------------------------------------------------------------------------
(* What was read is in the log.                                            *)
LEMMA BasisStep ==
  ASSUME TypeOK, LogInv, OwnerInv, PhaseInv, BasisInv, NEW s \in Sessions, SessionStep(s)
  PROVE  BasisInv'
<1> DEFINE t == txn[s]
           n == txn'[s]
<1>0. t \in Txn
  BY DEF TypeOK
<1>g. \A a, basis : InLog(basis, a) => basis \subseteq AbstractLog!BasisIn(a, CommittedRows')
  BY CommittedGrows, InBasis DEF InLog
<1>1. ASSUME InAppend(n) PROVE n.loaded \subseteq AbstractLog!BasisIn(AppendAt(n), CommittedRows')
  <2>1. CASE n.loaded = {}
    BY <2>1
  <2>2. CASE ReadEvents(s)
    <3>1. /\ AppendAt(n) = AppendAt(t) /\ t.query \in AppendAt(t).reads
          /\ InLog(t.loaded, AppendAt(t))
      BY <2>2, ReadEventsEffect DEF Keeps, AppendAt, AppendOf, PhaseInv, PhaseOK, InAppend, BasisInv
    <3>2. ASSUME NEW r \in Visible(t.xid), Matches(t.query, r.data.event), r.xid # t.xid
          PROVE  <<t.query, r.pos>> \in AbstractLog!BasisIn(AppendAt(n), CommittedRows')
      <4>1. r \in CommittedRows
        BY <3>2 DEF Visible, CommittedRows
      <4> QED
        BY <3>1, <3>2, <4>1, CommittedGrows, InBasis
    <3>3. t.loaded \subseteq AbstractLog!BasisIn(AppendAt(n), CommittedRows')
      BY <1>g, <3>1
    <3>4. n.loaded = t.loaded \cup
            {<<t.query, r.pos>> : r \in {r \in {r \in Visible(t.xid) : Matches(t.query, r.data.event)} : r.xid # t.xid}}
      BY <2>2, ReadEventsEffect
    <3> QED
      BY <3>2, <3>3, <3>4
  <2>3. CASE n.loaded = t.loaded /\ AppendAt(n) = AppendAt(t) /\ InAppend(t)
    BY <1>g, <2>3 DEF BasisInv, AppendOf
  <2>4. CASE Begin(s) \/ WriteElsewhere(s)
    <3>1. CASE Begin(s)
      BY <2>1, <3>1, BeginNext DEF AtStart
    <3>2. CASE WriteElsewhere(s)
      <4>1. [t EXCEPT !.xid = nextXid] \in Txn
        BY <1>0 DEF Txn, TypeOK
      <4>2. n = AtPart([t EXCEPT !.xid = nextXid], 1)
        BY <3>2, BecomeFacts DEF WriteElsewhere
      <4> QED
        BY <2>1, <4>1, <4>2, AtPartNext
    <3> QED
      BY <2>4, <3>1, <3>2
  <2>5. CASE TakeSnapshot(s) \/ TakeLock(s)
    BY <2>3, <2>5, TakeSnapshotEffect, TakeLockEffect DEF Keeps, KeepsReads, AppendAt, InAppend
  <2>6. CASE StartAppend(s) \/ NoDuplicate(s) \/ NoConflict(s) \/ TakeXid(s)
    BY <2>3, <2>6, AppendEffects DEF Keeps, KeepsReads, AppendAt, InAppend
  <2>7. CASE InsertEvent(s)
    BY <1>0, <2>1, <2>3, <2>7, InsertEventEffect, AtPartNext DEF KeepsReads, AppendAt, InAppend
  <2>8. CASE Commit(s) \/ \E o \in Outcomes : EndUncommitted(s, o)
    BY <1>1, <2>8, EndNext DEF InAppend
  <2> QED
    BY <2>2, <2>4, <2>5, <2>6, <2>7, <2>8, StepKinds
<1>2. ASSUME NEW r \in rows'
      PROVE  r.data.basis \subseteq AbstractLog!BasisIn(r.data.append, CommittedRows')
  <2>1. CASE r \in rows
    BY <1>g, <2>1 DEF BasisInv
  <2>2. CASE InsertEvent(s) /\ r = NewRow(s)
    <3>1. InLog(t.loaded, AppendOf(s))
      BY <2>2 DEF InsertEvent, At, BasisInv, InAppend
    <3> QED
      BY <1>g, <2>2, <3>1, NewRowFields
  <2> QED
    BY <2>1, <2>2, RowsNext
<1>3. \A d \in Sessions : d # s /\ InAppend(txn[d]) =>
        txn[d].loaded \subseteq AbstractLog!BasisIn(AppendAt(txn[d]), CommittedRows')
  BY <1>g DEF BasisInv, AppendOf
<1>4. \A d \in Sessions : InAppend(txn'[d]) =>
        txn'[d].loaded \subseteq AbstractLog!BasisIn(AppendAt(txn'[d]), CommittedRows')
  BY <1>1, <1>3, OthersKept
<1> QED
  BY <1>2, <1>4 DEF BasisInv, InLog, AppendOf, AppendAt, InAppend

-----------------------------------------------------------------------------
(* A position that was read is below those still to be given.              *)
LEMMA ReadIsBelow ==
  ASSUME LogInv, NEW a, NEW basis, InLog(basis, a), NEW q, NEW pos, <<q, pos>> \in basis
  PROVE  pos < nextPos
<1>1. PICK p \in CommittedRows : p.pos = pos
  BY InBasis DEF InLog
<1> QED
  BY <1>1 DEF CommittedRows, LogInv

(* A command sorts after what it has read.                                 *)
LEMMA OrderStep ==
  ASSUME TypeOK, LogInv, OwnerInv, PhaseInv, FreshInv, BasisInv, OrderInv,
         NEW s \in Sessions, SessionStep(s)
  PROVE  OrderInv'
<1> DEFINE t == txn[s]
           n == txn'[s]
<1>0. /\ nextPos \in Nat
      /\ \A r \in rows : r.pos < nextPos /\ r.pos # nextPos /\ r.xid < nextXid
  BY DEF TypeOK, LogInv, IsRow
<1>r. \A r \in rows' : r \in rows \/ (r = NewRow(s) /\ r.pos = nextPos)
  BY RowsNext, NewRowFields
<1>b. \A a, basis, q : InLog(basis, a) => <<q, nextPos>> \notin basis
  BY <1>0, ReadIsBelow
<1>1. ASSUME NEW r \in rows', NEW p \in rows', r.pos = p.pos PROVE r = p
  BY <1>0, <1>1, <1>r DEF OrderInv
<1>2. ASSUME NEW d \in Sessions, d # s, txn[d].phase = "insert"
      PROVE  Above(txn[d].xid, AppendAt(txn[d]), txn[d].loaded)'
  <2>1. Above(txn[d].xid, AppendOf(d), txn[d].loaded) /\ InLog(txn[d].loaded, AppendOf(d))
    BY <1>2 DEF OrderInv, At, BasisInv, InAppend
  <2>2. txn'[d] = txn[d]
    BY <1>2, OthersKept
  <2>3. ASSUME NEW p \in rows', NEW q, <<q, p.pos>> \in txn[d].loaded PROVE p \in rows
    BY <1>b, <1>r, <2>1, <2>3
  <2> QED
    BY <2>1, <2>2, <2>3 DEF Above, AppendOf, AppendAt
<1>3. ASSUME n.phase = "insert"
      PROVE  Above(txn[s].xid, AppendOf(s), txn[s].loaded)'
  <2>0. t \in Txn
    BY DEF TypeOK
  <2>1. NoConflict(s) \/ TakeXid(s) \/ InsertEvent(s)
    BY <1>3, StepKinds, BeginEffect, WriteElsewhereEffect, TakeSnapshotEffect, ReadEventsEffect,
       AppendEffects, TakeLockEffect, EndEffect
  <2>2. CASE NoConflict(s)
    <3>1. AppendAt(n) = AppendAt(t) /\ t.xid # 0 /\ t.phase = "conflict"
      BY <1>3, <2>2, AppendEffects DEF Keeps, AppendAt
    <3>2. ~ AppendAt(n).firstWrite
      BY <3>1 DEF FreshInv, AppendOf
    <3> QED
      BY <3>2 DEF Above, AppendOf, AppendAt
  <2>3. CASE TakeXid(s)
    <3>1. n.xid = nextXid /\ rows' = rows
      BY <2>3, AppendEffects DEF TakeXid, AssignXid
    <3> QED
      BY <1>0, <3>1 DEF Above, AppendOf, AppendAt
  <2>4. CASE InsertEvent(s)
    <3>1. n.xid = t.xid /\ n.loaded = t.loaded /\ AppendAt(n) = AppendAt(t) /\ t.phase = "insert"
      BY <1>3, <2>0, <2>4, InsertEventEffect, AtPartNext DEF KeepsReads, AppendAt
    <3>2. Above(t.xid, AppendOf(s), t.loaded) /\ InLog(t.loaded, AppendOf(s))
      BY <3>1 DEF OrderInv, At, BasisInv, InAppend
    <3>3. ASSUME NEW p \in rows', NEW q, <<q, p.pos>> \in t.loaded PROVE p \in rows
      BY <1>b, <1>r, <3>2, <3>3
    <3> QED
      BY <3>1, <3>2, <3>3 DEF Above, AppendOf, AppendAt
  <2> QED
    BY <2>1, <2>2, <2>3, <2>4
<1>4. ASSUME NEW r \in rows'
      PROVE  Above(r.xid, r.data.append, r.data.basis)'
  <2>1. Above(r.xid, r.data.append, r.data.basis) /\ InLog(r.data.basis, r.data.append)
    <3>1. CASE r \in rows
      BY <3>1 DEF OrderInv, BasisInv
    <3>2. CASE InsertEvent(s) /\ r = NewRow(s)
      BY <3>2, NewRowFields DEF InsertEvent, OrderInv, BasisInv, At, InAppend
    <3> QED
      BY <3>1, <3>2, RowsNext
  <2>2. ASSUME NEW p \in rows', NEW q, <<q, p.pos>> \in r.data.basis PROVE p \in rows
    BY <1>b, <1>r, <2>1, <2>2
  <2> QED
    BY <2>1, <2>2 DEF Above
<1>5. ASSUME NEW d \in Sessions, At(d, "insert")'
      PROVE  Above(txn[d].xid, AppendOf(d), txn[d].loaded)'
  <2>1. CASE d = s
    BY <1>3, <1>5, <2>1 DEF At, AppendOf
  <2>2. CASE d # s
    BY <1>2, <1>5, <2>2, OthersKept DEF At, AppendOf
  <2> QED
    BY <2>1, <2>2
<1> QED
  BY <1>1, <1>4, <1>5 DEF OrderInv

-----------------------------------------------------------------------------
(* One row for each emit key.                                              *)
LEMMA EmitStep ==
  ASSUME EmitInv, NEW s \in Sessions, SessionStep(s)
  PROVE  EmitInv'
<1>1. ASSUME InsertEvent(s), NEW r \in rows
      PROVE  r.data.emit = NewRow(s).data.emit => r.data.emit.cause = NoCause
  BY <1>1, InsertedRow, NewRowFields DEF Holders
<1> QED
  BY <1>1, RowsNext DEF EmitInv

-----------------------------------------------------------------------------
(* What a transaction has written.                                         *)
LEMMA InsertNext ==
  ASSUME TypeOK, PhaseInv, NEW s \in Sessions, InsertEvent(s)
  PROVE  LET t == txn[s]
             n == txn'[s]
         IN  /\ t.phase = "insert" /\ t.xid # 0
             /\ n.request = t.request /\ n.xid = t.xid
             /\ \/ /\ t.wrote + 1 = Len(AppendAt(t).events) /\ t.part + 1 \in Nat \ {0}
                   /\ n = AtPart(t, t.part + 1)
                \/ /\ n.phase = "insert" /\ n.part = t.part /\ n.wrote = t.wrote + 1
<1> DEFINE t == txn[s]
<1>0. t \in Txn
  BY DEF TypeOK
<1>1. t.phase = "insert" /\ t.xid # 0 /\ t.part + 1 \in Nat \ {0}
  BY <1>0 DEF InsertEvent, At, Txn, PhaseInv, PhaseOK
<1>2. txn'[s] = IF t.wrote + 1 = Len(AppendAt(t).events) THEN AtPart(t, t.part + 1)
                ELSE [t EXCEPT !.wrote = t.wrote + 1]
  BY BecomeFacts DEF InsertEvent, AppendOf
<1> HIDE DEF t
<1>3. LET n == [t EXCEPT !.wrote = t.wrote + 1]
      IN  n.request = t.request /\ n.part = t.part /\ n.wrote = t.wrote + 1
          /\ n.xid = t.xid /\ n.phase = t.phase
  BY <1>0 DEF Txn
<1>4. LET n == AtPart(t, t.part + 1) IN n.request = t.request /\ n.xid = t.xid
  BY <1>0, <1>1, AtPartNext
<1> QED
  BY <1>1, <1>2, <1>3, <1>4 DEF t

(* The rows of an id that is not the step's stay as they are.              *)
LEMMA OtherRowsStay ==
  ASSUME NEW s \in Sessions, SessionStep(s), NEW x, x # txn[s].xid
  PROVE  \A r : (r \in rows' /\ r.xid = x) <=> (r \in rows /\ r.xid = x)
BY RowsNext, NewRowFields

LEMMA OtherWriteStep ==
  ASSUME TypeOK, TypeOK', LogInv, OwnerInv, WriteInv, NEW s \in Sessions, SessionStep(s),
         NEW d \in Sessions, d # s
  PROVE  WroteOK(txn[d])'
<1> DEFINE u == txn[d]
<1>1. txn'[d] = u /\ WroteOK(u)
  BY OthersKept DEF WriteInv
<1>2. \A r : (r \in rows' /\ u.xid = r.xid) <=> (r \in rows /\ u.xid = r.xid)
  <2>1. CASE u.xid = 0
    BY <2>1 DEF TypeOK, IsRow
  <2>2. CASE u.xid # 0
    <3>1. u.xid # txn[s].xid
      BY <2>2 DEF OwnerInv
    <3> QED
      BY <3>1, OtherRowsStay
  <2> QED
    BY <2>1, <2>2
<1>3. \A k : PartOf(u, k)' = PartOf(u, k)
  BY <1>1, <1>2 DEF PartOf
<1> HIDE DEF u
<1>4. \A k : Written(u, k)' = Written(u, k)
  BY <1>1 DEF Written, InAppend, u
<1> QED
  BY <1>1, <1>2, <1>3, <1>4 DEF WroteOK, u, IsEventOf

(* Statements that write nothing leave what was written.                   *)
LEMMA QuietWriteStep ==
  ASSUME WriteInv, NEW s \in Sessions, UNCHANGED rows,
         txn'[s].request = txn[s].request, txn'[s].part = txn[s].part,
         txn'[s].wrote = txn[s].wrote, txn'[s].xid = txn[s].xid,
         InAppend(txn[s]), InAppend(txn'[s]), txn[s].phase # "insert"
  PROVE  WroteOK(txn[s])'
<1>1. WroteOK(txn[s])
  BY DEF WriteInv
<1>2. txn[s].wrote = 0
  BY <1>1 DEF WroteOK
<1>3. \A k : PartOf(txn[s], k)' = PartOf(txn[s], k)
  BY DEF PartOf
<1>4. \A k : Written(txn[s], k)' = Written(txn[s], k)
  BY <1>2 DEF Written, InAppend
<1>5. txn'[s].phase # "commit"
  BY DEF InAppend
<1> QED
  BY <1>1, <1>2, <1>3, <1>4, <1>5 DEF WroteOK, IsEventOf

LEMMA OwnInsertStep ==
  ASSUME TypeOK, LogInv, OwnerInv, PhaseInv, WriteInv, NEW s \in Sessions, InsertEvent(s)
  PROVE  WroteOK(txn[s])'
<1> DEFINE t == txn[s]
           n == txn'[s]
           k0 == t.part
           N == Len(t.request.appends)
           new == NewRow(s)
           P(k) == {r \in rows' : r.xid = t.xid /\ r.data.part = k}
           W(k) == IF k < n.part THEN Len(t.request.appends[k].events)
                   ELSE IF k = n.part /\ InAppend(n) THEN n.wrote ELSE 0
<1>0. /\ t \in Txn /\ WroteOK(t) /\ N \in Nat
      /\ n.request = t.request /\ n.xid = t.xid /\ t.phase = "insert" /\ t.xid # 0
  BY InsertNext, RequestsType DEF TypeOK, WriteInv, Txn
<1>a. /\ k0 \in 1 .. N /\ t.wrote \in Nat
      /\ AppendAt(t) = t.request.appends[k0]
  <2>1. t.part <= N
    BY <1>0 DEF PhaseInv, PhaseOK, InAppend
  <2> QED
    BY <1>0, <2>1 DEF Txn, AppendAt
<1>n. /\ new.xid = t.xid /\ new.data.part = k0
      /\ IsEventOf(new, t.request.appends[k0], t.wrote + 1)
      /\ new.data.emit.ord = t.wrote + 1
  <2>1. new.data.emit = [cause |-> AppendAt(t).cause, ord |-> t.wrote + 1]
    BY NewRowFields DEF EmitKey, AppendOf
  <2>2. new.data.emit.ord = t.wrote + 1
    BY <2>1
  <2> HIDE DEF new
  <2>3. /\ new.xid = t.xid /\ new.data.part = k0 /\ new.data.append = AppendAt(t)
        /\ new.data.event = AppendAt(t).events[t.wrote + 1]
    BY NewRowFields DEF AppendOf, new
  <2> QED
    BY <1>a, <2>1, <2>2, <2>3 DEF IsEventOf
<1>r. rows' = rows \cup {new}
  BY InsertedRow
<1> HIDE DEF new
<1>1. /\ n.phase = "commit" => n.part > N
      /\ n.xid = 0 => n.part = 1
      /\ n.phase # "insert" => n.wrote = 0
      /\ W(k0) = t.wrote + 1
      /\ \A k \in 1 .. N : k # k0 => W(k) = Written(t, k)
  <2>1. CASE t.wrote + 1 = Len(AppendAt(t).events) /\ t.part + 1 \in Nat \ {0} /\ n = AtPart(t, t.part + 1)
    <3>1. n.part = k0 + 1 /\ n.wrote = 0 /\ (n.phase = "commit" => n.part > N)
      BY <1>0, <2>1, AtPartNext
    <3>2. W(k0) = t.wrote + 1
      BY <1>a, <2>1, <3>1
    <3>3. ASSUME NEW k \in 1 .. N, k # k0 PROVE W(k) = Written(t, k)
      BY <1>a, <3>1, <3>3 DEF Written
    <3> QED
      BY <1>0, <3>1, <3>2, <3>3
  <2>2. CASE n.phase = "insert" /\ n.part = t.part /\ n.wrote = t.wrote + 1
    BY <1>0, <1>a, <2>2 DEF Written, InAppend
  <2> QED
    BY <2>1, <2>2, InsertNext
<1> HIDE DEF W
<1>2. /\ P(k0) = PartOf(t, k0) \cup {new}
      /\ \A k : k # k0 => P(k) = PartOf(t, k)
  BY <1>n, <1>r DEF PartOf
<1>3. Written(t, k0) = t.wrote
  BY <1>0, <1>a DEF Written, InAppend
<1>4. \A r \in rows' : n.xid = r.xid => r.data.part \in 1 .. N
  BY <1>0, <1>a, <1>n, <1>r DEF WroteOK
<1>5. ASSUME NEW k \in 1 .. N
      PROVE  /\ \A r \in P(k) : IsEventOf(r, t.request.appends[k], W(k))
             /\ \A i \in 1 .. W(k) : \E r \in P(k) : r.data.emit.ord = i
             /\ \A r, p \in P(k) : r.data.emit.ord = p.data.emit.ord => r = p
  <2>0. /\ \A r \in PartOf(t, k) : IsEventOf(r, t.request.appends[k], Written(t, k))
        /\ \A i \in 1 .. Written(t, k) : \E r \in PartOf(t, k) : r.data.emit.ord = i
        /\ \A r, p \in PartOf(t, k) : r.data.emit.ord = p.data.emit.ord => r = p
    BY <1>0 DEF WroteOK
  <2>1. CASE k # k0
    BY <1>1, <1>2, <2>0, <2>1
  <2>2. CASE k = k0
    <3>1. \A r \in PartOf(t, k0) : r.data.emit.ord \in 1 .. t.wrote
      BY <1>3, <2>0, <2>2 DEF IsEventOf
    <3>2. ASSUME NEW r \in PartOf(t, k0) PROVE IsEventOf(r, t.request.appends[k0], t.wrote + 1)
      <4>1. IsEventOf(r, t.request.appends[k0], t.wrote)
        BY <1>3, <2>0, <2>2
      <4>2. r.data.emit.ord \in 1 .. t.wrote + 1
        BY <1>a, <3>1
      <4> QED
        BY <4>1, <4>2 DEF IsEventOf
    <3>3. \A i \in 1 .. t.wrote + 1 : \E r \in P(k0) : r.data.emit.ord = i
      <4> SUFFICES ASSUME NEW i \in 1 .. t.wrote + 1 PROVE \E r \in P(k0) : r.data.emit.ord = i
        OBVIOUS
      <4>1. i \in 1 .. t.wrote \/ i = t.wrote + 1
        BY <1>a
      <4> HIDE DEF P
      <4> QED
        BY <1>2, <1>3, <1>n, <2>0, <2>2, <4>1
    <3>4. \A r, p \in P(k0) : r.data.emit.ord = p.data.emit.ord => r = p
      BY <1>2, <1>a, <1>n, <2>0, <2>2, <3>1
    <3> QED
      BY <1>1, <1>2, <1>n, <2>2, <3>2, <3>3, <3>4
  <2> QED
    BY <2>1, <2>2
<1>6. \A k : PartOf(txn[s], k)' = P(k) /\ Written(txn[s], k)' = W(k)
  BY <1>0 DEF PartOf, Written, W, InAppend
<1> HIDE DEF P
<1>7. ASSUME NEW k \in 1 .. N
      PROVE  /\ \A r \in PartOf(txn[s], k)' : IsEventOf(r, t.request.appends[k], Written(txn[s], k)')
             /\ \A i \in 1 .. Written(txn[s], k)' : \E r \in PartOf(txn[s], k)' : r.data.emit.ord = i
             /\ \A r, p \in PartOf(txn[s], k)' : r.data.emit.ord = p.data.emit.ord => r = p
  BY <1>5, <1>6
<1> QED
  BY <1>0, <1>1, <1>4, <1>7 DEF WroteOK, IsEventOf

LEMMA WriteStep ==
  ASSUME TypeOK, LogInv, LogInv', OwnerInv, PhaseInv, QueueInv, WriteInv, TypeOK',
         NEW s \in Sessions, SessionStep(s)
  PROVE  WriteInv'
<1> DEFINE t == txn[s]
           n == txn'[s]
<1>0. \A d \in Sessions : txn'[d] \in Txn /\ Len(txn'[d].request.appends) \in Nat
  BY RequestsType DEF TypeOK, Txn
<1>z. SUFFICES WroteOK(txn[s])'
  BY OtherWriteStep DEF WriteInv
<1>e. ASSUME n.part = 1, n.wrote = 0, n.phase = "commit" => 1 > Len(n.request.appends),
             \A r \in rows' : r.xid # n.xid
      PROVE  WroteOK(txn[s])'
  <2>1. \A k \in 1 .. Len(n.request.appends) : Written(txn[s], k)' = 0 /\ PartOf(txn[s], k)' = {}
    BY <1>0, <1>e DEF Written, PartOf
  <2> QED
    BY <1>e, <2>1 DEF WroteOK
<1>f. \A r \in rows' : r.xid # 0
  BY DEF TypeOK, IsRow
<1>1. CASE Begin(s)
  BY <1>1, <1>e, <1>f, BeginNext DEF AtStart
<1>2. CASE WriteElsewhere(s)
  <2>1. \A r \in rows' : r.xid # nextXid
    BY <1>2 DEF WriteElsewhere, AssignXid, LogInv, TypeOK
  <2> QED
    BY <1>2, <1>e, <2>1, WriteElsewhereNext DEF AtStart
<1>3. CASE TakeSnapshot(s)
  BY <1>3, QuietWriteStep, TakeSnapshotEffect DEF Keeps, TakeSnapshot, logVars, InAppend
<1>4. CASE ReadEvents(s)
  BY <1>4, QuietWriteStep, ReadEventsEffect DEF Keeps, ReadEvents, logVars, InAppend
<1>5. CASE StartAppend(s) \/ NoDuplicate(s) \/ NoConflict(s)
  <2>1. UNCHANGED rows /\ Keeps(n, t) /\ n.xid = t.xid
    BY <1>5, AppendEffects DEF StartAppend, NoDuplicate, NoConflict, logVars
  <2>2. InAppend(t) /\ InAppend(n) /\ t.phase # "insert"
    BY <1>5, AppendEffects DEF InAppend
  <2> QED
    BY <2>1, <2>2, QuietWriteStep DEF Keeps
<1>6. CASE TakeLock(s)
  <2>1. UNCHANGED rows /\ n.request = t.request /\ n.part = t.part /\ n.wrote = t.wrote /\ n.xid = t.xid
    BY <1>6, TakeLockEffect DEF TakeLock, logVars
  <2>2. InAppend(t) /\ InAppend(n) /\ t.phase # "insert"
    BY <1>6, TakeLockEffect DEF InAppend
  <2> QED
    BY <2>1, <2>2, QuietWriteStep
<1>7. CASE TakeXid(s)
  <2>1. n.xid = nextXid /\ n.part = t.part /\ n.wrote = t.wrote /\ t.xid = 0
    BY <1>7, AppendEffects DEF Keeps, PhaseInv, PhaseOK
  <2>2. t.part = 1 /\ t.wrote = 0 /\ n.phase = "insert"
    BY <1>7, <2>1, AppendEffects DEF WriteInv, WroteOK
  <2>3. \A r \in rows' : r.xid # nextXid
    BY <1>7 DEF TakeXid, AssignXid, LogInv, TypeOK
  <2> QED
    BY <1>e, <2>1, <2>2, <2>3
<1>8. CASE InsertEvent(s)
  BY <1>8, OwnInsertStep
<1>9. CASE Commit(s) \/ \E o \in Outcomes : EndUncommitted(s, o)
  BY <1>9, <1>e, <1>f, EndNext
<1> QED
  BY <1>1, <1>2, <1>3, <1>4, <1>5, <1>6, <1>7, <1>8, <1>9, StepKinds

-----------------------------------------------------------------------------
(* A writer of an event and one whose key it has exclude each other.       *)
LEMMA KeysExclude ==
  ASSUME TypeOK, LockInv, NEW s \in Sessions, NEW d \in Sessions, d # s,
         NEW b, NEW e \in Event, e \in {b.events[i] : i \in 1 .. Len(b.events)},
         LocksOf(b) \subseteq txn[s].held,
         NEW a, IsAppend(a), LocksOf(a) \subseteq txn[d].held
  PROVE  ~ Matches(a.idem, e)
<1> SUFFICES ASSUME Matches(a.idem, e) PROVE FALSE
  OBVIOUS
<1> DEFINE evs(c) == {c.events[i] : i \in 1 .. Len(c.events)}
<1>1. PICK i \in a.idem : ItemMatches(i, e)
  BY DEF Matches
<1>2. i \in (Boundary(a) \cup a.idem) \cap Item /\ e \in evs(b) \cap Event
  BY <1>1 DEF IsAppend
<1>3. \E h \in WriterLocks(evs(b), Boundary(b) \cup b.idem),
         g \in WriterLocks(evs(a), Boundary(a) \cup a.idem) : Incompatible(h, g)
  BY <1>1, <1>2, LocksCoverConditions
<1>4. \E h \in txn[s].held, g \in txn[d].held : Incompatible(h, g)
  BY <1>3 DEF LocksOf
<1> QED
  BY <1>4 DEF LockInv

(* A row that was written before does not have the key of another session. *)
LEMMA RowExcluded ==
  ASSUME TypeOK, LockInv, RowInv, NEW s \in Sessions, NEW d \in Sessions, d # s,
         NEW p \in rows, p.xid = txn[s].xid,
         NEW a, IsAppend(a), LocksOf(a) \subseteq txn[d].held
  PROVE  ~ KeyedBy(a, p)
<1>1. LocksOf(p.data.append) \subseteq txn[s].held
  BY DEF LockInv
<1>2. /\ p.data.event \in Event
      /\ p.data.event \in {p.data.append.events[i] : i \in 1 .. Len(p.data.append.events)}
  BY DEF TypeOK, RowInv
<1> QED
  BY <1>1, <1>2, KeysExclude DEF KeyedBy

(* Nor does the one that is being written.                                 *)
LEMMA NewRowExcluded ==
  ASSUME TypeOK, LockInv, PhaseInv, NEW s \in Sessions, NEW d \in Sessions, d # s,
         InsertEvent(s), NEW a, IsAppend(a), LocksOf(a) \subseteq txn[d].held
  PROVE  ~ KeyedBy(a, NewRow(s))
<1>1. txn[s].phase = "insert"
  BY DEF InsertEvent, At
<1>2. IsAppend(AppendOf(s)) /\ txn[s].wrote + 1 \in 1 .. Len(AppendOf(s).events)
  BY <1>1, AtAnAppend DEF InAppend
<1>3. LocksOf(AppendOf(s)) \subseteq txn[s].held
  BY <1>1 DEF LockInv, LocksOK, AppendOf
<1>4. NewRow(s).data.event = AppendOf(s).events[txn[s].wrote + 1]
  BY NewRowFields
<1>5. NewRow(s).data.event \in Event
  BY <1>2, <1>4 DEF IsAppend
<1> QED
  BY <1>2, <1>3, <1>4, <1>5, KeysExclude DEF KeyedBy

(* A transaction's rows are of appends up to the one it is at.             *)
LEMMA PartsSoFar ==
  ASSUME TypeOK, WriteInv, NEW s \in Sessions, NEW r \in rows, r.xid = txn[s].xid
  PROVE  /\ r.data.part \in 1 .. Len(txn[s].request.appends)
         /\ r.data.part <= txn[s].part
<1> DEFINE t == txn[s]
           k == r.data.part
<1>0. WroteOK(t)
  BY DEF WriteInv
<1>1. k \in 1 .. Len(t.request.appends) /\ r \in PartOf(t, k)
  BY <1>0 DEF WroteOK, PartOf
<1> HIDE DEF k
<1>2. IsEventOf(r, t.request.appends[k], Written(t, k))
  BY <1>0, <1>1 DEF WroteOK
<1>3. Written(t, k) # 0
  BY <1>2 DEF IsEventOf
<1>4. t.part \in Nat /\ k \in Nat
  BY <1>1 DEF TypeOK, Txn
<1> QED
  BY <1>1, <1>3, <1>4 DEF Written, k

(* A key is one append's.                                                  *)
LEMMA KeyedStep ==
  ASSUME TypeOK, LogInv, OwnerInv, PhaseInv, RowInv, LockInv, KeyInv,
         NEW s \in Sessions, SessionStep(s), Keyed(txn'[s]),
         NEW p \in rows', KeyedBy(AppendAt(txn'[s]), p)
  PROVE  p.xid = txn'[s].xid /\ p.data.part = txn'[s].part
<1> DEFINE t == txn[s]
           n == txn'[s]
<1>0. t \in Txn
  BY DEF TypeOK
<1>1. NoDuplicate(s) \/ NoConflict(s) \/ TakeXid(s) \/ InsertEvent(s)
  BY <1>0, StepKinds, BeginEffect, WriteElsewhereEffect, TakeSnapshotEffect, ReadEventsEffect,
     AppendEffects, TakeLockEffect, EndEffect DEF Keyed
<1>2. CASE NoDuplicate(s)
  <2>1. /\ AppendAt(n) = AppendAt(t) /\ n.xid = t.xid /\ n.part = t.part
        /\ t.phase = "idempotency" /\ rows' = rows
    BY <1>2, AppendEffects DEF Keeps, AppendAt, NoDuplicate, logVars
  <2>2. p \notin Visible(t.xid)
    BY <1>2, <2>1 DEF NoDuplicate, Duplicates, KeyedBy, AppendOf
  <2>3. p \in rows /\ p.xid \in running /\ p.xid # t.xid
    BY <2>1, <2>2 DEF Visible, LogInv
  <2>4. PICK d \in Sessions : txn[d].xid = p.xid /\ d # s
    BY <2>3 DEF OwnerInv
  <2>5. IsAppend(AppendAt(t)) /\ LocksOf(AppendAt(t)) \subseteq t.held
    BY <2>1, AtAnAppend DEF InAppend, AppendOf, LockInv, LocksOK
  <2> QED
    BY <2>1, <2>3, <2>4, <2>5, RowExcluded
<1>3. CASE NoConflict(s)
  <2>1. /\ AppendAt(n) = AppendAt(t) /\ n.xid = t.xid /\ n.part = t.part
        /\ t.phase = "conflict" /\ rows' = rows
    BY <1>3, AppendEffects DEF Keeps, AppendAt, NoConflict, logVars
  <2> QED
    BY <2>1 DEF KeyInv, Keyed, AppendOf
<1>4. CASE TakeXid(s)
  <2>1. /\ AppendAt(n) = AppendAt(t) /\ t.xid = 0
        /\ t.phase = "xid" /\ rows' = rows
    BY <1>4, AppendEffects DEF Keeps, AppendAt, TakeXid, AssignXid, PhaseInv, PhaseOK
  <2> QED
    BY <2>1 DEF KeyInv, Keyed, AppendOf, TypeOK, IsRow
<1>5. CASE InsertEvent(s)
  <2>1. /\ AppendAt(n) = AppendAt(t) /\ n.xid = t.xid /\ n.part = t.part /\ t.phase = "insert"
    BY <1>0, <1>5, InsertEventEffect, AtPartNext DEF AppendAt, Keyed
  <2> QED
    BY <1>5, <2>1, RowsNext, NewRowFields DEF KeyInv, Keyed, AppendOf
<1> QED
  BY <1>1, <1>2, <1>3, <1>4, <1>5

LEMMA KeyStep ==
  ASSUME TypeOK, LogInv, OwnerInv, PhaseInv, RowInv, LockInv, WriteInv, KeyInv,
         NEW s \in Sessions, SessionStep(s)
  PROVE  KeyInv'
<1> DEFINE t == txn[s]
           new == NewRow(s)
<1>0. t \in Txn /\ t.part \in Nat
  BY DEF TypeOK, Txn
<1>k. ASSUME InsertEvent(s), NEW p \in rows, KeyedBy(AppendOf(s), p)
      PROVE  p.xid = t.xid /\ p.data.part = t.part
  BY <1>k DEF KeyInv, Keyed, InsertEvent, At
<1>n. new.xid = t.xid /\ new.data.part = t.part /\ new.data.append = AppendOf(s)
  BY NewRowFields
<1>r. \A r \in rows' : r \in rows \/ (InsertEvent(s) /\ r = new)
  BY RowsNext
<1> HIDE DEF new
<1>1. ASSUME NEW d \in Sessions, Keyed(txn'[d]), NEW p \in rows', KeyedBy(AppendAt(txn'[d]), p)
      PROVE  p.xid = txn'[d].xid /\ p.data.part = txn'[d].part
  <2>1. CASE d = s
    BY <1>1, <2>1, KeyedStep
  <2>2. CASE d # s
    <3>1. txn'[d] = txn[d]
      BY <2>2, OthersKept
    <3>2. IsAppend(AppendAt(txn[d])) /\ LocksOf(AppendAt(txn[d])) \subseteq txn[d].held
      BY <1>1, <3>1, AtAnAppend DEF Keyed, InAppend, AppendOf, LockInv, LocksOK
    <3>3. ~ (InsertEvent(s) /\ p = new)
      BY <1>1, <2>2, <3>1, <3>2, NewRowExcluded DEF new
    <3> QED
      BY <1>1, <1>r, <3>1, <3>3 DEF KeyInv, AppendOf
  <2> QED
    BY <2>1, <2>2
<1>2. ASSUME NEW r \in rows', NEW p \in rows', r.xid \notin committed', KeyedBy(r.data.append, p)
      PROVE  p.xid = r.xid /\ p.data.part >= r.data.part
  <2>0. r.xid \notin committed
    BY <1>2, CommittedGrows
  <2>1. CASE r \in rows /\ p \in rows
    BY <1>2, <2>0, <2>1 DEF KeyInv
  <2>2. CASE InsertEvent(s) /\ r = new
    <3>1. KeyedBy(AppendOf(s), p)
      BY <1>2, <1>n, <2>2
    <3> QED
      BY <1>0, <1>k, <1>n, <1>r, <2>2, <3>1
  <2>3. CASE r \in rows /\ InsertEvent(s) /\ p = new
    <3>1. r.xid \in running
      BY <2>0, <2>3 DEF LogInv
    <3>2. PICK d \in Sessions : txn[d].xid = r.xid
      BY <3>1 DEF OwnerInv
    <3>3. d = s
      <4>1. IsAppend(r.data.append) /\ LocksOf(r.data.append) \subseteq txn[d].held
        BY <2>3, <3>2 DEF RowInv, LockInv
      <4> QED
        BY <1>2, <2>3, <4>1, NewRowExcluded DEF new
    <3>4. r.data.part \in Nat /\ r.data.part <= t.part
      BY <2>3, <3>2, <3>3, PartsSoFar
    <3> QED
      BY <1>0, <1>n, <2>3, <3>2, <3>3, <3>4
  <2> QED
    BY <1>r, <2>1, <2>2, <2>3
<1>3. ASSUME NEW r \in rows', NEW p \in rows', r.data.append.idem = p.data.append.idem,
             KeyedBy(r.data.append, r), KeyedBy(r.data.append, p)
      PROVE  r.xid = p.xid /\ r.data.part = p.data.part
  <2>1. CASE r \in rows /\ p \in rows
    BY <1>3, <2>1 DEF KeyInv
  <2>2. CASE InsertEvent(s) /\ r = new
    BY <1>3, <1>k, <1>n, <1>r, <2>2 DEF KeyedBy
  <2>3. CASE InsertEvent(s) /\ p = new
    BY <1>3, <1>k, <1>n, <1>r, <2>3 DEF KeyedBy
  <2> QED
    BY <1>r, <2>1, <2>2, <2>3
<1> QED
  BY <1>1, <1>2, <1>3 DEF KeyInv, KeyedBy, Keyed, AppendOf, AppendAt

-----------------------------------------------------------------------------
(* An append asks for one lock of each number.                             *)
LEMMA OneLockOfAnId ==
  ASSUME NEW a, NEW h \in LocksOf(a), NEW g \in LocksOf(a), h.id = g.id
  PROVE  h = g
<1> DEFINE W == Wanted({a.events[i] : i \in 1 .. Len(a.events)}, Boundary(a) \cup a.idem)
           Excl(n) == \E v \in W : LockHash[v[1]] = n /\ v[2] = "exclusive"
<1> HIDE DEF W
<1>1. LocksOf(a) = {[id |-> LockHash[w[1]], excl |-> Excl(LockHash[w[1]])] : w \in W}
  BY DEF LocksOf, WriterLocks, W
<1> HIDE DEF Excl
<1>2. PICK w \in W : h = [id |-> LockHash[w[1]], excl |-> Excl(LockHash[w[1]])]
  BY <1>1
<1>3. PICK v \in W : g = [id |-> LockHash[v[1]], excl |-> Excl(LockHash[v[1]])]
  BY <1>1
<1>4. LockHash[w[1]] = LockHash[v[1]]
  BY <1>2, <1>3
<1> QED
  BY <1>2, <1>3, <1>4

(* The lock that is taken is the least of those still to be taken.         *)
LEMMA TakeLockNext ==
  ASSUME TypeOK, NEW s \in Sessions, TakeLock(s)
  PROVE  LET t == txn[s]
             n == txn'[s]
         IN  \E l \in t.todo : /\ \A k \in t.todo : l.id <= k.id
                               /\ n.held = t.held \cup {l} /\ n.todo = t.todo \ {l}
<1> DEFINE t == txn[s]
<1>0. t \in Txn
  BY DEF TypeOK
<1>1. PICK l \in t.todo :
        /\ \A k \in t.todo : l.id <= k.id
        /\ Become(s, [t EXCEPT !.todo = @ \ {l}, !.held = @ \cup {l},
                               !.phase = IF t.todo = {l} THEN "idempotency" ELSE @])
  BY DEF TakeLock, NextLock
<1>2. txn'[s] = [t EXCEPT !.todo = @ \ {l}, !.held = @ \cup {l},
                          !.phase = IF t.todo = {l} THEN "idempotency" ELSE @]
  BY <1>1, BecomeFacts
<1> HIDE DEF t
<1>3. LET n == [t EXCEPT !.todo = @ \ {l}, !.held = @ \cup {l},
                         !.phase = IF t.todo = {l} THEN "idempotency" ELSE @]
      IN  n.held = t.held \cup {l} /\ n.todo = t.todo \ {l}
  BY <1>0 DEF Txn
<1> QED
  BY <1>1, <1>2, <1>3 DEF t

(* The order in which locks are taken.                                     *)
LEMMA QueueStep ==
  ASSUME TypeOK, PhaseInv, WriteInv, QueueInv, NEW s \in Sessions, SessionStep(s)
  PROVE  QueueInv'
<1> DEFINE t == txn[s]
           n == txn'[s]
           Early(u) == u.phase \in {"begin", "snapshot", "read", "append"}
<1>0. t \in Txn /\ QueueOK(t) /\ t.part \in Nat \ {0}
  BY DEF TypeOK, QueueInv, Txn
<1>z. SUFFICES QueueOK(n)
  <2>1. \A d \in Sessions : d # s => QueueOK(txn'[d])
    BY OthersKept DEF QueueInv
  <2>2. \A d \in Sessions : QueueOK(txn[d])' <=> QueueOK(txn'[d])
    BY DEF QueueOK, AppendAt
  <2> QED
    BY <2>1, <2>2 DEF QueueInv
<1>1. CASE Begin(s) \/ WriteElsewhere(s)
  BY <1>1, BeginNext, WriteElsewhereNext DEF AtStart, QueueOK
<1>2. CASE TakeSnapshot(s)
  BY <1>0, <1>2, TakeSnapshotEffect DEF Keeps, QueueOK
<1>3. CASE ReadEvents(s)
  BY <1>0, <1>3, ReadEventsEffect DEF Keeps, QueueOK
<1>4. CASE StartAppend(s)
  <2>1. /\ n.todo = LocksOf(AppendAt(t)) /\ AppendAt(n) = AppendAt(t)
        /\ n.held = t.held /\ n.part = t.part /\ t.phase = "append" /\ n.phase = "lock"
    BY <1>4, AppendEffects DEF Keeps, AppendAt
  <2> QED
    BY <1>0, <2>1 DEF QueueOK
<1>5. CASE TakeLock(s)
  <2>1. PICK l \in t.todo : /\ \A k \in t.todo : l.id <= k.id
                            /\ n.held = t.held \cup {l} /\ n.todo = t.todo \ {l}
    BY <1>5, TakeLockNext
  <2>2. /\ n.part = t.part /\ AppendAt(n) = AppendAt(t)
        /\ t.phase = "lock" /\ n.phase \in {"lock", "idempotency"}
    BY <1>5, TakeLockEffect DEF AppendAt
  <2>3. \A k \in t.todo : k.id = l.id => k = l
    BY <1>0, <2>1, <2>2, OneLockOfAnId DEF QueueOK
  <2>4. t.todo \subseteq Lock /\ t.held \subseteq Lock
    BY <1>0 DEF Txn
  <2>5. \A k \in n.todo : l.id < k.id
    BY <2>1, <2>3, <2>4 DEF Lock
  <2>6. n.todo \subseteq LocksOf(AppendAt(n))
    BY <1>0, <2>1, <2>2 DEF QueueOK
  <2>7. n.part = 1 => \A h \in n.held, k \in n.todo : h.id < k.id
    BY <1>0, <2>1, <2>2, <2>5 DEF QueueOK
  <2> QED
    BY <2>2, <2>6, <2>7 DEF QueueOK
<1>6. CASE NoDuplicate(s) \/ NoConflict(s) \/ TakeXid(s)
  BY <1>6, AppendEffects DEF QueueOK
<1>7. CASE InsertEvent(s)
  BY <1>0, <1>7, InsertNext, AtPartNext DEF QueueOK
<1>8. CASE Commit(s) \/ \E o \in Outcomes : EndUncommitted(s, o)
  BY <1>8, EndNext DEF QueueOK
<1> QED
  BY <1>1, <1>2, <1>3, <1>4, <1>5, <1>6, <1>7, <1>8, StepKinds

-----------------------------------------------------------------------------
(* What had committed before the reads, they have seen.                    *)
LEMMA KnownNext ==
  ASSUME TypeOK, NEW s \in Sessions
  PROVE  /\ (ReadEvents(s) \/ StartAppend(s) \/ NoDuplicate(s) \/ TakeLock(s))
              => txn'[s].known = txn[s].known
         /\ TakeSnapshot(s) => txn'[s].known = IF txn[s].unread = AppendAt(txn[s]).reads
                                               THEN committed ELSE txn[s].known \cap committed
<1>0. txn[s] \in Txn
  BY DEF TypeOK
<1>1. CASE TakeSnapshot(s)
  <2>1. PICK q \in txn[s].unread :
          txn'[s] = [txn[s] EXCEPT !.phase = "read", !.query = q, !.snap = CurrentSnapshot(txn[s].xid),
                                   !.known = IF txn[s].unread = AppendOf(s).reads
                                             THEN committed ELSE @ \cap committed]
    BY <1>1, BecomeFacts DEF TakeSnapshot
  <2> QED
    BY <1>0, <1>1, <2>1 DEF Txn, AppendOf, TakeSnapshot, At, ReadEvents, StartAppend, NoDuplicate, TakeLock
<1>2. CASE ReadEvents(s)
  <2> DEFINE t       == txn[s]
             result  == {r \in Visible(t.xid) : Matches(t.query, r.data.event)}
             settled == {r \in result : Settled(r)}
             first   == t.unread = AppendOf(s).reads
             horizon == [xid |-> t.snap.xmin, pos |-> 0]
             phase   == IF t.unread = {t.query} THEN "append" ELSE "snapshot"
             unread  == t.unread \ {t.query}
             loaded  == t.loaded \cup {<<t.query, r.pos>> : r \in {r \in result : r.xid # t.xid}}
             seen    == IF first THEN t.snap ELSE Intersect(t.seen, t.snap)
             cursor  == IF AppendOf(s).reads = {t.query} THEN LastOf(settled, ZeroCursor)
                        ELSE IF first THEN horizon ELSE Earliest(t.cursor, horizon)
  <2>1. txn'[s] = [t EXCEPT !.phase = phase, !.unread = unread, !.loaded = loaded,
                            !.seen = seen, !.cursor = cursor]
    BY <1>2, BecomeFacts DEF ReadEvents
  <2>2. t.phase = "read"
    BY <1>2 DEF ReadEvents, At
  <2> HIDE DEF phase, unread, loaded, seen, cursor
  <2>3. txn'[s].known = t.known
    BY <1>0, <2>1 DEF Txn
  <2> QED
    BY <2>2, <2>3 DEF TakeSnapshot, At
<1>3. CASE StartAppend(s)
  <2>1. PICK w : txn'[s] = [txn[s] EXCEPT !.phase = "lock", !.todo = w]
    BY <1>3, BecomeFacts DEF StartAppend
  <2> QED
    BY <1>0, <1>3, <2>1 DEF Txn, StartAppend, At, TakeSnapshot
<1>4. CASE NoDuplicate(s)
  <2>1. txn'[s] = [txn[s] EXCEPT !.phase = "conflict"]
    BY <1>4, BecomeFacts DEF NoDuplicate
  <2> QED
    BY <1>0, <1>4, <2>1 DEF Txn, NoDuplicate, At, TakeSnapshot
<1>5. CASE TakeLock(s)
  <2>1. PICK l \in txn[s].todo :
          txn'[s] = [txn[s] EXCEPT !.todo = @ \ {l}, !.held = @ \cup {l},
                                   !.phase = IF txn[s].todo = {l} THEN "idempotency" ELSE @]
    BY <1>5, BecomeFacts DEF TakeLock
  <2> QED
    BY <1>0, <1>5, <2>1 DEF Txn, TakeLock, At, TakeSnapshot
<1> QED
  BY <1>1, <1>2, <1>3, <1>4, <1>5

LEMMA KnownStep ==
  ASSUME TypeOK, LogInv, OwnerInv, PhaseInv, KnownInv, NEW s \in Sessions, SessionStep(s)
  PROVE  KnownInv'
<1> DEFINE t == txn[s]
           n == txn'[s]
<1>0. t \in Txn /\ KnownOK(t)
  BY DEF TypeOK, KnownInv
<1>1. \A x \in committed' : x <= lastDone'
  <2>0. committed \subseteq Nat /\ lastDone \in Nat
    BY DEF TypeOK
  <2>1. CASE UNCHANGED <<committed, lastDone>>
    BY <2>1 DEF KnownInv
  <2>2. CASE CommitXid(t.xid) \/ AbortXid(t.xid)
    <3>1. t.xid \in Nat
      BY <1>0 DEF Txn
    <3>2. lastDone <= lastDone' /\ t.xid <= lastDone' /\ lastDone' \in Nat
      BY <2>0, <2>2, <3>1 DEF CommitXid, AbortXid, Finished
    <3>3. committed' \subseteq committed \cup {t.xid}
      BY <2>2 DEF CommitXid, AbortXid
    <3> QED
      BY <2>0, <3>1, <3>2, <3>3 DEF KnownInv
  <2> QED
    BY <2>1, <2>2, LogEffect, InsertedRow DEF logVars, AssignXid
<1>z. SUFFICES KnownOK(n)
  BY <1>1, OthersKept DEF KnownInv, KnownOK, HasRead, Reading, AppendAt, Passed
<1>2. CASE TakeSnapshot(s)
  <2>1. \A x \in committed : Passed(CurrentSnapshot(t.xid), x)
    BY DEF Passed, CurrentSnapshot, KnownInv, LogInv, TypeOK
  <2>2. n.known \subseteq committed /\ (t.unread # AppendAt(t).reads => n.known \subseteq t.known)
    <3>1. t.unread = AppendAt(t).reads => n.known = committed
      BY <1>2, KnownNext
    <3>2. t.unread # AppendAt(t).reads => n.known = t.known \cap committed
      BY <1>2, KnownNext
    <3> QED
      BY <3>1, <3>2
  <2>3. /\ n.snap = CurrentSnapshot(t.xid) /\ n.seen = t.seen /\ n.unread = t.unread
        /\ AppendAt(n) = AppendAt(t) /\ t.phase = "snapshot"
    BY <1>2, TakeSnapshotEffect DEF Keeps, KeepsReads, AppendAt
  <2>4. HasRead(n) => HasRead(t) /\ t.unread # AppendAt(t).reads
    BY <2>3 DEF HasRead, Reading
  <2> QED
    BY <1>0, <2>1, <2>2, <2>3, <2>4 DEF KnownOK
<1>3. CASE ReadEvents(s)
  <2>1. /\ n.known = t.known /\ t.phase = "read" /\ n.phase # "read"
        /\ n.seen = IF t.unread = AppendAt(t).reads THEN t.snap ELSE Intersect(t.seen, t.snap)
    BY <1>3, KnownNext, ReadEventsEffect
  <2>2. \A x \in t.known : Passed(t.snap, x)
    BY <1>0, <2>1 DEF KnownOK
  <2>3. CASE t.unread = AppendAt(t).reads
    BY <2>1, <2>2, <2>3 DEF KnownOK
  <2>4. CASE t.unread # AppendAt(t).reads
    <3>1. \A x \in t.known : Passed(t.seen, x)
      BY <1>0, <2>1, <2>4 DEF KnownOK, HasRead, Reading
    <3>2. \A x \in t.known : Passed(Intersect(t.seen, t.snap), x)
      BY <2>2, <3>1 DEF Passed, Intersect, Lesser
    <3> QED
      BY <2>1, <2>4, <3>2 DEF KnownOK
  <2> QED
    BY <2>3, <2>4
<1>4. CASE StartAppend(s) \/ NoDuplicate(s) \/ TakeLock(s)
  <2>1. /\ n.known = t.known /\ n.seen = t.seen /\ n.unread = t.unread /\ AppendAt(n) = AppendAt(t)
        /\ t.phase \in {"append", "lock", "idempotency"} /\ n.phase \in {"lock", "idempotency", "conflict"}
    BY <1>4, KnownNext, AppendEffects, TakeLockEffect DEF Keeps, KeepsReads, AppendAt
  <2> QED
    BY <1>0, <2>1 DEF KnownOK, HasRead, Reading
<1>5. CASE n.phase # "read" /\ (Reading(n) => n.unread = AppendAt(n).reads)
  BY <1>5 DEF KnownOK, HasRead
<1>6. CASE Begin(s) \/ WriteElsewhere(s)
  BY <1>5, <1>6, BeginEffect, WriteElsewhereEffect DEF InAppend, Reading
<1>7. CASE NoConflict(s) \/ TakeXid(s)
  BY <1>5, <1>7, AppendEffects DEF Reading
<1>8. CASE InsertEvent(s)
  BY <1>0, <1>5, <1>8, InsertEventEffect, AtPartKeeps DEF InAppend, Reading
<1>9. CASE Commit(s) \/ \E o \in Outcomes : EndUncommitted(s, o)
  BY <1>5, <1>9, EndEffect DEF Reading
<1> QED
  BY <1>2, <1>3, <1>4, <1>6, <1>7, <1>8, <1>9, StepKinds
-----------------------------------------------------------------------------
LEMMA SerialInit == StoreInit => SerialInv
<1> SUFFICES ASSUME StoreInit PROVE SerialInv
  OBVIOUS
<1>1. rows = {} /\ committed = {}
  BY DEF StoreInit, LogInit
<1>2. ASSUME NEW s \in Sessions
      PROVE  /\ txn[s].phase = "idle" /\ txn[s].part = 1 /\ txn[s].wrote = 0 /\ txn[s].held = {}
             /\ Len(txn[s].request.appends) \in Nat
  <2>1. txn[s] = Idle("none")
    BY DEF StoreInit
  <2>2. Idle("none").request \in Requests
    BY IdleType DEF Txn, Outcomes
  <2> QED
    BY <2>1, <2>2, RequestsType DEF Idle
<1>3. ASSUME NEW s \in Sessions PROVE WroteOK(txn[s]) /\ QueueOK(txn[s]) /\ KnownOK(txn[s])
  <2>1. \A k \in 1 .. Len(txn[s].request.appends) : Written(txn[s], k) = 0
    BY <1>2 DEF Written, InAppend
  <2>2. WroteOK(txn[s])
    BY <1>1, <1>2, <2>1 DEF WroteOK, PartOf
  <2>3. QueueOK(txn[s])
    BY <1>2 DEF QueueOK
  <2>4. KnownOK(txn[s])
    BY <1>2 DEF KnownOK, HasRead, Reading
  <2> QED
    BY <2>2, <2>3, <2>4
<1>4. FreshInv /\ BasisInv
  BY <1>1, <1>2 DEF FreshInv, BasisInv, InAppend
<1>5. OrderInv /\ EmitInv /\ KeyInv
  BY <1>1, <1>2 DEF OrderInv, EmitInv, KeyInv, At, Keyed
<1>6. WriteInv /\ QueueInv /\ KnownInv
  BY <1>1, <1>3 DEF WriteInv, QueueInv, KnownInv
<1> QED
  BY <1>4, <1>5, <1>6, InvInit DEF SerialInv

LEMMA SerialStep == SerialInv /\ [StoreNext]_vars => SerialInv'
<1> SUFFICES ASSUME SerialInv, [StoreNext]_vars PROVE SerialInv'
  OBVIOUS
<1>0. Inv /\ Inv'
  BY InvStep DEF SerialInv
<1>1. CASE \E s \in Sessions : SessionStep(s)
  <2>1. PICK s \in Sessions : SessionStep(s)
    BY <1>1
  <2>2. FreshInv' /\ BasisInv' /\ EmitInv'
    BY <2>1, FreshStep, BasisStep, EmitStep DEF SerialInv, Inv
  <2>3. OrderInv'
    BY <2>1, OrderStep DEF SerialInv, Inv
  <2>4. WriteInv'
    BY <1>0, <2>1, WriteStep DEF SerialInv, Inv
  <2>5. KeyInv'
    BY <2>1, KeyStep DEF SerialInv, Inv
  <2>6. QueueInv' /\ KnownInv'
    BY <2>1, QueueStep, KnownStep DEF SerialInv, Inv
  <2> QED
    BY <1>0, <2>2, <2>3, <2>4, <2>5, <2>6 DEF SerialInv
<1>2. CASE UNCHANGED vars
  <2>1. UNCHANGED <<nextXid, running, lastDone, committed, nextPos, rows, txn, runs>>
    BY <1>2 DEF vars, logVars
  <2>2. FreshInv' /\ EmitInv'
    BY <2>1 DEF SerialInv, FreshInv, EmitInv, AppendOf, AppendAt
  <2>3. BasisInv'
    <3>1. CommittedRows' = CommittedRows
      BY <2>1 DEF CommittedRows
    <3>2. \A a, basis : InLog(basis, a)
                        => basis \subseteq AbstractLog!BasisIn(a, CommittedRows')
      BY <3>1 DEF InLog
    <3> QED
      BY <2>1, <3>2 DEF SerialInv, BasisInv, InLog, InAppend, AppendOf, AppendAt
  <2>4. OrderInv'
    BY <2>1 DEF SerialInv, OrderInv, At, AppendOf, AppendAt, Above
  <2>5. WriteInv'
    <3>1. ASSUME NEW s \in Sessions PROVE WroteOK(txn[s])'
      <4>1. WroteOK(txn[s])
        BY DEF SerialInv, WriteInv
      <4>2. txn'[s] = txn[s] /\ rows' = rows
        BY <2>1
      <4> HIDE DEF SerialInv
      <4> QED
        BY ONLY <4>1, <4>2 DEF WroteOK, PartOf, Written, IsEventOf, InAppend
    <3> QED
      BY <3>1 DEF WriteInv
  <2>6. KeyInv'
    BY <2>1 DEF SerialInv, KeyInv, AppendOf, AppendAt
  <2>7. QueueInv' /\ KnownInv'
    BY <2>1 DEF SerialInv, QueueInv, QueueOK, KnownInv, KnownOK, HasRead, Reading, AppendAt, Passed
  <2> QED
    BY <1>0, <2>2, <2>3, <2>4, <2>5, <2>6, <2>7 DEF SerialInv
<1> QED
  BY <1>1, <1>2 DEF StoreNext, Terminated

(* In every state the store can reach: the transactions' rows, keys, locks *)
(* and snapshots are what the protocol of append_events_if makes of them,  *)
(* the invariant the theorems below rest on.                               *)
THEOREM StoreKeepsSerialInv == StoreSpec => []SerialInv
<1> QED
  BY SerialInit, SerialStep, PTL DEF StoreSpec

(* An idempotency key is used once: the second append under a query that   *)
(* matches what the first one wrote is refused as its duplicate, or its    *)
(* transaction never commits.                                              *)
THEOREM KeysAreUsedOnce == StoreSpec => []OncePerKey
<1>1. SerialInv => OncePerKey
  <2> SUFFICES ASSUME KeyInv PROVE OncePerKey
    BY DEF SerialInv
  <2> SUFFICES ASSUME NEW r \in CommittedRows, NEW p \in CommittedRows,
                      r.data.append.idem = p.data.append.idem,
                      Matches(r.data.append.idem, r.data.event),
                      Matches(p.data.append.idem, p.data.event)
               PROVE  r.xid = p.xid /\ r.data.part = p.data.part
    BY DEF OncePerKey
  <2>1. KeyedBy(r.data.append, r) /\ KeyedBy(r.data.append, p) /\ KeyedBy(p.data.append, p)
    BY DEF KeyedBy
  <2> QED
    BY <2>1 DEF KeyInv, CommittedRows
<1> QED
  BY <1>1, StoreKeepsSerialInv, PTL

(* An event of a command sorts after every event its decision was made on: *)
(* a command's append is its transaction's first write, so its id is later *)
(* than that of anything its reads returned (ADR-0033).                    *)
THEOREM EffectsSortAfterCauses == StoreSpec => []SortsAfterItsBasis
<1>1. SerialInv => SortsAfterItsBasis
  BY DEF SerialInv, OrderInv, Above, SortsAfterItsBasis, After
<1> QED
  BY <1>1, StoreKeepsSerialInv, PTL

-----------------------------------------------------------------------------
(* Refusals.                                                               *)

LEMMA OutcomeKept ==
  ASSUME TypeOK, NEW s \in Sessions,
         \/ TakeSnapshot(s) \/ ReadEvents(s) \/ StartAppend(s) \/ TakeLock(s)
         \/ NoDuplicate(s) \/ NoConflict(s) \/ TakeXid(s) \/ InsertEvent(s)
  PROVE  txn'[s].outcome = txn[s].outcome
<1> DEFINE t == txn[s]
<1>0. t \in Txn /\ t.part + 1 \in Nat \ {0}
  BY DEF TypeOK, Txn
<1>1. CASE TakeSnapshot(s)
  <2>1. PICK q \in t.unread :
          txn'[s] = [t EXCEPT !.phase = "read", !.query = q, !.snap = CurrentSnapshot(t.xid),
                              !.known = IF t.unread = AppendOf(s).reads
                                        THEN committed ELSE @ \cap committed]
    BY <1>1, BecomeFacts DEF TakeSnapshot
  <2> QED
    BY <1>0, <2>1 DEF Txn
<1>2. CASE ReadEvents(s)
  <2> DEFINE result  == {r \in Visible(t.xid) : Matches(t.query, r.data.event)}
             settled == {r \in result : Settled(r)}
             first   == t.unread = AppendOf(s).reads
             horizon == [xid |-> t.snap.xmin, pos |-> 0]
             phase   == IF t.unread = {t.query} THEN "append" ELSE "snapshot"
             unread  == t.unread \ {t.query}
             loaded  == t.loaded \cup {<<t.query, r.pos>> : r \in {r \in result : r.xid # t.xid}}
             seen    == IF first THEN t.snap ELSE Intersect(t.seen, t.snap)
             cursor  == IF AppendOf(s).reads = {t.query} THEN LastOf(settled, ZeroCursor)
                        ELSE IF first THEN horizon ELSE Earliest(t.cursor, horizon)
  <2>1. txn'[s] = [t EXCEPT !.phase = phase, !.unread = unread, !.loaded = loaded,
                            !.seen = seen, !.cursor = cursor]
    BY <1>2, BecomeFacts DEF ReadEvents
  <2> HIDE DEF phase, unread, loaded, seen, cursor
  <2> QED
    BY <1>0, <2>1 DEF Txn
<1>3. CASE StartAppend(s)
  <2>1. PICK w : txn'[s] = [t EXCEPT !.phase = "lock", !.todo = w]
    BY <1>3, BecomeFacts DEF StartAppend
  <2> QED
    BY <1>0, <2>1 DEF Txn
<1>4. CASE TakeLock(s)
  <2>1. PICK l \in t.todo :
          txn'[s] = [t EXCEPT !.todo = @ \ {l}, !.held = @ \cup {l},
                              !.phase = IF t.todo = {l} THEN "idempotency" ELSE @]
    BY <1>4, BecomeFacts DEF TakeLock
  <2> QED
    BY <1>0, <2>1 DEF Txn
<1>5. CASE NoDuplicate(s) \/ NoConflict(s) \/ TakeXid(s)
  <2>1. \/ txn'[s] = [t EXCEPT !.phase = "conflict"]
        \/ txn'[s] = [t EXCEPT !.phase = IF t.xid = 0 THEN "xid" ELSE "insert"]
        \/ txn'[s] = [t EXCEPT !.xid = nextXid, !.phase = "insert"]
    BY <1>5, BecomeFacts DEF NoDuplicate, NoConflict, TakeXid
  <2> QED
    BY <1>0, <2>1 DEF Txn
<1>6. CASE InsertEvent(s)
  <2>1. txn'[s] = AtPart(t, t.part + 1) \/ txn'[s] = [t EXCEPT !.wrote = t.wrote + 1]
    BY <1>6, BecomeFacts DEF InsertEvent
  <2> QED
    BY <1>0, <2>1, AtPartNext DEF Txn
<1> QED
  BY <1>1, <1>2, <1>3, <1>4, <1>5, <1>6

LEMMA OnlyConflictsRefuse ==
  ASSUME TypeOK, PhaseInv, QueueInv, WriteInv, NEW s \in Sessions, SessionStep(s),
         txn[s].outcome # "conflict", txn'[s].outcome = "conflict"
  PROVE  IsConflict(s)
<1>1. \A o : EndUncommitted(s, o) => txn'[s].outcome = o
  BY BecomeFacts DEF EndUncommitted, Idle
<1>2. Commit(s) => txn'[s].outcome = "committed"
  BY BecomeFacts DEF Commit, Idle
<1>3. ~ (NotFresh(s) \/ IsDuplicate(s) \/ IsEmitted(s) \/ Rollback(s) \/ DeadlockVictim(s))
  BY <1>1 DEF NotFresh, IsDuplicate, IsEmitted, Rollback, DeadlockVictim
<1>4. ~ (Begin(s) \/ WriteElsewhere(s))
  BY BeginNext, WriteElsewhereNext
<1> QED
  BY <1>2, <1>3, <1>4, OutcomeKept DEF SessionStep, Proceed, MayWait

(* A decision is refused as a conflict only for an event it could not have *)
(* seen: one that matches its boundary and whose transaction had not       *)
(* committed when a snapshot of its reads was taken (ADR-0048).            *)
THEOREM RefusalsAreReal == StoreSpec => ConflictIsReal
<1> DEFINE Real(s) == (txn[s].outcome # "conflict" /\ txn'[s].outcome = "conflict")
                      => \E r \in CommittedRows : /\ r.xid \notin txn[s].known
                                                 /\ Matches(Boundary(AppendOf(s)), r.data.event)
<1>1. SerialInv /\ [StoreNext]_vars => [\A s \in Sessions : Real(s)]_vars
  <2> SUFFICES ASSUME SerialInv, [StoreNext]_vars, vars' # vars, NEW s \in Sessions,
                      txn[s].outcome # "conflict", txn'[s].outcome = "conflict"
               PROVE  \E r \in CommittedRows : /\ r.xid \notin txn[s].known
                                               /\ Matches(Boundary(AppendOf(s)), r.data.event)
    BY DEF vars
  <2>1. PICK d \in Sessions : SessionStep(d)
    BY DEF StoreNext, Terminated
  <2>2. d = s
    BY <2>1, OthersKept DEF SerialInv, Inv
  <2>3. IsConflict(s)
    BY <2>1, <2>2, OnlyConflictsRefuse DEF SerialInv, Inv
  <2>4. PICK r \in Visible(txn[s].xid) :
          /\ r.xid # txn[s].xid /\ ~ Sees(txn[s].seen, r.xid)
          /\ Matches(Boundary(AppendOf(s)), r.data.event)
    BY <2>3 DEF IsConflict, Conflicts
  <2>5. r \in CommittedRows
    BY <2>4 DEF Visible, CommittedRows
  <2>6. txn[s].phase = "conflict" /\ txn[s].unread = {} /\ KnownOK(txn[s])
    BY <2>3 DEF IsConflict, At, SerialInv, Inv, PhaseInv, PhaseOK, KnownInv
  <2>7. AppendAt(txn[s]).reads # {}
    BY <2>4 DEF Matches, Boundary, AppendOf
  <2>8. r.xid \notin txn[s].known
    BY <2>4, <2>6, <2>7 DEF KnownOK, HasRead, Reading, Passed, Sees
  <2> QED
    BY <2>4, <2>5, <2>8
<1> QED
  BY <1>1, StoreKeepsSerialInv, PTL DEF StoreSpec, ConflictIsReal

-----------------------------------------------------------------------------
(* Who waits for whom, among transactions at their first append.           *)

(* A lock that such a transaction waits for is beyond all it holds.        *)
LEMMA WaitsUpwards ==
  ASSUME TypeOK, QueueInv, NEW s \in Sessions, NEW d \in Sessions, txn[d].part = 1,
         At(d, "lock"), NEW l \in txn[s].todo, Blocks(d, l), NEW k \in txn[d].todo
  PROVE  l.id < k.id
<1>1. PICK h \in txn[d].held : h.id = l.id
  BY DEF Blocks, Incompatible
<1> QED
  BY <1>1 DEF QueueInv, QueueOK, At

(* Its rows are those of its one append so far, up to the one it inserts.  *)
LEMMA RowsOfFirst ==
  ASSUME TypeOK, PhaseInv, WriteInv, NEW d \in Sessions, txn[d].part = 1,
         At(d, "lock") \/ At(d, "insert"), NEW r \in rows, r.xid = txn[d].xid
  PROVE  /\ At(d, "insert")
         /\ r.data.emit.cause = AppendOf(d).cause
         /\ \E p \in rows : p.xid = txn[d].xid /\ p.data.emit = [cause |-> AppendOf(d).cause, ord |-> 1]
<1> DEFINE t == txn[d]
           a == AppendOf(d)
<1>0. /\ WroteOK(t) /\ t.part = 1 /\ t.wrote \in Nat /\ Len(t.request.appends) \in Nat
      /\ t.phase \in {"lock", "insert"}
  BY RequestsType DEF WriteInv, TypeOK, Txn, At
<1>1. InAppend(t) /\ 1 \in 1 .. Len(t.request.appends)
  BY <1>0 DEF PhaseInv, PhaseOK, InAppend
<1>2. r.data.part \in 1 .. Len(t.request.appends)
  BY <1>0 DEF WroteOK
<1>3. IsEventOf(r, t.request.appends[r.data.part], Written(t, r.data.part))
  BY <1>0, <1>2 DEF WroteOK, PartOf
<1>4. 1 \in 1 .. Written(t, r.data.part) /\ Written(t, r.data.part) \in Nat
  <2>1. Written(t, r.data.part) \in Nat
    BY <1>0, <1>2 DEF Written
  <2> QED
    BY <1>3, <2>1 DEF IsEventOf
<1>5. r.data.part = 1
  BY <1>0, <1>2, <1>4 DEF Written
<1>6. Written(t, 1) = t.wrote /\ t.request.appends[1] = a
  BY <1>0, <1>1 DEF Written, AppendOf, AppendAt
<1>7. t.wrote # 0 /\ 1 \in 1 .. Written(t, 1)
  BY <1>0, <1>4, <1>5, <1>6
<1>8. At(d, "insert")
  BY <1>0, <1>7 DEF WroteOK, At
<1>9. PICK p \in PartOf(t, 1) : p.data.emit.ord = 1
  BY <1>0, <1>1, <1>7 DEF WroteOK
<1>10. p.data.emit = [cause |-> a.cause, ord |-> p.data.emit.ord]
  <2>1. IsEventOf(p, t.request.appends[1], Written(t, 1))
    BY <1>0, <1>1, <1>9 DEF WroteOK
  <2>2. IsEventOf(p, a, Written(t, 1))
    BY <1>6, <2>1
  <2> QED
    BY <2>2 DEF IsEventOf
<1>11. r.data.emit.cause = a.cause
  BY <1>3, <1>5, <1>6 DEF IsEventOf
<1> QED
  BY <1>8, <1>9, <1>10, <1>11 DEF PartOf

(* Commands do not deadlock: they take their writer locks in one order,    *)
(* one lock of each number, and the rows of one cause are one command's,   *)
(* so a circle of waiting transactions has one at a later append.          *)
THEOREM CommandsNeverWaitInACircle == StoreSpec => []CommandsDoNotDeadlock
<1>1. ASSUME SerialInv PROVE CommandsDoNotDeadlock
  <2> SUFFICES ASSUME NEW S \in SUBSET Sessions, WaitCycle(S), \A s \in S : ~ (txn[s].part > 1)
               PROVE  FALSE
    BY DEF CommandsDoNotDeadlock
  <2>i. TypeOK /\ PhaseInv /\ OwnerInv /\ WriteInv /\ QueueInv /\ EmitInv
    BY <1>1 DEF SerialInv, Inv
  <2>0. \A s \in S : txn[s].part = 1 /\ (At(s, "lock") \/ At(s, "insert"))
    <3> SUFFICES ASSUME NEW s \in S PROVE txn[s].part = 1 /\ (At(s, "lock") \/ At(s, "insert"))
      OBVIOUS
    <3>1. txn[s].part \in Nat \ {0} /\ ~ (txn[s].part > 1)
      BY <2>i DEF TypeOK, Txn
    <3>2. \E d \in S : WaitsFor(s, d)
      BY DEF WaitCycle
    <3> QED
      BY <3>1, <3>2 DEF WaitsFor
  <2>1. ASSUME NEW s \in S, At(s, "insert"), NEW d \in S, WaitsFor(s, d)
        PROVE  /\ At(d, "insert") /\ AppendOf(d).cause = AppendOf(s).cause
               /\ AppendOf(s).cause # NoCause
               /\ \E p \in rows : /\ p.xid = txn[d].xid
                                  /\ p.data.emit = [cause |-> AppendOf(d).cause, ord |-> 1]
    <3>1. PICK r \in Holders(EmitKey(s)) : r.xid = txn[d].xid
      BY <2>1 DEF WaitsFor, At
    <3>2. r \in rows /\ r.data.emit.cause = AppendOf(s).cause /\ AppendOf(s).cause # NoCause
      BY <3>1 DEF Holders, EmitKey
    <3>3. /\ At(d, "insert") /\ r.data.emit.cause = AppendOf(d).cause
          /\ \E p \in rows : /\ p.xid = txn[d].xid
                             /\ p.data.emit = [cause |-> AppendOf(d).cause, ord |-> 1]
      BY <2>i, <2>0, <3>1, <3>2, RowsOfFirst
    <3> QED
      BY <3>2, <3>3
  <2>2. \A s \in S : ~ At(s, "insert")
    <3> SUFFICES ASSUME NEW s \in S, At(s, "insert") PROVE FALSE
      OBVIOUS
    <3>1. PICK d \in S : WaitsFor(s, d)
      BY DEF WaitCycle
    <3>2. /\ At(d, "insert") /\ AppendOf(d).cause = AppendOf(s).cause /\ AppendOf(s).cause # NoCause
          /\ \E p \in rows : /\ p.xid = txn[d].xid
                             /\ p.data.emit = [cause |-> AppendOf(d).cause, ord |-> 1]
      BY <2>1, <3>1
    <3>3. PICK e \in S : WaitsFor(d, e)
      BY DEF WaitCycle
    <3>4. /\ AppendOf(e).cause = AppendOf(d).cause
          /\ \E p \in rows : /\ p.xid = txn[e].xid
                             /\ p.data.emit = [cause |-> AppendOf(e).cause, ord |-> 1]
      BY <2>1, <3>2, <3>3
    <3>5. PICK p \in rows : p.xid = txn[d].xid /\ p.data.emit = [cause |-> AppendOf(d).cause, ord |-> 1]
      BY <3>2
    <3>6. PICK r \in rows : r.xid = txn[e].xid /\ r.data.emit = [cause |-> AppendOf(d).cause, ord |-> 1]
      BY <3>4
    <3>7. txn[d].xid = txn[e].xid
      BY <2>i, <3>2, <3>5, <3>6 DEF EmitInv
    <3>8. d # e /\ txn[d].xid # 0
      BY <2>i, <3>2, <3>3 DEF WaitsFor, At, PhaseInv, PhaseOK
    <3> QED
      BY <2>i, <3>7, <3>8 DEF OwnerInv
  <2>3. \A s \in S : At(s, "lock")
    BY <2>0, <2>2
  <2> DEFINE N == {n \in Nat : \E s \in S : \E l \in txn[s].todo : l.id = n /\ NextLock(s, l)}
  <2>4. ASSUME NEW s \in S, NEW d \in S, WaitsFor(s, d)
        PROVE  \E l \in txn[s].todo : NextLock(s, l) /\ Blocks(d, l) /\ l.id \in N
    <3>1. PICK l \in txn[s].todo : NextLock(s, l) /\ Blocks(d, l)
      BY <2>3, <2>4 DEF WaitsFor, At
    <3>2. l.id \in Nat
      BY <2>i DEF TypeOK, Txn, Lock
    <3> QED
      BY <3>1, <3>2
  <2>5. N # {}
    <3>1. PICK s \in S : \E d \in S : WaitsFor(s, d)
      BY DEF WaitCycle
    <3> QED
      BY <2>4, <3>1
  <2>6. Least(N) \in N /\ \A n \in N : Least(N) <= n
    BY <2>5, LeastOfNat
  <2>7. PICK s \in S : \E l \in txn[s].todo : l.id = Least(N) /\ NextLock(s, l)
    BY <2>6
  <2>8. PICK l \in txn[s].todo : l.id = Least(N)
    BY <2>7
  <2>9. PICK e \in S : WaitsFor(e, s)
    BY DEF WaitCycle
  <2>10. PICK k \in txn[e].todo : Blocks(s, k) /\ k.id \in N
    BY <2>4, <2>9
  <2>11. k.id < l.id
    BY <2>i, <2>0, <2>3, <2>10, WaitsUpwards
  <2>12. l.id \in Nat /\ k.id \in Nat
    BY <2>6, <2>8, <2>10
  <2> HIDE DEF N
  <2> QED
    BY <2>6, <2>8, <2>10, <2>11, <2>12
<1> QED
  BY <1>1, StoreKeepsSerialInv, PTL

-----------------------------------------------------------------------------
(* The log as a serial run of conditional appends.                         *)

(* A set with one row for each ordinal of 1 .. n has n rows.               *)
LEMMA OneRowEach ==
  ASSUME NEW S, NEW n \in Nat,
         \A r \in S : r.data.emit.ord \in 1 .. n,
         \A i \in 1 .. n : \E r \in S : r.data.emit.ord = i,
         \A r, p \in S : r.data.emit.ord = p.data.emit.ord => r = p
  PROVE  AbstractLog!Cardinality(S) = n
<1> DEFINE f == [i \in 1 .. n |-> CHOOSE r \in S : r.data.emit.ord = i]
<1>1. \A i \in 1 .. n : f[i] \in S /\ f[i].data.emit.ord = i
  OBVIOUS
<1>2. f \in [1 .. n -> S]
  BY <1>1
<1> HIDE DEF f
<1>3. \A r \in S : \E i \in 1 .. n : f[i] = r
  BY <1>1
<1>4. \A i, j \in 1 .. n : f[i] = f[j] => i = j
  BY <1>1
<1>5. f \in Bijection(1 .. n, S)
  BY <1>2, <1>3, <1>4 DEF Bijection, Injection, Surjection, IsInjective
<1>6. Cardinality(S) = n
  BY <1>5, FS_CountingElements DEF ExistsBijection
<1> QED
  BY <1>6 DEF AbstractLog!Cardinality, Cardinality

(* What a transaction about to commit has written for its k-th append is   *)
(* that append, made to the committed log after its earlier appends.       *)
LEMMA PartIsAppended ==
  ASSUME SerialInv, NEW s \in Sessions, At(s, "commit"), txn[s].xid # 0,
         NEW k \in 1 .. Len(txn[s].request.appends)
  PROVE  AbstractLog!Appended(txn[s].request.appends[k], PartOf(txn[s], k), CommittedRows,
           CommittedRows \cup (UNION {PartOf(txn[s], j) : j \in 1 .. (k - 1)}))
<1> DEFINE t == txn[s]
           a == t.request.appends[k]
           new == PartOf(t, k)
           prior == CommittedRows \cup (UNION {PartOf(t, j) : j \in 1 .. (k - 1)})
<1>0. /\ WroteOK(t) /\ t.phase = "commit" /\ t.part \in Nat \ {0}
      /\ t.request \in Requests /\ Len(t.request.appends) \in Nat
  BY RequestsType DEF SerialInv, WriteInv, Inv, TypeOK, Txn, At
<1>1. IsAppend(a) /\ a.events # <<>> /\ Len(a.events) \in Nat /\ Len(a.events) # 0 /\ k \in Nat
  <2>1. IsAppend(a)
    BY <1>0, RequestsType
  <2> QED
    BY <1>0, <2>1 DEF IsAppend
<1>2. Written(t, k) = Len(a.events)
  BY <1>0 DEF WroteOK, Written
<1>3. /\ \A r \in new : IsEventOf(r, a, Len(a.events))
      /\ \A i \in 1 .. Len(a.events) : \E r \in new : r.data.emit.ord = i
      /\ \A r, p \in new : r.data.emit.ord = p.data.emit.ord => r = p
  <2>1. /\ \A r \in new : IsEventOf(r, a, Written(t, k))
        /\ \A i \in 1 .. Written(t, k) : \E r \in new : r.data.emit.ord = i
        /\ \A r, p \in new : r.data.emit.ord = p.data.emit.ord => r = p
    BY <1>0 DEF WroteOK
  <2> QED
    BY <1>2, <2>1
<1>4. \A r \in new : r \in rows /\ r.xid = t.xid /\ r.xid \notin committed /\ r.data.part = k
  BY DEF PartOf, SerialInv, Inv, OwnerInv, LogInv
<1>5. ASSUME NEW p \in prior
      PROVE  p \in rows /\ (p.xid = t.xid => p.data.part \in 1 .. (k - 1))
  <2>1. CASE p \in CommittedRows
    BY <2>1 DEF CommittedRows, SerialInv, Inv, OwnerInv, LogInv
  <2>2. CASE \E j \in 1 .. (k - 1) : p \in PartOf(t, j)
    BY <2>2 DEF PartOf
  <2> QED
    BY <2>1, <2>2
<1> DEFINE m == Len(a.events)
<1>f. \A r \in new : /\ r.data.append = a /\ r.data.emit.ord \in 1 .. m
                     /\ r.data.emit = [cause |-> a.cause, ord |-> r.data.emit.ord]
                     /\ r.data.event = a.events[r.data.emit.ord]
  BY <1>3 DEF IsEventOf
<1>m. /\ \A i \in 1 .. m : \E r \in new : r.data.emit.ord = i
      /\ m \in Nat /\ 1 \in 1 .. m
      /\ \A r, p \in new : r.data.emit.ord = p.data.emit.ord => r = p
  BY <1>1, <1>3
<1> HIDE DEF new
<1>6. AbstractLog!Cardinality(new) = m
  <2> HIDE DEF m, a
  <2> QED
    BY <1>f, <1>m, OneRowEach
<1>7. \A i \in 1 .. Len(a.events) : \E r \in new :
        r.data.event = a.events[i] /\ r.data.emit = [cause |-> a.cause, ord |-> i]
  <2> SUFFICES ASSUME NEW i \in 1 .. m
               PROVE  \E r \in new : /\ r.data.event = a.events[i]
                                     /\ r.data.emit = [cause |-> a.cause, ord |-> i]
    OBVIOUS
  <2>1. PICK r \in new : r.data.emit.ord = i
    BY <1>m
  <2> HIDE DEF m, a
  <2> QED
    BY <1>f, <2>1
<1>8. ~ \E r \in prior : Matches(a.idem, r.data.event)
  <2> SUFFICES ASSUME NEW p \in prior, Matches(a.idem, p.data.event) PROVE FALSE
    OBVIOUS
  <2>1. PICK r \in new : r.data.append = a
    BY <1>f, <1>m
  <2>2. KeyedBy(r.data.append, p)
    BY <2>1 DEF KeyedBy
  <2>3. p.xid = r.xid /\ p.data.part >= r.data.part
    BY <1>4, <1>5, <2>1, <2>2 DEF SerialInv, KeyInv
  <2> QED
    BY <1>1, <1>4, <1>5, <2>3
<1>9. a.cause # NoCause => ~ \E r \in new, p \in prior : r.data.emit = p.data.emit
  <2> SUFFICES ASSUME a.cause # NoCause, NEW r \in new, NEW p \in prior, r.data.emit = p.data.emit
               PROVE  FALSE
    OBVIOUS
  <2>1. r.data.emit.cause = a.cause
    <3>1. r.data.emit = [cause |-> a.cause, ord |-> r.data.emit.ord]
      BY <1>f
    <3> HIDE DEF a
    <3> QED
      BY ONLY <3>1
  <2>2. r = p
    BY <1>4, <1>5, <2>1 DEF SerialInv, EmitInv
  <2> QED
    BY <1>1, <1>4, <1>5, <2>2
<1>10. ASSUME NEW r \in new PROVE r.data.basis = AbstractLog!BasisIn(a, CommittedRows)
  <2>1. r.data.append = a /\ r \in rows /\ r.xid \notin committed
    BY <1>4, <1>f
  <2>2. r.data.basis \subseteq AbstractLog!BasisIn(a, CommittedRows)
    BY <2>1 DEF SerialInv, BasisInv, InLog
  <2>3. Covers(r.data.basis, a)
    BY <2>1 DEF SerialInv, Inv, BoundaryHeld
  <2>4. AbstractLog!BasisIn(a, CommittedRows) \subseteq r.data.basis
    BY <2>3, InBasis DEF Covers
  <2> QED
    BY <2>2, <2>4
<1>11. a.firstWrite => \A r \in new, p \in CommittedRows :
         (\E q \in a.reads : <<q, p.pos>> \in r.data.basis) => After(r, p)
  <2> SUFFICES ASSUME a.firstWrite, NEW r \in new, NEW p \in CommittedRows,
                      \E q \in a.reads : <<q, p.pos>> \in r.data.basis
               PROVE  After(r, p)
    OBVIOUS
  <2>1. r.data.append = a /\ r \in rows /\ p \in rows
    BY <1>4, <1>f DEF CommittedRows
  <2>2. p.xid < r.xid
    BY <2>1 DEF SerialInv, OrderInv, Above
  <2> QED
    BY <2>2 DEF After
<1>12. \A q, v : AbstractLog!Matches(q, v) <=> Matches(q, v)
  BY DEF AbstractLog!Matches, AbstractLog!ItemMatches, Matches, ItemMatches
<1>13. \A r, p : AbstractLog!After(r, p) <=> After(r, p)
  BY DEF AbstractLog!After, After
<1> HIDE DEF a, prior
<1>14. AbstractLog!Appended(a, new, CommittedRows, prior)
  BY <1>6, <1>7, <1>8, <1>9, <1>10, <1>11, <1>12, <1>13 DEF AbstractLog!Appended
<1> QED
  BY <1>14 DEF a, new, prior, t

(* A commit of a transaction that wrote appends it, whole, to the log.     *)
LEMMA CommitAppends ==
  ASSUME SerialInv, NEW s \in Sessions, Commit(s), txn[s].xid # 0,
         CommittedRows' # CommittedRows
  PROVE  AbstractLog!Next
<1> DEFINE t   == txn[s]
           q   == t.request
           new == CommittedRows' \ CommittedRows
<1>1. q \in Requests /\ WroteOK(t) /\ At(s, "commit")
  BY DEF Commit, SerialInv, WriteInv, Inv, TypeOK, Txn
<1>2. t.xid \notin committed /\ rows' = rows /\ committed' = committed \cup {t.xid}
  BY DEF Commit, CommitXid, SerialInv, Inv, OwnerInv, LogInv
<1>3. CommittedRows \subseteq CommittedRows' /\ new = {r \in rows : r.xid = t.xid}
  BY <1>2 DEF CommittedRows
<1>4. \A k : {r \in new : r.data.part = k} = PartOf(t, k)
  BY <1>3 DEF PartOf
<1>5. new # {}
  BY <1>3
<1>6. \A r \in new : r.data.part \in 1 .. Len(q.appends)
  BY <1>1, <1>3 DEF WroteOK
<1>7. \A k \in 1 .. Len(q.appends) :
        AbstractLog!Appended(q.appends[k], PartOf(t, k), CommittedRows,
          CommittedRows \cup (UNION {PartOf(t, j) : j \in 1 .. (k - 1)}))
  BY <1>1, PartIsAppended
<1> HIDE DEF new
<1>8. \A k : UNION {{r \in new : r.data.part = j} : j \in 1 .. (k - 1)}
             = UNION {PartOf(t, j) : j \in 1 .. (k - 1)}
  BY <1>4
<1>9. \A k \in 1 .. Len(q.appends) :
        AbstractLog!Appended(q.appends[k], {r \in new : r.data.part = k}, CommittedRows,
          CommittedRows \cup (UNION {{r \in new : r.data.part = j} : j \in 1 .. (k - 1)}))
  BY <1>4, <1>7, <1>8
<1>10. AbstractLog!Transact(q)
  BY <1>3, <1>5, <1>6, <1>9 DEF AbstractLog!Transact, new
<1> QED
  BY <1>1, <1>10 DEF AbstractLog!Next

(* The append protocol implements DcbLog: at READ COMMITTED, with reads,   *)
(* locks, checks and rows in statements of their own, the transactions     *)
(* that commit are a serial run of whole conditional appends, each decided *)
(* on exactly the events its queries match in the log it joins.            *)
THEOREM StoreIsSerial == StoreSpec => SerialAppends
<1>1. StoreInit => AbstractLog!Init
  BY DEF StoreInit, LogInit, AbstractLog!Init, CommittedRows
<1>2. ASSUME SerialInv, [StoreNext]_vars
      PROVE  AbstractLog!Next \/ CommittedRows' = CommittedRows
  <2>1. CASE \E s \in Sessions : SessionStep(s)
    <3>1. PICK s \in Sessions : SessionStep(s)
      BY <2>1
    <3>2. CASE Commit(s) /\ txn[s].xid # 0
      BY <1>2, <3>2, CommitAppends
    <3>3. CASE Commit(s) /\ txn[s].xid = 0
      BY <3>3 DEF Commit, logVars, CommittedRows
    <3>4. CASE ~ Commit(s)
      <4>1. CommittedRows \subseteq CommittedRows'
        BY <1>2, <3>1, CommittedGrows DEF SerialInv, Inv
      <4>2. \A r \in CommittedRows' : r \in CommittedRows
        BY <1>2, <3>1, <3>4, CommittedEffect DEF SerialInv, Inv
      <4> QED
        BY <4>1, <4>2
    <3> QED
      BY <3>2, <3>3, <3>4
  <2>2. CASE UNCHANGED vars
    BY <2>2 DEF vars, logVars, CommittedRows
  <2> QED
    BY <1>2, <2>1, <2>2 DEF StoreNext, Terminated
<1>3. SerialInv /\ [StoreNext]_vars => [AbstractLog!Next]_CommittedRows
  BY <1>2
<1> QED
  BY <1>1, <1>3, StoreKeepsSerialInv, PTL DEF StoreSpec, SerialAppends, AbstractLog!Spec
=============================================================================
