---------------------------- MODULE CommandProofs ----------------------------
(***************************************************************************)
(* Commands are applied once, decided on the log and answered truthfully,  *)
(* for every number of calls, every mix of requests, every log, every      *)
(* period and every number of retries and faults, whatever the commands    *)
(* are, as long as they are what their declarations say.                   *)
(***************************************************************************)
EXTENDS Command, FiniteSetTheorems, WellFoundedInduction, TLAPS

-----------------------------------------------------------------------------
(* What the declarations say: the hypotheses of the theorems.              *)

(* A decision is one of decide's answers and its events are events; only   *)
(* the turn of a period opens and closes one.                              *)
IsDecision(d) ==
  /\ d.tag \in {"emit", "noop", "fail"} /\ d.events \in SUBSET Event
  /\ \A e \in d.events : e.type \notin {OpenedType, ClosedType}

(* The event that opens or closes a period carries the tag of its entity   *)
(* and its period, and of no other.                                        *)
OfPeriod(e, id, p) == /\ \A i \in Entities : i \in e.tags <=> i = id
                      /\ \A o \in Periods : TagOfPeriod(o) \in e.tags <=> o = p

IsTurn(id, p, rows) ==
  /\ Opening(id, p, rows) \in Event /\ Closing(id, p, rows) \in Event
  /\ Opening(id, p, rows).type = OpenedType /\ OfPeriod(Opening(id, p, rows), id, p)
  /\ Closing(id, p, rows).type = ClosedType /\ OfPeriod(Closing(id, p, rows), id, p)

(* The model of a period handles both events as the period's (`on`, not    *)
(* `lifecycle`).                                                           *)
WellDefined ==
  /\ LifecycleTypes \cap {OpenedType, ClosedType} = {}
  /\ \A q \in Requests :
       /\ LookupOf(q) \in SUBSET Item
       /\ \A looked : ModelOf(q, looked) \in SUBSET Item
       /\ q.timed => \A looked : EntityOf(q, looked) \in Entities
       /\ \A looked, rows : IsDecision(Decide(q, looked, rows))
  /\ \A id \in Entities, p \in Periods : \A rows : IsTurn(id, p, rows)

(* What a command that reads once found to be so is so for the rows that   *)
(* it selects of before the newest of those it found, too, when they come  *)
(* late: their transactions began before that one's, and ended after.      *)
NoopStays(q, rows, late) ==
  LET Nothing(d) == d.tag = "noop" \/ (d.tag = "emit" /\ d.events = {})
  IN  /\ ReadsOnce(q) /\ Nothing(Decide(q, {}, rows))
      /\ \A r \in late : \E s \in rows : r.xid <= s.xid
      => Nothing(Decide(q, {}, rows \cup late))

NoopsStay == \A q \in Requests : \A rows, late : NoopStays(q, rows, late)

(* "Safe to run in parallel with itself": what else the model's query      *)
(* selects changes nothing for a concurrent() command, if its guard does   *)
(* not select it and it turns no period.                                   *)
RunsBeside(q, p, looked, rows, more) ==
  LET query == IF q.timed THEN PeriodQuery(EntityOf(q, looked), p) ELSE ModelOf(q, looked)
  IN  /\ q.consistency = "concurrent"
      /\ \A r \in rows \cup more : Matches(query, r.event)
      /\ \A r \in more : ~ Matches(q.guard, r.event) /\ (q.timed => r.event.type \notin {OpenedType, ClosedType})
      => Decide(q, looked, rows \cup more) = Decide(q, looked, rows)

ConcurrentByDeclaration ==
  \A q \in Requests, p \in Periods : \A looked, rows, more : RunsBeside(q, p, looked, rows, more)

(* A command's key selects an event that it appends ("the effect happens   *)
(* once per key").                                                         *)
KeyIsKept(q, looked, rows) ==
  LET d == Decide(q, looked, rows)
  IN  q.idempotentBy # {} /\ d.tag = "emit" /\ d.events # {} => \E e \in d.events : Matches(q.idempotentBy, e)

KeysAreKept == \A q \in Requests : \A looked, rows : KeyIsKept(q, looked, rows)

(* What a load that makes its reads at once returns. *)
LoadAtOnce(q, now, rows) ==
  Load(q, now, Of(LookupOf(q), rows), ReadsAtOnce(q, now, Of(LookupOf(q), rows), rows))

(* With the command's own events, decide answers the same request with a   *)
(* noop, on that log.                                                      *)
KeepsAtOnce(q, now, rows) ==
  LET looked == Of(LookupOf(q), rows)
      m      == LoadAtOnce(q, now, rows)
      own    == OwnEvents(Decide(q, looked, m.rows), m)
  IN  Decide(q, looked, m.rows \cup {[event |-> e] : e \in {e \in own : Matches(m.boundary, e)}}).tag = "noop"

(* "The model already shows whether it happened": what shows that a        *)
(* byModel() request was done is there for good, whatever is appended      *)
(* later ("an effect that can only happen once").                          *)
PromiseIsKept(q, now, later, before, after) ==
  /\ q.byModel /\ AtOnce(q, now, before).tag = "emit" /\ KeepsAtOnce(q, now, before)
  /\ before \subseteq after /\ \A e \in AtOnce(q, now, before).events : \E r \in after : r.event = e
  => AtOnce(q, later, after).tag # "emit"

ByModelIsKept ==
  \A q \in Requests, now, later \in Periods : \A before, after : PromiseIsKept(q, now, later, before, after)

-----------------------------------------------------------------------------
(* Numbers. *)

(* Every non-empty set of naturals has a least element. *)
LEMMA LeastExists ==
  ASSUME NEW S \in SUBSET Nat, S # {}
  PROVE  \E m \in S : \A n \in S : m <= n
<1> DEFINE less == {ss \in Nat \X Nat : ss[1] < ss[2]}
<1>1. IsWellFoundedOn(less, Nat)
  <2>1. OpToRel(<, Nat) = less
    BY Zenon DEF OpToRel
  <2> QED
    BY <2>1, NatLessThanWellFounded, Zenon
<1>2. PICK m \in S : \A n \in S : ~ (<<n, m>> \in less)
  BY <1>1, WFMin, Zenon
<1>3. ASSUME NEW n \in S PROVE m <= n
  <2>1. n < m => <<n, m>> \in less
    OBVIOUS
  <2> QED
    BY <1>2, <2>1
<1> QED
  BY <1>3

(* One whose elements are bounded has a greatest. *)
LEMMA GreatestExists ==
  ASSUME NEW S \in SUBSET Nat, S # {}, NEW b \in Nat, \A n \in S : n <= b
  PROVE  \E m \in S : \A n \in S : n <= m
<1> DEFINE D == {b - n : n \in S}
<1>1. D \in SUBSET Nat /\ D # {}
  <2>1. \A n \in S : b - n \in Nat
    OBVIOUS
  <2>2. D \subseteq Nat
    BY <2>1
  <2> QED
    BY <2>2
<1>2. PICK d \in D : \A e \in D : d <= e
  BY <1>1, LeastExists
<1>3. PICK m \in S : d = b - m
  OBVIOUS
<1>4. \A n \in S : b - m <= b - n
  BY <1>2, <1>3
<1> QED
  BY <1>4

(* The newest of some rows: nothing among them is newer. *)
LEMMA LatestOfRows ==
  ASSUME NEW rows, NEW b \in Nat, \A r \in rows : r.xid \in Nat /\ r.xid <= b
  PROVE  /\ LatestOf(rows) \in Nat /\ LatestOf(rows) <= b
         /\ \A r \in rows : r.xid <= LatestOf(rows)
<1>1. CASE rows = {}
  BY <1>1 DEF LatestOf, NoMarker
<1>2. CASE rows # {}
  <2>1. XidsOf(rows) \in SUBSET Nat /\ XidsOf(rows) # {} /\ \A x \in XidsOf(rows) : x <= b
    BY <1>2 DEF XidsOf
  <2>2. \E x \in XidsOf(rows) : \A y \in XidsOf(rows) : y <= x
    BY <2>1, GreatestExists
  <2>3. LatestOf(rows) \in XidsOf(rows) /\ \A y \in XidsOf(rows) : y <= LatestOf(rows)
    BY <1>2, <2>2 DEF LatestOf
  <2> QED
    BY <2>1, <2>3 DEF XidsOf
<1> QED
  BY <1>1, <1>2

LEMMA UpToThree ==
  ASSUME NEW n \in Nat, n <= 3
  PROVE  n \in {0, 1, 2, 3}
OBVIOUS

LEMMA UpToOne ==
  ASSUME NEW n \in Nat, n <= 1, NEW i \in 1 .. n
  PROVE  i = 1 /\ n = 1
OBVIOUS

LEMMA OneOfThree ==
  ASSUME NEW n \in Nat, n <= 3, NEW i \in 1 .. n
  PROVE  \/ i = 1 /\ n >= 1
         \/ i = 2 /\ n >= 2
         \/ i = 3 /\ n = 3
OBVIOUS

LEMMA PeriodsCount == \A p \in Periods : p \in Nat /\ 0 < p
BY PeriodTags

LEMMA BelowStays ==
  ASSUME NEW a \in Nat, NEW b \in Nat, a <= b
  PROVE  0 .. a - 1 \subseteq 0 .. b - 1
OBVIOUS

-----------------------------------------------------------------------------
(* Locks. *)

LEMMA WantedIsLocked ==
  ASSUME NEW events, NEW items, NEW w \in Wanted(events, items)
  PROVE  \E h \in WriterLocks(events, items) :
           h.id = LockHash[w[1]] /\ (w[2] = "exclusive" => h.excl)
<1> DEFINE wanted == Wanted(events, items)
           h == [id   |-> LockHash[w[1]],
                 excl |-> \E v \in wanted : LockHash[v[1]] = LockHash[w[1]] /\ v[2] = "exclusive"]
<1>1. h \in WriterLocks(events, items)
  BY DEF WriterLocks
<1>2. h.id = LockHash[w[1]] /\ (w[2] = "exclusive" => h.excl)
  OBVIOUS
<1> QED
  BY <1>1, <1>2

(* The writer of an event and the checker of an item that selects it want  *)
(* one key in common, the checker exclusively.                             *)
LEMMA WantsMeet ==
  ASSUME NEW e, NEW i, ItemMatches(i, e)
  PROVE  \E v \in EventWants(e), w \in ItemWants(i) : v[1] = w[1] /\ w[2] = "exclusive"
<1>1. CASE i.types = {}
  <2>1. <<GlobalKey, "exclusive">> \in ItemWants(i)
    BY <1>1 DEF ItemWants
  <2>2. <<GlobalKey, "shared">> \in EventWants(e)
    BY DEF EventWants
  <2> QED
    BY <2>1, <2>2
<1>2. CASE i.types # {} /\ i.tags = {}
  <2>1. ItemWants(i) = {<<TypeKey(t), "exclusive">> : t \in i.types}
    BY <1>2 DEF ItemWants
  <2>2. <<TypeKey(e.type), "exclusive">> \in ItemWants(i)
    BY <1>2, <2>1 DEF ItemMatches
  <2>3. <<TypeKey(e.type), "shared">> \in EventWants(e)
    BY DEF EventWants
  <2> QED
    BY <2>2, <2>3
<1>3. CASE i.types # {} /\ i.tags # {}
  <2>1. ItemWants(i) = {<<LeafKey(t, g), "exclusive">> : t \in i.types, g \in i.tags}
    BY <1>3 DEF ItemWants
  <2>2. PICK g \in i.tags : g \in e.tags
    BY <1>3 DEF ItemMatches
  <2>3. e.type \in i.types
    BY <1>3 DEF ItemMatches
  <2>4. <<LeafKey(e.type, g), "exclusive">> \in ItemWants(i)
    BY <2>1, <2>2, <2>3
  <2>5. <<LeafKey(e.type, g), "exclusive">> \in EventWants(e)
    BY <2>2 DEF EventWants
  <2> QED
    BY <2>4, <2>5
<1> QED
  BY <1>1, <1>2, <1>3

(* So two appends, of which one has an event that the other checks for, do *)
(* not hold their locks at the same time.                                  *)
LEMMA LocksExclude ==
  ASSUME NEW events1, NEW items1, NEW events2, NEW items2,
         NEW e \in events1, Matches(items2, e)
  PROVE  \E h \in WriterLocks(events1, items1), g \in WriterLocks(events2, items2) : Incompatible(h, g)
<1>1. PICK i \in items2 : ItemMatches(i, e)
  BY DEF Matches
<1>2. PICK v \in EventWants(e), w \in ItemWants(i) : v[1] = w[1] /\ w[2] = "exclusive"
  BY <1>1, WantsMeet
<1>3. PICK h \in WriterLocks(events1, items1) : h.id = LockHash[v[1]]
  <2>1. v \in Wanted(events1, items1)
    BY DEF Wanted
  <2> QED
    BY <2>1, WantedIsLocked
<1>4. PICK g \in WriterLocks(events2, items2) : g.id = LockHash[w[1]] /\ g.excl
  <2>1. w \in Wanted(events2, items2)
    BY <1>1 DEF Wanted
  <2> QED
    BY <1>2, <2>1, WantedIsLocked
<1> QED
  BY <1>2, <1>3, <1>4 DEF Incompatible

(* An append of events holds locks. *)
LEMMA EventsAreLocked ==
  ASSUME NEW events, NEW items, events # {}
  PROVE  WriterLocks(events, items) # {}
<1>1. PICK e \in events : TRUE
  OBVIOUS
<1>2. <<GlobalKey, "shared">> \in Wanted(events, items)
  BY DEF Wanted, EventWants
<1> QED
  BY <1>2, WantedIsLocked

-----------------------------------------------------------------------------
(* The invariant: what there is, and what a call has read and decided. *)

Reading == [query : SUBSET Item, rows : SUBSET log, upTo : 0 .. commits]

SomeLocks == {WriterLocks(es, is) : es \in SUBSET Event, is \in SUBSET Item}

Appending == [events : SUBSET Event, condition : SUBSET Item, seen : 0 .. commits, locks : SomeLocks]

CallType == [phase : Phases, request : Requests, tries : 0 .. Retries, now : 0 .. LastPeriod,
             lookup : SUBSET Reading, reads : Seq(Reading), append : Appending,
             xid : 0 .. nextXid - 1, answer : Answers, marker : 0 .. nextXid - 1]

IsWritten(r) ==
  /\ r.event \in Event /\ r.xid \in 2 .. nextXid - 1 /\ r.at \in 1 .. commits
  /\ r.request \in Requests /\ r.by \in Calls /\ r.now \in 1 .. LastPeriod
  /\ r.cause = r.request.cause /\ r.fingerprint = FingerprintOf(r.request)

IsTagged(e) == e.type \in {OpenedType, ClosedType} => \E id \in Entities, p \in Periods : OfPeriod(e, id, p)

TypeInv ==
  /\ InitialRows \subseteq log
  /\ \A r \in log : (r \in InitialRows \/ IsWritten(r)) /\ IsTagged(r.event)
  /\ commits \in Nat /\ nextXid \in Nat \ {0, 1} /\ clock \in 1 .. LastPeriod /\ faults \in 0 .. MaxFaults
  /\ call \in [Calls -> CallType]

(* A read returned the rows its query selects in as much of the log as it  *)
(* saw.                                                                    *)
IsReading(x, query) == x.query = query /\ x.rows = Of(query, ReadUpTo(x.upTo))

LookupIsMade(q, lookup) ==
  IF LookupOf(q) = {} THEN lookup = {}
  ELSE \E x \in Reading : lookup = {x} /\ IsReading(x, LookupOf(q))

(* The reads a load has made are those it makes. *)
PeriodIsRead(id, now, reads) ==
  /\ Len(reads) <= 3
  /\ Len(reads) >= 1 => IsReading(reads[1], PeriodQuery(id, now))
  /\ Len(reads) >= 2 => ~ ReadsAsOpen(reads[1], now) /\ IsReading(reads[2], TrackingQuery(id))
  /\ Len(reads) = 3 => Tracked(reads[2]) # 0 /\ IsReading(reads[3], PeriodQuery(id, Tracked(reads[2])))

LoadIsMade(q, now, looked, reads) ==
  IF q.timed THEN PeriodIsRead(EntityOf(q, looked), now, reads)
  ELSE /\ Len(reads) <= 1
       /\ Len(reads) = 1 => IsReading(reads[1], ModelOf(q, looked))

ReadsAreMade(d) ==
  /\ LookupIsMade(d.request, d.lookup)
  /\ LoadIsMade(d.request, d.now, LookedUp(d.lookup), d.reads)

(* What is read next, what is loaded and what is decided on it. *)
ToRead(d)   == NextQuery(d.request, d.now, LookedUp(d.lookup), d.reads)
Loaded(d)   == Load(d.request, d.now, LookedUp(d.lookup), d.reads)
Decision(d) == Decide(d.request, LookedUp(d.lookup), Loaded(d).rows)
Own(d)      == OwnEvents(Decision(d), Loaded(d))
Emits(d)    == Loaded(d).prefix \cup Own(d)

IsEmitting(d) == ~ Loaded(d).dies /\ Decision(d).tag = "emit" /\ Decision(d).events # {}

(* The append is what was decided on the reads, under the condition that   *)
(* says so, from what each of them saw.                                    *)
IsDecided(d) ==
  /\ ToRead(d) = {} /\ IsEmitting(d)
  /\ KeepsByModel(d.request, d.lookup, Loaded(d), Own(d))
  /\ d.append.events = Emits(d)
  /\ d.append.condition = Condition(d.request, d.lookup, Loaded(d), Emits(d))
  /\ d.append.locks = WriterLocks(Emits(d), d.append.condition \cup d.request.idempotentBy)
  /\ \A x \in d.lookup : d.append.seen <= x.upTo
  /\ \A i \in Loaded(d).uses : d.append.seen <= d.reads[i].upTo

PhaseOK(d) ==
  /\ (d.answer = "none") <=> (d.phase # "answered")
  /\ d.now <= clock
  /\ d.phase \in {"resolve", "load", "append", "record", "commit"} => d.now # 0
  /\ d.phase \in {"precheck", "resolve"} => d.lookup = {} /\ d.reads = <<>>
  /\ d.phase \in {"load", "append", "record", "commit"} => ReadsAreMade(d)
  /\ d.phase = "resolve" => LookupOf(d.request) # {}
  /\ d.phase = "load" => ToRead(d) # {}
  /\ d.phase \in {"append", "record", "commit"} => IsDecided(d)
  /\ d.phase \in {"record", "commit"} => d.xid >= 2
  /\ Len(d.reads) <= 3

PhaseInv == \A c \in Calls : PhaseOK(call[c])

-----------------------------------------------------------------------------
(* The log grows, and what was read stays read. *)

Grows ==
  /\ commits' \in Nat /\ commits <= commits'
  /\ nextXid' \in Nat /\ nextXid <= nextXid'
  /\ clock' \in 1 .. LastPeriod /\ clock <= clock'
  /\ log \subseteq log' /\ \A r \in log' : r \in log \/ (r.at \in Nat /\ commits < r.at)

LEMMA TypesGrow ==
  ASSUME TypeInv, Grows
  PROVE  /\ Reading \subseteq Reading'
         /\ Appending \subseteq Appending'
         /\ CallType \subseteq CallType'
         /\ \A r : IsWritten(r) => IsWritten(r)'
<1>1. /\ 0 .. commits \subseteq 0 .. commits'
      /\ 0 .. nextXid - 1 \subseteq 0 .. nextXid' - 1
      /\ SUBSET log \subseteq SUBSET log'
  <2>1. 0 .. commits \subseteq 0 .. commits'
    BY DEF TypeInv, Grows
  <2>2. 0 .. nextXid - 1 \subseteq 0 .. nextXid' - 1
    <3>1. nextXid \in Nat /\ nextXid' \in Nat /\ nextXid <= nextXid'
      BY DEF TypeInv, Grows
    <3> QED
      BY <3>1, BelowStays
  <2>3. SUBSET log \subseteq SUBSET log'
    BY DEF Grows
  <2> QED
    BY <2>1, <2>2, <2>3
<1>2. Reading \subseteq Reading'
  <2> SUFFICES ASSUME NEW x \in Reading PROVE x \in Reading'
    OBVIOUS
  <2> QED
    BY <1>1 DEF Reading
<1>3. Appending \subseteq Appending'
  <2> SUFFICES ASSUME NEW x \in Appending PROVE x \in Appending'
    OBVIOUS
  <2> QED
    BY <1>1 DEF Appending
<1>4. CallType \subseteq CallType'
  <2> SUFFICES ASSUME NEW d \in CallType PROVE d \in CallType'
    OBVIOUS
  <2>1. SUBSET Reading \subseteq SUBSET Reading'
    BY <1>2
  <2>2. Seq(Reading) \subseteq Seq(Reading')
    BY <1>2
  <2> QED
    BY <1>1, <1>3, <2>1, <2>2 DEF CallType
<1>5. ASSUME NEW r, IsWritten(r) PROVE IsWritten(r)'
  BY <1>5 DEF IsWritten, TypeInv, Grows
<1> QED
  BY <1>2, <1>3, <1>4, <1>5

LEMMA SeenStays ==
  ASSUME TypeInv, Grows, NEW n \in 0 .. commits
  PROVE  ReadUpTo(n)' = ReadUpTo(n)
<1>1. \A r \in log : r.at \in Nat
  BY InitialRowsType DEF TypeInv, IsWritten
<1>2. \A r \in log' : r.at <= n => r \in log
  BY DEF TypeInv, Grows
<1> QED
  BY <1>2 DEF ReadUpTo, Grows

LEMMA ReadingStays ==
  ASSUME TypeInv, Grows, NEW x \in Reading, NEW query, IsReading(x, query)
  PROVE  IsReading(x, query)'
<1>1. ReadUpTo(x.upTo)' = ReadUpTo(x.upTo)
  BY SeenStays DEF Reading
<1> QED
  BY <1>1 DEF IsReading, Of

LEMMA ReadsStay ==
  ASSUME TypeInv, Grows, NEW d \in CallType, ReadsAreMade(d)
  PROVE  ReadsAreMade(d)'
<1>1. d.reads \in Seq(Reading) /\ d.lookup \in SUBSET Reading
  BY DEF CallType
<1>2. \A i \in 1 .. Len(d.reads) : d.reads[i] \in Reading
  BY <1>1
<1>3. LookupIsMade(d.request, d.lookup)'
  <2>1. CASE LookupOf(d.request) = {}
    BY <2>1 DEF ReadsAreMade, LookupIsMade
  <2>2. CASE LookupOf(d.request) # {}
    <3>1. PICK x \in Reading : d.lookup = {x} /\ IsReading(x, LookupOf(d.request))
      BY <2>2 DEF ReadsAreMade, LookupIsMade
    <3>2. IsReading(x, LookupOf(d.request))' /\ x \in Reading'
      BY <3>1, ReadingStays, TypesGrow
    <3> QED
      BY <2>2, <3>1, <3>2 DEF LookupIsMade
  <2> QED
    BY <2>1, <2>2
<1>4. ASSUME NEW i \in 1 .. Len(d.reads), NEW query, IsReading(d.reads[i], query)
      PROVE  IsReading(d.reads[i], query)'
  BY <1>2, <1>4, ReadingStays
<1>5. Len(d.reads) \in Nat
  BY <1>1
<1>6. LoadIsMade(d.request, d.now, LookedUp(d.lookup), d.reads)'
  <2>1. LoadIsMade(d.request, d.now, LookedUp(d.lookup), d.reads)
    BY DEF ReadsAreMade
  <2>2. CASE d.request.timed
    <3> DEFINE id == EntityOf(d.request, LookedUp(d.lookup))
    <3>1. PeriodIsRead(id, d.now, d.reads)
      BY <2>1, <2>2 DEF LoadIsMade
    <3> HIDE DEF id
    <3>2. PeriodIsRead(id, d.now, d.reads)'
      <4>1. Len(d.reads) >= 1 => IsReading(d.reads[1], PeriodQuery(id, d.now))'
        BY <1>4, <1>5, <3>1 DEF PeriodIsRead
      <4>2. Len(d.reads) >= 2 => IsReading(d.reads[2], TrackingQuery(id))'
        BY <1>4, <1>5, <3>1 DEF PeriodIsRead
      <4>3. Len(d.reads) = 3 => IsReading(d.reads[3], PeriodQuery(id, Tracked(d.reads[2])))'
        BY <1>4, <1>5, <3>1 DEF PeriodIsRead
      <4> QED
        BY <3>1, <4>1, <4>2, <4>3 DEF PeriodIsRead
    <3> QED
      BY <2>2, <3>2 DEF LoadIsMade, id
  <2>3. CASE ~ d.request.timed
    BY <1>4, <1>5, <2>1, <2>3 DEF LoadIsMade
  <2> QED
    BY <2>2, <2>3
<1> QED
  BY <1>3, <1>6 DEF ReadsAreMade

LEMMA PhaseStays ==
  ASSUME TypeInv, Grows, NEW d \in CallType, PhaseOK(d)
  PROVE  PhaseOK(d)'
<1>1. ReadsAreMade(d) => ReadsAreMade(d)'
  BY ReadsStay
<1>2. d.now <= clock'
  BY DEF PhaseOK, TypeInv, CallType, Grows
<1>3. IsDecided(d) => IsDecided(d)'
  BY DEF IsDecided, IsEmitting
<1>4. ToRead(d)' = ToRead(d)
  OBVIOUS
<1> QED
  BY <1>1, <1>2, <1>3, <1>4 DEF PhaseOK

-----------------------------------------------------------------------------
(* What becomes of an attempt. *)

Over(d, answer, marker) ==
  [d EXCEPT !.phase = "answered", !.lookup = {}, !.reads = <<>>, !.append = NoAppend,
            !.answer = answer, !.marker = marker]

NoopMarker(d) == LatestOf(UNION {d.reads[i].rows : i \in Loaded(d).uses})

FindsNothingToDo(d) ==
  ~ Loaded(d).dies /\ (Decision(d).tag = "noop" \/ (Decision(d).tag = "emit" /\ Decision(d).events = {}))

(* An attempt that has read enough is over, or appends; any other reads on. *)
Proceeds(d, e) ==
  \/ ToRead(d) # {} /\ e = [d EXCEPT !.phase = "load"]
  \/ /\ ToRead(d) = {}
     /\ \/ \E answer \in {"died", "refused", "defect"} : e = Over(d, answer, NoMarker)
        \/ FindsNothingToDo(d) /\ e = Over(d, "noop", NoopMarker(d))
        \/ IsEmitting(d) /\ KeepsByModel(d.request, d.lookup, Loaded(d), Own(d))
           /\ e = [d EXCEPT !.phase = "append", !.append = AppendOf(d.request, d, Loaded(d), Emits(d))]

LEMMA ProceedIs ==
  ASSUME WellDefined, NEW c, NEW d, d.request \in Requests, Proceed(c, d)
  PROVE  \E e : Proceeds(d, e) /\ call' = [call EXCEPT ![c] = e]
<1>1. CASE ToRead(d) # {}
  <2>1. call' = [call EXCEPT ![c] = [d EXCEPT !.phase = "load"]]
    BY <1>1 DEF Proceed, ToRead, Become
  <2> QED
    BY <1>1, <2>1 DEF Proceeds
<1>2. CASE ToRead(d) = {}
  <2>1. Decided(c, d)
    BY <1>2 DEF Proceed, ToRead
  <2> DEFINE Ends(answer, marker) == call' = [call EXCEPT ![c] = Over(d, answer, marker)]
  <2>2. \A answer, marker : Answer(c, d, answer, marker) => Ends(answer, marker)
    BY DEF Answer, Become, Over
  <2>3. Decision(d).tag \in {"emit", "noop", "fail"}
    BY DEF WellDefined, IsDecision, Decision
  <2>4. CASE Loaded(d).dies
    <3>1. Answer(c, d, "died", NoMarker)
      BY <2>1, <2>4 DEF Decided, Loaded
    <3> QED
      BY <1>2, <2>2, <3>1 DEF Proceeds
  <2>5. CASE ~ Loaded(d).dies /\ Decision(d).tag = "fail"
    <3>1. Answer(c, d, "refused", NoMarker)
      BY <2>1, <2>5 DEF Decided, Loaded, Decision
    <3> QED
      BY <1>2, <2>2, <3>1 DEF Proceeds
  <2>6. CASE FindsNothingToDo(d)
    <3>1. Answer(c, d, "noop", NoopMarker(d))
      BY <2>1, <2>6 DEF Decided, Loaded, Decision, FindsNothingToDo, NoopMarker
    <3> QED
      BY <1>2, <2>2, <2>6, <3>1 DEF Proceeds
  <2>7. CASE IsEmitting(d)
    <3>1. IF KeepsByModel(d.request, d.lookup, Loaded(d), Own(d)) /\ IsDefined(d.request, d, Loaded(d), Emits(d))
          THEN Become(c, [d EXCEPT !.phase = "append", !.append = AppendOf(d.request, d, Loaded(d), Emits(d))])
          ELSE Answer(c, d, "defect", NoMarker)
      BY <2>1, <2>7 DEF Decided, Loaded, Decision, IsEmitting, Own, Emits
    <3> QED
      BY <1>2, <2>2, <2>7, <3>1 DEF Proceeds, Become
  <2> QED
    BY <2>3, <2>4, <2>5, <2>6, <2>7 DEF FindsNothingToDo, IsEmitting
<1> QED
  BY <1>1, <1>2

-----------------------------------------------------------------------------
(* What a load of a model with a period returns. *)

LEMMA PeriodOfIs ==
  ASSUME NEW r, NEW id, NEW p \in Periods, OfPeriod(r.event, id, p)
  PROVE  PeriodOf(r) = p
<1>1. \A o \in Periods : TagOfPeriod(o) \in r.event.tags <=> o = p
  BY DEF OfPeriod
<1> QED
  BY <1>1 DEF PeriodOf

(* The last opening, and the period that the rows have as open.            *)
LEMMA TrackedIs ==
  ASSUME NEW read, NEW b \in Nat,
         \A r \in read.rows : r.xid \in Nat /\ r.xid <= b /\ IsTagged(r.event),
         \E r \in read.rows : r.event.type = OpenedType
  PROVE  \E last \in read.rows :
           /\ last.event.type = OpenedType
           /\ \A s \in read.rows : s.event.type = OpenedType => s.xid <= last.xid
           /\ PeriodOf(last) \in Periods
           /\ \E id \in Entities : OfPeriod(last.event, id, PeriodOf(last))
           /\ Tracked(read) = IF \E r \in read.rows : /\ r.event.type = ClosedType
                                                      /\ PeriodOf(r) = PeriodOf(last) /\ r.xid >= last.xid
                              THEN 0 ELSE PeriodOf(last)
<1> DEFINE openings == {r \in read.rows : r.event.type = OpenedType}
           last     == CHOOSE r \in openings : \A s \in openings : s.xid <= r.xid
<1>1. \E r \in openings : \A s \in openings : s.xid <= r.xid
  <2> DEFINE xids == {r.xid : r \in openings}
  <2>1. xids \in SUBSET Nat /\ xids # {} /\ \A x \in xids : x <= b
    OBVIOUS
  <2>2. \E m \in xids : \A n \in xids : n <= m
    BY <2>1, GreatestExists
  <2> QED
    BY <2>2
<1>2. last \in openings /\ \A s \in openings : s.xid <= last.xid
  BY <1>1
<1>3. openings # {}
  OBVIOUS
<1>4. Tracked(read) = IF \E r \in read.rows : /\ r.event.type = ClosedType
                                              /\ PeriodOf(r) = PeriodOf(last) /\ r.xid >= last.xid
                      THEN 0 ELSE PeriodOf(last)
  BY <1>3 DEF Tracked
<1>5. PICK id \in Entities, p \in Periods : OfPeriod(last.event, id, p)
  BY <1>2 DEF IsTagged
<1>6. PeriodOf(last) = p
  BY <1>5, PeriodOfIs
<1> HIDE DEF last
<1> QED
  BY <1>2, <1>4, <1>5, <1>6

LEMMA TrackedIsAPeriod ==
  ASSUME NEW read, NEW b \in Nat,
         \A r \in read.rows : r.xid \in Nat /\ r.xid <= b /\ IsTagged(r.event)
  PROVE  Tracked(read) \in Periods \cup {0}
<1>1. CASE \E r \in read.rows : r.event.type = OpenedType
  BY <1>1, TrackedIs
<1>2. CASE ~ \E r \in read.rows : r.event.type = OpenedType
  BY <1>2 DEF Tracked
<1> QED
  BY <1>1, <1>2

(* A load has read enough after one, two or three reads.                   *)
LEMMA PeriodLoadIs ==
  ASSUME NEW R, NEW reads \in Seq(R), NEW id, NEW now \in Nat \ {0}, PeriodIsRead(id, now, reads),
         Len(reads) >= 2 => Tracked(reads[2]) \in Nat,
         NextPeriodQuery(id, now, reads) = {}
  PROVE  LET cur == Tracked(reads[2])
             l   == LoadedPeriod(id, now, reads)
         IN  \/ l = Dies
             \/ Len(reads) = 1 /\ ReadsAsOpen(reads[1], now) /\ l = InOpen(id, now, reads, 1)
             \/ Len(reads) = 2 /\ cur = 0 /\ ~ Marked(reads[1], ClosedType, now) /\ l = Turn(id, 0, now, reads)
             \/ Len(reads) = 3 /\ cur >= now /\ ReadsAsOpen(reads[3], cur) /\ l = InOpen(id, cur, reads, 3)
             \/ Len(reads) = 3 /\ cur < now /\ l = Turn(id, cur, now, reads)
<1>1. \A p : PeriodQuery(id, p) # {}
  BY PeriodTypes DEF PeriodQuery, OneItem
<1>2. TrackingQuery(id) # {}
  BY DEF TrackingQuery, OneItem
<1>3. Len(reads) \in {0, 1, 2, 3}
  <2>1. Len(reads) \in Nat
    OBVIOUS
  <2>2. Len(reads) <= 3
    BY DEF PeriodIsRead
  <2> QED
    BY <2>1, <2>2, UpToThree
<1>4. CASE Len(reads) = 0
  BY <1>1, <1>4 DEF NextPeriodQuery
<1>5. CASE Len(reads) = 1
  <2>1. ReadsAsOpen(reads[1], now)
    BY <1>2, <1>5 DEF NextPeriodQuery
  <2>2. LoadedPeriod(id, now, reads) = InOpen(id, now, reads, 1)
    BY <2>1 DEF LoadedPeriod
  <2> QED
    BY <1>5, <2>1, <2>2
<1>6. CASE Len(reads) = 2
  <2>1. Tracked(reads[2]) = 0
    BY <1>1, <1>6 DEF NextPeriodQuery
  <2>2. ~ ReadsAsOpen(reads[1], now)
    BY <1>6 DEF PeriodIsRead
  <2>3. LoadedPeriod(id, now, reads) = IF Marked(reads[1], ClosedType, now) THEN Dies ELSE Turn(id, 0, now, reads)
    BY <2>1, <2>2 DEF LoadedPeriod
  <2> QED
    BY <1>6, <2>1, <2>3
<1>7. CASE Len(reads) = 3
  <2>1. ~ ReadsAsOpen(reads[1], now) /\ Tracked(reads[2]) # 0 /\ Tracked(reads[2]) \in Nat
    BY <1>7 DEF PeriodIsRead
  <2>2. CASE Tracked(reads[2]) >= now
    <3>1. LoadedPeriod(id, now, reads) = IF ReadsAsOpen(reads[3], Tracked(reads[2]))
                                         THEN InOpen(id, Tracked(reads[2]), reads, 3) ELSE Dies
      BY <2>1, <2>2 DEF LoadedPeriod
    <3> QED
      BY <1>7, <2>2, <3>1
  <2>3. CASE Tracked(reads[2]) < now
    <3>1. ~ (Tracked(reads[2]) >= now)
      BY <2>1, <2>3
    <3>2. LoadedPeriod(id, now, reads) = Turn(id, Tracked(reads[2]), now, reads)
      BY <2>1, <3>1 DEF LoadedPeriod
    <3> QED
      BY <1>7, <2>3, <3>2
  <2> QED
    BY <2>1, <2>2, <2>3
<1> QED
  BY <1>3, <1>4, <1>5, <1>6, <1>7

(* What an attempt that has read enough has loaded.                        *)
LEMMA TimedLoadIs ==
  ASSUME WellDefined, TypeInv, NEW d \in CallType, d.now # 0, ReadsAreMade(d), ToRead(d) = {}, d.request.timed
  PROVE  LET id  == EntityOf(d.request, LookedUp(d.lookup))
             cur == Tracked(d.reads[2])
             l   == Loaded(d)
         IN  /\ id \in Entities /\ id \in Tags /\ d.now \in Periods
             /\ Len(d.reads) = 3 => cur \in Periods
             /\ \/ l = Dies
                \/ Len(d.reads) = 1 /\ ReadsAsOpen(d.reads[1], d.now) /\ l = InOpen(id, d.now, d.reads, 1)
                \/ /\ Len(d.reads) = 2 /\ cur = 0 /\ ~ Marked(d.reads[1], ClosedType, d.now)
                   /\ l = Turn(id, 0, d.now, d.reads)
                \/ Len(d.reads) = 3 /\ cur >= d.now /\ ReadsAsOpen(d.reads[3], cur) /\ l = InOpen(id, cur, d.reads, 3)
                \/ Len(d.reads) = 3 /\ cur < d.now /\ l = Turn(id, cur, d.now, d.reads)
<1> DEFINE id == EntityOf(d.request, LookedUp(d.lookup))
<1>1. d.reads \in Seq(Reading) /\ d.request \in Requests /\ d.now \in Nat \ {0}
  BY BoundsType DEF CallType
<1>2. Loaded(d) = LoadedPeriod(id, d.now, d.reads)
  BY DEF Loaded, Load
<1>3. id \in Entities /\ id \in Tags
  BY <1>1, ClockType DEF WellDefined
<1>4. d.now \in Periods
  BY <1>1, ClockType, BoundsType DEF CallType
<1>5. ASSUME Len(d.reads) >= 2 PROVE Tracked(d.reads[2]) \in Periods \cup {0}
  <2>1. d.reads[2] \in Reading
    BY <1>1, <1>5
  <2>2. nextXid \in Nat /\ \A r \in log : r.xid \in Nat /\ r.xid <= nextXid /\ IsTagged(r.event)
    BY InitialRowsType DEF TypeInv, IsWritten
  <2> QED
    BY <2>1, <2>2, TrackedIsAPeriod DEF Reading
<1>6. NextPeriodQuery(id, d.now, d.reads) = {}
  BY DEF ToRead, NextQuery
<1>7. PeriodIsRead(id, d.now, d.reads)
  BY DEF ReadsAreMade, LoadIsMade
<1> HIDE DEF id
<1>8. Len(d.reads) >= 2 => Tracked(d.reads[2]) \in Nat
  <2>1. Periods \cup {0} \subseteq Nat
    BY PeriodTags
  <2> QED
    BY <1>5, <2>1
<1>9. Len(d.reads) = 3 => Tracked(d.reads[2]) \in Periods
  BY <1>1, <1>5, <1>7 DEF PeriodIsRead
<1>10. LET cur == Tracked(d.reads[2])
           l   == LoadedPeriod(id, d.now, d.reads)
       IN  \/ l = Dies
           \/ Len(d.reads) = 1 /\ ReadsAsOpen(d.reads[1], d.now) /\ l = InOpen(id, d.now, d.reads, 1)
           \/ /\ Len(d.reads) = 2 /\ cur = 0 /\ ~ Marked(d.reads[1], ClosedType, d.now)
              /\ l = Turn(id, 0, d.now, d.reads)
           \/ Len(d.reads) = 3 /\ cur >= d.now /\ ReadsAsOpen(d.reads[3], cur) /\ l = InOpen(id, cur, d.reads, 3)
           \/ Len(d.reads) = 3 /\ cur < d.now /\ l = Turn(id, cur, d.now, d.reads)
  BY <1>1, <1>6, <1>7, <1>8, PeriodLoadIs
<1> QED
  BY <1>2, <1>3, <1>4, <1>9, <1>10 DEF id

LEMMA LoadTypes ==
  ASSUME WellDefined, TypeInv, NEW d \in CallType, d.now # 0, ReadsAreMade(d), ToRead(d) = {}
  PROVE  /\ Loaded(d).uses \subseteq DOMAIN d.reads
         /\ Loaded(d).boundary \subseteq Item /\ Loaded(d).guard \subseteq Item
         /\ Loaded(d).prefix \subseteq Event /\ Loaded(d).scope \subseteq Tags
         /\ \A e \in Loaded(d).prefix : IsTagged(e)
<1> DEFINE l == Loaded(d)
           Typed == /\ l.uses \subseteq DOMAIN d.reads /\ l.boundary \subseteq Item /\ l.guard \subseteq Item
                    /\ l.prefix \subseteq Event /\ l.scope \subseteq Tags /\ \A e \in l.prefix : IsTagged(e)
<1>1. /\ d.reads \in Seq(Reading) /\ d.request \in Requests
      /\ \A i \in DOMAIN d.reads : d.reads[i] \in Reading
  <2>1. d.reads \in Seq(Reading) /\ d.request \in Requests
    BY DEF CallType
  <2> QED
    BY <2>1
<1>2. UNION {d.reads[i].query : i \in DOMAIN d.reads} \subseteq Item
  BY <1>1 DEF Reading
<1>3. CASE ~ d.request.timed
  BY <1>2, <1>3 DEF Loaded, Load
<1>4. CASE d.request.timed
  <2> DEFINE id  == EntityOf(d.request, LookedUp(d.lookup))
             cur == Tracked(d.reads[2])
  <2>1. /\ id \in Entities /\ id \in Tags /\ d.now \in Periods
        /\ Len(d.reads) = 3 => cur \in Periods
        /\ \/ l = Dies
           \/ Len(d.reads) = 1 /\ l = InOpen(id, d.now, d.reads, 1)
           \/ Len(d.reads) = 2 /\ l = Turn(id, 0, d.now, d.reads)
           \/ Len(d.reads) = 3 /\ l = InOpen(id, cur, d.reads, 3)
           \/ Len(d.reads) = 3 /\ l = Turn(id, cur, d.now, d.reads)
    BY <1>4, TimedLoadIs
  <2> HIDE DEF id, cur, l
  <2>2. \A p \in Periods : ClosingQuery(id, p) \subseteq Item /\ TagOfPeriod(p) \in Tags
    BY <2>1, PeriodTags, PeriodTypes DEF ClosingQuery, OneItem, Item
  <2>3. \A p \in Periods : \A rows : /\ Opening(id, p, rows) \in Event /\ Closing(id, p, rows) \in Event
                                      /\ IsTagged(Opening(id, p, rows)) /\ IsTagged(Closing(id, p, rows))
    BY <2>1 DEF WellDefined, IsDecision, IsTurn, IsTagged
  <2>4. ASSUME l = Dies PROVE Typed
    BY <2>4 DEF Dies
  <2>5. ASSUME NEW i \in DOMAIN d.reads, NEW p \in Periods, l = InOpen(id, p, d.reads, i)
        PROVE  Typed
    BY <1>1, <2>2, <2>5 DEF InOpen, Reading
  <2>6. ASSUME NEW old \in Periods \cup {0}, l = Turn(id, old, d.now, d.reads)
        PROVE  Typed
    <3> DEFINE carried == d.reads[IF old = 0 THEN 1 ELSE 3].rows
    <3>1. /\ Opening(id, d.now, carried) \in Event /\ IsTagged(Opening(id, d.now, carried))
          /\ old # 0 => Closing(id, old, carried) \in Event /\ IsTagged(Closing(id, old, carried))
      BY <2>1, <2>3
    <3>2. /\ l.uses = DOMAIN d.reads /\ l.boundary = UNION {d.reads[i].query : i \in DOMAIN d.reads}
          /\ l.guard = {} /\ l.scope = {TagOfPeriod(d.now)}
          /\ l.prefix = {Opening(id, d.now, carried)} \cup (IF old = 0 THEN {} ELSE {Closing(id, old, carried)})
      BY <2>6 DEF Turn
    <3> QED
      BY <1>2, <2>1, <2>2, <3>1, <3>2
  <2>7. DOMAIN d.reads = 1 .. Len(d.reads) /\ Len(d.reads) \in Nat
    BY <1>1
  <2>8. ASSUME Len(d.reads) = 1 /\ l = InOpen(id, d.now, d.reads, 1) PROVE Typed
    <3>1. 1 \in DOMAIN d.reads
      BY <2>7, <2>8
    <3> QED
      BY <2>1, <2>5, <2>8, <3>1
  <2>9. ASSUME Len(d.reads) = 3 /\ l = InOpen(id, cur, d.reads, 3) PROVE Typed
    <3>1. 3 \in DOMAIN d.reads
      BY <2>7, <2>9
    <3> QED
      BY <2>1, <2>5, <2>9, <3>1
  <2> HIDE DEF Typed
  <2>10. Typed
    BY <2>1, <2>4, <2>6, <2>8, <2>9
  <2> QED
    BY <2>10 DEF l, Typed
<1> QED
  BY <1>3, <1>4

LEMMA SeenIs ==
  ASSUME TypeInv, NEW lookup \in SUBSET Reading, NEW reads \in Seq(Reading), NEW l, l.uses \subseteq DOMAIN reads
  PROVE  /\ Seen(lookup, reads, l) \in 0 .. commits
         /\ \A x \in lookup : Seen(lookup, reads, l) <= x.upTo
         /\ \A i \in l.uses : Seen(lookup, reads, l) <= reads[i].upTo
         /\ \/ Seen(lookup, reads, l) = commits
            \/ \E x \in lookup : Seen(lookup, reads, l) = x.upTo
            \/ \E i \in l.uses : Seen(lookup, reads, l) = reads[i].upTo
<1> DEFINE counted == {r.upTo : r \in lookup} \cup {reads[i].upTo : i \in l.uses}
<1>1. commits \in Nat /\ counted \subseteq 0 .. commits
  <2>1. \A i \in l.uses : reads[i] \in Reading
    OBVIOUS
  <2> QED
    BY <2>1 DEF Reading, TypeInv
<1>2. CASE counted = {}
  <2>1. lookup = {} /\ l.uses = {} /\ Seen(lookup, reads, l) = commits
    BY <1>2 DEF Seen
  <2> QED
    BY <1>1, <2>1
<1>3. CASE counted # {}
  <2>1. counted \in SUBSET Nat
    BY <1>1
  <2>2. \E n \in counted : \A m \in counted : n <= m
    BY <1>3, <2>1, LeastExists
  <2>3. Seen(lookup, reads, l) \in counted /\ \A m \in counted : Seen(lookup, reads, l) <= m
    BY <1>3, <2>2 DEF Seen
  <2> QED
    BY <1>1, <2>3
<1> QED
  BY <1>2, <1>3

(* What an attempt appends is an append. *)
LEMMA AppendTypes ==
  ASSUME WellDefined, TypeInv, NEW d \in CallType, d.now # 0, ReadsAreMade(d), ToRead(d) = {}
  PROVE  AppendOf(d.request, d, Loaded(d), Emits(d)) \in Appending
<1> DEFINE l == Loaded(d)
           condition == Condition(d.request, d.lookup, l, Emits(d))
           a == AppendOf(d.request, d, l, Emits(d))
<1>1. /\ d.reads \in Seq(Reading) /\ d.lookup \in SUBSET Reading /\ d.request \in Requests
  BY DEF CallType
<1>2. d.request.guard \subseteq Item /\ d.request.idempotentBy \subseteq Item
  BY <1>1, RequestsType DEF IsRequest
<1>3. /\ l.uses \subseteq DOMAIN d.reads /\ l.boundary \subseteq Item /\ l.guard \subseteq Item
      /\ l.prefix \subseteq Event /\ l.scope \subseteq Tags
  BY LoadTypes
<1>4. LookupQuery(d.lookup) \subseteq Item
  BY <1>1 DEF LookupQuery, Reading
<1>5. condition \subseteq Item
  BY <1>2, <1>3, <1>4 DEF Condition
<1>6. Emits(d) \subseteq Event
  <2>1. Decision(d).events \subseteq Event
    BY <1>1 DEF WellDefined, IsDecision, Decision
  <2>2. \A e \in Event : [e EXCEPT !.tags = e.tags \cup l.scope] \in Event
    BY <1>3 DEF Event
  <2>3. Own(d) \subseteq Event
    BY <2>1, <2>2 DEF Own, OwnEvents
  <2> QED
    BY <1>3, <2>3 DEF Emits
<1>7. Seen(d.lookup, d.reads, l) \in 0 .. commits
  BY <1>1, <1>3, SeenIs
<1>8. WriterLocks(Emits(d), condition \cup d.request.idempotentBy) \in SomeLocks
  BY <1>2, <1>5, <1>6 DEF SomeLocks
<1>9. a = [events |-> Emits(d), condition |-> condition, seen |-> Seen(d.lookup, d.reads, l),
           locks |-> WriterLocks(Emits(d), condition \cup d.request.idempotentBy)]
  BY DEF AppendOf
<1> HIDE DEF l, condition
<1> QED
  BY <1>5, <1>6, <1>7, <1>8, <1>9 DEF Appending, l

LEMMA NoAppendType == ASSUME TypeInv PROVE NoAppend \in Appending
<1>1. WriterLocks({}, {}) = {}
  BY DEF WriterLocks, Wanted
<1>2. {} \in SomeLocks
  BY <1>1 DEF SomeLocks
<1> QED
  BY <1>2 DEF NoAppend, Appending, TypeInv

LEMMA OverKeeps ==
  ASSUME TypeInv, NEW d \in CallType, d.now <= clock, NEW answer \in Answers \ {"none"}, NEW m \in 0 .. nextXid - 1
  PROVE  Over(d, answer, m) \in CallType /\ PhaseOK(Over(d, answer, m))
<1>1. Over(d, answer, m) \in CallType
  <2>1. <<>> \in Seq(Reading) /\ "answered" \in Phases
    BY DEF Phases
  <2> QED
    BY <2>1, NoAppendType DEF CallType, Over
<1>2. /\ Over(d, answer, m).phase = "answered" /\ Over(d, answer, m).answer = answer
      /\ Over(d, answer, m).now = d.now /\ Over(d, answer, m).reads = <<>>
  BY DEF Over, CallType
<1>3. Len(Over(d, answer, m).reads) <= 3
  BY <1>2
<1> QED
  BY <1>1, <1>2, <1>3 DEF PhaseOK

LEMMA NoopMarkerType ==
  ASSUME WellDefined, TypeInv, NEW d \in CallType, d.now # 0, ReadsAreMade(d), ToRead(d) = {}
  PROVE  /\ NoopMarker(d) \in 0 .. nextXid - 1
         /\ \A i \in Loaded(d).uses : \A r \in d.reads[i].rows : r.xid <= NoopMarker(d)
<1> DEFINE rows == UNION {d.reads[i].rows : i \in Loaded(d).uses}
           b == nextXid - 1
<1>1. rows \subseteq log
  <2>1. d.reads \in Seq(Reading)
    BY DEF CallType
  <2>2. \A i \in Loaded(d).uses : d.reads[i] \in Reading
    BY <2>1, LoadTypes
  <2> QED
    BY <2>2 DEF Reading
<1>2. b \in Nat /\ \A r \in log : r.xid \in Nat /\ r.xid <= b
  BY InitialRowsType DEF TypeInv, IsWritten
<1> HIDE DEF b
<1>3. LatestOf(rows) \in Nat /\ LatestOf(rows) <= b /\ \A r \in rows : r.xid <= LatestOf(rows)
  BY <1>1, <1>2, LatestOfRows
<1>4. NoopMarker(d) \in 0 .. b /\ \A r \in rows : r.xid <= NoopMarker(d)
  BY <1>2, <1>3 DEF NoopMarker
<1> QED
  BY <1>4 DEF b

(* What becomes of an attempt is an attempt. *)
LEMMA ProceedsKeeps ==
  ASSUME WellDefined, TypeInv, NEW d \in CallType, NEW e, Proceeds(d, e),
         d.now # 0, d.now <= clock, ReadsAreMade(d), d.answer = "none", Len(d.reads) <= 3
  PROVE  e \in CallType /\ PhaseOK(e)
<1>1. CASE ToRead(d) # {} /\ e = [d EXCEPT !.phase = "load"]
  <2>1. e \in CallType
    BY <1>1 DEF CallType, Phases
  <2>2. e.phase = "load" /\ ToRead(e) = ToRead(d) /\ (ReadsAreMade(e) <=> ReadsAreMade(d))
        /\ e.now = d.now /\ e.answer = d.answer /\ e.reads = d.reads
    BY <1>1 DEF CallType, ToRead, ReadsAreMade
  <2> QED
    BY <1>1, <2>1, <2>2 DEF PhaseOK
<1>2. CASE ToRead(d) = {} /\ \E answer \in {"died", "refused", "defect"} : e = Over(d, answer, NoMarker)
  <2>1. NoMarker \in 0 .. nextXid - 1
    BY DEF NoMarker, TypeInv
  <2> QED
    BY <1>2, <2>1, OverKeeps DEF Answers
<1>3. CASE ToRead(d) = {} /\ e = Over(d, "noop", NoopMarker(d))
  BY <1>3, NoopMarkerType, OverKeeps DEF Answers
<1>4. CASE /\ ToRead(d) = {} /\ IsEmitting(d) /\ KeepsByModel(d.request, d.lookup, Loaded(d), Own(d))
           /\ e = [d EXCEPT !.phase = "append", !.append = AppendOf(d.request, d, Loaded(d), Emits(d))]
  <2> DEFINE a == AppendOf(d.request, d, Loaded(d), Emits(d))
  <2>1. a \in Appending
    BY <1>4, AppendTypes
  <2>2. e \in CallType
    BY <1>4, <2>1 DEF CallType, Phases
  <2>3. /\ e.phase = "append" /\ e.now = d.now /\ e.answer = d.answer /\ e.reads = d.reads
        /\ e.lookup = d.lookup /\ e.request = d.request /\ e.append = a
    BY <1>4 DEF CallType
  <2>4. /\ ToRead(e) = ToRead(d) /\ Loaded(e) = Loaded(d) /\ (ReadsAreMade(e) <=> ReadsAreMade(d))
        /\ Decision(e) = Decision(d) /\ Own(e) = Own(d) /\ Emits(e) = Emits(d) /\ (IsEmitting(e) <=> IsEmitting(d))
    BY <2>3 DEF ToRead, Loaded, ReadsAreMade, Decision, Own, Emits, IsEmitting
  <2>5. /\ \A x \in d.lookup : a.seen <= x.upTo
        /\ \A i \in Loaded(d).uses : a.seen <= d.reads[i].upTo
    <3>1. a.seen = Seen(d.lookup, d.reads, Loaded(d))
      BY DEF AppendOf
    <3>2. d.lookup \in SUBSET Reading /\ d.reads \in Seq(Reading) /\ Loaded(d).uses \subseteq DOMAIN d.reads
      BY <1>4, LoadTypes DEF CallType
    <3> QED
      BY <3>1, <3>2, SeenIs
  <2>6. /\ a.events = Emits(d)
        /\ a.condition = Condition(d.request, d.lookup, Loaded(d), Emits(d))
        /\ a.locks = WriterLocks(Emits(d), a.condition \cup d.request.idempotentBy)
    BY DEF AppendOf
  <2> HIDE DEF a
  <2>7. IsDecided(e)
    BY <1>4, <2>3, <2>4, <2>5, <2>6 DEF IsDecided
  <2> QED
    BY <2>2, <2>3, <2>4, <2>7 DEF PhaseOK
<1> QED
  BY <1>1, <1>2, <1>3, <1>4 DEF Proceeds

-----------------------------------------------------------------------------
(* The reads of an attempt, one by one. *)

LEMMA ReadOfIs ==
  ASSUME TypeInv, NEW query \in SUBSET Item
  PROVE  ReadOf(query) \in Reading /\ IsReading(ReadOf(query), query)
<1>1. \A r \in log : r.at <= commits
  BY InitialRowsType DEF TypeInv, IsWritten
<1>2. ReadUpTo(commits) = log
  BY <1>1 DEF ReadUpTo
<1>3. commits \in 0 .. commits
  BY DEF TypeInv
<1> QED
  BY <1>2, <1>3 DEF ReadOf, Reading, IsReading, Of

(* Nothing is read yet, and nothing is to be looked up. *)
LEMMA NothingRead ==
  ASSUME NEW d \in CallType, d.lookup = {}, d.reads = <<>>, LookupOf(d.request) = {}
  PROVE  ReadsAreMade(d)
<1>1. Len(<<>>) = 0
  OBVIOUS
<1> QED
  BY <1>1 DEF ReadsAreMade, LookupIsMade, LoadIsMade, PeriodIsRead

LEMMA LookupRead ==
  ASSUME WellDefined, TypeInv, NEW d \in CallType, d.reads = <<>>, LookupOf(d.request) # {},
         NEW e, e = [d EXCEPT !.lookup = {ReadOf(LookupOf(d.request))}]
  PROVE  e \in CallType /\ ReadsAreMade(e)
<1>1. LookupOf(d.request) \in SUBSET Item
  BY DEF WellDefined, CallType
<1>2. ReadOf(LookupOf(d.request)) \in Reading /\ IsReading(ReadOf(LookupOf(d.request)), LookupOf(d.request))
  BY <1>1, ReadOfIs
<1>3. e \in CallType
  BY <1>2 DEF CallType
<1>4. e.request = d.request /\ e.now = d.now /\ e.reads = <<>> /\ e.lookup = {ReadOf(LookupOf(d.request))}
  BY DEF CallType
<1>5. Len(<<>>) = 0
  OBVIOUS
<1>6. LookupIsMade(e.request, e.lookup)
  BY <1>2, <1>4 DEF LookupIsMade
<1>7. LoadIsMade(e.request, e.now, LookedUp(e.lookup), e.reads)
  BY <1>4, <1>5 DEF LoadIsMade, PeriodIsRead
<1> QED
  BY <1>3, <1>6, <1>7 DEF ReadsAreMade

(* The next read of a load is one of those it makes. *)
LEMMA NextRead ==
  ASSUME WellDefined, TypeInv, NEW d \in CallType, d.now # 0, ReadsAreMade(d), ToRead(d) # {},
         NEW e, e = [d EXCEPT !.reads = Append(d.reads, ReadOf(ToRead(d)))]
  PROVE  e \in CallType /\ ReadsAreMade(e) /\ Len(e.reads) <= 3
<1> DEFINE looked == LookedUp(d.lookup)
           id == EntityOf(d.request, looked)
           x  == ReadOf(ToRead(d))
<1>1. d.reads \in Seq(Reading) /\ d.request \in Requests /\ Len(d.reads) \in Nat /\ d.now \in Periods
  BY ClockType, BoundsType DEF CallType
<1>2. \A p \in Periods : d.request.timed => PeriodQuery(id, p) \subseteq Item /\ TrackingQuery(id) \subseteq Item
  <2>1. d.request.timed => id \in Tags
    BY <1>1, ClockType DEF WellDefined
  <2> QED
    BY <2>1, PeriodTags, PeriodTypes DEF TrackingQuery, PeriodQuery, OneItem, Item
<1>3. CASE ~ d.request.timed
  <2>1. d.reads = <<>> /\ ToRead(d) = ModelOf(d.request, looked)
    BY <1>3 DEF ToRead, NextQuery
  <2>2. ToRead(d) \in SUBSET Item
    BY <1>1, <2>1 DEF WellDefined
  <2>3. x \in Reading /\ IsReading(x, ToRead(d))
    BY <2>2, ReadOfIs
  <2> HIDE DEF x
  <2>4. e.reads = <<x>> /\ e.lookup = d.lookup /\ e.request = d.request /\ e.now = d.now
    BY <2>1 DEF CallType, x
  <2>5. <<x>> \in Seq(Reading) /\ Len(<<x>>) = 1 /\ <<x>>[1] = x
    BY <2>3
  <2>6. e \in CallType
    <3>1. e = [d EXCEPT !.reads = <<x>>]
      BY <2>1 DEF x
    <3> QED
      BY <2>5, <3>1 DEF CallType
  <2> QED
    BY <1>3, <2>1, <2>3, <2>4, <2>5, <2>6 DEF ReadsAreMade, LoadIsMade
<1>4. CASE d.request.timed
  <2> DEFINE n == Len(d.reads)
  <2>1. PeriodIsRead(id, d.now, d.reads)
    BY <1>4 DEF ReadsAreMade, LoadIsMade
  <2>2. ToRead(d) = NextPeriodQuery(id, d.now, d.reads)
    BY <1>4 DEF ToRead, NextQuery
  <2>3. n \in {0, 1, 2, 3}
    BY <1>1, <2>1, UpToThree DEF PeriodIsRead
  <2>4. n \in {0, 1, 2}
    BY <2>2, <2>3 DEF NextPeriodQuery
  <2>5. n >= 2 => Tracked(d.reads[2]) \in Periods \cup {0}
    <3>1. ASSUME n >= 2 PROVE d.reads[2].rows \subseteq log
      <4>1. d.reads[2] \in Reading
        BY <1>1, <3>1
      <4> QED
        BY <4>1 DEF Reading
    <3>2. nextXid \in Nat /\ \A r \in log : r.xid \in Nat /\ r.xid <= nextXid /\ IsTagged(r.event)
      BY InitialRowsType DEF TypeInv, IsWritten
    <3>3. ASSUME n >= 2 PROVE Tracked(d.reads[2]) \in Periods \cup {0}
      BY <3>1, <3>2, <3>3, TrackedIsAPeriod
    <3> QED
      BY <3>3
  <2>6. /\ n = 0 => ToRead(d) = PeriodQuery(id, d.now)
        /\ n = 1 => ~ ReadsAsOpen(d.reads[1], d.now) /\ ToRead(d) = TrackingQuery(id)
        /\ n = 2 => Tracked(d.reads[2]) # 0 /\ ToRead(d) = PeriodQuery(id, Tracked(d.reads[2]))
    BY <2>2, <2>4 DEF NextPeriodQuery
  <2>7. ToRead(d) \in SUBSET Item
    BY <1>1, <1>2, <1>4, <2>4, <2>5, <2>6
  <2>8. x \in Reading /\ IsReading(x, ToRead(d))
    BY <2>7, ReadOfIs
  <2> HIDE DEF x, id
  <2>9. /\ e.reads = Append(d.reads, x) /\ e.lookup = d.lookup /\ e.request = d.request /\ e.now = d.now
    BY DEF CallType, x
  <2>10. e.reads \in Seq(Reading) /\ Len(e.reads) = n + 1 /\ e.reads[n + 1] = x /\ \A i \in 1 .. n : e.reads[i] = d.reads[i]
    BY <1>1, <2>8, <2>9
  <2>11. e \in CallType
    BY <2>9, <2>10 DEF CallType, x
  <2>12. PeriodIsRead(id, d.now, e.reads)
    <3>1. CASE n = 0
      <4>1. Len(e.reads) = 1 /\ e.reads[1] = x
        BY <2>10, <3>1
      <4> QED
        BY <2>6, <2>8, <3>1, <4>1 DEF PeriodIsRead
    <3>2. CASE n = 1
      <4>1. Len(e.reads) = 2 /\ e.reads[2] = x /\ e.reads[1] = d.reads[1]
        BY <2>10, <3>2
      <4> QED
        BY <2>1, <2>6, <2>8, <3>2, <4>1 DEF PeriodIsRead
    <3>3. CASE n = 2
      <4>1. Len(e.reads) = 3 /\ e.reads[3] = x /\ e.reads[2] = d.reads[2] /\ e.reads[1] = d.reads[1]
        BY <2>10, <3>3
      <4> QED
        BY <2>1, <2>6, <2>8, <3>3, <4>1 DEF PeriodIsRead
    <3> QED
      BY <2>4, <3>1, <3>2, <3>3
  <2>13. ReadsAreMade(e)
    BY <1>4, <2>9, <2>12 DEF ReadsAreMade, LoadIsMade, id
  <2> QED
    BY <2>4, <2>10, <2>11, <2>13
<1> QED
  BY <1>3, <1>4

-----------------------------------------------------------------------------
(* The steps of a call, by what they leave its record as. *)

Unchanging == UNCHANGED <<log, commits, nextXid, clock>>

IsRepeat(c, e, rows) ==
  /\ rows # {}
  /\ \/ IsSameRequest(Request(c), rows) /\ e = Over(call[c], "idempotent", LatestOf(rows))
     \/ ~ IsSameRequest(Request(c), rows) /\ e = Over(call[c], "mismatch", NoMarker)

IsRefused(c, e) ==
  \/ call[c].tries < Retries /\ e = [NewCall(Request(c)) EXCEPT !.tries = call[c].tries + 1]
  \/ ~ call[c].tries < Retries /\ e = Over(call[c], "conflict", NoMarker)

Finds(c, e) == At(c, "precheck") /\ Unchanging /\ UNCHANGED faults /\ IsRepeat(c, e, Duplicates(c))

Starts(c, e) ==
  /\ At(c, "precheck") /\ Unchanging /\ UNCHANGED faults /\ Duplicates(c) = {}
  /\ \E now \in 1 .. clock :
       \/ LookupOf(Request(c)) = {} /\ Proceeds([call[c] EXCEPT !.now = now], e)
       \/ LookupOf(Request(c)) # {} /\ e = [call[c] EXCEPT !.phase = "resolve", !.now = now]

Resolves(c, e) ==
  /\ At(c, "resolve") /\ Unchanging /\ UNCHANGED faults
  /\ Proceeds([call[c] EXCEPT !.lookup = {ReadOf(LookupOf(Request(c)))}], e)

Loads(c, e) ==
  /\ At(c, "load") /\ Unchanging /\ UNCHANGED faults
  /\ Proceeds([call[c] EXCEPT !.reads = Append(call[c].reads, ReadOf(ToRead(call[c])))], e)

FindsLate(c, e) == /\ At(c, "append") /\ LocksAreFree(c) /\ Unchanging /\ UNCHANGED faults
                   /\ IsRepeat(c, e, Duplicates(c))

Conflicting(c, e) == /\ At(c, "append") /\ Unchanging /\ IsRefused(c, e)
                     /\ \/ Duplicates(c) = {} /\ Conflicts(c) # {} /\ UNCHANGED faults
                        \/ Fault

MayInsert(c) == /\ At(c, "append") /\ LocksAreFree(c) /\ Duplicates(c) = {} /\ Conflicts(c) = {}
                /\ ~ EmitKeyIsTaken(c)
                /\ nextXid' = nextXid + 1 /\ UNCHANGED <<log, commits, clock, faults>>

FindsEmitted(c, e) == MayInsert(c) /\ IsRepeat(c, e, Emitted(Request(c)))

Inserts(c, e) == MayInsert(c) /\ Emitted(Request(c)) = {} /\ e = [call[c] EXCEPT !.phase = "record", !.xid = nextXid]

Records(c, e) == At(c, "record") /\ Unchanging /\ UNCHANGED faults /\ e = [call[c] EXCEPT !.phase = "commit"]

Commits(c, e) == /\ Committed(c)
                 /\ \/ UNCHANGED faults /\ e = Over(call[c], "created", call[c].xid)
                    \/ Fault /\ e = Over(call[c], "error", NoMarker)

Fails(c, e) == ~ At(c, "answered") /\ Unchanging /\ Fault /\ e = Over(call[c], "error", NoMarker)

Moves(c, e) == \/ Finds(c, e) \/ Starts(c, e) \/ Resolves(c, e) \/ Loads(c, e) \/ FindsLate(c, e)
               \/ Conflicting(c, e) \/ FindsEmitted(c, e) \/ Inserts(c, e) \/ Records(c, e)
               \/ Commits(c, e) \/ Fails(c, e)

LEMMA RepeatIs ==
  ASSUME NEW c, NEW rows, rows # {}, AnswerRepeat(c, call[c], rows)
  PROVE  \E e : IsRepeat(c, e, rows) /\ call' = [call EXCEPT ![c] = e]
BY DEF AnswerRepeat, Answer, Become, Over, IsRepeat, Request

LEMMA RetryIs ==
  ASSUME NEW c, RetryOrGiveUp(c)
  PROVE  \E e : IsRefused(c, e) /\ call' = [call EXCEPT ![c] = e]
BY DEF RetryOrGiveUp, Answer, Become, Over, IsRefused, Request

LEMMA FindDuplicateIs ==
  ASSUME WellDefined, TypeInv, NEW c \in Calls, FindDuplicate(c)
  PROVE  \E e : (Finds(c, e) \/ Starts(c, e)) /\ call' = [call EXCEPT ![c] = e]
<1>1. call[c] \in CallType /\ Request(c) \in Requests
  BY DEF TypeInv, CallType, Request
<1>2. At(c, "precheck") /\ Unchanging /\ UNCHANGED faults
  BY DEF FindDuplicate, dbVars, Unchanging
<1>3. CASE Duplicates(c) # {}
  <2>1. AnswerRepeat(c, call[c], Duplicates(c))
    BY <1>3 DEF FindDuplicate, Duplicates
  <2> QED
    BY <1>2, <1>3, <2>1, RepeatIs DEF Finds
<1>4. CASE Duplicates(c) = {}
  <2>1. PICK now \in Clocks(Request(c)) :
          IF LookupOf(Request(c)) = {} THEN Proceed(c, [call[c] EXCEPT !.now = now])
          ELSE Become(c, [call[c] EXCEPT !.phase = "resolve", !.now = now])
    BY <1>4 DEF FindDuplicate, Duplicates
  <2>2. now \in 1 .. clock
    BY <2>1 DEF Clocks, TypeInv
  <2>3. CASE LookupOf(Request(c)) = {}
    <3> DEFINE d == [call[c] EXCEPT !.now = now]
    <3>1. d.request \in Requests
      BY <1>1 DEF CallType, Request
    <3>2. PICK e : Proceeds(d, e) /\ call' = [call EXCEPT ![c] = e]
      <4>1. Proceed(c, d)
        BY <2>1, <2>3
      <4> HIDE DEF d
      <4> QED
        BY <3>1, <4>1, ProceedIs
    <3> QED
      BY <1>2, <1>4, <2>2, <2>3, <3>2 DEF Starts
  <2>4. CASE LookupOf(Request(c)) # {}
    BY <1>2, <1>4, <2>1, <2>2, <2>4 DEF Starts, Become
  <2> QED
    BY <2>3, <2>4
<1> QED
  BY <1>3, <1>4

LEMMA AppendIfIs ==
  ASSUME NEW c \in Calls, AppendIf(c)
  PROVE  \E e : /\ FindsLate(c, e) \/ Conflicting(c, e) \/ FindsEmitted(c, e) \/ Inserts(c, e)
                /\ call' = [call EXCEPT ![c] = e]
<1>1. At(c, "append") /\ LocksAreFree(c) /\ UNCHANGED <<log, commits, clock, faults>>
  BY DEF AppendIf
<1>2. CASE Duplicates(c) # {} /\ AnswerRepeat(c, call[c], Duplicates(c)) /\ UNCHANGED nextXid
  BY <1>1, <1>2, RepeatIs DEF FindsLate, Unchanging
<1>3. CASE Duplicates(c) = {} /\ Conflicts(c) # {} /\ RetryOrGiveUp(c) /\ UNCHANGED nextXid
  BY <1>1, <1>3, RetryIs DEF Conflicting, Unchanging
<1>4. CASE /\ Duplicates(c) = {} /\ Conflicts(c) = {} /\ ~ EmitKeyIsTaken(c)
           /\ nextXid' = nextXid + 1
           /\ IF Emitted(Request(c)) # {} THEN AnswerRepeat(c, call[c], Emitted(Request(c)))
              ELSE Become(c, [call[c] EXCEPT !.phase = "record", !.xid = nextXid])
  <2>1. MayInsert(c)
    BY <1>1, <1>4 DEF MayInsert
  <2>2. CASE Emitted(Request(c)) # {}
    BY <1>4, <2>1, <2>2, RepeatIs DEF FindsEmitted
  <2>3. CASE Emitted(Request(c)) = {}
    BY <1>4, <2>1, <2>3 DEF Inserts, Become
  <2> QED
    BY <2>2, <2>3
<1> QED
  BY <1>2, <1>3, <1>4 DEF AppendIf

(* Every step is a move of one call, or the clock's, or nothing.           *)
LEMMA StepsAreMoves ==
  ASSUME WellDefined, TypeInv, PhaseInv, [Next]_vars
  PROVE  \/ \E c \in Calls : \E e : Moves(c, e) /\ call' = [call EXCEPT ![c] = e]
         \/ clock < LastPeriod /\ clock' = clock + 1 /\ UNCHANGED <<log, commits, nextXid, call, faults>>
         \/ UNCHANGED vars
<1>1. CASE Tick
  BY <1>1 DEF Tick, dbVars
<1>2. CASE UNCHANGED vars
  BY <1>2
<1>3. ASSUME NEW c \in Calls, Step(c) \/ Fail(c) \/ CommitUnheard(c) \/ Deadlock(c)
      PROVE  \E e : Moves(c, e) /\ call' = [call EXCEPT ![c] = e]
  <2>1. call[c] \in CallType /\ PhaseOK(call[c])
    BY DEF TypeInv, PhaseInv
  <2>2. CASE FindDuplicate(c)
    BY <2>2, FindDuplicateIs DEF Moves
  <2>3. CASE Resolve(c)
    <3> DEFINE d == [call[c] EXCEPT !.lookup = {ReadOf(LookupOf(Request(c)))}]
    <3>1. d.request \in Requests
      BY <2>1 DEF CallType
    <3>2. Proceed(c, d)
      BY <2>3 DEF Resolve
    <3>3. \E e : Proceeds(d, e) /\ call' = [call EXCEPT ![c] = e]
      <4> HIDE DEF d
      <4> QED
        BY <3>1, <3>2, ProceedIs
    <3> QED
      BY <2>3, <3>3 DEF Resolve, Resolves, Moves, dbVars, Unchanging
  <2>4. CASE ReadModel(c)
    <3> DEFINE d == [call[c] EXCEPT !.reads = Append(call[c].reads, ReadOf(ToRead(call[c])))]
    <3>1. d.request \in Requests
      BY <2>1 DEF CallType
    <3>2. Proceed(c, d)
      BY <2>4 DEF ReadModel, ToRead, Request
    <3>3. \E e : Proceeds(d, e) /\ call' = [call EXCEPT ![c] = e]
      <4> HIDE DEF d
      <4> QED
        BY <3>1, <3>2, ProceedIs
    <3> QED
      BY <2>4, <3>3 DEF ReadModel, Loads, Moves, dbVars, Unchanging
  <2>5. CASE AppendIf(c)
    BY <2>5, AppendIfIs DEF Moves
  <2>6. CASE RecordCommand(c)
    BY <2>6 DEF RecordCommand, Become, dbVars, Records, Unchanging, Moves
  <2>7. CASE Commit(c)
    BY <2>7 DEF Commit, Answer, Become, Over, Commits, Moves
  <2>8. CASE Fail(c)
    BY <2>8 DEF Fail, Answer, Become, Over, Fails, Moves, dbVars, Unchanging
  <2>9. CASE CommitUnheard(c)
    BY <2>9 DEF CommitUnheard, Answer, Become, Over, Commits, Moves
  <2>10. CASE Deadlock(c)
    <3>1. At(c, "append") /\ Fault /\ Unchanging /\ RetryOrGiveUp(c)
      BY <2>10 DEF Deadlock, dbVars, Unchanging
    <3> QED
      BY <3>1, RetryIs DEF Conflicting, Moves
  <2> QED
    BY <1>3, <2>2, <2>3, <2>4, <2>5, <2>6, <2>7, <2>8, <2>9, <2>10 DEF Step
<1> QED
  BY <1>1, <1>2, <1>3 DEF Next

-----------------------------------------------------------------------------
(* TypeInv and PhaseInv are inductive. *)

LEMMA InitTypes == ASSUME Init PROVE TypeInv /\ PhaseInv
<1>1. PICK s \in Sendings : call = [c \in Calls |-> NewCall(s[c])]
  BY DEF Init
<1>2. log = InitialRows /\ commits = 0 /\ nextXid = 2 /\ clock = 1 /\ faults = 0
  BY DEF Init
<1>3. 1 \in 1 .. LastPeriod /\ 0 \in 0 .. MaxFaults /\ 0 \in 0 .. Retries /\ 0 \in 0 .. LastPeriod
      /\ 0 \in 0 .. nextXid - 1
  BY <1>2, BoundsType
<1>4. NoAppend \in Appending
  <2>1. WriterLocks({}, {}) = {}
    BY DEF WriterLocks, Wanted
  <2>2. {} \in SomeLocks
    BY <2>1 DEF SomeLocks
  <2> QED
    BY <1>2, <2>2 DEF NoAppend, Appending
<1>5. \A q \in Requests : NewCall(q) \in CallType
  BY <1>3, <1>4 DEF NewCall, CallType, Phases, Answers, NoMarker
<1>6. call \in [Calls -> CallType]
  BY <1>1, <1>5, SendingsType
<1>7. \A r \in log : (r \in InitialRows \/ IsWritten(r)) /\ IsTagged(r.event)
  BY <1>2, InitialRowsType DEF IsTagged
<1>8. TypeInv
  BY <1>2, <1>3, <1>6, <1>7 DEF TypeInv
<1>9. \A q : PhaseOK(NewCall(q))
  <2>1. \A q : /\ NewCall(q).phase = "precheck" /\ NewCall(q).answer = "none" /\ NewCall(q).now = 0
               /\ NewCall(q).lookup = {} /\ NewCall(q).reads = <<>>
    BY DEF NewCall
  <2>2. Len(<<>>) = 0
    OBVIOUS
  <2> QED
    BY <1>2, <2>1, <2>2 DEF PhaseOK
<1> QED
  BY <1>1, <1>8, <1>9 DEF PhaseInv

LEMMA UnchangingGrows == ASSUME TypeInv, Unchanging PROVE Grows
BY DEF Unchanging, Grows, TypeInv

(* One call becomes e, the log grows. *)
LEMMA OneBecomes ==
  ASSUME TypeInv, PhaseInv, Grows, NEW c \in Calls, NEW e, call' = [call EXCEPT ![c] = e],
         e \in CallType', PhaseOK(e)', faults' \in 0 .. MaxFaults,
         \A r \in log' : r \in log \/ (IsWritten(r)' /\ IsTagged(r.event))
  PROVE  TypeInv' /\ PhaseInv'
<1>1. CallType \subseteq CallType' /\ \A r : IsWritten(r) => IsWritten(r)'
  BY TypesGrow
<1>2. \A o \in Calls \ {c} : call'[o] = call[o] /\ call[o] \in CallType
  BY DEF TypeInv
<1>3. call'[c] = e
  BY DEF TypeInv
<1>4. call' \in [Calls -> CallType']
  BY <1>1, <1>2, <1>3 DEF TypeInv
<1>5. \A r \in log' : (r \in InitialRows \/ IsWritten(r)') /\ IsTagged(r.event)
  BY <1>1 DEF TypeInv
<1>6. InitialRows \subseteq log' /\ commits' \in Nat /\ nextXid' \in Nat \ {0, 1} /\ clock' \in 1 .. LastPeriod
  BY DEF Grows, TypeInv
<1>7. TypeInv'
  BY <1>4, <1>5, <1>6 DEF TypeInv
<1>8. \A o \in Calls \ {c} : PhaseOK(call[o])'
  <2> SUFFICES ASSUME NEW o \in Calls \ {c} PROVE PhaseOK(call[o])'
    OBVIOUS
  <2> DEFINE d == call[o]
  <2>1. d \in CallType /\ PhaseOK(d) /\ call'[o] = d
    BY <1>2 DEF PhaseInv
  <2>2. \E x \in CallType : x = d /\ PhaseOK(x)'
    <3>1. \A x \in CallType : PhaseOK(x) => PhaseOK(x)'
      BY PhaseStays
    <3> QED
      BY <2>1, <3>1
  <2> QED
    BY <2>1, <2>2
<1>9. PhaseInv'
  <2> SUFFICES ASSUME NEW o \in Calls PROVE PhaseOK(call[o])'
    BY DEF PhaseInv
  <2>1. CASE o = c
    BY <1>3, <2>1
  <2> QED
    BY <1>8, <2>1
<1> QED
  BY <1>7, <1>9

LEMMA OneBecomesAtOnce ==
  ASSUME TypeInv, PhaseInv, Unchanging, NEW c \in Calls, NEW e \in CallType, call' = [call EXCEPT ![c] = e],
         PhaseOK(e), faults' \in 0 .. MaxFaults
  PROVE  TypeInv' /\ PhaseInv'
<1>1. Grows
  BY UnchangingGrows
<1>2. e \in CallType' /\ PhaseOK(e)'
  BY <1>1, TypesGrow, PhaseStays
<1> QED
  BY <1>1, <1>2, OneBecomes DEF Unchanging

(* A call that is told its request is done already. *)
LEMMA RepeatKeeps ==
  ASSUME TypeInv, PhaseInv, NEW c \in Calls, NEW e, NEW rows \in SUBSET log, IsRepeat(c, e, rows)
  PROVE  e \in CallType /\ PhaseOK(e)
<1> DEFINE b == nextXid - 1
<1>1. b \in Nat /\ \A r \in rows : r.xid \in Nat /\ r.xid <= b
  BY InitialRowsType DEF TypeInv, IsWritten
<1> HIDE DEF b
<1>2. LatestOf(rows) \in 0 .. b /\ NoMarker \in 0 .. b
  BY <1>1, LatestOfRows DEF NoMarker
<1>3. call[c] \in CallType /\ call[c].now <= clock
  BY DEF TypeInv, PhaseInv, PhaseOK
<1> QED
  BY <1>2, <1>3, OverKeeps DEF IsRepeat, Answers, b

LEMMA RefusedKeeps ==
  ASSUME TypeInv, PhaseInv, NEW c \in Calls, NEW e, IsRefused(c, e)
  PROVE  e \in CallType /\ PhaseOK(e)
<1>1. call[c] \in CallType /\ call[c].now <= clock /\ NoMarker \in 0 .. nextXid - 1
  BY DEF TypeInv, PhaseInv, PhaseOK, NoMarker
<1>2. CASE e = Over(call[c], "conflict", NoMarker)
  BY <1>1, <1>2, OverKeeps DEF Answers
<1>3. CASE call[c].tries < Retries /\ e = [NewCall(Request(c)) EXCEPT !.tries = call[c].tries + 1]
  <2>1. call[c].tries + 1 \in 0 .. Retries /\ Request(c) \in Requests
    BY <1>1, <1>3, BoundsType DEF CallType, Request
  <2>2. 0 \in 0 .. LastPeriod /\ 0 \in 0 .. nextXid - 1
    BY BoundsType DEF TypeInv
  <2>3. e \in CallType
    <3>1. NewCall(Request(c)) \in CallType
      <4>1. 0 \in 0 .. Retries
        BY BoundsType
      <4> QED
        BY <2>1, <2>2, <4>1, NoAppendType DEF NewCall, CallType, Phases, Answers, NoMarker
    <3> QED
      BY <1>3, <2>1, <3>1 DEF CallType
  <2>4. /\ e.phase = "precheck" /\ e.answer = "none" /\ e.now = 0 /\ e.lookup = {} /\ e.reads = <<>>
    BY <1>3 DEF NewCall
  <2>5. Len(<<>>) = 0
    OBVIOUS
  <2> QED
    BY <2>3, <2>4, <2>5 DEF PhaseOK, TypeInv
<1> QED
  BY <1>2, <1>3 DEF IsRefused

LEMMA StartsKeep ==
  ASSUME WellDefined, TypeInv, PhaseInv, NEW c \in Calls, NEW e, Starts(c, e)
  PROVE  e \in CallType /\ PhaseOK(e)
<1>1. call[c] \in CallType /\ call[c].lookup = {} /\ call[c].reads = <<>> /\ call[c].answer = "none"
  BY DEF TypeInv, PhaseInv, PhaseOK, Starts, At
<1>2. PICK now \in 1 .. clock :
        \/ LookupOf(Request(c)) = {} /\ Proceeds([call[c] EXCEPT !.now = now], e)
        \/ LookupOf(Request(c)) # {} /\ e = [call[c] EXCEPT !.phase = "resolve", !.now = now]
  BY DEF Starts
<1> DEFINE d == [call[c] EXCEPT !.now = now]
<1>3. now \in 0 .. LastPeriod /\ now <= clock /\ now # 0
  <2>1. clock \in 1 .. LastPeriod /\ LastPeriod \in Nat
    BY BoundsType DEF TypeInv
  <2> QED
    BY <2>1
<1>4. /\ d \in CallType /\ d.lookup = {} /\ d.reads = <<>> /\ d.now = now /\ d.request = Request(c)
      /\ d.answer = "none"
  BY <1>1, <1>3 DEF CallType, Request
<1>5. Len(<<>>) = 0
  OBVIOUS
<1>6. CASE LookupOf(Request(c)) = {} /\ Proceeds(d, e)
  <2> HIDE DEF d
  <2>1. ReadsAreMade(d)
    BY <1>4, <1>6, NothingRead
  <2> QED
    BY <1>3, <1>4, <1>5, <1>6, <2>1, ProceedsKeeps
<1>7. CASE LookupOf(Request(c)) # {} /\ e = [call[c] EXCEPT !.phase = "resolve", !.now = now]
  <2>1. e = [d EXCEPT !.phase = "resolve"]
    BY <1>1, <1>7 DEF CallType
  <2> HIDE DEF d
  <2>2. e \in CallType
    BY <1>4, <2>1 DEF CallType, Phases
  <2>3. e.phase = "resolve" /\ e.now = now /\ e.lookup = {} /\ e.reads = <<>>
        /\ e.answer = "none" /\ e.request = Request(c)
    BY <1>4, <2>1 DEF CallType
  <2> QED
    BY <1>3, <1>5, <1>7, <2>2, <2>3 DEF PhaseOK
<1> QED
  BY <1>2, <1>6, <1>7

LEMMA ResolvesKeep ==
  ASSUME WellDefined, TypeInv, PhaseInv, NEW c \in Calls, NEW e, Resolves(c, e)
  PROVE  e \in CallType /\ PhaseOK(e)
<1> DEFINE d == [call[c] EXCEPT !.lookup = {ReadOf(LookupOf(Request(c)))}]
<1>1. /\ call[c] \in CallType /\ call[c].reads = <<>> /\ call[c].answer = "none"
      /\ call[c].now # 0 /\ call[c].now <= clock /\ LookupOf(call[c].request) # {}
  BY DEF TypeInv, PhaseInv, PhaseOK, Resolves, At
<1>2. d \in CallType /\ ReadsAreMade(d)
  BY <1>1, LookupRead DEF Request
<1>3. d.now = call[c].now /\ d.answer = "none" /\ d.reads = <<>>
  BY <1>1 DEF CallType
<1>4. Proceeds(d, e)
  BY DEF Resolves
<1>5. Len(<<>>) = 0
  OBVIOUS
<1> HIDE DEF d
<1> QED
  BY <1>1, <1>2, <1>3, <1>4, <1>5, ProceedsKeeps

LEMMA LoadsKeep ==
  ASSUME WellDefined, TypeInv, PhaseInv, NEW c \in Calls, NEW e, Loads(c, e)
  PROVE  e \in CallType /\ PhaseOK(e)
<1> DEFINE d == [call[c] EXCEPT !.reads = Append(call[c].reads, ReadOf(ToRead(call[c])))]
<1>1. /\ call[c] \in CallType /\ call[c].answer = "none"
      /\ call[c].now # 0 /\ call[c].now <= clock /\ ReadsAreMade(call[c]) /\ ToRead(call[c]) # {}
  BY DEF TypeInv, PhaseInv, PhaseOK, Loads, At
<1>2. d \in CallType /\ ReadsAreMade(d) /\ Len(d.reads) <= 3
  BY <1>1, NextRead
<1>3. d.now = call[c].now /\ d.answer = "none"
  BY <1>1 DEF CallType
<1>4. Proceeds(d, e)
  BY DEF Loads
<1> HIDE DEF d
<1> QED
  BY <1>1, <1>2, <1>3, <1>4, ProceedsKeeps

(* The append is in the same state, later in its transaction. *)
LEMMA InsertedKeeps ==
  ASSUME TypeInv, NEW d \in CallType, PhaseOK(d), d.phase \in {"append", "record"},
         NEW x \in 0 .. nextXid - 1, x >= 2, NEW phase \in {"record", "commit"},
         NEW e, e = [d EXCEPT !.phase = phase, !.xid = x]
  PROVE  e \in CallType /\ PhaseOK(e)
<1>1. e \in CallType
  BY DEF CallType, Phases
<1>2. /\ e.phase = phase /\ e.now = d.now /\ e.answer = d.answer /\ e.reads = d.reads
      /\ e.lookup = d.lookup /\ e.request = d.request /\ e.append = d.append /\ e.xid = x
  BY DEF CallType
<1>3. /\ ToRead(e) = ToRead(d) /\ Loaded(e) = Loaded(d) /\ (ReadsAreMade(e) <=> ReadsAreMade(d))
      /\ Decision(e) = Decision(d) /\ Own(e) = Own(d) /\ Emits(e) = Emits(d) /\ (IsEmitting(e) <=> IsEmitting(d))
  BY <1>2 DEF ToRead, Loaded, ReadsAreMade, Decision, Own, Emits, IsEmitting
<1>4. IsDecided(e) <=> IsDecided(d)
  BY <1>2, <1>3 DEF IsDecided
<1> QED
  BY <1>1, <1>2, <1>3, <1>4 DEF PhaseOK

LEMMA BelowNext == ASSUME NEW n \in Nat, NEW m, m = n + 1 PROVE n \in 0 .. m - 1 /\ m \in Nat /\ n <= m
OBVIOUS

LEMMA SameOrNext == ASSUME NEW n \in Nat, NEW m, m = n \/ m = n + 1 PROVE m \in Nat /\ n <= m
OBVIOUS

LEMMA InsertGrows == ASSUME TypeInv, NEW c, MayInsert(c) PROVE Grows
<1>1. nextXid \in Nat /\ nextXid' = nextXid + 1
  BY DEF TypeInv, MayInsert
<1>2. nextXid' \in Nat /\ nextXid <= nextXid'
  BY <1>1, BelowNext
<1> QED
  BY <1>2 DEF MayInsert, Grows, TypeInv

LEMMA InsertsKeep ==
  ASSUME TypeInv, PhaseInv, NEW c \in Calls, NEW e, Inserts(c, e)
  PROVE  e \in CallType' /\ PhaseOK(e)'
<1>0. PICK d \in CallType : d = call[c]
  BY DEF TypeInv
<1>1. Grows
  BY InsertGrows DEF Inserts
<1>2. d \in CallType' /\ d \in CallType /\ PhaseOK(d)
  BY <1>0, <1>1, TypesGrow DEF PhaseInv
<1>3. nextXid \in 0 .. nextXid' - 1 /\ nextXid >= 2
  <2>1. nextXid \in Nat \ {0, 1} /\ nextXid' = nextXid + 1
    BY DEF TypeInv, Inserts, MayInsert
  <2> QED
    BY <2>1, BelowNext
<1>4. d.phase = "append" /\ e = [d EXCEPT !.phase = "record", !.xid = nextXid]
  BY <1>0 DEF Inserts, MayInsert, At
<1>5. e \in CallType'
  BY <1>2, <1>3, <1>4 DEF CallType, Phases
<1>6. /\ e.phase = "record" /\ e.now = d.now /\ e.answer = d.answer /\ e.reads = d.reads
      /\ e.lookup = d.lookup /\ e.request = d.request /\ e.append = d.append /\ e.xid = nextXid
  BY <1>2, <1>4 DEF CallType
<1>7. /\ ToRead(e) = ToRead(d) /\ Loaded(e) = Loaded(d)
      /\ Decision(e) = Decision(d) /\ Own(e) = Own(d) /\ Emits(e) = Emits(d) /\ (IsEmitting(e) <=> IsEmitting(d))
  BY <1>6 DEF ToRead, Loaded, Decision, Own, Emits, IsEmitting
<1>8. IsDecided(e)
  BY <1>2, <1>4, <1>6, <1>7 DEF IsDecided, PhaseOK
<1>9. IsDecided(e)' /\ ToRead(e)' = ToRead(e)
  BY <1>8 DEF IsDecided, IsEmitting
<1>10. ReadsAreMade(e)'
  <2>1. ReadsAreMade(d)'
    BY <1>1, <1>2, <1>4, ReadsStay DEF PhaseOK
  <2> QED
    BY <1>6, <2>1 DEF ReadsAreMade
<1>11. e.now <= clock' /\ e.now # 0 /\ e.answer = "none" /\ Len(e.reads) <= 3
  BY <1>2, <1>4, <1>6 DEF PhaseOK, Inserts, MayInsert
<1> QED
  BY <1>3, <1>5, <1>6, <1>9, <1>10, <1>11 DEF PhaseOK

LEMMA EmitsTypes ==
  ASSUME WellDefined, TypeInv, NEW d \in CallType, d.now # 0, ReadsAreMade(d), ToRead(d) = {}
  PROVE  \A e \in Emits(d) : e \in Event /\ IsTagged(e)
<1>1. \A e \in Loaded(d).prefix : IsTagged(e)
  BY LoadTypes
<1>2. \A e \in Own(d) : IsTagged(e)
  <2>1. d.request \in Requests
    BY DEF CallType
  <2>2. \A e \in Decision(d).events : e.type \notin {OpenedType, ClosedType} /\ e \in Event
    BY <2>1 DEF WellDefined, IsDecision, IsTurn, Decision
  <2>3. \A e \in Event : [e EXCEPT !.tags = e.tags \cup Loaded(d).scope].type = e.type
    BY DEF Event
  <2>4. \A e \in Own(d) : e.type \notin {OpenedType, ClosedType}
    BY <2>2, <2>3 DEF Own, OwnEvents
  <2> QED
    BY <2>4 DEF IsTagged
<1>3. Emits(d) \subseteq Event
  BY AppendTypes DEF AppendOf, Appending
<1> QED
  BY <1>1, <1>2, <1>3 DEF Emits

(* What a committing call's record says of it. *)
LEMMA CommittingIs ==
  ASSUME TypeInv, PhaseInv, NEW c \in Calls, call[c].phase \in {"append", "record", "commit"}
  PROVE  /\ call[c] \in CallType /\ Request(c) \in Requests
         /\ call[c].now \in 1 .. LastPeriod /\ call[c].now # 0 /\ call[c].now <= clock
         /\ ReadsAreMade(call[c]) /\ ToRead(call[c]) = {} /\ IsEmitting(call[c]) /\ IsDecided(call[c])
         /\ call[c].append.events = Emits(call[c])
         /\ call[c].append \in Appending
         /\ call[c].phase \in {"record", "commit"} => call[c].xid \in 2 .. nextXid - 1
<1>1. call[c] \in CallType /\ PhaseOK(call[c])
  BY DEF TypeInv, PhaseInv
<1>2. call[c].now \in 0 .. LastPeriod /\ call[c].xid \in 0 .. nextXid - 1 /\ Request(c) \in Requests
      /\ call[c].append \in Appending
  BY <1>1 DEF CallType, Request
<1>3. call[c].now \in 1 .. LastPeriod
  BY <1>1, <1>2 DEF PhaseOK
<1>4. call[c].phase \in {"record", "commit"} => call[c].xid \in 2 .. nextXid - 1
  BY <1>1, <1>2 DEF PhaseOK
<1> QED
  BY <1>1, <1>2, <1>3, <1>4 DEF PhaseOK, IsDecided

LEMMA CommitGrows ==
  ASSUME WellDefined, TypeInv, PhaseInv, NEW c \in Calls, Committed(c)
  PROVE  /\ Grows
         /\ \A r \in RowsOf(c) : r.at = commits + 1 /\ IsWritten(r)' /\ IsTagged(r.event)
<1>1. log' = log \cup RowsOf(c) /\ commits' = commits + 1 /\ UNCHANGED <<nextXid, clock>>
  BY DEF Committed
<1>2. commits \in Nat /\ commits' \in Nat /\ commits <= commits' /\ commits < commits + 1
      /\ commits + 1 \in 1 .. commits'
  BY <1>1 DEF TypeInv
<1>3. /\ call[c] \in CallType /\ Request(c) \in Requests
      /\ call[c].now \in 1 .. LastPeriod /\ call[c].now # 0
      /\ ReadsAreMade(call[c]) /\ ToRead(call[c]) = {}
      /\ call[c].append.events = Emits(call[c])
      /\ call[c].xid \in 2 .. nextXid - 1
  BY CommittingIs DEF Committed, At
<1>4. \A e \in call[c].append.events : e \in Event /\ IsTagged(e)
  BY <1>3, EmitsTypes
<1>5. \A r \in RowsOf(c) :
        /\ r.event \in Event /\ IsTagged(r.event) /\ r.xid = call[c].xid /\ r.at = commits + 1
        /\ r.request = Request(c) /\ r.by = c /\ r.now = call[c].now /\ r.cause = Request(c).cause
        /\ r.fingerprint = FingerprintOf(Request(c))
  BY <1>4 DEF RowsOf
<1>6. \A r \in RowsOf(c) : IsWritten(r)'
  BY <1>1, <1>2, <1>3, <1>5 DEF IsWritten
<1>7. Grows
  BY <1>1, <1>2, <1>5 DEF Grows, TypeInv
<1> QED
  BY <1>5, <1>6, <1>7

LEMMA CommitsKeep ==
  ASSUME WellDefined, TypeInv, PhaseInv, NEW c \in Calls, NEW e, Commits(c, e)
  PROVE  e \in CallType' /\ PhaseOK(e)'
<1>1. Grows
  BY CommitGrows DEF Commits
<1>2. call[c] \in CallType /\ call[c].now <= clock /\ call[c].xid \in 0 .. nextXid - 1
  BY DEF TypeInv, PhaseInv, PhaseOK, CallType
<1>3. NoMarker \in 0 .. nextXid - 1
  BY DEF NoMarker, TypeInv
<1>4. e \in CallType /\ PhaseOK(e)
  BY <1>2, <1>3, OverKeeps DEF Commits, Answers
<1> QED
  BY <1>1, <1>4, TypesGrow, PhaseStays

LEMMA TypesAreInductive ==
  ASSUME WellDefined, TypeInv, PhaseInv, [Next]_vars
  PROVE  TypeInv' /\ PhaseInv'
<1>1. CASE UNCHANGED vars
  <2>1. Unchanging /\ UNCHANGED <<call, faults>>
    BY <1>1 DEF vars, Unchanging
  <2>2. TypeInv'
    BY <2>1 DEF TypeInv, IsWritten, CallType, Reading, Appending, Unchanging
  <2>3. \A c \in Calls : PhaseOK(call[c])'
    <3>1. Grows
      BY <2>1, UnchangingGrows
    <3>2. \A d \in CallType : PhaseOK(d) => PhaseOK(d)'
      BY <3>1, PhaseStays
    <3> QED
      BY <2>1, <3>2 DEF TypeInv, PhaseInv
  <2> QED
    BY <2>2, <2>3 DEF PhaseInv
<1>2. CASE clock < LastPeriod /\ clock' = clock + 1 /\ UNCHANGED <<log, commits, nextXid, call, faults>>
  <2>1. Grows
    BY <1>2, BoundsType DEF Grows, TypeInv
  <2>2. CallType \subseteq CallType' /\ \A r : IsWritten(r) => IsWritten(r)'
    BY <2>1, TypesGrow
  <2>3. \A d \in CallType : PhaseOK(d) => PhaseOK(d)'
    BY <2>1, PhaseStays
  <2>4. TypeInv'
    BY <1>2, <2>1, <2>2 DEF TypeInv, Grows
  <2>5. PhaseInv'
    BY <1>2, <2>3 DEF TypeInv, PhaseInv
  <2> QED
    BY <2>4, <2>5
<1>3. ASSUME NEW c \in Calls, NEW e, Moves(c, e), call' = [call EXCEPT ![c] = e]
      PROVE  TypeInv' /\ PhaseInv'
  <2>1. faults \in 0 .. MaxFaults /\ (Fault => faults' \in 0 .. MaxFaults)
    BY BoundsType DEF TypeInv, Fault
  <2>2. Duplicates(c) \subseteq log /\ Emitted(Request(c)) \subseteq log
    BY DEF Duplicates, Of, Emitted
  <2>3. CASE Finds(c, e)
    BY <1>3, <2>1, <2>2, <2>3, RepeatKeeps, OneBecomesAtOnce DEF Finds
  <2>4. CASE Starts(c, e)
    BY <1>3, <2>1, <2>4, StartsKeep, OneBecomesAtOnce DEF Starts
  <2>5. CASE Resolves(c, e)
    BY <1>3, <2>1, <2>5, ResolvesKeep, OneBecomesAtOnce DEF Resolves
  <2>6. CASE Loads(c, e)
    BY <1>3, <2>1, <2>6, LoadsKeep, OneBecomesAtOnce DEF Loads
  <2>7. CASE FindsLate(c, e)
    BY <1>3, <2>1, <2>2, <2>7, RepeatKeeps, OneBecomesAtOnce DEF FindsLate
  <2>8. CASE Conflicting(c, e)
    BY <1>3, <2>1, <2>8, RefusedKeeps, OneBecomesAtOnce DEF Conflicting
  <2>9. CASE FindsEmitted(c, e)
    <3>1. Grows /\ e \in CallType /\ PhaseOK(e)
      BY <2>2, <2>9, InsertGrows, RepeatKeeps DEF FindsEmitted
    <3>2. e \in CallType' /\ PhaseOK(e)'
      BY <3>1, TypesGrow, PhaseStays
    <3>3. log' = log /\ faults' = faults
      BY <2>9 DEF FindsEmitted, MayInsert
    <3> QED
      BY <1>3, <2>1, <3>1, <3>2, <3>3, OneBecomes
  <2>10. CASE Inserts(c, e)
    <3>1. Grows /\ e \in CallType' /\ PhaseOK(e)'
      BY <2>10, InsertGrows, InsertsKeep DEF Inserts
    <3>2. log' = log /\ faults' = faults
      BY <2>10 DEF Inserts, MayInsert
    <3> QED
      BY <1>3, <2>1, <3>1, <3>2, OneBecomes
  <2>11. CASE Records(c, e)
    <3>1. /\ call[c] \in CallType /\ PhaseOK(call[c]) /\ call[c].phase = "record"
          /\ call[c].xid \in 0 .. nextXid - 1 /\ call[c].xid >= 2
      BY <2>11 DEF TypeInv, PhaseInv, PhaseOK, Records, At, CallType
    <3>2. e = [call[c] EXCEPT !.phase = "commit", !.xid = call[c].xid]
      BY <2>11, <3>1 DEF Records, CallType
    <3>3. e \in CallType /\ PhaseOK(e)
      BY <3>1, <3>2, InsertedKeeps
    <3> QED
      BY <1>3, <2>1, <2>11, <3>3, OneBecomesAtOnce DEF Records
  <2>12. CASE Commits(c, e)
    <3>1. Grows /\ e \in CallType' /\ PhaseOK(e)' /\ \A r \in RowsOf(c) : IsWritten(r)' /\ IsTagged(r.event)
      BY <2>12, CommitGrows, CommitsKeep DEF Commits
    <3>2. log' = log \cup RowsOf(c) /\ faults' \in 0 .. MaxFaults
      BY <2>1, <2>12 DEF Commits, Committed
    <3> QED
      BY <1>3, <3>1, <3>2, OneBecomes
  <2>13. CASE Fails(c, e)
    <3>1. call[c] \in CallType /\ call[c].now <= clock /\ NoMarker \in 0 .. nextXid - 1
      BY DEF TypeInv, PhaseInv, PhaseOK, NoMarker
    <3>2. e \in CallType /\ PhaseOK(e)
      BY <2>13, <3>1, OverKeeps DEF Fails, Answers
    <3> QED
      BY <1>3, <2>1, <2>13, <3>2, OneBecomesAtOnce DEF Fails
  <2> QED
    BY <1>3, <2>3, <2>4, <2>5, <2>6, <2>7, <2>8, <2>9, <2>10, <2>11, <2>12, <2>13 DEF Moves
<1> QED
  BY <1>1, <1>2, <1>3, StepsAreMoves

LEMMA TypesFollow == ASSUME TypeInv, PhaseInv PROVE TypeOK
<1>1. ASSUME NEW r \in log PROVE r.event \in Event /\ r.at \in 0 .. commits /\ r.xid \in 1 .. nextXid - 1
  BY InitialRowsType DEF TypeInv, IsWritten
<1>2. ASSUME NEW c \in Calls
      PROVE  /\ call[c].phase \in Phases /\ call[c].request \in Requests /\ call[c].tries \in 0 .. Retries
             /\ call[c].now \in 0 .. clock /\ Len(call[c].reads) <= 3
             /\ \A i \in DOMAIN call[c].reads : call[c].reads[i].upTo \in 0 .. commits
             /\ \A r \in call[c].lookup : r.upTo \in 0 .. commits
             /\ call[c].answer \in Answers /\ call[c].marker \in 0 .. nextXid - 1
             /\ call[c].phase \in {"record", "commit"} => call[c].xid \in 2 .. nextXid - 1
             /\ (call[c].answer = "none") <=> call[c].phase # "answered"
  <2>1. call[c] \in CallType /\ PhaseOK(call[c])
    BY DEF TypeInv, PhaseInv
  <2>2. call[c].reads \in Seq(Reading) /\ call[c].lookup \in SUBSET Reading
    BY <2>1 DEF CallType
  <2>3. \A i \in DOMAIN call[c].reads : call[c].reads[i].upTo \in 0 .. commits
    <3>1. \A i \in DOMAIN call[c].reads : call[c].reads[i] \in Reading
      BY <2>2
    <3> QED
      BY <3>1 DEF Reading
  <2>4. \A r \in call[c].lookup : r.upTo \in 0 .. commits
    BY <2>2 DEF Reading
  <2>5. call[c].phase \in {"record", "commit"} => call[c].xid \in 2 .. nextXid - 1
    BY CommittingIs
  <2>6. call[c].now \in 0 .. clock
    BY <2>1 DEF CallType, PhaseOK
  <2> QED
    BY <2>1, <2>3, <2>4, <2>5, <2>6 DEF CallType, PhaseOK
<1> QED
  BY <1>1, <1>2 DEF TypeOK, TypeInv

(* The log is one of committed transactions, and every call's record is    *)
(* what its phase says: it has read what its load reads, each read as the  *)
(* log was, and appends what it decided on them.                           *)
THEOREM CommandTypes == ASSUME WellDefined PROVE Spec => [](TypeOK /\ PhaseInv)
<1>1. Init => TypeInv /\ PhaseInv
  BY InitTypes
<1>2. TypeInv /\ PhaseInv /\ [Next]_vars => (TypeInv /\ PhaseInv)'
  BY TypesAreInductive
<1>3. TypeInv /\ PhaseInv => TypeOK /\ PhaseInv
  BY TypesFollow
<1> QED
  BY <1>1, <1>2, <1>3, PTL DEF Spec

-----------------------------------------------------------------------------
(* What a call holds between its insert and its commit: its locks and its  *)
(* emit key, to the exclusion of every other call; nothing that it         *)
(* depends on has been appended since it was seen.                         *)
HasInserted(c) == call[c].phase \in {"record", "commit"}

SameEmitKey(q, p) == q.cause # NoCause /\ p.cause = q.cause /\ FingerprintOf(p) = FingerprintOf(q)

HeldInv ==
  \A c \in Calls : HasInserted(c) =>
    /\ Duplicates(c) = {} /\ Emitted(Request(c)) = {}
    /\ \A r \in Of(call[c].append.condition, log) : r.at <= call[c].append.seen /\ r.xid < call[c].xid
    /\ \A o \in Calls \ {c} : HasInserted(o) =>
         /\ \A h \in call[o].append.locks, l \in call[c].append.locks : ~ Incompatible(h, l)
         /\ ~ SameEmitKey(Request(c), Request(o))

(* A row is of the one commit of the call that appended it, and commits    *)
(* are numbered one by one.                                                *)
RowsInv ==
  /\ \A r \in Written :
       /\ call[r.by].answer \in {"created", "error"}
       /\ r.xid = call[r.by].xid /\ r.request = Request(r.by) /\ r.now = call[r.by].now
  /\ \A r, s \in Written : /\ r.at = s.at <=> r.by = s.by
                           /\ r.cause # NoCause /\ r.cause = s.cause /\ r.fingerprint = s.fingerprint => r.by = s.by
  /\ \A n \in 1 .. commits : \E r \in Written : r.at = n

(* A commit under a key has an event that the key selects.                 *)
KeysInv ==
  \A r \in Written : r.request.idempotentBy # {} =>
    \E s \in Written : s.by = r.by /\ Matches(r.request.idempotentBy, s.event)

(* What an answer rests on. *)
SaysNothing(decision) == decision.tag = "noop" \/ (decision.tag = "emit" /\ decision.events = {})

NoopRests(q, marker) ==
  \E rows \in SUBSET Of(ModelOf(q, {}), log) : SaysNothing(Decide(q, {}, rows)) /\ marker = LatestOf(rows)

IsDone(q, marker) ==
  LET rows == {r \in log : r.xid <= marker}
  IN  \/ \E r \in rows \cap Written : r.request.id = q.id
      \/ q.cause # NoCause /\ \E r \in rows : r.cause = q.cause
      \/ \E r \in Of(q.idempotentBy, rows) : r.fingerprint = NoFingerprint

IsTaken(q) ==
  \E r \in Written : /\ Matches(q.idempotentBy, r.event)
                     /\ r.request.id # q.id
                     /\ (q.cause = NoCause \/ r.cause # q.cause)

AnswerRests(c, d) ==
  /\ d.answer = "created" => d.marker = d.xid /\ \E r \in Written : r.by = c
  /\ d.answer = "idempotent" => IsDone(d.request, d.marker)
  /\ d.answer = "noop" /\ ReadsOnce(d.request) => NoopRests(d.request, d.marker)
  /\ d.answer = "mismatch" => IsTaken(d.request)

AnswersInv == \A c \in Calls : AnswerRests(c, call[c])

(* Each attempt has seen a commit more than the one before: that is what   *)
(* refused it.                                                             *)
TriesRest(d) ==
  /\ d.tries <= commits
  /\ \A x \in d.lookup : d.tries <= x.upTo
  /\ \A i \in DOMAIN d.reads : d.tries <= d.reads[i].upTo
  /\ d.phase \in {"append", "record", "commit"} => d.tries <= d.append.seen
  /\ d.answer = "conflict" => Retries < commits

TriesInv == faults = 0 => \A c \in Calls : TriesRest(call[c])

(* A move that neither inserts, records nor commits leaves the log as it   *)
(* is, and its call without locks.                                         *)
Quiet(c, e) == /\ UNCHANGED <<log, commits>>
               /\ nextXid' \in Nat /\ nextXid <= nextXid'
               /\ call[c].answer = "none"
               /\ e.phase \notin {"record", "commit"} /\ e.request = Request(c) /\ e.answer # "created"

LEMMA OverIs ==
  ASSUME NEW d \in CallType, NEW answer, NEW m
  PROVE  /\ Over(d, answer, m).phase = "answered" /\ Over(d, answer, m).answer = answer
         /\ Over(d, answer, m).marker = m /\ Over(d, answer, m).request = d.request
         /\ Over(d, answer, m).tries = d.tries /\ Over(d, answer, m).xid = d.xid /\ Over(d, answer, m).now = d.now
         /\ Over(d, answer, m).lookup = {} /\ Over(d, answer, m).reads = <<>>
BY DEF Over, CallType

LEMMA ProceedsQuietly ==
  ASSUME NEW d \in CallType, NEW e, Proceeds(d, e), d.answer = "none"
  PROVE  /\ e.phase \in {"load", "append", "answered"} /\ e.request = d.request
         /\ e.answer \in {"none", "died", "refused", "defect", "noop"} /\ e.tries = d.tries
<1>1. CASE e = [d EXCEPT !.phase = "load"]
  BY <1>1 DEF CallType
<1>2. CASE e = [d EXCEPT !.phase = "append", !.append = AppendOf(d.request, d, Loaded(d), Emits(d))]
  BY <1>2 DEF CallType
<1>3. CASE \E answer \in {"died", "refused", "defect", "noop"} : \E m : e = Over(d, answer, m)
  BY <1>3, OverIs
<1> QED
  BY <1>1, <1>2, <1>3 DEF Proceeds

LEMMA QuietMoves ==
  ASSUME WellDefined, TypeInv, PhaseInv, NEW c \in Calls, NEW e, Moves(c, e)
  PROVE  Quiet(c, e) \/ Inserts(c, e) \/ Records(c, e) \/ Commits(c, e)
<1>1. call[c] \in CallType /\ PhaseOK(call[c])
  BY DEF TypeInv, PhaseInv
<1>2. Unchanging => UNCHANGED <<log, commits>> /\ nextXid' \in Nat /\ nextXid <= nextXid'
  BY DEF Unchanging, TypeInv
<1>3. MayInsert(c) => UNCHANGED <<log, commits>> /\ nextXid' \in Nat /\ nextXid <= nextXid'
  BY InsertGrows DEF MayInsert, Grows
<1>4. ASSUME NEW answer \in {"idempotent", "mismatch", "conflict", "error"}, NEW m, e = Over(call[c], answer, m)
      PROVE  e.phase = "answered" /\ e.request = Request(c) /\ e.answer # "created"
  BY <1>1, <1>4, OverIs DEF Request
<1>5. ASSUME NEW rows, IsRepeat(c, e, rows)
      PROVE  e.phase = "answered" /\ e.request = Request(c) /\ e.answer # "created"
  BY <1>4, <1>5 DEF IsRepeat
<1>6. ~ At(c, "answered") => call[c].answer = "none"
  BY <1>1 DEF PhaseOK, At
<1>7. CASE Finds(c, e)
  BY <1>2, <1>5, <1>6, <1>7 DEF Finds, Quiet, At
<1>8. CASE Starts(c, e)
  <2>1. PICK now \in 1 .. clock :
          \/ LookupOf(Request(c)) = {} /\ Proceeds([call[c] EXCEPT !.now = now], e)
          \/ LookupOf(Request(c)) # {} /\ e = [call[c] EXCEPT !.phase = "resolve", !.now = now]
    BY <1>8 DEF Starts
  <2> DEFINE d == [call[c] EXCEPT !.now = now]
  <2>2. d \in CallType /\ d.answer = "none" /\ d.request = Request(c)
    <3>1. now \in 0 .. LastPeriod
      BY BoundsType DEF TypeInv
    <3> QED
      BY <1>1, <1>6, <1>8, <3>1 DEF Starts, At, CallType, Request
  <2>3. CASE Proceeds(d, e)
    <3> HIDE DEF d
    <3>1. e.phase \notin {"record", "commit"} /\ e.request = Request(c) /\ e.answer # "created"
      BY <2>2, <2>3, ProceedsQuietly
    <3> QED
      BY <1>2, <1>6, <1>8, <3>1 DEF Starts, Quiet, At
  <2>4. CASE e = [call[c] EXCEPT !.phase = "resolve", !.now = now]
    <3>1. e.phase = "resolve" /\ e.request = Request(c) /\ e.answer = call[c].answer
      BY <1>1, <2>4 DEF CallType, Request
    <3> QED
      BY <1>2, <1>6, <1>8, <3>1 DEF Starts, Quiet, At
  <2> QED
    BY <2>1, <2>3, <2>4
<1>9. CASE Resolves(c, e)
  <2> DEFINE d == [call[c] EXCEPT !.lookup = {ReadOf(LookupOf(Request(c)))}]
  <2>1. d.answer = "none" /\ d.request = Request(c) /\ Proceeds(d, e)
    BY <1>1, <1>6, <1>9 DEF Resolves, At, CallType, Request
  <2>2. d \in CallType
    BY <1>1, <1>9, LookupRead DEF Resolves, At, Request, PhaseOK
  <2>3. e.phase \in {"load", "append", "answered"} /\ e.request = Request(c) /\ e.answer # "created"
    <3> HIDE DEF d
    <3> QED
      BY <2>1, <2>2, ProceedsQuietly
  <2> QED
    BY <1>2, <1>6, <1>9, <2>3 DEF Resolves, Quiet, At
<1>10. CASE Loads(c, e)
  <2> DEFINE d == [call[c] EXCEPT !.reads = Append(call[c].reads, ReadOf(ToRead(call[c])))]
  <2>1. d.answer = "none" /\ d.request = Request(c) /\ Proceeds(d, e)
    BY <1>1, <1>6, <1>10 DEF Loads, At, CallType, Request
  <2>2. d \in CallType
    BY <1>1, <1>10, NextRead DEF Loads, At, PhaseOK
  <2>3. e.phase \in {"load", "append", "answered"} /\ e.request = Request(c) /\ e.answer # "created"
    <3> HIDE DEF d
    <3> QED
      BY <2>1, <2>2, ProceedsQuietly
  <2> QED
    BY <1>2, <1>6, <1>10, <2>3 DEF Loads, Quiet, At
<1>11. CASE FindsLate(c, e)
  BY <1>2, <1>5, <1>6, <1>11 DEF FindsLate, Quiet, At
<1>12. CASE Conflicting(c, e)
  <2>1. IsRefused(c, e)
    BY <1>12 DEF Conflicting
  <2>2. e.phase \notin {"record", "commit"} /\ e.request = Request(c) /\ e.answer # "created"
    <3>1. CASE e = Over(call[c], "conflict", NoMarker)
      BY <1>4, <3>1
    <3>2. CASE e = [NewCall(Request(c)) EXCEPT !.tries = call[c].tries + 1]
      BY <3>2 DEF NewCall
    <3> QED
      BY <2>1, <3>1, <3>2 DEF IsRefused
  <2> QED
    BY <1>2, <1>6, <1>12, <2>2 DEF Conflicting, Quiet, At
<1>13. CASE FindsEmitted(c, e)
  BY <1>3, <1>5, <1>6, <1>13 DEF FindsEmitted, MayInsert, Quiet, At
<1>14. CASE Fails(c, e)
  BY <1>2, <1>4, <1>6, <1>14 DEF Fails, Quiet
<1> QED
  BY <1>7, <1>8, <1>9, <1>10, <1>11, <1>12, <1>13, <1>14 DEF Moves

LEMMA MoveIsOf ==
  ASSUME TypeInv, NEW c \in Calls, NEW e, call' = [call EXCEPT ![c] = e]
  PROVE  call'[c] = e /\ \A o \in Calls \ {c} : call'[o] = call[o]
BY DEF TypeInv

LEMMA IncompatibleIsSymmetric == \A h, l : Incompatible(h, l) <=> Incompatible(l, h)
BY DEF Incompatible

LEMMA SameEmitKeyIsSymmetric == \A q, p : SameEmitKey(q, p) <=> SameEmitKey(p, q)
BY DEF SameEmitKey

(* Of two calls that have inserted, neither has inserted an event that the *)
(* other depends on.                                                       *)
LEMMA HeldExcludes ==
  ASSUME TypeInv, PhaseInv, HeldInv, NEW c \in Calls, NEW o \in Calls \ {c}, HasInserted(c), HasInserted(o),
         NEW e \in call[c].append.events
  PROVE  ~ Matches(call[o].append.condition \cup Request(o).idempotentBy, e)
<1> DEFINE items(x) == call[x].append.condition \cup Request(x).idempotentBy
<1>1. \A x \in {c, o} : IsDecided(call[x])
  BY CommittingIs DEF HasInserted
<1>2. \A x \in {c, o} : call[x].append.locks = WriterLocks(call[x].append.events, items(x))
  BY <1>1 DEF IsDecided, Request
<1>3. \A h \in call[c].append.locks, l \in call[o].append.locks : ~ Incompatible(h, l)
  BY DEF HeldInv
<1> QED
  BY <1>2, <1>3, LocksExclude

LEMMA HeldIsKept ==
  ASSUME WellDefined, TypeInv, PhaseInv, HeldInv, [Next]_vars
  PROVE  HeldInv'
<1> DEFINE Ok(o) == /\ Duplicates(o) = {} /\ Emitted(Request(o)) = {}
                    /\ \A r \in Of(call[o].append.condition, log) : r.at <= call[o].append.seen /\ r.xid < call[o].xid
           Apart(o, p) == /\ \A h \in call[p].append.locks, l \in call[o].append.locks : ~ Incompatible(h, l)
                          /\ ~ SameEmitKey(Request(o), Request(p))
<1>0. /\ HeldInv <=> \A o \in Calls : HasInserted(o) => Ok(o) /\ \A p \in Calls \ {o} : HasInserted(p) => Apart(o, p)
      /\ HeldInv' <=> \A o \in Calls : HasInserted(o)' => Ok(o)' /\ \A p \in Calls \ {o} : HasInserted(p)' => Apart(o, p)'
  BY DEF HeldInv
<1>1. CASE UNCHANGED vars \/ UNCHANGED <<log, commits, nextXid, call, faults>>
  BY <1>1 DEF vars, HeldInv, HasInserted, Duplicates, Emitted, Request
<1>2. ASSUME NEW c \in Calls, NEW e, Moves(c, e), call' = [call EXCEPT ![c] = e]
      PROVE  HeldInv'
  <2>1. call'[c] = e /\ \A o \in Calls \ {c} : call'[o] = call[o]
    BY <1>2, MoveIsOf
  <2>2. \A o \in Calls \ {c} : (HasInserted(o)' <=> HasInserted(o)) /\ Request(o)' = Request(o)
    BY <2>1 DEF HasInserted, Request
  <2>3. \A o, p \in Calls \ {c} : Apart(o, p)' <=> Apart(o, p)
    BY <2>1, <2>2
  <2>4. log' = log => \A o \in Calls \ {c} : Ok(o)' <=> Ok(o)
    BY <2>1, <2>2 DEF Duplicates, Emitted
  <2>5. CASE Quiet(c, e)
    <3>1. ~ HasInserted(c)' /\ log' = log
      BY <2>1, <2>5 DEF Quiet, HasInserted
    <3> HIDE DEF Ok, Apart
    <3> QED
      BY <1>0, <2>2, <2>3, <2>4, <3>1
  <2>6. CASE Records(c, e)
    <3>1. call[c] \in CallType /\ e = [call[c] EXCEPT !.phase = "commit"] /\ log' = log /\ At(c, "record")
      BY <2>6 DEF TypeInv, Records, Unchanging
    <3>2. /\ call'[c].append = call[c].append /\ call'[c].request = call[c].request /\ call'[c].xid = call[c].xid
          /\ HasInserted(c) /\ HasInserted(c)'
      BY <2>1, <3>1 DEF CallType, HasInserted, At
    <3>3. \A o \in Calls : /\ call'[o].append = call[o].append /\ call'[o].request = call[o].request
                           /\ call'[o].xid = call[o].xid /\ (HasInserted(o) <=> HasInserted(o)')
      BY <2>1, <2>2, <3>2
    <3>4. \A o, p \in Calls : (Apart(o, p)' <=> Apart(o, p)) /\ (Ok(o)' <=> Ok(o))
      BY <3>1, <3>3 DEF Duplicates, Emitted, Request
    <3> HIDE DEF Ok, Apart
    <3> QED
      BY <1>0, <3>3, <3>4
  <2>7. CASE Inserts(c, e)
    <3>1. call[c] \in CallType /\ e = [call[c] EXCEPT !.phase = "record", !.xid = nextXid] /\ log' = log /\ MayInsert(c)
          /\ At(c, "append")
      BY <2>7 DEF TypeInv, Inserts, MayInsert
    <3>2. call'[c].append = call[c].append /\ call'[c].request = call[c].request /\ call'[c].xid = nextXid
      BY <2>1, <3>1 DEF CallType
    <3>3. Ok(c)'
      <4>1. Duplicates(c) = {} /\ Emitted(Request(c)) = {} /\ Conflicts(c) = {}
        BY <2>7 DEF Inserts, MayInsert
      <4>2. \A r \in log : r.at \in Nat /\ r.xid < nextXid
        BY InitialRowsType DEF TypeInv, IsWritten
      <4>3. call[c].append.seen \in Nat
        BY <3>1 DEF CallType, Appending, TypeInv
      <4>4. \A r \in Of(call[c].append.condition, log) : r.at <= call[c].append.seen /\ r.xid < nextXid
        BY <4>1, <4>2, <4>3 DEF Conflicts, Of
      <4> QED
        BY <3>1, <3>2, <4>1, <4>4 DEF Duplicates, Emitted, Request
    <3>4. ASSUME NEW o \in Calls \ {c}, HasInserted(o) PROVE Apart(c, o) /\ Apart(o, c)
      <4>1. Held(o) = call[o].append.locks
        BY <3>4 DEF Held, HasInserted, At
      <4>2. \A h \in call[o].append.locks, l \in call[c].append.locks : ~ Incompatible(h, l)
        BY <3>1, <4>1 DEF MayInsert, LocksAreFree
      <4>3. Held(o) # {}
        <5>1. IsDecided(call[o])
          BY <3>4, CommittingIs DEF HasInserted
        <5>2. Emits(call[o]) # {}
          BY <5>1 DEF IsDecided, IsEmitting, Emits, Own, OwnEvents
        <5> QED
          BY <4>1, <5>1, <5>2, EventsAreLocked DEF IsDecided
      <4>4. ~ SameEmitKey(Request(c), Request(o))
        BY <3>1, <4>3 DEF MayInsert, EmitKeyIsTaken, SameEmitKey
      <4> QED
        BY <4>2, <4>4, IncompatibleIsSymmetric, SameEmitKeyIsSymmetric
    <3>5. \A o \in Calls \ {c} : HasInserted(o) => Apart(c, o)' /\ Apart(o, c)'
      BY <2>1, <2>2, <3>2, <3>4 DEF Request
    <3> HIDE DEF Ok, Apart
    <3> QED
      BY <1>0, <2>2, <2>3, <2>4, <3>1, <3>3, <3>5
  <2>8. CASE Commits(c, e)
    <3>1. log' = log \cup RowsOf(c) /\ HasInserted(c)
      BY <2>8 DEF Commits, Committed, HasInserted, At
    <3>2. ~ HasInserted(c)'
      <4>1. call[c] \in CallType
        BY DEF TypeInv
      <4> QED
        BY <2>1, <2>8, <4>1, OverIs DEF Commits, HasInserted
    <3>3. ASSUME NEW o \in Calls \ {c}, HasInserted(o) PROVE Ok(o)'
      <4>1. Ok(o)
        BY <1>0, <3>3
      <4>2. \A r \in RowsOf(c) : ~ Matches(call[o].append.condition \cup Request(o).idempotentBy, r.event)
        BY <3>1, <3>3, HeldExcludes DEF RowsOf
      <4>3. \A r \in RowsOf(c) : /\ ~ Matches(call[o].append.condition, r.event)
                                 /\ ~ Matches(Request(o).idempotentBy, r.event)
        BY <4>2 DEF Matches
      <4>4. ~ SameEmitKey(Request(o), Request(c))
        BY <3>1, <3>3 DEF HeldInv
      <4>5. \A r \in RowsOf(c) : r.cause = Request(c).cause /\ r.fingerprint = FingerprintOf(Request(c))
        BY DEF RowsOf
      <4>6. Of(Request(o).idempotentBy, log') = Of(Request(o).idempotentBy, log)
        BY <3>1, <4>3 DEF Of
      <4>7. Of(call[o].append.condition, log') = Of(call[o].append.condition, log)
        BY <3>1, <4>3 DEF Of
      <4>8. Emitted(Request(o))' = {}
        BY <2>2, <3>1, <4>1, <4>4, <4>5 DEF Emitted, SameEmitKey
      <4> QED
        BY <2>1, <2>2, <4>1, <4>6, <4>7, <4>8 DEF Duplicates
    <3> HIDE DEF Ok, Apart
    <3> QED
      BY <1>0, <2>2, <2>3, <3>2, <3>3
  <2> QED
    BY <1>2, <2>5, <2>6, <2>7, <2>8, QuietMoves
<1> QED
  BY <1>1, <1>2, StepsAreMoves

-----------------------------------------------------------------------------
(* The rows. *)

LEMMA WrittenIs ==
  ASSUME TypeInv
  PROVE  \A r \in log : /\ r \in Written <=> r.at # 0
                        /\ r \in Written => IsWritten(r)
                        /\ r \notin Written => r \in InitialRows /\ r.at = 0 /\ r.xid = 1 /\ r.fingerprint = NoFingerprint
BY InitialRowsType DEF TypeInv, IsWritten, Written

(* What a commit adds to the log. *)
LEMMA CommitAdds ==
  ASSUME WellDefined, TypeInv, PhaseInv, NEW c \in Calls, NEW e, Commits(c, e)
  PROVE  /\ Written' = Written \cup RowsOf(c) /\ RowsOf(c) # {}
         /\ log' = log \cup RowsOf(c) /\ commits \in Nat /\ commits' = commits + 1
         /\ \A r \in log : r.at \in Nat /\ r.at <= commits
         /\ \A r \in RowsOf(c) : /\ r.event \in Emits(call[c]) /\ r.at = commits + 1 /\ r.xid = call[c].xid
                                 /\ r.by = c /\ r.request = Request(c) /\ r.now = call[c].now
                                 /\ r.cause = Request(c).cause /\ r.fingerprint = FingerprintOf(Request(c))
         /\ \A x \in Emits(call[c]) : \E r \in RowsOf(c) : r.event = x
         /\ call[c].answer = "none" /\ At(c, "commit") /\ HasInserted(c)
         /\ e.answer \in {"created", "error"} /\ e.request = Request(c) /\ e.xid = call[c].xid /\ e.now = call[c].now
         /\ e.answer = "created" => e.marker = call[c].xid
<1>1. /\ call[c] \in CallType /\ At(c, "commit") /\ HasInserted(c) /\ call[c].append.events = Emits(call[c])
      /\ IsEmitting(call[c]) /\ call[c].answer = "none"
  <2>1. At(c, "commit") /\ HasInserted(c)
    BY DEF Commits, Committed, At, HasInserted
  <2> QED
    BY <2>1, CommittingIs DEF At, PhaseInv, PhaseOK
<1>2. log' = log \cup RowsOf(c) /\ commits' = commits + 1 /\ commits \in Nat
  BY DEF Commits, Committed, TypeInv
<1>3. /\ \A r \in RowsOf(c) : /\ r.event \in Emits(call[c]) /\ r.at = commits + 1 /\ r.xid = call[c].xid
                              /\ r.by = c /\ r.request = Request(c) /\ r.now = call[c].now
                              /\ r.cause = Request(c).cause /\ r.fingerprint = FingerprintOf(Request(c))
      /\ \A x \in Emits(call[c]) : \E r \in RowsOf(c) : r.event = x
  <2> DEFINE row(x) == [event |-> x, xid |-> call[c].xid, at |-> commits + 1, cause |-> Request(c).cause,
                        fingerprint |-> FingerprintOf(Request(c)), request |-> Request(c), now |-> call[c].now, by |-> c]
  <2>1. RowsOf(c) = {row(x) : x \in Emits(call[c])}
    BY <1>1 DEF RowsOf
  <2>2. \A x : /\ row(x).event = x /\ row(x).at = commits + 1 /\ row(x).xid = call[c].xid
               /\ row(x).by = c /\ row(x).request = Request(c) /\ row(x).now = call[c].now
               /\ row(x).cause = Request(c).cause /\ row(x).fingerprint = FingerprintOf(Request(c))
    OBVIOUS
  <2> HIDE DEF row
  <2> QED
    BY <2>1, <2>2
<1>4. Emits(call[c]) # {}
  BY <1>1 DEF IsEmitting, Emits, Own, OwnEvents
<1>5. \A r \in InitialRows : r.at = 0
  BY InitialRowsType
<1>6. \A r \in RowsOf(c) : r \notin InitialRows
  BY <1>2, <1>3, <1>5
<1>7. Written' = Written \cup RowsOf(c)
  BY <1>2, <1>6 DEF Written
<1>8. /\ e.answer \in {"created", "error"} /\ e.request = Request(c) /\ e.xid = call[c].xid /\ e.now = call[c].now
      /\ e.answer = "created" => e.marker = call[c].xid
  BY <1>1, OverIs DEF Commits, Request
<1>9. \A r \in log : r.at \in Nat /\ r.at <= commits
  BY <1>5 DEF TypeInv, IsWritten
<1> QED
  BY <1>1, <1>2, <1>3, <1>4, <1>7, <1>8, <1>9

(* Until its commit a call has no rows, and a move that is no commit       *)
(* leaves the records of the calls that have.                              *)
LEMMA OthersRows ==
  ASSUME TypeInv, PhaseInv, RowsInv, NEW c \in Calls, call[c].answer = "none", NEW e, call' = [call EXCEPT ![c] = e]
  PROVE  \A r \in Written : r.by # c /\ call'[r.by] = call[r.by]
<1>1. \A r \in Written : r.by \in Calls /\ r.by # c
  BY WrittenIs DEF RowsInv, IsWritten, Written
<1> QED
  BY <1>1, MoveIsOf

LEMMA RowsAreKept ==
  ASSUME WellDefined, TypeInv, PhaseInv, HeldInv, RowsInv, [Next]_vars
  PROVE  RowsInv'
<1>1. CASE UNCHANGED vars \/ UNCHANGED <<log, commits, nextXid, call, faults>>
  BY <1>1 DEF vars, RowsInv, Written, Request
<1>2. ASSUME NEW c \in Calls, NEW e, Moves(c, e), call' = [call EXCEPT ![c] = e]
      PROVE  RowsInv'
  <2>1. CASE Quiet(c, e) \/ Inserts(c, e) \/ Records(c, e)
    <3>1. UNCHANGED <<log, commits>> /\ call[c].answer = "none"
      BY <2>1 DEF Quiet, Inserts, MayInsert, Records, Unchanging, At, PhaseInv, PhaseOK
    <3>2. Written' = Written /\ \A r \in Written : call'[r.by] = call[r.by]
      BY <1>2, <3>1, OthersRows DEF Written
    <3> QED
      BY <3>1, <3>2 DEF RowsInv, Request
  <2>2. CASE Commits(c, e)
    <3>1. /\ Written' = Written \cup RowsOf(c) /\ RowsOf(c) # {} /\ commits' = commits + 1 /\ commits \in Nat
          /\ \A r \in RowsOf(c) : /\ r.at = commits + 1 /\ r.xid = call[c].xid
                                  /\ r.by = c /\ r.request = Request(c) /\ r.now = call[c].now
                                  /\ r.cause = Request(c).cause /\ r.fingerprint = FingerprintOf(Request(c))
          /\ call[c].answer = "none" /\ HasInserted(c)
          /\ e.answer \in {"created", "error"} /\ e.request = Request(c) /\ e.xid = call[c].xid /\ e.now = call[c].now
      BY <2>2, CommitAdds
    <3>2. \A r \in Written : r.by # c /\ call'[r.by] = call[r.by] /\ r \in log /\ r.at \in Nat /\ r.at <= commits
      <4>1. \A r \in Written : r.by # c /\ call'[r.by] = call[r.by]
        BY <1>2, <3>1, OthersRows
      <4>2. \A r \in Written : r \in log
        BY DEF Written
      <4>3. \A r \in log : r.at \in Nat /\ r.at <= commits
        BY <2>2, CommitAdds
      <4> QED
        BY <4>1, <4>2, <4>3
    <3>3. call'[c] = e
      BY <1>2, MoveIsOf
    <3>4. \A r \in Written' : /\ call'[r.by].answer \in {"created", "error"}
                              /\ r.xid = call'[r.by].xid /\ r.request = call'[r.by].request /\ r.now = call'[r.by].now
      BY <3>1, <3>2, <3>3 DEF RowsInv, Request
    <3>5. \A r, s \in Written' : r.at = s.at <=> r.by = s.by
      BY <3>1, <3>2 DEF RowsInv
    <3>6. \A r \in Written : ~ (Request(c).cause # NoCause /\ r.cause = Request(c).cause /\ r.fingerprint = FingerprintOf(Request(c)))
      BY <3>1, <3>2 DEF HeldInv, Emitted
    <3>7. \A r, s \in Written' : r.cause # NoCause /\ r.cause = s.cause /\ r.fingerprint = s.fingerprint => r.by = s.by
      BY <3>1, <3>6 DEF RowsInv
    <3>8. \A n \in 1 .. commits' : \E r \in Written' : r.at = n
      <4> SUFFICES ASSUME NEW n \in 1 .. commits + 1 PROVE \E r \in Written' : r.at = n
        BY <3>1
      <4>1. CASE n = commits + 1
        BY <3>1, <4>1
      <4>2. CASE n # commits + 1
        <5>1. n \in 1 .. commits
          BY <3>1, <4>2
        <5> QED
          BY <3>1, <5>1 DEF RowsInv
      <4> QED
        BY <4>1, <4>2
    <3> QED
      BY <3>4, <3>5, <3>7, <3>8 DEF RowsInv, Request
  <2> QED
    BY <1>2, <2>1, <2>2, QuietMoves
<1> QED
  BY <1>1, <1>2, StepsAreMoves

LEMMA KeysAreWritten ==
  ASSUME WellDefined, KeysAreKept, TypeInv, PhaseInv, KeysInv, [Next]_vars
  PROVE  KeysInv'
<1>1. CASE log' = log
  BY <1>1 DEF KeysInv, Written
<1>2. ASSUME NEW c \in Calls, NEW e, Commits(c, e)
      PROVE  KeysInv'
  <2>1. /\ Written' = Written \cup RowsOf(c)
        /\ \A r \in RowsOf(c) : r.by = c /\ r.request = Request(c)
        /\ \A x \in Emits(call[c]) : \E r \in RowsOf(c) : r.event = x
        /\ HasInserted(c)
    BY <1>2, CommitAdds
  <2>2. ASSUME Request(c).idempotentBy # {}
        PROVE  \E r \in RowsOf(c) : Matches(Request(c).idempotentBy, r.event)
    <3>1. IsEmitting(call[c]) /\ Request(c) \in Requests /\ call[c] \in CallType
      BY <2>1, CommittingIs DEF HasInserted
    <3>2. PICK x \in Decision(call[c]).events : Matches(Request(c).idempotentBy, x)
      BY <2>2, <3>1 DEF KeysAreKept, KeyIsKept, IsEmitting, Decision, Request
    <3>3. x \in Event
      BY <3>1 DEF WellDefined, IsDecision, Decision, Request
    <3> DEFINE y == [x EXCEPT !.tags = x.tags \cup Loaded(call[c]).scope]
    <3>4. y \in Emits(call[c])
      BY DEF Emits, Own, OwnEvents
    <3>5. y.type = x.type /\ x.tags \subseteq y.tags
      BY <3>3 DEF Event
    <3>6. Matches(Request(c).idempotentBy, y)
      BY <3>2, <3>5 DEF Matches, ItemMatches
    <3> QED
      BY <2>1, <3>4, <3>6
  <2> QED
    BY <2>1, <2>2 DEF KeysInv
<1>3. ASSUME NEW c \in Calls, NEW e, Moves(c, e) PROVE KeysInv'
  <2>1. Quiet(c, e) \/ Inserts(c, e) \/ Records(c, e) => log' = log
    BY DEF Quiet, Inserts, MayInsert, Records, Unchanging
  <2> QED
    BY <1>1, <1>2, <1>3, <2>1, QuietMoves
<1> QED
  BY <1>1, <1>3, StepsAreMoves DEF vars

-----------------------------------------------------------------------------
(* What the answers rest on. *)

(* Starting, resolving or loading, an attempt proceeds from its reads so   *)
(* far and at most one more, of now.                                       *)
LEMMA ProceedingIs ==
  ASSUME WellDefined, TypeInv, PhaseInv, NEW c \in Calls, NEW e, Starts(c, e) \/ Resolves(c, e) \/ Loads(c, e)
  PROVE  \/ At(c, "precheck") /\ \E now : e = [call[c] EXCEPT !.phase = "resolve", !.now = now]
         \/ \E d \in CallType :
              /\ Proceeds(d, e) /\ ReadsAreMade(d) /\ d.now # 0 /\ d.request = Request(c) /\ d.answer = "none"
              /\ d.tries = call[c].tries /\ d.phase \in {"precheck", "resolve", "load"}
              /\ \A x \in d.lookup : x \in call[c].lookup \/ x.upTo = commits
              /\ \A i \in DOMAIN d.reads : \/ i \in DOMAIN call[c].reads /\ d.reads[i] = call[c].reads[i]
                                           \/ d.reads[i].upTo = commits
<1>1. call[c] \in CallType /\ PhaseOK(call[c])
  BY DEF TypeInv, PhaseInv
<1>2. CASE Starts(c, e)
  <2>1. PICK now \in 1 .. clock :
          \/ LookupOf(Request(c)) = {} /\ Proceeds([call[c] EXCEPT !.now = now], e)
          \/ LookupOf(Request(c)) # {} /\ e = [call[c] EXCEPT !.phase = "resolve", !.now = now]
    BY <1>2 DEF Starts
  <2> DEFINE d == [call[c] EXCEPT !.now = now]
  <2>2. CASE Proceeds(d, e) /\ LookupOf(Request(c)) = {}
    <3>1. now \in 0 .. LastPeriod /\ now # 0
      BY BoundsType DEF TypeInv
    <3>2. /\ d \in CallType /\ d.answer = "none" /\ d.request = Request(c) /\ d.tries = call[c].tries /\ d.now = now
          /\ d.reads = <<>> /\ d.lookup = {} /\ d.phase = "precheck"
      BY <1>1, <1>2, <3>1 DEF Starts, At, CallType, Request, PhaseOK
    <3> HIDE DEF d
    <3>3. ReadsAreMade(d)
      BY <2>2, <3>2, NothingRead
    <3>4. DOMAIN d.reads = {}
      BY <3>2
    <3> QED
      BY <2>2, <3>1, <3>2, <3>3, <3>4
  <2> QED
    BY <1>2, <2>1, <2>2 DEF Starts
<1>3. CASE Resolves(c, e)
  <2> DEFINE d == [call[c] EXCEPT !.lookup = {ReadOf(LookupOf(Request(c)))}]
  <2>1. /\ d.answer = "none" /\ d.request = Request(c) /\ Proceeds(d, e) /\ d.tries = call[c].tries
        /\ d.now = call[c].now /\ d.now # 0 /\ d.reads = <<>> /\ d.phase = "resolve"
        /\ d.lookup = {ReadOf(LookupOf(Request(c)))}
    BY <1>1, <1>3 DEF Resolves, At, CallType, Request, PhaseOK
  <2>2. d \in CallType /\ ReadsAreMade(d)
    BY <1>1, <1>3, LookupRead DEF Resolves, At, Request, PhaseOK
  <2>3. \A x \in d.lookup : x.upTo = commits
    BY <2>1 DEF ReadOf
  <2>4. DOMAIN d.reads = {}
    BY <2>1
  <2> HIDE DEF d
  <2> QED
    BY <2>1, <2>2, <2>3, <2>4
<1>4. CASE Loads(c, e)
  <2> DEFINE x == ReadOf(ToRead(call[c]))
             d == [call[c] EXCEPT !.reads = Append(call[c].reads, x)]
  <2>1. /\ d.answer = "none" /\ d.request = Request(c) /\ Proceeds(d, e) /\ d.tries = call[c].tries
        /\ d.now = call[c].now /\ d.now # 0 /\ d.phase = "load"
        /\ d.lookup = call[c].lookup /\ d.reads = Append(call[c].reads, x)
    BY <1>1, <1>4 DEF Loads, At, CallType, Request, PhaseOK
  <2>2. d \in CallType /\ ReadsAreMade(d)
    BY <1>1, <1>4, NextRead DEF Loads, At, PhaseOK
  <2>3. x.upTo = commits
    BY DEF ReadOf
  <2>4. call[c].reads \in Seq(Reading)
    BY <1>1 DEF CallType
  <2> HIDE DEF d, x
  <2>5. \A i \in DOMAIN d.reads : \/ i \in DOMAIN call[c].reads /\ d.reads[i] = call[c].reads[i]
                                  \/ d.reads[i] = x
    BY <2>1, <2>4
  <2> QED
    BY <2>1, <2>2, <2>3, <2>5
<1> QED
  BY <1>2, <1>3, <1>4

(* A noop of a command that reads once rests on that read.                 *)
LEMMA NoopIs ==
  ASSUME WellDefined, TypeInv, NEW d \in CallType, ReadsAreMade(d), ToRead(d) = {}, FindsNothingToDo(d),
         ReadsOnce(d.request)
  PROVE  NoopRests(d.request, NoopMarker(d))
<1> DEFINE q == d.request
           rows == UNION {d.reads[i].rows : i \in Loaded(d).uses}
<1>1. d.lookup = {} /\ LookedUp(d.lookup) = {} /\ ~ q.timed
  BY DEF ReadsOnce, ReadsAreMade, LookupIsMade, LookedUp
<1>2. Loaded(d).uses = DOMAIN d.reads /\ Loaded(d).rows = rows
  BY <1>1 DEF Loaded, Load
<1>3. d.reads \in Seq(Reading) /\ Len(d.reads) \in Nat /\ Len(d.reads) <= 1
      /\ (Len(d.reads) = 1 => IsReading(d.reads[1], ModelOf(q, {})))
  <2>1. LoadIsMade(q, d.now, {}, d.reads)
    BY <1>1 DEF ReadsAreMade
  <2>2. d.reads \in Seq(Reading)
    BY DEF CallType
  <2> HIDE DEF q
  <2> QED
    BY <1>1, <2>1, <2>2 DEF LoadIsMade
<1>4. \A i \in DOMAIN d.reads : i = 1 /\ Len(d.reads) = 1
  <2>1. DOMAIN d.reads = 1 .. Len(d.reads)
    BY <1>3
  <2> QED
    BY <1>3, <2>1, UpToOne
<1>5. rows \subseteq Of(ModelOf(q, {}), log)
  <2>1. \A i \in DOMAIN d.reads : d.reads[i].rows \subseteq Of(ModelOf(q, {}), log)
    BY <1>3, <1>4 DEF IsReading, Of, ReadUpTo
  <2> QED
    BY <1>2, <2>1
<1>6. SaysNothing(Decide(q, {}, rows))
  BY <1>1, <1>2 DEF FindsNothingToDo, SaysNothing, Decision
<1>7. NoopMarker(d) = LatestOf(rows)
  BY DEF NoopMarker
<1> HIDE DEF rows
<1> QED
  BY <1>5, <1>6, <1>7 DEF NoopRests

LEMMA ProceedsRests ==
  ASSUME WellDefined, TypeInv, NEW d \in CallType, ReadsAreMade(d), d.answer = "none", NEW e, Proceeds(d, e), NEW c
  PROVE  AnswerRests(c, e)
<1>1. e.answer \in {"none", "died", "refused", "defect", "noop"} /\ e.request = d.request
  BY ProceedsQuietly
<1>2. ASSUME e.answer = "noop" PROVE ToRead(d) = {} /\ FindsNothingToDo(d) /\ e.marker = NoopMarker(d)
  <2>1. CASE e = [d EXCEPT !.phase = "load"]
    BY <1>2, <2>1 DEF CallType
  <2>2. CASE e = [d EXCEPT !.phase = "append", !.append = AppendOf(d.request, d, Loaded(d), Emits(d))]
    BY <1>2, <2>2 DEF CallType
  <2>3. CASE \E answer \in {"died", "refused", "defect"} : e = Over(d, answer, NoMarker)
    BY <1>2, <2>3, OverIs
  <2>4. CASE ToRead(d) = {} /\ FindsNothingToDo(d) /\ e = Over(d, "noop", NoopMarker(d))
    BY <2>4, OverIs
  <2> QED
    BY <2>1, <2>2, <2>3, <2>4 DEF Proceeds
<1> QED
  BY <1>1, <1>2, NoopIs DEF AnswerRests

LEMMA RepeatRests ==
  ASSUME TypeInv, PhaseInv, NEW c \in Calls, NEW e, NEW rows,
         rows \in {Duplicates(c), Emitted(Request(c))}, IsRepeat(c, e, rows)
  PROVE  AnswerRests(c, e)
<1> DEFINE q == Request(c)
           b == nextXid - 1
<1>1. q \in Requests /\ q.id # NoFingerprint /\ call[c] \in CallType
  BY RequestsType DEF TypeInv, CallType, Request
<1>2. rows \subseteq log /\ rows # {}
  BY DEF IsRepeat, Duplicates, Of, Emitted
<1>3. FingerprintOf(q) = q.id
  <2>1. q.cause # NoCause \/ q.idempotentBy # {}
    BY <1>2 DEF Duplicates, Of, Matches, Emitted
  <2> QED
    BY <2>1 DEF FingerprintOf
<1>4. ASSUME NEW r \in rows, r.fingerprint # NoFingerprint
      PROVE  r \in Written /\ r.request.id = r.fingerprint
  <2>1. r \in Written /\ IsWritten(r)
    BY <1>2, <1>4, WrittenIs
  <2> QED
    BY <1>4, <2>1 DEF IsWritten, FingerprintOf
<1>5. CASE IsSameRequest(q, rows) /\ e = Over(call[c], "idempotent", LatestOf(rows))
  <2>1. b \in Nat /\ \A r \in rows : r.xid \in Nat /\ r.xid <= b
    BY <1>2, InitialRowsType DEF TypeInv, IsWritten
  <2> HIDE DEF b
  <2>2. \A r \in rows : r.xid <= LatestOf(rows) /\ r \in log
    BY <1>2, <2>1, LatestOfRows
  <2>3. IsDone(q, LatestOf(rows))
    <3>1. CASE q.cause # NoCause /\ \E r \in rows : r.cause = q.cause
      BY <2>2, <3>1 DEF IsDone
    <3>2. CASE \A r \in rows : r.fingerprint \in {NoFingerprint, FingerprintOf(q)}
      <4>1. PICK r \in rows : TRUE
        BY <1>2
      <4>2. CASE r.fingerprint = NoFingerprint
        <5>1. rows = Duplicates(c)
          BY <1>1, <1>3, <4>2 DEF Emitted
        <5> QED
          BY <2>2, <4>2, <5>1 DEF IsDone, Duplicates, Of
      <4>3. CASE r.fingerprint # NoFingerprint
        BY <1>3, <1>4, <2>2, <3>2, <4>3 DEF IsDone
      <4> QED
        BY <4>2, <4>3
    <3> QED
      BY <1>1, <1>3, <1>5, <3>1, <3>2 DEF IsSameRequest
  <2>4. e.answer = "idempotent" /\ e.request = q /\ e.marker = LatestOf(rows)
    BY <1>1, <1>5, OverIs DEF Request
  <2> QED
    BY <2>3, <2>4 DEF AnswerRests
<1>6. CASE ~ IsSameRequest(q, rows) /\ e = Over(call[c], "mismatch", NoMarker)
  <2>1. PICK r \in rows : r.fingerprint \notin {NoFingerprint, FingerprintOf(q)}
    BY <1>6 DEF IsSameRequest
  <2>2. rows = Duplicates(c)
    BY <2>1 DEF Emitted
  <2>3. q.cause # NoCause => r.cause # q.cause
    BY <1>6 DEF IsSameRequest
  <2>4. IsTaken(q)
    BY <1>3, <1>4, <2>1, <2>2, <2>3 DEF IsTaken, Duplicates, Of
  <2>5. e.answer = "mismatch" /\ e.request = q
    BY <1>1, <1>6, OverIs DEF Request
  <2> QED
    BY <2>4, <2>5 DEF AnswerRests
<1> QED
  BY <1>5, <1>6 DEF IsRepeat

(* What an answer rests on stays, and a call that has none rests on        *)
(* nothing.                                                                *)
LEMMA RestsStay ==
  ASSUME log \subseteq log', NEW c, NEW d, AnswerRests(c, d)
  PROVE  AnswerRests(c, d)'
<1>1. Written \subseteq Written'
  BY DEF Written
<1>2. d.answer = "created" => d.marker = d.xid /\ \E r \in Written' : r.by = c
  BY <1>1 DEF AnswerRests
<1>3. IsDone(d.request, d.marker) => IsDone(d.request, d.marker)'
  BY <1>1 DEF IsDone, Of
<1>4. NoopRests(d.request, d.marker) => NoopRests(d.request, d.marker)'
  BY DEF NoopRests, Of
<1>5. IsTaken(d.request) => IsTaken(d.request)'
  BY <1>1 DEF IsTaken
<1> QED
  BY <1>2, <1>3, <1>4, <1>5 DEF AnswerRests

LEMMA MovesRest ==
  ASSUME WellDefined, TypeInv, PhaseInv, NEW c \in Calls, NEW e, Moves(c, e)
  PROVE  AnswerRests(c, e)'
<1> DEFINE nothing == {"none", "conflict", "error"}
<1>1. call[c] \in CallType /\ PhaseOK(call[c])
  BY DEF TypeInv, PhaseInv
<1>2. \A x : x.answer \in nothing => AnswerRests(c, x) /\ AnswerRests(c, x)'
  BY DEF AnswerRests
<1>3. ~ At(c, "answered") => call[c].answer = "none"
  BY <1>1 DEF PhaseOK, At
<1>4. Unchanging \/ MayInsert(c) => log \subseteq log'
  BY DEF Unchanging, MayInsert
<1>5. CASE Finds(c, e) \/ FindsLate(c, e) \/ FindsEmitted(c, e)
  BY <1>4, <1>5, RepeatRests, RestsStay DEF Finds, FindsLate, FindsEmitted
<1>6. CASE Starts(c, e) \/ Resolves(c, e) \/ Loads(c, e)
  <2>1. log \subseteq log'
    BY <1>4, <1>6 DEF Starts, Resolves, Loads
  <2>2. CASE At(c, "precheck") /\ \E now : e = [call[c] EXCEPT !.phase = "resolve", !.now = now]
    <3>1. e.answer = "none"
      BY <1>1, <1>3, <2>2 DEF At, CallType
    <3> QED
      BY <1>2, <3>1
  <2>3. CASE \E d \in CallType : Proceeds(d, e) /\ ReadsAreMade(d) /\ d.answer = "none"
    BY <2>1, <2>3, ProceedsRests, RestsStay
  <2> QED
    BY <1>6, <2>2, <2>3, ProceedingIs
<1>7. CASE Conflicting(c, e)
  <2>1. CASE e = Over(call[c], "conflict", NoMarker)
    BY <1>1, <1>2, <2>1, OverIs
  <2>2. CASE e = [NewCall(Request(c)) EXCEPT !.tries = call[c].tries + 1]
    <3>1. e.answer = "none"
      BY <2>2 DEF NewCall
    <3> QED
      BY <1>2, <3>1
  <2> QED
    BY <1>7, <2>1, <2>2 DEF Conflicting, IsRefused
<1>8. CASE Inserts(c, e) \/ Records(c, e)
  <2>1. e.answer = "none"
    BY <1>1, <1>3, <1>8 DEF Inserts, MayInsert, Records, At, CallType
  <2> QED
    BY <1>2, <2>1
<1>9. CASE Commits(c, e)
  <2>1. CASE e.answer = "error"
    BY <1>2, <2>1
  <2>2. CASE e.answer = "created"
    <3>1. /\ Written' = Written \cup RowsOf(c) /\ RowsOf(c) # {} /\ \A r \in RowsOf(c) : r.by = c
          /\ e.xid = call[c].xid /\ e.marker = call[c].xid
      BY <1>9, <2>2, CommitAdds
    <3> QED
      BY <2>2, <3>1 DEF AnswerRests
  <2>3. e.answer \in {"created", "error"}
    BY <1>9, CommitAdds
  <2> QED
    BY <2>1, <2>2, <2>3
<1>10. CASE Fails(c, e)
  BY <1>1, <1>2, <1>10, OverIs DEF Fails
<1> QED
  BY <1>5, <1>6, <1>7, <1>8, <1>9, <1>10 DEF Moves

LEMMA AnswersAreKept ==
  ASSUME WellDefined, TypeInv, PhaseInv, AnswersInv, [Next]_vars
  PROVE  AnswersInv'
<1>1. CASE UNCHANGED vars \/ UNCHANGED <<log, commits, nextXid, call, faults>>
  <2>1. log' = log /\ call' = call
    BY <1>1 DEF vars
  <2>2. \A c : \A d : AnswerRests(c, d) => AnswerRests(c, d)'
    BY <2>1, RestsStay
  <2> QED
    BY <2>1, <2>2 DEF AnswersInv
<1>2. ASSUME NEW c \in Calls, NEW e, Moves(c, e), call' = [call EXCEPT ![c] = e]
      PROVE  AnswersInv'
  <2>1. call'[c] = e /\ \A o \in Calls \ {c} : call'[o] = call[o]
    BY <1>2, MoveIsOf
  <2>2. log \subseteq log'
    BY <1>2 DEF Moves, Finds, Starts, Resolves, Loads, FindsLate, Conflicting, FindsEmitted, Inserts, MayInsert,
                Records, Commits, Committed, Fails, Unchanging
  <2>3. AnswerRests(c, e)'
    BY <1>2, MovesRest
  <2>4. \A o : \A d : AnswerRests(o, d) => AnswerRests(o, d)'
    BY <2>2, RestsStay
  <2>5. ASSUME NEW o \in Calls PROVE AnswerRests(o, call[o])'
    <3>1. CASE o = c
      BY <2>1, <2>3, <3>1
    <3>2. CASE o # c
      <4>1. call'[o] = call[o] /\ AnswerRests(o, call[o])
        BY <2>1, <3>2 DEF AnswersInv
      <4>2. PICK d : d = call[o]
        OBVIOUS
      <4>3. AnswerRests(o, d)'
        BY <2>4, <4>1, <4>2
      <4> QED
        BY <4>1, <4>2, <4>3
    <3> QED
      BY <3>1, <3>2
  <2> QED
    BY <2>5 DEF AnswersInv
<1> QED
  BY <1>1, <1>2, StepsAreMoves

(* A refused attempt was refused by a commit that none of its reads had    *)
(* seen.                                                                   *)
LEMMA ProceedsTries ==
  ASSUME WellDefined, TypeInv, NEW d \in CallType, ReadsAreMade(d), d.now # 0, d.answer = "none", NEW e, Proceeds(d, e),
         TriesRest(d)
  PROVE  TriesRest(e)
<1>1. CASE e = [d EXCEPT !.phase = "load"]
  <2>1. /\ e.tries = d.tries /\ e.lookup = d.lookup /\ e.reads = d.reads /\ e.phase = "load" /\ e.answer = "none"
    BY <1>1 DEF CallType
  <2> QED
    BY <2>1 DEF TriesRest
<1>2. CASE ToRead(d) = {} /\ e = [d EXCEPT !.phase = "append", !.append = AppendOf(d.request, d, Loaded(d), Emits(d))]
  <2> DEFINE seen == Seen(d.lookup, d.reads, Loaded(d))
  <2>1. /\ e.tries = d.tries /\ e.lookup = d.lookup /\ e.reads = d.reads /\ e.phase = "append" /\ e.answer = "none"
        /\ e.append.seen = seen
    BY <1>2 DEF CallType, AppendOf
  <2>2. d.lookup \in SUBSET Reading /\ d.reads \in Seq(Reading) /\ Loaded(d).uses \subseteq DOMAIN d.reads
    BY <1>2, LoadTypes DEF CallType
  <2>3. \/ seen = commits \/ \E x \in d.lookup : seen = x.upTo
        \/ \E i \in Loaded(d).uses : seen = d.reads[i].upTo
    BY <2>2, SeenIs
  <2> HIDE DEF seen
  <2>4. d.tries <= seen
    BY <2>2, <2>3 DEF TriesRest
  <2> QED
    BY <2>1, <2>4 DEF TriesRest
<1>3. CASE \E answer \in {"died", "refused", "defect", "noop"} : \E m : e = Over(d, answer, m)
  <2>1. /\ e.tries = d.tries /\ e.lookup = {} /\ e.reads = <<>> /\ e.phase = "answered" /\ e.answer # "conflict"
    BY <1>3, OverIs
  <2>2. DOMAIN <<>> = {}
    OBVIOUS
  <2> QED
    BY <2>1, <2>2 DEF TriesRest
<1> QED
  BY <1>1, <1>2, <1>3 DEF Proceeds

LEMMA OverTries ==
  ASSUME NEW d \in CallType, NEW answer, NEW m, TriesRest(d), answer # "conflict"
  PROVE  TriesRest(Over(d, answer, m))
<1>1. DOMAIN <<>> = {}
  OBVIOUS
<1> QED
  BY <1>1, OverIs DEF TriesRest

LEMMA MovesTry ==
  ASSUME WellDefined, TypeInv, PhaseInv, NEW c \in Calls, NEW e, Moves(c, e), UNCHANGED faults, TriesRest(call[c])
  PROVE  TriesRest(e)'
<1>1. call[c] \in CallType /\ PhaseOK(call[c]) /\ commits \in Nat /\ faults \in Nat
  BY BoundsType DEF TypeInv, PhaseInv
<1>2. ~ At(c, "answered") => call[c].answer = "none"
  BY <1>1 DEF PhaseOK, At
<1>3. UNCHANGED commits /\ TriesRest(e) => TriesRest(e)'
  BY DEF TriesRest
<1>4. ~ Fault
  BY <1>1 DEF Fault
<1>5. CASE Finds(c, e) \/ FindsLate(c, e) \/ FindsEmitted(c, e)
  <2>1. UNCHANGED commits
    BY <1>5 DEF Finds, FindsLate, FindsEmitted, MayInsert, Unchanging
  <2>2. \E m : e = Over(call[c], "idempotent", m) \/ e = Over(call[c], "mismatch", m)
    BY <1>5 DEF Finds, FindsLate, FindsEmitted, IsRepeat
  <2> QED
    BY <1>1, <1>3, <2>1, <2>2, OverTries
<1>6. CASE Starts(c, e) \/ Resolves(c, e) \/ Loads(c, e)
  <2>1. UNCHANGED commits
    BY <1>6 DEF Starts, Resolves, Loads, Unchanging
  <2>2. CASE At(c, "precheck") /\ \E now : e = [call[c] EXCEPT !.phase = "resolve", !.now = now]
    <3>1. /\ e.tries = call[c].tries /\ e.lookup = call[c].lookup /\ e.reads = call[c].reads
          /\ e.phase = "resolve" /\ e.answer = "none"
      BY <1>1, <1>2, <2>2 DEF CallType, At
    <3>2. TriesRest(e)
      BY <3>1 DEF TriesRest
    <3> QED
      BY <1>3, <2>1, <3>2
  <2>3. CASE \E d \in CallType :
              /\ Proceeds(d, e) /\ ReadsAreMade(d) /\ d.now # 0 /\ d.answer = "none"
              /\ d.tries = call[c].tries /\ d.phase \in {"precheck", "resolve", "load"}
              /\ \A x \in d.lookup : x \in call[c].lookup \/ x.upTo = commits
              /\ \A i \in DOMAIN d.reads : \/ i \in DOMAIN call[c].reads /\ d.reads[i] = call[c].reads[i]
                                           \/ d.reads[i].upTo = commits
    <3>1. PICK d \in CallType :
              /\ Proceeds(d, e) /\ ReadsAreMade(d) /\ d.now # 0 /\ d.answer = "none"
              /\ d.tries = call[c].tries /\ d.phase \in {"precheck", "resolve", "load"}
              /\ \A x \in d.lookup : x \in call[c].lookup \/ x.upTo = commits
              /\ \A i \in DOMAIN d.reads : \/ i \in DOMAIN call[c].reads /\ d.reads[i] = call[c].reads[i]
                                           \/ d.reads[i].upTo = commits
      BY <2>3
    <3>2. TriesRest(d)
      BY <3>1 DEF TriesRest
    <3>3. TriesRest(e)
      BY <3>1, <3>2, ProceedsTries
    <3> QED
      BY <1>3, <2>1, <3>3
  <2> QED
    BY <1>6, <2>2, <2>3, ProceedingIs
<1>7. CASE Conflicting(c, e)
  <2>1. At(c, "append") /\ UNCHANGED commits /\ IsRefused(c, e) /\ Conflicts(c) # {}
    BY <1>4, <1>7 DEF Conflicting, Unchanging
  <2>2. PICK r \in log : r.at > call[c].append.seen
    BY <2>1 DEF Conflicts, Of
  <2>3. r.at \in Nat /\ r.at <= commits /\ call[c].append.seen \in Nat /\ call[c].tries \in Nat
    BY <1>1, InitialRowsType, BoundsType DEF TypeInv, IsWritten, CallType, Appending
  <2>4. call[c].tries <= call[c].append.seen
    BY <2>1 DEF TriesRest, At
  <2>5. call[c].tries + 1 <= commits
    BY <1>1, <2>2, <2>3, <2>4
  <2>6. DOMAIN <<>> = {}
    OBVIOUS
  <2>7. CASE e = [NewCall(Request(c)) EXCEPT !.tries = call[c].tries + 1]
    <3>1. /\ e.tries = call[c].tries + 1 /\ e.lookup = {} /\ e.reads = <<>> /\ e.phase = "precheck" /\ e.answer = "none"
      BY <2>7 DEF NewCall
    <3> QED
      BY <2>1, <2>5, <2>6, <3>1 DEF TriesRest
  <2>8. CASE ~ call[c].tries < Retries /\ e = Over(call[c], "conflict", NoMarker)
    <3>1. /\ e.tries = call[c].tries /\ e.lookup = {} /\ e.reads = <<>> /\ e.phase = "answered"
      BY <1>1, <2>8, OverIs
    <3>2. Retries < commits /\ call[c].tries <= commits
      BY <1>1, <2>3, <2>5, <2>8, BoundsType
    <3> QED
      BY <2>1, <2>6, <3>1, <3>2 DEF TriesRest
  <2> QED
    BY <2>1, <2>7, <2>8 DEF IsRefused
<1>8. CASE Inserts(c, e) \/ Records(c, e)
  <2>1. UNCHANGED commits /\ call[c].phase \in {"append", "record"}
    BY <1>8 DEF Inserts, MayInsert, Records, Unchanging, At
  <2>2. /\ e.tries = call[c].tries /\ e.lookup = call[c].lookup /\ e.reads = call[c].reads
        /\ e.append = call[c].append /\ e.answer = call[c].answer
    BY <1>1, <1>8 DEF Inserts, Records, CallType
  <2>3. TriesRest(e)
    BY <2>1, <2>2 DEF TriesRest
  <2> QED
    BY <1>3, <2>1, <2>3
<1>9. CASE Commits(c, e)
  <2>1. commits' = commits + 1 /\ e = Over(call[c], "created", call[c].xid)
    BY <1>4, <1>9 DEF Commits, Committed
  <2>2. /\ e.tries = call[c].tries /\ e.lookup = {} /\ e.reads = <<>> /\ e.phase = "answered" /\ e.answer = "created"
    BY <1>1, <2>1, OverIs
  <2>3. DOMAIN <<>> = {}
    OBVIOUS
  <2>4. call[c].tries \in Nat /\ call[c].tries <= commits
    BY <1>1, BoundsType DEF CallType, TriesRest
  <2>5. call[c].tries <= commits'
    BY <1>1, <2>1, <2>4
  <2> QED
    BY <2>2, <2>3, <2>5 DEF TriesRest
<1>10. CASE Fails(c, e)
  BY <1>4, <1>10 DEF Fails
<1> QED
  BY <1>5, <1>6, <1>7, <1>8, <1>9, <1>10 DEF Moves

LEMMA TriesStay ==
  ASSUME TypeInv, NEW d \in CallType, TriesRest(d), commits' \in Nat, commits <= commits'
  PROVE  TriesRest(d)'
<1>1. d.tries \in Nat /\ commits \in Nat /\ Retries \in Nat
  BY BoundsType DEF CallType, TypeInv
<1>2. d.tries <= commits' /\ (Retries < commits => Retries < commits')
  BY <1>1 DEF TriesRest
<1> QED
  BY <1>2 DEF TriesRest

LEMMA TriesAreKept ==
  ASSUME WellDefined, TypeInv, PhaseInv, TriesInv, [Next]_vars
  PROVE  TriesInv'
<1>1. CASE UNCHANGED vars \/ UNCHANGED <<log, commits, nextXid, call, faults>>
  BY <1>1 DEF vars, TriesInv, TriesRest
<1>2. ASSUME NEW c \in Calls, NEW e, Moves(c, e), call' = [call EXCEPT ![c] = e]
      PROVE  TriesInv'
  <2>1. call'[c] = e /\ \A o \in Calls \ {c} : call'[o] = call[o]
    BY <1>2, MoveIsOf
  <2>2. commits' \in Nat /\ commits <= commits'
    <3>1. commits' = commits \/ commits' = commits + 1
      BY <1>2 DEF Moves, Finds, Starts, Resolves, Loads, FindsLate, Conflicting, FindsEmitted, Inserts, MayInsert,
                  Records, Commits, Committed, Fails, Unchanging
    <3>2. commits \in Nat
      BY DEF TypeInv
    <3> QED
      BY <3>1, <3>2, SameOrNext
  <2>3. UNCHANGED faults \/ Fault
    BY <1>2 DEF Moves, Finds, Starts, Resolves, Loads, FindsLate, Conflicting, FindsEmitted, Inserts, MayInsert,
                Records, Commits, Fails
  <2>4. CASE Fault
    BY <2>4, BoundsType DEF Fault, TriesInv, TypeInv
  <2>5. CASE UNCHANGED faults /\ faults = 0
    <3>1. TriesRest(e)'
      BY <1>2, <2>5, MovesTry DEF TriesInv
    <3>2. ASSUME NEW o \in Calls PROVE TriesRest(call[o])'
      <4>1. CASE o = c
        BY <2>1, <3>1, <4>1
      <4>2. CASE o # c
        <5>1. PICK d \in CallType : d = call[o]
          BY DEF TypeInv
        <5>2. TriesRest(d)
          BY <2>5, <5>1 DEF TriesInv
        <5>3. TriesRest(d)'
          BY <2>2, <5>2, TriesStay
        <5> QED
          BY <2>1, <4>2, <5>1, <5>3
      <4> QED
        BY <4>1, <4>2
    <3> QED
      BY <3>2 DEF TriesInv
  <2> QED
    BY <2>3, <2>4, <2>5 DEF TriesInv
<1> QED
  BY <1>1, <1>2, StepsAreMoves

LEMMA DoneIs == \A c \in Calls : \A m : IsDoneAt(c, m) <=> IsDone(Request(c), m)
BY DEF IsDoneAt, IsDone

(* What a command that has no period decides on a log read at once.        *)
LEMMA UntimedAtOnce ==
  ASSUME NEW q, ~ q.timed, NEW now, NEW rows
  PROVE  LET looked == Of(LookupOf(q), rows)
             d      == Decide(q, looked, Of(ModelOf(q, looked), rows))
         IN  /\ AtOnce(q, now, rows).tag = IF d.tag = "emit" /\ d.events = {} THEN "noop" ELSE d.tag
             /\ AtOnce(q, now, rows).events = {[x EXCEPT !.tags = x.tags \cup {}] : x \in d.events}
<1> DEFINE looked == Of(LookupOf(q), rows)
           query  == ModelOf(q, looked)
           reads  == ReadsAtOnce(q, now, looked, rows)
           l      == Load(q, now, looked, reads)
           d      == Decide(q, looked, Of(query, rows))
<1>1. \A s : NextQuery(q, now, looked, s) = IF s = <<>> THEN query ELSE {}
  BY DEF NextQuery
<1>2. CASE query = {}
  <2>1. reads = <<>>
    BY <1>1, <1>2 DEF ReadsAtOnce
  <2>2. DOMAIN <<>> = {}
    OBVIOUS
  <2>3. l.rows = {} /\ l.dies = FALSE /\ l.prefix = {} /\ l.scope = {}
    BY <2>1, <2>2 DEF Load
  <2>4. Of(query, rows) = {}
    BY <1>2 DEF Of, Matches
  <2> HIDE DEF reads, l
  <2> QED
    BY <2>3, <2>4 DEF AtOnce, OwnEvents, l, reads
<1>3. CASE query # {}
  <2> DEFINE read == [query |-> query, rows |-> Of(query, rows)]
  <2>1. reads = <<read>>
    <3>1. Append(<<>>, read) = <<read>> /\ <<read>> # <<>>
      OBVIOUS
    <3> QED
      BY <1>1, <1>3, <3>1 DEF ReadsAtOnce
  <2>2. DOMAIN reads = {1} /\ reads[1] = read
    BY <2>1
  <2>3. l.rows = UNION {reads[i].rows : i \in DOMAIN reads} /\ l.dies = FALSE /\ l.prefix = {} /\ l.scope = {}
    BY DEF Load
  <2>4. l.rows = Of(query, rows)
    BY <2>2, <2>3
  <2> HIDE DEF reads, l
  <2> QED
    BY <2>3, <2>4 DEF AtOnce, OwnEvents, l, reads
<1> QED
  BY <1>2, <1>3

LEMMA NoopFollows ==
  ASSUME WellDefined, NoopsStay, TypeInv, NEW c \in Calls, ReadsOnce(Request(c)), NEW marker,
         NoopRests(Request(c), marker)
  PROVE  HasNothingToDoAt(c, marker)
<1> DEFINE q     == Request(c)
           below == {r \in log : r.xid <= marker}
           late  == Of(ModelOf(q, {}), below)
<1>1. q \in Requests /\ ~ q.timed /\ LookupOf(q) = {}
  BY DEF TypeInv, CallType, Request, ReadsOnce
<1>2. PICK rows \in SUBSET Of(ModelOf(q, {}), log) : SaysNothing(Decide(q, {}, rows)) /\ marker = LatestOf(rows)
  BY DEF NoopRests
<1> DEFINE b == nextXid - 1
<1>3. b \in Nat /\ \A r \in log : r.xid \in Nat /\ r.xid <= b /\ r.xid # 0
  BY InitialRowsType DEF TypeInv, IsWritten
<1> HIDE DEF b
<1>4. rows \subseteq log
  BY <1>2 DEF Of
<1>5. marker \in Nat /\ \A r \in rows : r.xid <= marker
  BY <1>2, <1>3, <1>4, LatestOfRows
<1>6. \A r \in late : \E s \in rows : r.xid <= s.xid
  <2>1. CASE rows = {}
    <3>1. marker = 0
      BY <1>2, <2>1 DEF LatestOf, NoMarker
    <3>2. below = {}
      BY <1>3, <3>1
    <3> QED
      BY <3>2 DEF Of
  <2>2. CASE rows # {}
    <3>1. \E s \in rows : s.xid = marker
      <4>1. XidsOf(rows) \in SUBSET Nat /\ XidsOf(rows) # {} /\ \A x \in XidsOf(rows) : x <= b
        BY <1>3, <1>4, <2>2 DEF XidsOf
      <4>2. \E x \in XidsOf(rows) : \A y \in XidsOf(rows) : y <= x
        BY <1>3, <4>1, GreatestExists
      <4>3. marker \in XidsOf(rows)
        BY <1>2, <2>2, <4>2 DEF LatestOf
      <4> QED
        BY <4>3 DEF XidsOf
    <3> QED
      BY <3>1 DEF Of
  <2> QED
    BY <2>1, <2>2
<1>7. rows \cup late = late
  BY <1>2, <1>4, <1>5 DEF Of
<1>8. SaysNothing(Decide(q, {}, late))
  <2>1. SaysNothing(Decide(q, {}, rows \cup late))
    BY <1>1, <1>2, <1>6 DEF NoopsStay, NoopStays, SaysNothing
  <2> QED
    BY <1>7, <2>1
<1>9. Of(LookupOf(q), below) = {}
  BY <1>1 DEF Of, Matches
<1> HIDE DEF q
<1>10. AtOnce(q, call[c].now, below).tag =
         IF Decide(q, {}, late).tag = "emit" /\ Decide(q, {}, late).events = {} THEN "noop" ELSE Decide(q, {}, late).tag
  <2> HIDE DEF below
  <2> QED
    BY <1>1, <1>9, UntimedAtOnce
<1>11. AtOnce(q, call[c].now, below).tag = "noop"
  <2> HIDE DEF late
  <2> QED
    BY <1>8, <1>10 DEF SaysNothing
<1> QED
  BY <1>11 DEF HasNothingToDoAt, q

(* A call that gives up has lost as many times as it tried. *)
LEMMA GivingUpFollows ==
  ASSUME TypeInv, RowsInv, NEW c \in Calls, Retries < commits, \A r \in Written : r.by # c
  PROVE  GivesUpForAReason(c)
<1> DEFINE S == {r.at : r \in {r \in Written : r.by # c}}
<1>1. S = 1 .. commits
  <2>1. S \subseteq 1 .. commits
    BY WrittenIs DEF IsWritten, Written
  <2>2. 1 .. commits \subseteq S
    BY DEF RowsInv
  <2> QED
    BY <2>1, <2>2
<1>2. commits \in Nat
  BY DEF TypeInv
<1>3. Cardinality(1 .. commits) = commits
  <2>1. 1 \in Int /\ commits \in Int
    BY <1>2
  <2>2. Cardinality(1 .. commits) = IF 1 > commits THEN 0 ELSE commits - 1 + 1
    BY <2>1, FS_Interval
  <2> QED
    BY <1>2, <2>2
<1> HIDE DEF S
<1>4. Cardinality(S) > Retries
  BY <1>1, <1>2, <1>3, BoundsType
<1> QED
  BY <1>4 DEF GivesUpForAReason, S

LEMMA AnswersFollow ==
  ASSUME WellDefined, NoopsStay, TypeInv, PhaseInv, RowsInv, AnswersInv, TriesInv
  PROVE  AnswersAreTrue
<1>1. TypeOK
  BY TypesFollow
<1> SUFFICES ASSUME NEW c \in Calls
             PROVE  LET mine == {r \in Written : r.by = c}
                    IN  /\ call[c].answer = "created" => mine # {} /\ \A r \in mine : r.xid = call[c].marker
                        /\ call[c].answer = "idempotent" => IsDoneAt(c, call[c].marker)
                        /\ call[c].answer = "noop" /\ ReadsOnce(Request(c)) => HasNothingToDoAt(c, call[c].marker)
                        /\ call[c].answer = "mismatch" =>
                             \E r \in Written : /\ Matches(Request(c).idempotentBy, r.event)
                                                /\ r.request.id # Request(c).id
                                                /\ (Request(c).cause = NoCause \/ r.cause # Request(c).cause)
                        /\ call[c].answer \notin {"created", "error"} => mine = {}
                        /\ call[c].answer = "conflict" /\ faults = 0 => GivesUpForAReason(c)
  BY <1>1 DEF AnswersAreTrue
<1>2. AnswerRests(c, call[c])
  BY DEF AnswersInv
<1>3. call[c].answer = "created" =>
        (\E r \in Written : r.by = c) /\ \A r \in Written : r.by = c => r.xid = call[c].marker
  BY <1>2 DEF AnswerRests, RowsInv
<1>4. call[c].answer = "idempotent" => IsDoneAt(c, call[c].marker)
  BY <1>2, DoneIs DEF AnswerRests, Request
<1>5. call[c].answer = "noop" /\ ReadsOnce(Request(c)) => HasNothingToDoAt(c, call[c].marker)
  BY <1>2, NoopFollows DEF AnswerRests, Request
<1>6. call[c].answer = "mismatch" => IsTaken(Request(c))
  BY <1>2 DEF AnswerRests, Request
<1>7. call[c].answer \notin {"created", "error"} => \A r \in Written : r.by # c
  BY DEF RowsInv
<1>8. call[c].answer = "conflict" /\ faults = 0 => GivesUpForAReason(c)
  <2>1. call[c].answer = "conflict" /\ faults = 0 => Retries < commits
    BY DEF TriesInv, TriesRest
  <2> QED
    BY <1>7, <2>1, GivingUpFollows
<1> QED
  BY <1>3, <1>4, <1>5, <1>6, <1>7, <1>8 DEF IsTaken


(* At the start nothing is written and nobody has done anything.           *)
LEMMA InitRests ==
  ASSUME Init
  PROVE  HeldInv /\ RowsInv /\ KeysInv /\ AnswersInv /\ TriesInv
<1>1. Written = {} /\ commits = 0
  BY DEF Init, Written
<1>2. \A c \in Calls : \E q : call[c] = NewCall(q)
  <2>1. PICK s \in Sendings : call = [c \in Calls |-> NewCall(s[c])]
    BY DEF Init
  <2> QED
    BY <2>1
<1>3. \A c \in Calls : /\ call[c].phase = "precheck" /\ call[c].answer = "none" /\ call[c].tries = 0
                       /\ call[c].lookup = {} /\ call[c].reads = <<>>
  <2>1. \A q : /\ NewCall(q).phase = "precheck" /\ NewCall(q).answer = "none" /\ NewCall(q).tries = 0
               /\ NewCall(q).lookup = {} /\ NewCall(q).reads = <<>>
    BY DEF NewCall
  <2> QED
    BY <1>2, <2>1
<1>4. HeldInv
  BY <1>3 DEF HeldInv, HasInserted
<1>5. RowsInv /\ KeysInv
  BY <1>1 DEF RowsInv, KeysInv
<1>6. AnswersInv
  BY <1>3 DEF AnswersInv, AnswerRests
<1>7. TriesInv
  <2>1. DOMAIN <<>> = {}
    OBVIOUS
  <2> QED
    BY <1>1, <1>3, <2>1 DEF TriesInv, TriesRest
<1> QED
  BY <1>4, <1>5, <1>6, <1>7

(* What a caller is told is true, of every number of calls and faults.     *)
THEOREM AnswersHold == ASSUME WellDefined, NoopsStay PROVE Spec => []AnswersAreTrue
<1> DEFINE Inv == TypeInv /\ PhaseInv /\ HeldInv /\ RowsInv /\ AnswersInv /\ TriesInv
<1>1. Init => Inv
  BY InitTypes, InitRests
<1>2. Inv /\ [Next]_vars => Inv'
  BY TypesAreInductive, HeldIsKept, RowsAreKept, AnswersAreKept, TriesAreKept
<1>3. Inv => AnswersAreTrue
  BY AnswersFollow
<1> QED
  BY <1>1, <1>2, <1>3, PTL DEF Spec

-----------------------------------------------------------------------------
(* A key is used once. *)

LEMMA KeysStayUsedOnce ==
  ASSUME WellDefined, TypeInv, PhaseInv, HeldInv, KeyUsedOnce, [Next]_vars
  PROVE  KeyUsedOnce'
<1>1. CASE log' = log
  BY <1>1 DEF KeyUsedOnce, Written
<1>2. ASSUME NEW c \in Calls, NEW e, Commits(c, e)
      PROVE  KeyUsedOnce'
  <2>1. /\ Written' = Written \cup RowsOf(c) /\ log' = log \cup RowsOf(c) /\ commits \in Nat
        /\ \A r \in log : r.at \in Nat /\ r.at <= commits
        /\ \A r \in RowsOf(c) : r.at = commits + 1 /\ r.request = Request(c)
        /\ HasInserted(c)
    BY <1>2, CommitAdds
  <2>2. \A s \in log : ~ Matches(Request(c).idempotentBy, s.event)
    BY <2>1 DEF HeldInv, Duplicates, Of
  <2>3. Written \subseteq log
    BY DEF Written
  <2>4. ASSUME NEW r \in Written', NEW s \in log', s.at < r.at
        PROVE  ~ Matches(r.request.idempotentBy, s.event)
    <3>1. CASE s \in RowsOf(c)
      BY <2>1, <2>3, <2>4, <3>1
    <3>2. CASE s \in log /\ r \in RowsOf(c)
      BY <2>1, <2>2, <3>2
    <3>3. CASE s \in log /\ r \in Written
      BY <2>3, <2>4, <3>3 DEF KeyUsedOnce
    <3> QED
      BY <2>1, <2>4, <3>1, <3>2, <3>3
  <2> QED
    BY <2>4 DEF KeyUsedOnce
<1>3. ASSUME NEW c \in Calls, NEW e, Moves(c, e) PROVE KeyUsedOnce'
  <2>1. Quiet(c, e) \/ Inserts(c, e) \/ Records(c, e) => log' = log
    BY DEF Quiet, Inserts, MayInsert, Records, Unchanging
  <2> QED
    BY <1>1, <1>2, <1>3, <2>1, QuietMoves
<1> QED
  BY <1>1, <1>3, StepsAreMoves DEF vars

-----------------------------------------------------------------------------
(* The periods of an entity: they are turned forwards, each is opened once *)
(* and every one but the last is closed.                                   *)

Opens(r, id, p)  == r.event.type = OpenedType /\ OfPeriod(r.event, id, p)
Closes(r, id, p) == r.event.type = ClosedType /\ OfPeriod(r.event, id, p)

NeverTurned(id) == \A r \in log, p \in Periods : ~ Opens(r, id, p) /\ ~ Closes(r, id, p)

LastIs(id, last) ==
  /\ \E r \in log : Opens(r, id, last)
  /\ \A r \in log, p \in Periods :
       /\ Opens(r, id, p) => p <= last
       /\ Closes(r, id, p) => p < last
       /\ Opens(r, id, p) /\ p # last => /\ \E s \in log : Closes(s, id, p)
                                         /\ \A s \in log : Opens(s, id, last) => r.xid < s.xid

OpenedOnce(id) == \A r, s \in log, p \in Periods : Opens(r, id, p) /\ Opens(s, id, p) => r.at = s.at

TurnInv == \A id \in Entities : /\ NeverTurned(id) \/ \E last \in Periods : LastIs(id, last)
                                /\ OpenedOnce(id)

(* A row that opens or closes a period of an entity, by its tags.          *)
LEMMA MarkIs ==
  ASSUME TypeInv, NEW id \in Entities, NEW r \in log
  PROVE  /\ Matches(TrackingQuery(id), r.event) <=> \E p \in Periods : Opens(r, id, p) \/ Closes(r, id, p)
         /\ \A p \in Periods : /\ /\ r.event.type = OpenedType /\ Matches(PeriodQuery(id, p), r.event)
                                  /\ TagOfPeriod(p) \in r.event.tags
                                  <=> Opens(r, id, p)
                               /\ /\ r.event.type = ClosedType /\ Matches(PeriodQuery(id, p), r.event)
                                  /\ TagOfPeriod(p) \in r.event.tags
                                  <=> Closes(r, id, p)
                               /\ Closes(r, id, p) => Matches(ClosingQuery(id, p), r.event)
<1>1. IsTagged(r.event)
  BY DEF TypeInv
<1>2. \A p \in Periods : OfPeriod(r.event, id, p) => id \in r.event.tags /\ TagOfPeriod(p) \in r.event.tags
  BY DEF OfPeriod
<1>3. ASSUME r.event.type \in {OpenedType, ClosedType}, id \in r.event.tags
      PROVE  \E p \in Periods : OfPeriod(r.event, id, p)
  <2>1. PICK i \in Entities, p \in Periods : OfPeriod(r.event, i, p)
    BY <1>1, <1>3 DEF IsTagged
  <2>2. i = id
    BY <1>3, <2>1 DEF OfPeriod
  <2> QED
    BY <2>1, <2>2
<1>4. \A p, o \in Periods : OfPeriod(r.event, id, o) /\ TagOfPeriod(p) \in r.event.tags => p = o
  BY DEF OfPeriod
<1>5. Matches(TrackingQuery(id), r.event) <=> r.event.type \in {OpenedType, ClosedType} /\ id \in r.event.tags
  <2>1. TrackingQuery(id) = {[types |-> {OpenedType, ClosedType}, tags |-> {id}]}
    BY DEF TrackingQuery, OneItem
  <2> QED
    BY <2>1 DEF Matches, ItemMatches
<1>6. \A p \in Periods : Matches(PeriodQuery(id, p), r.event) =>
                           id \in r.event.tags
  BY DEF PeriodQuery, OneItem, Matches, ItemMatches
<1>7. ASSUME NEW p \in Periods, r.event.type \in {OpenedType, ClosedType}, id \in r.event.tags, TagOfPeriod(p) \in r.event.tags
      PROVE  Matches(PeriodQuery(id, p), r.event)
  <2> DEFINE i == [types |-> ScopedTypes, tags |-> {id, TagOfPeriod(p)}]
  <2>1. i \in PeriodQuery(id, p)
    BY PeriodTypes DEF PeriodQuery, OneItem
  <2>2. ItemMatches(i, r.event)
    BY <1>7, PeriodTypes DEF ItemMatches
  <2> QED
    BY <2>1, <2>2 DEF Matches
<1>8. ASSUME NEW p \in Periods, r.event.type = ClosedType, id \in r.event.tags, TagOfPeriod(p) \in r.event.tags
      PROVE  Matches(ClosingQuery(id, p), r.event)
  BY <1>8 DEF ClosingQuery, OneItem, Matches, ItemMatches
<1> QED
  BY <1>2, <1>3, <1>4, <1>5, <1>6, <1>7, <1>8 DEF Opens, Closes

(* What a read of an entity's period says of it. *)
LEMMA MarkedIs ==
  ASSUME TypeInv, NEW id \in Entities, NEW p \in Periods, NEW seen \in SUBSET log,
         NEW read, read.rows = Of(PeriodQuery(id, p), seen)
  PROVE  /\ Marked(read, OpenedType, p) <=> \E r \in seen : Opens(r, id, p)
         /\ Marked(read, ClosedType, p) <=> \E r \in seen : Closes(r, id, p)
BY MarkIs DEF Marked, Of

(* What the log has as the entity's open period. *)
LEMMA TrackedOfLog ==
  ASSUME TypeInv, NEW id \in Entities, NEW read, read.rows = Of(TrackingQuery(id), log)
  PROVE  /\ NeverTurned(id) => Tracked(read) = 0
         /\ \A last \in Periods : LastIs(id, last) => Tracked(read) = last
<1>1. \A r \in read.rows : r \in log /\ \E p \in Periods : Opens(r, id, p) \/ Closes(r, id, p)
  BY MarkIs DEF Of
<1>2. \A r \in log, p \in Periods : Opens(r, id, p) \/ Closes(r, id, p) => r \in read.rows
  BY MarkIs DEF Of
<1>3. ASSUME NeverTurned(id) PROVE Tracked(read) = 0
  BY <1>1, <1>3 DEF NeverTurned, Tracked
<1>4. ASSUME NEW last \in Periods, LastIs(id, last) PROVE Tracked(read) = last
  <2> DEFINE b == nextXid - 1
  <2>1. b \in Nat /\ \A r \in log : r.xid \in Nat /\ r.xid <= b /\ IsTagged(r.event)
    BY InitialRowsType DEF TypeInv, IsWritten
  <2> HIDE DEF b
  <2>2. PICK opening \in log : Opens(opening, id, last)
    BY <1>4 DEF LastIs
  <2>3. PICK newest \in read.rows :
           /\ newest.event.type = OpenedType
           /\ \A s \in read.rows : s.event.type = OpenedType => s.xid <= newest.xid
           /\ PeriodOf(newest) \in Periods
           /\ Tracked(read) = IF \E r \in read.rows : /\ r.event.type = ClosedType
                                                      /\ PeriodOf(r) = PeriodOf(newest) /\ r.xid >= newest.xid
                              THEN 0 ELSE PeriodOf(newest)
    <3>1. \A r \in read.rows : r.xid \in Nat /\ r.xid <= b /\ IsTagged(r.event)
      BY <1>1, <2>1
    <3>2. \E r \in read.rows : r.event.type = OpenedType
      BY <1>2, <2>2 DEF Opens
    <3> QED
      BY <2>1, <3>1, <3>2, TrackedIs
  <2>4. \A r \in read.rows, p \in Periods : OfPeriod(r.event, id, p) => PeriodOf(r) = p
    BY PeriodOfIs
  <2>5. PICK p \in Periods : Opens(newest, id, p)
    BY <1>1, <2>3, PeriodTypes DEF Opens, Closes
  <2>6. PeriodOf(newest) = p
    BY <2>4, <2>5 DEF Opens
  <2>7. p = last
    <3>1. opening.xid <= newest.xid
      BY <1>2, <2>2, <2>3 DEF Opens
    <3>2. ~ (newest.xid < opening.xid)
      BY <1>1, <2>1, <3>1
    <3> QED
      BY <1>1, <1>4, <2>2, <2>5, <3>2 DEF LastIs
  <2>8. ~ \E r \in read.rows : r.event.type = ClosedType /\ PeriodOf(r) = last
    <3> SUFFICES ASSUME NEW r \in read.rows, r.event.type = ClosedType, PeriodOf(r) = last PROVE FALSE
      OBVIOUS
    <3>1. PICK o \in Periods : Closes(r, id, o)
      BY <1>1, PeriodTypes DEF Opens, Closes
    <3>2. o = last
      BY <2>4, <3>1 DEF Closes
    <3>3. o < last
      BY <1>1, <1>4, <3>1 DEF LastIs
    <3> QED
      BY <3>2, <3>3, PeriodTags
  <2> QED
    BY <2>3, <2>6, <2>7, <2>8
<1> QED
  BY <1>3, <1>4

-----------------------------------------------------------------------------
(* What a call that has inserted has read is still so, where it has said   *)
(* that it depends on it.                                                  *)

IsCurrent(d) == \A r \in Of(d.append.condition, log) : r.at <= d.append.seen

LEMMA ReadIsCurrent ==
  ASSUME TypeInv, NEW d \in CallType, IsCurrent(d), NEW x \in Reading, NEW query, IsReading(x, query),
         d.append.seen <= x.upTo, query \subseteq d.append.condition
  PROVE  x.rows = Of(query, log)
<1>1. \A r \in log : r.at \in Nat
  BY InitialRowsType DEF TypeInv, IsWritten
<1>2. d.append.seen \in Nat /\ x.upTo \in Nat
  BY DEF CallType, Appending, Reading, TypeInv
<1>3. \A r \in Of(query, log) : r \in Of(d.append.condition, log)
  BY DEF Of, Matches
<1>4. \A r \in Of(query, log) : r.at <= x.upTo
  <2>1. \A r \in Of(query, log) : r.at \in Nat /\ r.at <= d.append.seen
    BY <1>1, <1>3 DEF IsCurrent, Of
  <2> QED
    BY <1>2, <2>1
<1> QED
  BY <1>4 DEF IsReading, Of, ReadUpTo

LEMMA LookupIsCurrent ==
  ASSUME TypeInv, NEW d \in CallType, ReadsAreMade(d), IsDecided(d), IsCurrent(d)
  PROVE  LookedUp(d.lookup) = Of(LookupOf(d.request), log)
<1>1. CASE LookupOf(d.request) = {}
  <2>1. d.lookup = {}
    BY <1>1 DEF ReadsAreMade, LookupIsMade
  <2> QED
    BY <1>1, <2>1 DEF LookedUp, Of, Matches
<1>2. CASE LookupOf(d.request) # {}
  <2>1. PICK x \in Reading : d.lookup = {x} /\ IsReading(x, LookupOf(d.request))
    BY <1>2 DEF ReadsAreMade, LookupIsMade
  <2>2. LookedUp(d.lookup) = x.rows /\ LookupQuery(d.lookup) = x.query
    BY <2>1 DEF LookedUp, LookupQuery
  <2>3. x.query \subseteq d.append.condition /\ d.append.seen <= x.upTo
    BY <2>1, <2>2 DEF IsDecided, Condition
  <2> QED
    BY <2>1, <2>2, <2>3, ReadIsCurrent DEF IsReading
<1> QED
  BY <1>1, <1>2

(* Under strict() every read that counts is. *)
LEMMA StrictIsCurrent ==
  ASSUME TypeInv, NEW d \in CallType, IsDecided(d), IsCurrent(d),
         IsStrict(d.request, d.lookup, Loaded(d), Emits(d)),
         NEW i \in Loaded(d).uses, i \in DOMAIN d.reads, NEW query, IsReading(d.reads[i], query),
         query \subseteq Loaded(d).boundary
  PROVE  d.reads[i].rows = Of(query, log)
<1>1. d.reads[i] \in Reading
  BY DEF CallType
<1>2. Loaded(d).boundary \subseteq d.append.condition
  BY DEF IsDecided, Condition
<1>3. d.append.seen <= d.reads[i].upTo
  BY DEF IsDecided
<1> QED
  BY <1>1, <1>2, <1>3, ReadIsCurrent

(* A turn is decided on what the log still says.                           *)
LEMMA TurnIsCurrent ==
  ASSUME WellDefined, TypeInv, NEW d \in CallType, ReadsAreMade(d), IsDecided(d), IsCurrent(d), d.request.timed,
         NEW old, Loaded(d) = Turn(EntityOf(d.request, LookedUp(d.lookup)), old, d.now, d.reads),
         NEW i \in DOMAIN d.reads
  PROVE  d.reads[i].rows = Of(d.reads[i].query, log) /\ d.reads[i].query \subseteq d.append.condition
<1> DEFINE id == EntityOf(d.request, LookedUp(d.lookup))
<1>1. /\ Loaded(d).uses = DOMAIN d.reads /\ Loaded(d).prefix # {}
      /\ Loaded(d).boundary = UNION {d.reads[j].query : j \in DOMAIN d.reads}
  BY DEF Turn
<1>2. IsStrict(d.request, d.lookup, Loaded(d), Emits(d))
  BY <1>1 DEF IsStrict
<1>3. IsReading(d.reads[i], d.reads[i].query)
  <2>1. PeriodIsRead(id, d.now, d.reads)
    BY DEF ReadsAreMade, LoadIsMade
  <2>2. d.reads \in Seq(Reading)
    BY DEF CallType
  <2>3. Len(d.reads) \in Nat /\ Len(d.reads) <= 3 /\ i \in 1 .. Len(d.reads)
    BY <2>1, <2>2 DEF PeriodIsRead
  <2>4. \/ i = 1 /\ Len(d.reads) >= 1
        \/ i = 2 /\ Len(d.reads) >= 2
        \/ i = 3 /\ Len(d.reads) = 3
    BY <2>3, OneOfThree
  <2> HIDE DEF id
  <2> QED
    BY <2>1, <2>4 DEF PeriodIsRead, IsReading
<1>4. d.reads[i].query \subseteq Loaded(d).boundary
  BY <1>1
<1>5. Loaded(d).boundary \subseteq d.append.condition
  BY <1>2 DEF IsDecided, Condition
<1> QED
  BY <1>1, <1>2, <1>3, <1>4, <1>5, StrictIsCurrent

(* What a turn finds: no period was opened before, or the last one that    *)
(* was is older.                                                           *)
LEMMA TurnFinds ==
  ASSUME WellDefined, TypeInv, TurnInv, NEW d \in CallType, d.now # 0, ReadsAreMade(d), IsDecided(d), IsCurrent(d),
         d.request.timed, NEW id, id = EntityOf(d.request, LookedUp(d.lookup)),
         NEW old, old = (IF Len(d.reads) = 2 THEN 0 ELSE Tracked(d.reads[2])),
         Loaded(d) = Turn(id, old, d.now, d.reads),
         \/ Len(d.reads) = 2 /\ Tracked(d.reads[2]) = 0
         \/ Len(d.reads) = 3 /\ old < d.now /\ old \in Periods
  PROVE  /\ id \in Entities
         /\ TrackingQuery(id) \subseteq d.append.condition
         /\ IF old = 0 THEN NeverTurned(id) ELSE LastIs(id, old)
<1>1. id \in Entities
  BY TimedLoadIs DEF IsDecided
<1>2. 2 \in DOMAIN d.reads /\ Len(d.reads) >= 2
  BY DEF CallType
<1>3. IsReading(d.reads[2], TrackingQuery(id))
  <2>1. PeriodIsRead(id, d.now, d.reads)
    BY DEF ReadsAreMade, LoadIsMade
  <2> QED
    BY <1>2, <2>1 DEF PeriodIsRead
<1>4. d.reads[2].rows = Of(TrackingQuery(id), log) /\ TrackingQuery(id) \subseteq d.append.condition
  BY <1>2, <1>3, TurnIsCurrent DEF IsReading
<1>5. /\ NeverTurned(id) => Tracked(d.reads[2]) = 0
      /\ \A last \in Periods : LastIs(id, last) => Tracked(d.reads[2]) = last
  BY <1>1, <1>4, TrackedOfLog
<1>6. NeverTurned(id) \/ \E last \in Periods : LastIs(id, last)
  BY <1>1 DEF TurnInv
<1>7. 0 \notin Periods
  BY PeriodTags
<1> QED
  BY <1>1, <1>4, <1>5, <1>6, <1>7

(* What a commit opens and closes: nothing, or the period of now for the   *)
(* one that was open.                                                      *)
LEMMA CommitTurns ==
  ASSUME WellDefined, TypeInv, PhaseInv, HeldInv, TurnInv, NEW c \in Calls, NEW e, Commits(c, e)
  PROVE  \/ \A r \in RowsOf(c) : r.event.type \notin {OpenedType, ClosedType}
         \/ \E id \in Entities, new \in Periods, old \in Periods \cup {0} :
              /\ old < new
              /\ IF old = 0 THEN NeverTurned(id) ELSE LastIs(id, old)
              /\ \A r \in log, p \in Periods : Opens(r, id, p) => r.xid < call[c].xid
              /\ \E r \in RowsOf(c) : Opens(r, id, new)
              /\ old # 0 => \E r \in RowsOf(c) : Closes(r, id, old)
              /\ \A r \in RowsOf(c) : \/ Opens(r, id, new)
                                      \/ old # 0 /\ Closes(r, id, old)
                                      \/ r.event.type \notin {OpenedType, ClosedType}
<1> DEFINE d == call[c]
           l == Loaded(d)
<1>1. /\ \A r \in RowsOf(c) : r.event \in Emits(d)
      /\ \A x \in Emits(d) : \E r \in RowsOf(c) : r.event = x
      /\ HasInserted(c)
  BY CommitAdds
<1>2. d \in CallType /\ d.request \in Requests /\ d.now # 0 /\ ReadsAreMade(d) /\ ToRead(d) = {} /\ IsDecided(d)
  BY <1>1, CommittingIs DEF HasInserted, Request
<1>3. \A r \in Of(d.append.condition, log) : r.at <= d.append.seen /\ r.xid < d.xid
  BY <1>1 DEF HeldInv
<1>4. IsCurrent(d)
  BY <1>3 DEF IsCurrent
<1>5. \A x \in Own(d) : x.type \notin {OpenedType, ClosedType}
  <2>1. \A x \in Decision(d).events : x.type \notin {OpenedType, ClosedType} /\ x \in Event
    BY <1>2 DEF WellDefined, IsDecision, IsTurn, Decision
  <2>2. \A x \in Event : [x EXCEPT !.tags = x.tags \cup l.scope].type = x.type
    BY DEF Event
  <2> QED
    BY <2>1, <2>2 DEF Own, OwnEvents
<1>6. CASE l.prefix = {}
  BY <1>1, <1>5, <1>6 DEF Emits
<1>7. CASE l.prefix # {}
  <2> DEFINE id  == EntityOf(d.request, LookedUp(d.lookup))
             cur == Tracked(d.reads[2])
             old == IF Len(d.reads) = 2 THEN 0 ELSE cur
  <2>1. d.request.timed
    BY <1>7 DEF Loaded, Load
  <2>2. /\ id \in Entities /\ d.now \in Periods
        /\ \/ Len(d.reads) = 2 /\ cur = 0 /\ l = Turn(id, 0, d.now, d.reads)
           \/ Len(d.reads) = 3 /\ cur \in Periods /\ cur < d.now /\ l = Turn(id, cur, d.now, d.reads)
    <3>1. /\ id \in Entities /\ d.now \in Periods
          /\ Len(d.reads) = 3 => cur \in Periods
          /\ \/ l = Dies
             \/ l = InOpen(id, d.now, d.reads, 1)
             \/ Len(d.reads) = 2 /\ cur = 0 /\ l = Turn(id, 0, d.now, d.reads)
             \/ l = InOpen(id, cur, d.reads, 3)
             \/ Len(d.reads) = 3 /\ cur < d.now /\ l = Turn(id, cur, d.now, d.reads)
      BY <1>2, <2>1, TimedLoadIs
    <3>2. Dies.prefix = {} /\ \A p, i : InOpen(id, p, d.reads, i).prefix = {}
      BY DEF Dies, InOpen
    <3> HIDE DEF l, id, cur
    <3> QED
      BY <1>7, <3>1, <3>2
  <2> HIDE DEF id, cur
  <2>3. l = Turn(id, old, d.now, d.reads) /\ old \in Periods \cup {0} /\ old < d.now
    <3>1. 0 < d.now
      BY <2>2, PeriodsCount
    <3> QED
      BY <2>2, <3>1
  <2>4. /\ TrackingQuery(id) \subseteq d.append.condition
        /\ IF old = 0 THEN NeverTurned(id) ELSE LastIs(id, old)
    BY <1>2, <1>4, <2>1, <2>2, <2>3, TurnFinds DEF id, cur
  <2>5. PICK carried : l.prefix = {Opening(id, d.now, carried)} \cup (IF old = 0 THEN {} ELSE {Closing(id, old, carried)})
    BY <2>3 DEF Turn
  <2>6. /\ Opening(id, d.now, carried).type = OpenedType /\ OfPeriod(Opening(id, d.now, carried), id, d.now)
        /\ old # 0 => Closing(id, old, carried).type = ClosedType /\ OfPeriod(Closing(id, old, carried), id, old)
    BY <2>2, <2>3 DEF WellDefined, IsTurn
  <2>7. \A r \in log, p \in Periods : Opens(r, id, p) => r.xid < d.xid
    <3>1. \A r \in log, p \in Periods : Opens(r, id, p) => Matches(TrackingQuery(id), r.event)
      BY <2>2, MarkIs
    <3> QED
      BY <1>3, <2>4, <3>1 DEF Of, Matches
  <2>8. l.prefix \subseteq Emits(d) /\ \A x \in Emits(d) : x \in l.prefix \/ x \in Own(d)
    BY DEF Emits
  <2> HIDE DEF d, l, old
  <2>9. /\ \E r \in RowsOf(c) : Opens(r, id, d.now)
        /\ old # 0 => \E r \in RowsOf(c) : Closes(r, id, old)
    BY <1>1, <2>5, <2>6, <2>8 DEF Opens, Closes
  <2>10. \A r \in RowsOf(c) : \/ Opens(r, id, d.now)
                              \/ old # 0 /\ Closes(r, id, old)
                              \/ r.event.type \notin {OpenedType, ClosedType}
    BY <1>1, <1>5, <2>5, <2>6, <2>8 DEF Opens, Closes
  <2>11. id \in Entities /\ d.now \in Periods /\ old \in Periods \cup {0} /\ old < d.now
    BY <2>2, <2>3
  <2>12. \A r \in log, p \in Periods : Opens(r, id, p) => r.xid < call[c].xid
    BY <2>7 DEF d
  <2> QED
    BY <2>4, <2>9, <2>10, <2>11, <2>12
<1> QED
  BY <1>6, <1>7

LEMMA NoTurn ==
  ASSUME TypeInv, TurnInv, NEW rows, log' = log \cup rows, NEW id \in Entities,
         \A r \in rows, p \in Periods : ~ Opens(r, id, p) /\ ~ Closes(r, id, p)
  PROVE  /\ (NeverTurned(id) \/ \E last \in Periods : LastIs(id, last))'
         /\ OpenedOnce(id)'
<1>1. \A r \in log', p \in Periods : Opens(r, id, p) \/ Closes(r, id, p) => r \in log
  OBVIOUS
<1>2. NeverTurned(id) => NeverTurned(id)'
  BY <1>1 DEF NeverTurned
<1>3. ASSUME NEW last \in Periods, LastIs(id, last) PROVE LastIs(id, last)'
  BY <1>1, <1>3 DEF LastIs
<1>4. OpenedOnce(id)'
  BY <1>1 DEF OpenedOnce, TurnInv
<1>5. NeverTurned(id) \/ \E last \in Periods : LastIs(id, last)
  BY DEF TurnInv
<1> QED
  BY <1>2, <1>3, <1>4, <1>5

LEMMA OneTurn ==
  ASSUME TypeInv, TurnInv, NEW rows, log' = log \cup rows, NEW id \in Entities,
         NEW new \in Periods, NEW old \in Periods \cup {0}, old < new,
         IF old = 0 THEN NeverTurned(id) ELSE LastIs(id, old),
         NEW at, NEW xid, \A r \in rows : r.at = at /\ r.xid = xid,
         \A r \in log, p \in Periods : Opens(r, id, p) => r.xid < xid,
         \E r \in rows : Opens(r, id, new),
         old # 0 => \E r \in rows : Closes(r, id, old),
         \A r \in rows, p \in Periods : /\ Opens(r, id, p) => p = new
                                        /\ Closes(r, id, p) => p = old /\ old # 0
  PROVE  LastIs(id, new)' /\ OpenedOnce(id)'
<1>0. \A p \in Periods : p \in Nat /\ 0 < p
  BY PeriodsCount
<1>1. \A r \in log, p \in Periods : /\ Opens(r, id, p) => p < new /\ (p # old => \E s \in log : Closes(s, id, p))
                                    /\ Closes(r, id, p) => p < new
  <2>1. CASE old = 0
    BY <2>1 DEF NeverTurned
  <2>2. CASE old # 0
    <3>1. \A p \in Periods : p <= old \/ p < old => p < new
      BY <1>0, <2>2
    <3> QED
      BY <2>2, <3>1 DEF LastIs
  <2> QED
    BY <2>1, <2>2
<1>2. \A p \in Periods : p < new => p # new /\ p <= new
  BY <1>0
<1>3. new <= new
  BY <1>0
<1>4. \A s \in log' : Opens(s, id, new) => s \in rows
  BY <1>1, <1>2
<1>5. \E r \in log' : Opens(r, id, new)
  OBVIOUS
<1>6. ASSUME NEW r \in log', NEW p \in Periods, Opens(r, id, p)
      PROVE  p <= new /\ (p # new => /\ \E s \in log' : Closes(s, id, p)
                                     /\ \A s \in log' : Opens(s, id, new) => r.xid < s.xid)
  <2>1. CASE r \in rows
    BY <1>3, <1>6, <2>1
  <2>2. CASE r \in log
    <3>1. p <= new
      BY <1>1, <1>2, <1>6, <2>2
    <3>2. \E s \in log' : Closes(s, id, p)
      <4>1. old = 0 => p # old
        BY <1>0
      <4> QED
        BY <1>1, <1>6, <2>2, <4>1
    <3>3. \A s \in log' : Opens(s, id, new) => r.xid < s.xid
      BY <1>4, <1>6, <2>2
    <3> QED
      BY <3>1, <3>2, <3>3
  <2> QED
    BY <2>1, <2>2
<1>7. ASSUME NEW r \in log', NEW p \in Periods, Closes(r, id, p)
      PROVE  p < new
  <2>1. CASE r \in rows
    BY <1>7, <2>1
  <2>2. CASE r \in log
    BY <1>1, <1>7, <2>2
  <2> QED
    BY <2>1, <2>2
<1>8. LastIs(id, new)'
  BY <1>5, <1>6, <1>7 DEF LastIs
<1>9. OpenedOnce(id)'
  <2> SUFFICES ASSUME NEW r \in log', NEW s \in log', NEW p \in Periods, Opens(r, id, p), Opens(s, id, p)
               PROVE  r.at = s.at
    BY DEF OpenedOnce
  <2>1. CASE p = new
    BY <1>4, <2>1
  <2>2. CASE p # new
    <3>1. r \in log /\ s \in log
      BY <2>2
    <3> QED
      BY <3>1 DEF TurnInv, OpenedOnce
  <2> QED
    BY <2>1, <2>2
<1> QED
  BY <1>8, <1>9

LEMMA PeriodsAreTurned ==
  ASSUME WellDefined, TypeInv, PhaseInv, HeldInv, TurnInv, [Next]_vars
  PROVE  TurnInv'
<1>1. CASE log' = log
  BY <1>1 DEF TurnInv, NeverTurned, LastIs, OpenedOnce
<1>2. ASSUME NEW c \in Calls, NEW e, Commits(c, e)
      PROVE  TurnInv'
  <2>1. /\ log' = log \cup RowsOf(c)
        /\ \A r \in RowsOf(c) : r.at = commits + 1 /\ r.xid = call[c].xid
    BY <1>2, CommitAdds
  <2>2. CASE \A r \in RowsOf(c) : r.event.type \notin {OpenedType, ClosedType}
    <3>1. \A r \in RowsOf(c) : \A i, p : ~ Opens(r, i, p) /\ ~ Closes(r, i, p)
      BY <2>2 DEF Opens, Closes
    <3>2. ASSUME NEW id \in Entities
          PROVE  /\ (NeverTurned(id) \/ \E last \in Periods : LastIs(id, last))'
                 /\ OpenedOnce(id)'
      BY <2>1, <3>1, NoTurn
    <3> QED
      BY <3>2 DEF TurnInv
  <2>3. ASSUME NEW id \in Entities, NEW new \in Periods, NEW old \in Periods \cup {0},
               old < new,
               IF old = 0 THEN NeverTurned(id) ELSE LastIs(id, old),
               \A r \in log, p \in Periods : Opens(r, id, p) => r.xid < call[c].xid,
               \E r \in RowsOf(c) : Opens(r, id, new),
               old # 0 => \E r \in RowsOf(c) : Closes(r, id, old),
               \A r \in RowsOf(c) : \/ Opens(r, id, new)
                                    \/ old # 0 /\ Closes(r, id, old)
                                    \/ r.event.type \notin {OpenedType, ClosedType}
        PROVE  TurnInv'
    <3>1. \A r \in RowsOf(c), i \in Entities, p \in Periods :
            /\ Opens(r, i, p) => i = id /\ p = new
            /\ Closes(r, i, p) => i = id /\ p = old /\ old # 0
      <4> SUFFICES ASSUME NEW r \in RowsOf(c), NEW i \in Entities, NEW p \in Periods
                   PROVE  /\ Opens(r, i, p) => i = id /\ p = new
                          /\ Closes(r, i, p) => i = id /\ p = old /\ old # 0
        OBVIOUS
      <4>1. CASE Opens(r, id, new)
        BY <4>1, PeriodTypes DEF Opens, Closes, OfPeriod
      <4>2. CASE old # 0 /\ Closes(r, id, old)
        BY <4>2, PeriodTypes DEF Opens, Closes, OfPeriod
      <4>3. CASE r.event.type \notin {OpenedType, ClosedType}
        BY <4>3 DEF Opens, Closes
      <4> QED
        BY <2>3, <4>1, <4>2, <4>3
    <3>2. LastIs(id, new)' /\ OpenedOnce(id)'
      BY <2>1, <2>3, <3>1, OneTurn
    <3>3. ASSUME NEW i \in Entities
          PROVE  /\ (NeverTurned(i) \/ \E last \in Periods : LastIs(i, last))'
                 /\ OpenedOnce(i)'
      <4>1. CASE i = id
        BY <3>2, <4>1
      <4>2. CASE i # id
        BY <2>1, <3>1, <4>2, NoTurn
      <4> QED
        BY <4>1, <4>2
    <3> QED
      BY <3>3 DEF TurnInv
  <2> QED
    BY <1>2, <2>2, <2>3, CommitTurns
<1>3. ASSUME NEW c \in Calls, NEW e, Moves(c, e) PROVE TurnInv'
  <2>1. Quiet(c, e) \/ Inserts(c, e) \/ Records(c, e) => log' = log
    BY DEF Quiet, Inserts, MayInsert, Records, Unchanging
  <2> QED
    BY <1>1, <1>2, <1>3, <2>1, QuietMoves
<1> QED
  BY <1>1, <1>3, StepsAreMoves DEF vars

-----------------------------------------------------------------------------
(* What a load of a model with a period reads when nothing comes between.  *)

(* A read that sees all of the rows. *)
Whole(query, rows) == [query |-> query, rows |-> Of(query, rows)]

LEMMA SeqsAreEqual ==
  ASSUME NEW S, NEW s \in Seq(S), NEW t \in Seq(S), Len(s) = Len(t), \A i \in 1 .. Len(s) : s[i] = t[i]
  PROVE  s = t
OBVIOUS

LEMMA AppendIs ==
  ASSUME NEW S, NEW s \in Seq(S), NEW t \in Seq(S), Len(t) = Len(s) + 1, \A i \in 1 .. Len(s) : s[i] = t[i],
         NEW e \in S, t[Len(t)] = e
  PROVE  Append(s, e) = t
<1> DEFINE u == Append(s, e)
<1>1. u \in Seq(S) /\ Len(u) = Len(s) + 1
  OBVIOUS
<1>2. u[Len(s) + 1] = e
  OBVIOUS
<1>3. \A i \in 1 .. Len(s) : u[i] = s[i]
  OBVIOUS
<1>4. Len(t) \in Nat /\ Len(s) \in Nat /\ \A i \in 1 .. Len(t) : i \in 1 .. Len(s) \/ i = Len(s) + 1
  OBVIOUS
<1> HIDE DEF u
<1>5. Len(u) = Len(t) /\ \A i \in 1 .. Len(u) : u[i] = t[i]
  BY <1>1, <1>2, <1>3, <1>4
<1>6. u = t
  BY <1>1, <1>5, SeqsAreEqual
<1> QED
  BY <1>6 DEF u

LEMMA AppendTwo ==
  ASSUME NEW S, NEW s \in Seq(S), NEW t \in Seq(S), Len(s) = 1, Len(t) = 2, s[1] = t[1]
  PROVE  Append(s, t[2]) = t
<1>1. Len(t) = Len(s) + 1 /\ t[2] \in S /\ t[Len(t)] = t[2] /\ \A i \in 1 .. Len(s) : s[i] = t[i]
  OBVIOUS
<1> QED
  BY <1>1, AppendIs

LEMMA AppendThree ==
  ASSUME NEW S, NEW s \in Seq(S), NEW t \in Seq(S), Len(s) = 2, Len(t) = 3, s[1] = t[1], s[2] = t[2]
  PROVE  Append(s, t[3]) = t
<1>1. Len(t) = Len(s) + 1 /\ t[Len(t)] = t[3]
  OBVIOUS
<1>2. t[3] \in S
  <2>1. t \in [1 .. Len(t) -> S] /\ 3 \in 1 .. 3
    OBVIOUS
  <2> QED
    BY <2>1
<1>3. \A i \in 1 .. 2 : i = 1 \/ i = 2
  OBVIOUS
<1>4. \A i \in 1 .. Len(s) : s[i] = t[i]
  BY <1>3
<1> QED
  BY <1>1, <1>2, <1>4, AppendIs

LEMMA Tuples ==
  ASSUME NEW a, NEW b, NEW x
  PROVE  /\ Append(<<>>, a) = <<a>> /\ Append(<<a>>, b) = <<a, b>> /\ Append(<<a, b>>, x) = <<a, b, x>>
         /\ Len(<<a>>) = 1 /\ <<a>>[1] = a
         /\ Len(<<a, b>>) = 2 /\ <<a, b>>[1] = a /\ <<a, b>>[2] = b
         /\ Len(<<a, b, x>>) = 3 /\ <<a, b, x>>[1] = a /\ <<a, b, x>>[2] = b /\ <<a, b, x>>[3] = x
<1> DEFINE S == {a, b, x}
           r == <<a>>
           s == <<a, b>>
           t == <<a, b, x>>
<1>1. r \in Seq(S) /\ Len(r) = 1 /\ r[1] = a
  OBVIOUS
<1>2. s \in Seq(S) /\ Len(s) = 2 /\ s[1] = a /\ s[2] = b
  OBVIOUS
<1>3. t \in Seq(S) /\ Len(t) = 3 /\ t[1] = a /\ t[2] = b /\ t[3] = x
  OBVIOUS
<1>4. Append(<<>>, a) = <<a>>
  OBVIOUS
<1> HIDE DEF S, r, s, t
<1>5. Append(r, b) = s
  <2>1. Append(r, s[2]) = s
    BY <1>1, <1>2, AppendTwo
  <2> QED
    BY <1>2, <2>1
<1>6. Append(s, x) = t
  <2>1. Append(s, t[3]) = t
    BY <1>2, <1>3, AppendThree
  <2> QED
    BY <1>3, <2>1
<1> QED
  BY <1>1, <1>2, <1>3, <1>4, <1>5, <1>6 DEF r, s, t

LEMMA NextAfterOne ==
  ASSUME NEW id, NEW now, NEW reads, Len(reads) = 1
  PROVE  NextPeriodQuery(id, now, reads) = IF ReadsAsOpen(reads[1], now) THEN {} ELSE TrackingQuery(id)
BY DEF NextPeriodQuery

LEMMA NextAfterTwo ==
  ASSUME NEW id, NEW now, NEW reads, Len(reads) = 2
  PROVE  NextPeriodQuery(id, now, reads) = IF Tracked(reads[2]) = 0 THEN {} ELSE PeriodQuery(id, Tracked(reads[2]))
BY DEF NextPeriodQuery

LEMMA PeriodAtOnce ==
  ASSUME NEW q, q.timed, NEW now, NEW looked, NEW rows, NEW id, id = EntityOf(q, looked),
         NEW R, R = Whole(PeriodQuery(id, now), rows),
         NEW T, T = Whole(TrackingQuery(id), rows),
         NEW S, S = Whole(PeriodQuery(id, Tracked(T)), rows)
  PROVE  ReadsAtOnce(q, now, looked, rows) =
           IF ReadsAsOpen(R, now) THEN <<R>> ELSE IF Tracked(T) = 0 THEN <<R, T>> ELSE <<R, T, S>>
<1> DEFINE next(reads) == NextQuery(q, now, looked, reads)
           more(reads) == IF next(reads) = {} THEN reads
                          ELSE Append(reads, [query |-> next(reads), rows |-> Of(next(reads), rows)])
<1>1. \A p : PeriodQuery(id, p) # {}
  BY PeriodTypes DEF PeriodQuery, OneItem
<1>2. TrackingQuery(id) # {}
  BY DEF TrackingQuery, OneItem
<1>3. \A reads : next(reads) = NextPeriodQuery(id, now, reads)
  BY DEF NextQuery
<1>4. next(<<>>) = PeriodQuery(id, now)
  <2>1. Len(<<>>) = 0
    OBVIOUS
  <2> QED
    BY <1>3, <2>1 DEF NextPeriodQuery
<1>5. next(<<R>>) = IF ReadsAsOpen(R, now) THEN {} ELSE TrackingQuery(id)
  <2>1. next(<<R>>) = NextPeriodQuery(id, now, <<R>>)
    BY <1>3
  <2> QED
    BY <2>1, Tuples, NextAfterOne
<1>6. next(<<R, T>>) = IF Tracked(T) = 0 THEN {} ELSE PeriodQuery(id, Tracked(T))
  <2>1. next(<<R, T>>) = NextPeriodQuery(id, now, <<R, T>>)
    BY <1>3
  <2> QED
    BY <2>1, Tuples, NextAfterTwo
<1>7. /\ Append(<<>>, R) = <<R>> /\ Append(<<R>>, T) = <<R, T>> /\ Append(<<R, T>>, S) = <<R, T, S>>
  BY Tuples
<1> HIDE DEF next
<1>8. more(<<>>) = <<R>>
  BY <1>1, <1>4, <1>7 DEF Whole
<1>9. more(<<R>>) = IF ReadsAsOpen(R, now) THEN <<R>> ELSE <<R, T>>
  BY <1>2, <1>5, <1>7 DEF Whole
<1>10. more(<<R, T>>) = IF Tracked(T) = 0 THEN <<R, T>> ELSE <<R, T, S>>
  BY <1>1, <1>6, <1>7 DEF Whole
<1>11. ReadsAtOnce(q, now, looked, rows) = more(more(more(<<>>)))
  BY DEF ReadsAtOnce, next
<1> HIDE DEF more
<1> QED
  BY <1>8, <1>9, <1>10, <1>11

-----------------------------------------------------------------------------
(* A call that has inserted decided as it would on the log of now.         *)

(* A row of a period's query that opens or closes a period does so to this *)
(* one.                                                                    *)
LEMMA ScopedIs ==
  ASSUME WellDefined, TypeInv, NEW id \in Entities, NEW p \in Periods, NEW r \in log, Matches(PeriodQuery(id, p), r.event)
  PROVE  /\ r.event.type = OpenedType => Opens(r, id, p)
         /\ r.event.type = ClosedType => Closes(r, id, p)
<1>1. r.event.type \in {OpenedType, ClosedType} => TagOfPeriod(p) \in r.event.tags
  <2> SUFFICES ASSUME r.event.type \in {OpenedType, ClosedType} PROVE TagOfPeriod(p) \in r.event.tags
    OBVIOUS
  <2>1. r.event.type \notin LifecycleTypes
    BY DEF WellDefined, IsTurn
  <2>2. PICK i \in PeriodQuery(id, p) : ItemMatches(i, r.event)
    BY DEF Matches
  <2>3. \/ LifecycleTypes # {} /\ i = [types |-> LifecycleTypes, tags |-> {id}]
        \/ i = [types |-> ScopedTypes, tags |-> {id, TagOfPeriod(p)}]
    BY <2>2, PeriodTypes DEF PeriodQuery, OneItem
  <2>4. CASE i = [types |-> ScopedTypes, tags |-> {id, TagOfPeriod(p)}]
    BY <2>2, <2>4 DEF ItemMatches
  <2>5. CASE LifecycleTypes # {} /\ i = [types |-> LifecycleTypes, tags |-> {id}]
    BY <2>1, <2>2, <2>5 DEF ItemMatches
  <2> QED
    BY <2>3, <2>4, <2>5
<1> QED
  BY <1>1, MarkIs

(* The rows that were decided on, and the same query's rows of now: the    *)
(* decision is the same.                                                   *)
LEMMA DecisionStands ==
  ASSUME WellDefined, ConcurrentByDeclaration, TypeInv, TurnInv,
         NEW d \in CallType, d.request \in Requests, IsDecided(d), IsCurrent(d),
         NEW p \in Periods, NEW looked, looked = LookedUp(d.lookup), NEW id, id = EntityOf(d.request, looked),
         NEW query, query = (IF d.request.timed THEN PeriodQuery(id, p) ELSE ModelOf(d.request, looked)),
         NEW i \in Loaded(d).uses, i \in DOMAIN d.reads, IsReading(d.reads[i], query),
         Loaded(d).rows = d.reads[i].rows, Loaded(d).boundary = query, Loaded(d).prefix = {},
         d.request.timed => /\ id \in Entities
                            /\ \E r \in d.reads[i].rows : Opens(r, id, p)
                            /\ \A r \in log : ~ Closes(r, id, p)
  PROVE  /\ Decide(d.request, looked, Of(query, log)) = Decision(d)
         /\ d.request.consistency = "strict" => Of(query, log) = Loaded(d).rows
<1> DEFINE q == d.request
           x == d.reads[i]
           more == Of(query, log) \ x.rows
<1>1. Decision(d) = Decide(q, looked, x.rows)
  BY DEF Decision
<1>2. CASE IsStrict(q, d.lookup, Loaded(d), Emits(d))
  <2>1. x.rows = Of(query, log)
    BY <1>2, StrictIsCurrent
  <2> QED
    BY <1>1, <2>1
<1>3. CASE ~ IsStrict(q, d.lookup, Loaded(d), Emits(d))
  <2>1. q.consistency = "concurrent"
    BY <1>3, RequestsType DEF IsStrict, IsRequest
  <2>2. q.guard \subseteq d.append.condition
    BY <1>3 DEF IsDecided, Condition
  <2>3. x.rows = Of(query, ReadUpTo(x.upTo)) /\ d.append.seen <= x.upTo /\ x \in Reading
    BY DEF IsReading, IsDecided, CallType
  <2>4. d.append.seen \in Nat /\ x.upTo \in Nat /\ \A r \in log : r.at \in Nat
    BY <2>3, InitialRowsType DEF CallType, Appending, Reading, TypeInv, IsWritten
  <2>5. x.rows \subseteq Of(query, log) /\ x.rows \cup more = Of(query, log)
    BY <2>3 DEF Of, ReadUpTo
  <2>6. \A r \in more : r \in log /\ Matches(query, r.event) /\ ~ (r.at <= x.upTo)
    BY <2>3 DEF Of, ReadUpTo
  <2>7. ASSUME NEW r \in more PROVE ~ Matches(q.guard, r.event)
    <3> SUFFICES ASSUME Matches(q.guard, r.event) PROVE FALSE
      OBVIOUS
    <3>1. r \in Of(d.append.condition, log)
      BY <2>2, <2>6, <2>7 DEF Of, Matches
    <3>2. r.at <= d.append.seen
      BY <3>1 DEF IsCurrent
    <3> QED
      BY <2>3, <2>4, <2>6, <2>7, <3>2
  <2>8. ASSUME NEW r \in more, q.timed PROVE r.event.type \notin {OpenedType, ClosedType}
    <3>1. r \in log /\ Matches(PeriodQuery(id, p), r.event)
      BY <2>6, <2>8
    <3>2. r.event.type # ClosedType
      BY <2>8, <3>1, ScopedIs
    <3>3. r.event.type # OpenedType
      <4> SUFFICES ASSUME Opens(r, id, p) PROVE FALSE
        BY <2>8, <3>1, ScopedIs
      <4>1. PICK s \in x.rows : Opens(s, id, p)
        BY <2>8
      <4>2. s \in log /\ s.at <= x.upTo
        BY <2>3 DEF Of, ReadUpTo
      <4>3. r.at = s.at
        BY <2>8, <3>1, <4>1, <4>2 DEF TurnInv, OpenedOnce
      <4> QED
        BY <2>6, <2>8, <4>2, <4>3
    <3> QED
      BY <3>2, <3>3
  <2>9. \A r \in x.rows \cup more : Matches(query, r.event)
    BY <2>5 DEF Of
  <2> HIDE DEF q, x, more
  <2>10. Decide(q, looked, x.rows \cup more) = Decide(q, looked, x.rows)
    <3>1. RunsBeside(q, p, looked, x.rows, more)
      BY DEF ConcurrentByDeclaration, q
    <3>2. query = (IF q.timed THEN PeriodQuery(EntityOf(q, looked), p) ELSE ModelOf(q, looked))
      BY DEF q
    <3> QED
      BY <2>1, <2>7, <2>8, <2>9, <3>1, <3>2 DEF RunsBeside
  <2> QED
    BY <1>1, <2>1, <2>5, <2>10 DEF q
<1> QED
  BY <1>2, <1>3

(* What the load m of now has in common with what was loaded.              *)
Agrees(d, m) ==
  /\ LookedUp(d.lookup) = Of(LookupOf(d.request), log)
  /\ ~ m.dies /\ m.prefix = Loaded(d).prefix /\ m.scope = Loaded(d).scope
  /\ Decide(d.request, LookedUp(d.lookup), m.rows) = Decision(d)
  /\ d.request.consistency = "strict" => m.rows = Loaded(d).rows /\ m.boundary = Loaded(d).boundary

LEMMA OneRead ==
  ASSUME NEW s, DOMAIN s = {1}
  PROVE  UNION {s[i].rows : i \in DOMAIN s} = s[1].rows /\ UNION {s[i].query : i \in DOMAIN s} = s[1].query
OBVIOUS

LEMMA UntimedAgrees ==
  ASSUME WellDefined, ConcurrentByDeclaration, TypeInv, TurnInv,
         NEW d \in CallType, d.request \in Requests, d.now # 0, ReadsAreMade(d), IsDecided(d), IsCurrent(d), ~ d.request.timed
  PROVE  Agrees(d, LoadAtOnce(d.request, d.now, log))
<1> DEFINE q      == d.request
           looked == LookedUp(d.lookup)
           query  == ModelOf(q, looked)
           reads  == ReadsAtOnce(q, d.now, looked, log)
           m      == Load(q, d.now, looked, reads)
<1>1. looked = Of(LookupOf(q), log)
  BY LookupIsCurrent
<1>2. LoadAtOnce(q, d.now, log) = m
  BY <1>1 DEF LoadAtOnce
<1>3. \A s : NextQuery(q, d.now, looked, s) = IF s = <<>> THEN query ELSE {}
  BY DEF NextQuery
<1>4. /\ \A s : Load(q, d.now, looked, s).rows = UNION {s[i].rows : i \in DOMAIN s}
      /\ \A s : Load(q, d.now, looked, s).boundary = UNION {s[i].query : i \in DOMAIN s}
      /\ \A s : Load(q, d.now, looked, s).uses = DOMAIN s
      /\ \A s : /\ Load(q, d.now, looked, s).prefix = {} /\ Load(q, d.now, looked, s).scope = {}
                /\ Load(q, d.now, looked, s).dies = FALSE
  BY DEF Load
<1>5. Loaded(d) = Load(q, d.now, looked, d.reads)
  BY DEF Loaded
<1>6. d.reads \in Seq(Reading) /\ Len(d.reads) <= 1 /\ (Len(d.reads) = 1 => IsReading(d.reads[1], query))
  BY DEF CallType, ReadsAreMade, LoadIsMade
<1>7. CASE query = {}
  <2>1. reads = <<>>
    BY <1>3, <1>7 DEF ReadsAtOnce
  <2>2. DOMAIN <<>> = {}
    OBVIOUS
  <2>3. m.rows = {} /\ m.boundary = {} /\ m.prefix = {} /\ m.scope = {} /\ ~ m.dies
    BY <1>4, <2>1, <2>2
  <2>4. \A i \in DOMAIN d.reads : d.reads[i].rows = {} /\ d.reads[i].query = {}
    <3> SUFFICES ASSUME NEW i \in DOMAIN d.reads PROVE d.reads[i].rows = {} /\ d.reads[i].query = {}
      OBVIOUS
    <3>1. Len(d.reads) \in Nat /\ i \in 1 .. Len(d.reads)
      BY <1>6
    <3>2. i = 1 /\ Len(d.reads) = 1
      BY <1>6, <3>1, UpToOne
    <3> QED
      BY <1>6, <1>7, <3>2 DEF IsReading, Of, Matches
  <2>5. Loaded(d).rows = {} /\ Loaded(d).boundary = {} /\ Loaded(d).prefix = {} /\ Loaded(d).scope = {}
    BY <1>4, <1>5, <2>4
  <2> HIDE DEF m, q
  <2> QED
    BY <1>1, <1>2, <2>3, <2>5 DEF Agrees, Decision, q
<1>8. CASE query # {}
  <2> DEFINE x == Whole(query, log)
  <2>1. reads = <<x>>
    BY <1>3, <1>8, Tuples DEF ReadsAtOnce, Whole
  <2>2. DOMAIN <<x>> = {1} /\ <<x>>[1] = x
    OBVIOUS
  <2>3. m.rows = x.rows /\ m.boundary = x.query /\ m.prefix = {} /\ m.scope = {} /\ ~ m.dies
    <3>1. DOMAIN reads = {1} /\ reads[1] = x
      BY <2>1, <2>2
    <3>2. /\ m.rows = UNION {reads[i].rows : i \in DOMAIN reads}
          /\ m.boundary = UNION {reads[i].query : i \in DOMAIN reads}
          /\ m.prefix = {} /\ m.scope = {} /\ ~ m.dies
      BY <1>4
    <3> HIDE DEF q, looked, reads, m, x
    <3> QED
      BY <3>1, <3>2, OneRead
  <2>4. Len(d.reads) = 1 /\ DOMAIN d.reads = {1}
    <3>1. ToRead(d) = {}
      BY DEF IsDecided
    <3>2. d.reads # <<>>
      BY <1>3, <1>8, <3>1 DEF ToRead
    <3>3. Len(d.reads) \in Nat /\ Len(d.reads) # 0 /\ DOMAIN d.reads = 1 .. Len(d.reads)
      BY <1>6, <3>2
    <3>4. 1 \in 1 .. Len(d.reads) /\ Len(d.reads) <= 1
      BY <1>6, <3>3
    <3>5. Len(d.reads) = 1
      BY <3>3, <3>4, UpToOne
    <3>6. 1 .. 1 = {1}
      OBVIOUS
    <3> QED
      BY <3>3, <3>5, <3>6
  <2>5. /\ Loaded(d).rows = d.reads[1].rows /\ Loaded(d).boundary = d.reads[1].query /\ Loaded(d).uses = {1}
        /\ Loaded(d).prefix = {} /\ Loaded(d).scope = {}
    <3> DEFINE l == Loaded(d)
               s == d.reads
    <3>1. /\ l.rows = UNION {s[i].rows : i \in DOMAIN s}
          /\ l.boundary = UNION {s[i].query : i \in DOMAIN s}
          /\ l.uses = DOMAIN s /\ l.prefix = {} /\ l.scope = {}
      BY <1>4, <1>5
    <3>2. DOMAIN s = {1}
      BY <2>4
    <3> HIDE DEF q, looked, l, s
    <3>3. l.rows = s[1].rows /\ l.boundary = s[1].query /\ l.uses = {1} /\ l.prefix = {} /\ l.scope = {}
      BY <3>1, <3>2, OneRead
    <3> QED
      BY <3>3 DEF l, s
  <2>6. x.rows = Of(query, log) /\ x.query = query /\ d.reads[1].query = query /\ IsReading(d.reads[1], query)
    BY <1>6, <2>4 DEF Whole, IsReading
  <2>7. PICK p \in Periods : TRUE
    BY ClockType, BoundsType
  <2>8. /\ Decide(q, looked, Of(query, log)) = Decision(d)
        /\ q.consistency = "strict" => Of(query, log) = Loaded(d).rows
    BY <2>4, <2>5, <2>6, <2>7, DecisionStands
  <2> HIDE DEF m, q, x
  <2> QED
    BY <1>1, <1>2, <2>3, <2>5, <2>6, <2>8 DEF Agrees, q
<1> QED
  BY <1>7, <1>8

(* What a load of now does when the entity's last period is open: it       *)
(* decides in it.                                                          *)
LEMMA OpenNow ==
  ASSUME WellDefined, TypeInv, NEW q, q.timed, NEW looked, NEW id \in Entities, id = EntityOf(q, looked),
         NEW now \in Periods, NEW p \in Periods, LastIs(id, p), now <= p,
         NEW m, m = Load(q, now, looked, ReadsAtOnce(q, now, looked, log))
  PROVE  /\ m.rows = Of(PeriodQuery(id, p), log) /\ m.boundary = PeriodQuery(id, p)
         /\ m.prefix = {} /\ m.scope = {TagOfPeriod(p)} /\ ~ m.dies
<1> DEFINE R == Whole(PeriodQuery(id, now), log)
           T == Whole(TrackingQuery(id), log)
           S == Whole(PeriodQuery(id, Tracked(T)), log)
           reads == ReadsAtOnce(q, now, looked, log)
<1>1. R.rows = Of(PeriodQuery(id, now), log) /\ T.rows = Of(TrackingQuery(id), log)
  BY DEF Whole
<1>2. S.rows = Of(PeriodQuery(id, Tracked(T)), log) /\ S.query = PeriodQuery(id, Tracked(T)) /\ R.query = PeriodQuery(id, now)
  BY DEF Whole
<1>3. m = LoadedPeriod(id, now, reads)
  BY DEF Load
<1>4. reads = IF ReadsAsOpen(R, now) THEN <<R>> ELSE IF Tracked(T) = 0 THEN <<R, T>> ELSE <<R, T, S>>
  BY PeriodAtOnce
<1> HIDE DEF R, T, S, reads
<1>5. Tracked(T) = p
  BY <1>1, TrackedOfLog
<1>6. /\ \A r \in log : ~ Closes(r, id, p)
      /\ \E r \in log : Opens(r, id, p)
  BY PeriodsCount DEF LastIs
<1>7. CASE now = p
  <2>1. ReadsAsOpen(R, now)
    BY <1>1, <1>6, <1>7, MarkedIs DEF ReadsAsOpen
  <2>2. reads = <<R>> /\ reads[1] = R
    BY <1>4, <2>1
  <2>3. m = InOpen(id, now, reads, 1)
    BY <1>3, <2>1, <2>2 DEF LoadedPeriod
  <2> QED
    BY <1>1, <1>2, <1>7, <2>2, <2>3 DEF InOpen
<1>8. CASE now # p
  <2>1. ~ ReadsAsOpen(R, now)
    <3> SUFFICES ASSUME ReadsAsOpen(R, now) PROVE FALSE
      OBVIOUS
    <3>1. \E r \in log : Opens(r, id, now)
      BY <1>1, MarkedIs DEF ReadsAsOpen
    <3>2. \E s \in log : Closes(s, id, now)
      BY <1>8, <3>1 DEF LastIs
    <3> QED
      BY <1>1, <3>2, MarkedIs DEF ReadsAsOpen
  <2>2. p # 0 /\ p >= now
    BY PeriodsCount
  <2>3. reads = <<R, T, S>>
    BY <1>4, <1>5, <2>1, <2>2
  <2>4. reads[1] = R /\ reads[2] = T /\ reads[3] = S
    BY <2>3
  <2>5. ReadsAsOpen(S, p)
    BY <1>2, <1>5, <1>6, MarkedIs DEF ReadsAsOpen
  <2>6. LoadedPeriod(id, now, reads) = InOpen(id, p, reads, 3)
    BY <1>5, <2>1, <2>2, <2>4, <2>5 DEF LoadedPeriod
  <2> QED
    BY <1>2, <1>3, <1>5, <2>4, <2>6 DEF InOpen
<1> QED
  BY <1>7, <1>8

(* A period that was decided in is the last one, and open.                 *)
LEMMA StillOpen ==
  ASSUME WellDefined, TypeInv, TurnInv, NEW d \in CallType, IsDecided(d), IsCurrent(d),
         NEW id \in Entities, NEW p \in Periods, NEW i \in DOMAIN d.reads,
         IsReading(d.reads[i], PeriodQuery(id, p)), ReadsAsOpen(d.reads[i], p),
         Loaded(d) = InOpen(id, p, d.reads, i)
  PROVE  /\ \E r \in d.reads[i].rows : Opens(r, id, p)
         /\ \A r \in log : ~ Closes(r, id, p)
         /\ LastIs(id, p)
<1> DEFINE x    == d.reads[i]
           seen == ReadUpTo(x.upTo)
<1>1. x \in Reading /\ x.query = PeriodQuery(id, p) /\ x.rows = Of(PeriodQuery(id, p), seen) /\ seen \subseteq log
  BY DEF CallType, IsReading, ReadUpTo
<1>2. /\ Loaded(d).uses = {i} /\ Loaded(d).boundary = x.query /\ Loaded(d).guard = ClosingQuery(id, p)
  BY DEF InOpen
<1>3. d.append.seen <= x.upTo
  BY <1>2 DEF IsDecided
<1>4. PICK o \in seen : Opens(o, id, p)
  <2> HIDE DEF x, seen
  <2>1. Marked(x, OpenedType, p)
    BY DEF ReadsAsOpen, x
  <2> QED
    BY <1>1, <2>1, MarkedIs
<1>5. o \in x.rows
  BY <1>1, <1>4, MarkIs DEF Of
<1>6. ASSUME NEW r \in log, Closes(r, id, p) PROVE FALSE
  <2>1. Matches(ClosingQuery(id, p), r.event) /\ Matches(PeriodQuery(id, p), r.event)
    BY <1>6, MarkIs
  <2>2. PeriodQuery(id, p) \subseteq d.append.condition \/ ClosingQuery(id, p) \subseteq d.append.condition
    BY <1>1, <1>2 DEF IsDecided, Condition
  <2>3. r \in Of(d.append.condition, log)
    BY <2>1, <2>2 DEF Of, Matches
  <2>4. r.at <= d.append.seen
    BY <2>3 DEF IsCurrent
  <2>5. r.at \in Nat /\ d.append.seen \in Nat /\ x.upTo \in Nat
    BY <1>1, InitialRowsType DEF TypeInv, IsWritten, CallType, Appending, Reading
  <2>6. r.at <= x.upTo
    BY <1>3, <2>4, <2>5
  <2>7. r \in seen
    BY <2>6 DEF ReadUpTo
  <2> HIDE DEF x, seen
  <2>8. Marked(x, ClosedType, p)
    BY <1>1, <1>6, <2>7, MarkedIs
  <2> QED
    BY <2>8 DEF ReadsAsOpen, x
<1>7. o \in log
  BY <1>4 DEF ReadUpTo
<1>8. PICK last \in Periods : LastIs(id, last)
  BY <1>4, <1>7 DEF TurnInv, NeverTurned
<1>9. p = last
  BY <1>4, <1>6, <1>7, <1>8 DEF LastIs
<1> QED
  BY <1>4, <1>5, <1>6, <1>8, <1>9

LEMMA OpenAgrees ==
  ASSUME WellDefined, ConcurrentByDeclaration, TypeInv, TurnInv,
         NEW d \in CallType, d.request \in Requests, d.now \in Periods, ReadsAreMade(d), IsDecided(d), IsCurrent(d),
         d.request.timed, NEW id \in Entities, id = EntityOf(d.request, LookedUp(d.lookup)),
         NEW p \in Periods, d.now <= p, NEW i \in DOMAIN d.reads,
         IsReading(d.reads[i], PeriodQuery(id, p)), ReadsAsOpen(d.reads[i], p), Loaded(d) = InOpen(id, p, d.reads, i)
  PROVE  Agrees(d, LoadAtOnce(d.request, d.now, log))
<1> DEFINE q      == d.request
           looked == LookedUp(d.lookup)
           m      == Load(q, d.now, looked, ReadsAtOnce(q, d.now, looked, log))
           l      == Loaded(d)
<1>1. looked = Of(LookupOf(q), log)
  BY LookupIsCurrent
<1>2. LoadAtOnce(q, d.now, log) = m
  BY <1>1 DEF LoadAtOnce
<1>3. /\ \E r \in d.reads[i].rows : Opens(r, id, p)
      /\ \A r \in log : ~ Closes(r, id, p)
      /\ LastIs(id, p)
  BY StillOpen
<1>4. /\ m.rows = Of(PeriodQuery(id, p), log) /\ m.boundary = PeriodQuery(id, p)
      /\ m.prefix = {} /\ m.scope = {TagOfPeriod(p)} /\ ~ m.dies
  <2> DEFINE now == d.now
             n   == Load(q, now, looked, ReadsAtOnce(q, now, looked, log))
  <2>1. q.timed
    OBVIOUS
  <2>2. id = EntityOf(q, looked)
    OBVIOUS
  <2>3. now \in Periods /\ now <= p
    OBVIOUS
  <2>4. m = n
    OBVIOUS
  <2> HIDE DEF q, looked, m, now
  <2>5. /\ n.rows = Of(PeriodQuery(id, p), log) /\ n.boundary = PeriodQuery(id, p)
        /\ n.prefix = {} /\ n.scope = {TagOfPeriod(p)} /\ ~ n.dies
    BY <1>3, <2>1, <2>2, <2>3, OpenNow
  <2> QED
    BY <2>4, <2>5
<1>5. /\ l.rows = d.reads[i].rows /\ l.boundary = PeriodQuery(id, p) /\ l.uses = {i}
      /\ l.prefix = {} /\ l.scope = {TagOfPeriod(p)}
  BY DEF InOpen, IsReading
<1>6. /\ Decide(q, looked, Of(PeriodQuery(id, p), log)) = Decision(d)
      /\ q.consistency = "strict" => Of(PeriodQuery(id, p), log) = l.rows
  <2>1. i \in l.uses
    BY <1>5
  <2> QED
    BY <1>3, <1>5, <2>1, DecisionStands
<1> HIDE DEF m, q, l, looked
<1>7. /\ ~ m.dies /\ m.prefix = l.prefix /\ m.scope = l.scope
      /\ Decide(q, looked, m.rows) = Decision(d)
      /\ q.consistency = "strict" => m.rows = l.rows /\ m.boundary = l.boundary
  BY <1>4, <1>5, <1>6
<1> QED
  BY <1>1, <1>2, <1>7 DEF Agrees, q, l, looked

(* A turn depends on what its reads returned, and on nothing else of them. *)
LEMMA TurnIs ==
  ASSUME NEW id, NEW old, NEW now, NEW s, NEW t, DOMAIN s = DOMAIN t, 1 \in DOMAIN s, old # 0 => 3 \in DOMAIN s,
         \A i \in DOMAIN s : s[i].rows = t[i].rows /\ s[i].query = t[i].query
  PROVE  Turn(id, old, now, s) = Turn(id, old, now, t)
<1>1. s[IF old = 0 THEN 1 ELSE 3].rows = t[IF old = 0 THEN 1 ELSE 3].rows /\ s[1].rows = t[1].rows
  OBVIOUS
<1>2. {s[i].query : i \in DOMAIN s} = {t[i].query : i \in DOMAIN t}
  OBVIOUS
<1> QED
  BY <1>1, <1>2 DEF Turn

LEMMA TurnAgrees ==
  ASSUME WellDefined, TypeInv, TurnInv,
         NEW d \in CallType, d.request \in Requests, d.now \in Periods, ReadsAreMade(d), IsDecided(d), IsCurrent(d),
         d.request.timed, NEW id \in Entities, id = EntityOf(d.request, LookedUp(d.lookup)),
         NEW old, old = (IF Len(d.reads) = 2 THEN 0 ELSE Tracked(d.reads[2])),
         Loaded(d) = Turn(id, old, d.now, d.reads),
         \/ Len(d.reads) = 2 /\ Tracked(d.reads[2]) = 0
         \/ Len(d.reads) = 3 /\ old < d.now /\ old \in Periods
  PROVE  Agrees(d, LoadAtOnce(d.request, d.now, log))
<1> DEFINE q      == d.request
           looked == LookedUp(d.lookup)
           now    == d.now
           R      == Whole(PeriodQuery(id, now), log)
           T      == Whole(TrackingQuery(id), log)
           S      == Whole(PeriodQuery(id, Tracked(T)), log)
           reads  == ReadsAtOnce(q, now, looked, log)
           m      == Load(q, now, looked, reads)
           s      == d.reads
<1>1. looked = Of(LookupOf(q), log)
  BY LookupIsCurrent
<1>2. LoadAtOnce(q, now, log) = m
  BY <1>1 DEF LoadAtOnce
<1>3. m = LoadedPeriod(id, now, reads)
  BY DEF Load
<1>4. reads = IF ReadsAsOpen(R, now) THEN <<R>> ELSE IF Tracked(T) = 0 THEN <<R, T>> ELSE <<R, T, S>>
  BY PeriodAtOnce
<1>5. /\ IF old = 0 THEN NeverTurned(id) ELSE LastIs(id, old)
      /\ old \in Periods \cup {0} /\ old < now /\ 0 \notin Periods /\ now \in Nat /\ old \in Nat /\ now \in Periods
  <2>1. d.now # 0
    BY PeriodsCount
  <2>2. IF old = 0 THEN NeverTurned(id) ELSE LastIs(id, old)
    BY <2>1, TurnFinds
  <2>3. old \in Periods \cup {0} /\ old < now /\ 0 \notin Periods /\ now \in Nat /\ old \in Nat
    BY PeriodsCount
  <2> QED
    BY <2>2, <2>3
<1>6. /\ R.rows = Of(PeriodQuery(id, now), log) /\ R.query = PeriodQuery(id, now)
      /\ T.rows = Of(TrackingQuery(id), log) /\ T.query = TrackingQuery(id)
      /\ S.rows = Of(PeriodQuery(id, Tracked(T)), log) /\ S.query = PeriodQuery(id, Tracked(T))
  BY DEF Whole
<1>7. PeriodIsRead(id, now, s)
  BY DEF ReadsAreMade, LoadIsMade
<1>8. \A i \in DOMAIN s : s[i].rows = Of(s[i].query, log)
  BY TurnIsCurrent
<1>9. Len(s) \in {2, 3} /\ DOMAIN s = 1 .. Len(s)
  BY DEF CallType
<1>10. old = 0 <=> Len(s) = 2
  BY <1>5
<1>11. Loaded(d) = Turn(id, old, now, s)
  OBVIOUS
<1>12. ~ ReadsAsOpen(s[1], now) /\ s[1].query = PeriodQuery(id, now) /\ s[2].query = TrackingQuery(id)
  BY <1>7, <1>9 DEF PeriodIsRead, IsReading
<1>13. Len(s) = 3 => s[3].query = PeriodQuery(id, Tracked(s[2]))
  BY <1>7 DEF PeriodIsRead, IsReading
<1>14. Len(s) = 3 => old = Tracked(s[2])
  BY <1>9
<1>15. Decision(d) = Decide(q, looked, Loaded(d).rows)
  BY DEF Decision
<1> HIDE DEF q, looked, now, R, T, S, reads, m, s
<1>16. Tracked(T) = old
  BY <1>5, <1>6, TrackedOfLog
<1>17. R.rows = s[1].rows /\ ~ ReadsAsOpen(R, now)
  <2>1. R.rows = s[1].rows
    BY <1>6, <1>8, <1>9, <1>12
  <2> QED
    BY <1>12, <2>1 DEF ReadsAsOpen, Marked
<1>18. T.rows = s[2].rows
  BY <1>6, <1>8, <1>9, <1>12
<1>19. Len(s) = 3 => S.rows = s[3].rows /\ S.query = s[3].query
  BY <1>6, <1>8, <1>9, <1>13, <1>14, <1>16
<1>20. reads = IF old = 0 THEN <<R, T>> ELSE <<R, T, S>>
  BY <1>4, <1>16, <1>17
<1>21. /\ DOMAIN reads = DOMAIN s /\ 1 \in DOMAIN reads /\ (old # 0 => 3 \in DOMAIN reads)
       /\ \A i \in DOMAIN reads : reads[i].rows = s[i].rows /\ reads[i].query = s[i].query
  <2>1. CASE old = 0
    <3>1. reads = <<R, T>> /\ DOMAIN s = {1, 2}
      BY <1>9, <1>10, <1>20, <2>1
    <3>2. DOMAIN reads = {1, 2} /\ reads[1] = R /\ reads[2] = T
      BY <3>1
    <3> QED
      BY <1>6, <1>12, <1>17, <1>18, <2>1, <3>1, <3>2
  <2>2. CASE old # 0
    <3>1. reads = <<R, T, S>> /\ Len(s) = 3 /\ DOMAIN s = {1, 2, 3}
      BY <1>9, <1>10, <1>20, <2>2
    <3>2. DOMAIN reads = {1, 2, 3} /\ reads[1] = R /\ reads[2] = T /\ reads[3] = S
      BY <3>1
    <3> QED
      BY <1>6, <1>12, <1>17, <1>18, <1>19, <3>1, <3>2
  <2> QED
    BY <2>1, <2>2
<1>22. ~ ReadsAsOpen(reads[1], now) /\ Tracked(reads[2]) = old
  <2>1. reads[1] = R /\ reads[2] = T
    BY <1>20
  <2> QED
    BY <1>16, <1>17, <2>1
<1>23. old = 0 => ~ Marked(reads[1], ClosedType, now)
  <2>1. reads[1] = R
    BY <1>20
  <2> QED
    BY <1>5, <1>6, <2>1, MarkedIs DEF NeverTurned
<1>24. LoadedPeriod(id, now, reads) = Turn(id, old, now, reads)
  <2>1. ~ (old >= now)
    BY <1>5
  <2> QED
    BY <1>22, <1>23, <2>1 DEF LoadedPeriod
<1>25. Turn(id, old, now, reads) = Turn(id, old, now, s)
  BY <1>21, TurnIs
<1>26. m = Loaded(d)
  BY <1>3, <1>11, <1>24, <1>25
<1>27. ~ Loaded(d).dies
  BY DEF IsDecided, IsEmitting
<1> QED
  BY <1>1, <1>2, <1>15, <1>26, <1>27 DEF Agrees, q, looked, now

LEMMA LoadAgrees ==
  ASSUME WellDefined, ConcurrentByDeclaration, TypeInv, TurnInv,
         NEW d \in CallType, d.request \in Requests, d.now # 0, ReadsAreMade(d), IsDecided(d), IsCurrent(d)
  PROVE  Agrees(d, LoadAtOnce(d.request, d.now, log))
<1>1. CASE ~ d.request.timed
  BY <1>1, UntimedAgrees
<1>2. CASE d.request.timed
  <2> DEFINE id  == EntityOf(d.request, LookedUp(d.lookup))
             cur == Tracked(d.reads[2])
             l   == Loaded(d)
  <2>1. /\ id \in Entities /\ d.now \in Periods
        /\ Len(d.reads) = 3 => cur \in Periods
        /\ \/ l = Dies
           \/ Len(d.reads) = 1 /\ ReadsAsOpen(d.reads[1], d.now) /\ l = InOpen(id, d.now, d.reads, 1)
           \/ Len(d.reads) = 2 /\ cur = 0 /\ l = Turn(id, 0, d.now, d.reads)
           \/ Len(d.reads) = 3 /\ cur >= d.now /\ ReadsAsOpen(d.reads[3], cur) /\ l = InOpen(id, cur, d.reads, 3)
           \/ Len(d.reads) = 3 /\ cur < d.now /\ l = Turn(id, cur, d.now, d.reads)
    BY <1>2, TimedLoadIs DEF IsDecided
  <2>2. l # Dies
    BY DEF IsDecided, IsEmitting, Dies
  <2>3. PeriodIsRead(id, d.now, d.reads)
    BY <1>2 DEF ReadsAreMade, LoadIsMade
  <2>4. DOMAIN d.reads = 1 .. Len(d.reads)
    BY DEF CallType
  <2>5. ASSUME Len(d.reads) = 1, ReadsAsOpen(d.reads[1], d.now), l = InOpen(id, d.now, d.reads, 1)
        PROVE  Agrees(d, LoadAtOnce(d.request, d.now, log))
    <3>1. 1 \in DOMAIN d.reads /\ IsReading(d.reads[1], PeriodQuery(id, d.now)) /\ d.now <= d.now
      BY <2>1, <2>3, <2>4, <2>5, PeriodsCount DEF PeriodIsRead
    <3> QED
      BY <1>2, <2>1, <2>5, <3>1, OpenAgrees
  <2>6. ASSUME Len(d.reads) = 3, cur >= d.now, ReadsAsOpen(d.reads[3], cur), l = InOpen(id, cur, d.reads, 3)
        PROVE  Agrees(d, LoadAtOnce(d.request, d.now, log))
    <3>1. 3 \in DOMAIN d.reads /\ IsReading(d.reads[3], PeriodQuery(id, cur)) /\ d.now <= cur /\ cur \in Periods
      BY <2>1, <2>3, <2>4, <2>6, PeriodsCount DEF PeriodIsRead
    <3> HIDE DEF cur
    <3> QED
      BY <1>2, <2>1, <2>6, <3>1, OpenAgrees
  <2>7. ASSUME Len(d.reads) = 2, cur = 0, l = Turn(id, 0, d.now, d.reads)
        PROVE  Agrees(d, LoadAtOnce(d.request, d.now, log))
    BY <1>2, <2>1, <2>7, TurnAgrees
  <2>8. ASSUME Len(d.reads) = 3, cur < d.now, l = Turn(id, cur, d.now, d.reads)
        PROVE  Agrees(d, LoadAtOnce(d.request, d.now, log))
    BY <1>2, <2>1, <2>8, TurnAgrees
  <2> QED
    BY <2>1, <2>2, <2>5, <2>6, <2>7, <2>8
<1> QED
  BY <1>1, <1>2

(* A call that has inserted would decide the same on the log of now.       *)
LEMMA DecidesNow ==
  ASSUME WellDefined, ConcurrentByDeclaration, TypeInv, PhaseInv, HeldInv, TurnInv, NEW c \in Calls, HasInserted(c)
  PROVE  LET m == LoadAtOnce(Request(c), call[c].now, log)
             a == AtOnce(Request(c), call[c].now, log)
         IN  /\ Agrees(call[c], m)
             /\ a.tag = "emit" /\ a.events = Emits(call[c])
<1>1. PICK d \in CallType : d = call[c]
  BY CommittingIs DEF HasInserted
<1> DEFINE q == d.request
           m == LoadAtOnce(q, d.now, log)
           v == Decide(q, LookedUp(d.lookup), m.rows)
<1>2. /\ Request(c) = q /\ q \in Requests /\ d.now # 0 /\ ReadsAreMade(d) /\ IsDecided(d) /\ IsEmitting(d)
  BY <1>1, CommittingIs DEF HasInserted, Request
<1>3. IsCurrent(d)
  BY <1>1 DEF HeldInv, IsCurrent
<1>4. Agrees(d, m)
  BY <1>2, <1>3, LoadAgrees
<1>5. /\ LookedUp(d.lookup) = Of(LookupOf(q), log) /\ ~ m.dies /\ m.prefix = Loaded(d).prefix
      /\ m.scope = Loaded(d).scope /\ v = Decision(d)
  BY <1>4 DEF Agrees
<1>6. v.tag = "emit" /\ v.events # {}
  BY <1>2, <1>5 DEF IsEmitting
<1>7. AtOnce(q, d.now, log) =
        [tag    |-> IF m.dies THEN "dies" ELSE IF v.tag = "emit" /\ v.events = {} THEN "noop" ELSE v.tag,
         events |-> m.prefix \cup OwnEvents(v, m)]
  BY <1>5 DEF AtOnce, LoadAtOnce
<1> HIDE DEF m, v
<1>8. OwnEvents(v, m) = Own(d)
  BY <1>5 DEF OwnEvents, Own
<1>9. AtOnce(q, d.now, log).tag = "emit" /\ AtOnce(q, d.now, log).events = Emits(d)
  BY <1>5, <1>6, <1>7, <1>8 DEF Emits
<1> QED
  BY <1>1, <1>2, <1>4, <1>9 DEF m

(* What the log is after a commit: up to any number before, what it was;   *)
(* with that number, the rows of the commit.                               *)
LEMMA CommitIs ==
  ASSUME WellDefined, TypeInv, PhaseInv, NEW c \in Calls, NEW e, Commits(c, e)
  PROVE  /\ \A n \in 0 .. commits : /\ ReadUpTo(n)' = ReadUpTo(n)
                                   /\ {s \in log' : s.at = n} = {s \in log : s.at = n}
         /\ ReadUpTo(commits) = log
         /\ {s \in log' : s.at = commits + 1} = RowsOf(c)
<1>1. /\ log' = log \cup RowsOf(c) /\ commits \in Nat
      /\ \A r \in log : r.at \in Nat /\ r.at <= commits
      /\ \A r \in RowsOf(c) : r.at = commits + 1
  BY CommitAdds
<1>2. \A n \in 0 .. commits : ReadUpTo(n)' = ReadUpTo(n)
  <2>1. Grows
    BY CommitGrows DEF Commits
  <2> QED
    BY <2>1, SeenStays
<1>3. ReadUpTo(commits) = log
  BY <1>1 DEF ReadUpTo
<1>4. \A n \in 0 .. commits : {s \in log' : s.at = n} = {s \in log : s.at = n}
  BY <1>1
<1>5. {s \in log' : s.at = commits + 1} = RowsOf(c)
  BY <1>1
<1> QED
  BY <1>2, <1>3, <1>4, <1>5

LEMMA DecisionsStay ==
  ASSUME WellDefined, ConcurrentByDeclaration, TypeInv, PhaseInv, HeldInv, TurnInv, DecidedOnTheLog, [Next]_vars
  PROVE  DecidedOnTheLog'
<1>1. CASE log' = log
  BY <1>1 DEF DecidedOnTheLog, Written, ReadUpTo
<1>2. ASSUME NEW c \in Calls, NEW e, Commits(c, e)
      PROVE  DecidedOnTheLog'
  <2>1. /\ Written' = Written \cup RowsOf(c) /\ commits \in Nat /\ HasInserted(c)
        /\ \A r \in RowsOf(c) : /\ r.event \in Emits(call[c]) /\ r.at = commits + 1
                                /\ r.request = Request(c) /\ r.now = call[c].now
        /\ \A x \in Emits(call[c]) : \E r \in RowsOf(c) : r.event = x
    BY <1>2, CommitAdds
  <2>2. /\ \A n \in 0 .. commits : /\ ReadUpTo(n)' = ReadUpTo(n)
                                  /\ {s \in log' : s.at = n} = {s \in log : s.at = n}
        /\ ReadUpTo(commits) = log
        /\ {s \in log' : s.at = commits + 1} = RowsOf(c)
    BY <1>2, CommitIs
  <2>3. {s.event : s \in RowsOf(c)} = Emits(call[c])
    BY <2>1
  <2>4. ASSUME NEW r \in Written'
        PROVE  \E n \in Nat : /\ n = r.at - 1
                              /\ AtOnce(r.request, r.now, ReadUpTo(n)').tag = "emit"
                              /\ AtOnce(r.request, r.now, ReadUpTo(n)').events = {s.event : s \in {s \in log' : s.at = r.at}}
    <3>1. CASE r \in Written
      <4>1. r.at \in 1 .. commits
        BY <3>1, WrittenIs DEF IsWritten, Written
      <4>2. PICK n \in Nat : n = r.at - 1 /\ n \in 0 .. commits
        BY <2>1, <4>1
      <4>3. LET d == AtOnce(r.request, r.now, ReadUpTo(r.at - 1))
            IN  d.tag = "emit" /\ d.events = {s.event : s \in {s \in log : s.at = r.at}}
        BY <3>1 DEF DecidedOnTheLog
      <4>4. {s \in log' : s.at = r.at} = {s \in log : s.at = r.at}
        BY <2>1, <2>2, <4>1
      <4>5. ReadUpTo(n)' = ReadUpTo(r.at - 1)
        BY <2>2, <4>2
      <4> QED
        BY <4>2, <4>3, <4>4, <4>5
    <3>2. CASE r \in RowsOf(c)
      <4>1. r.at = commits + 1 /\ r.request = Request(c) /\ r.now = call[c].now
        BY <2>1, <3>2
      <4>2. commits \in 0 .. commits /\ commits = r.at - 1
        BY <2>1, <4>1
      <4>3. PICK n \in Nat : n = commits
        BY <2>1
      <4>4. ReadUpTo(n)' = log
        BY <2>2, <4>2, <4>3
      <4>5. AtOnce(Request(c), call[c].now, log).tag = "emit" /\ AtOnce(Request(c), call[c].now, log).events = Emits(call[c])
        BY <2>1, DecidesNow
      <4> QED
        BY <2>2, <2>3, <4>1, <4>2, <4>3, <4>4, <4>5
    <3> QED
      BY <2>1, <3>1, <3>2
  <2> QED
    BY <2>4 DEF DecidedOnTheLog
<1>3. ASSUME NEW c \in Calls, NEW e, Moves(c, e) PROVE DecidedOnTheLog'
  <2>1. Quiet(c, e) \/ Inserts(c, e) \/ Records(c, e) => log' = log
    BY DEF Quiet, Inserts, MayInsert, Records, Unchanging
  <2> QED
    BY <1>1, <1>2, <1>3, <2>1, QuietMoves
<1> QED
  BY <1>1, <1>3, StepsAreMoves DEF vars

(* A byModel() commit kept its promise on the log just before it.          *)
KeptInv == \A r \in Written : r.request.byModel => KeepsAtOnce(r.request, r.now, ReadUpTo(r.at - 1))

LEMMA InitTurns == ASSUME Init PROVE TurnInv /\ DecidedOnTheLog /\ KeptInv
<1>1. Written = {} /\ log = InitialRows
  BY DEF Init, Written
<1>2. TurnInv
  BY <1>1, InitialRowsType DEF TurnInv, NeverTurned, OpenedOnce, Opens, Closes
<1> QED
  BY <1>1, <1>2 DEF DecidedOnTheLog, KeptInv

(* Commands are serializable, whatever reads they make, in what order and  *)
(* how far apart, with and without a period to turn.                       *)
THEOREM DecisionsHold == ASSUME WellDefined, ConcurrentByDeclaration PROVE Spec => []DecidedOnTheLog
<1> DEFINE Inv == TypeInv /\ PhaseInv /\ HeldInv /\ TurnInv /\ DecidedOnTheLog
<1>1. Init => Inv
  BY InitTypes, InitRests, InitTurns
<1>2. Inv /\ [Next]_vars => Inv'
  BY TypesAreInductive, HeldIsKept, PeriodsAreTurned, DecisionsStay
<1>3. Inv => DecidedOnTheLog
  OBVIOUS
<1> QED
  BY <1>1, <1>2, <1>3, PTL DEF Spec

-----------------------------------------------------------------------------
(* A request is applied once. *)

LEMMA KeepsNow ==
  ASSUME WellDefined, ConcurrentByDeclaration, TypeInv, PhaseInv, HeldInv, TurnInv, NEW c \in Calls, HasInserted(c),
         Request(c).byModel
  PROVE  KeepsAtOnce(Request(c), call[c].now, log)
<1>1. PICK d \in CallType : d = call[c]
  BY CommittingIs DEF HasInserted
<1> DEFINE q == d.request
           m == LoadAtOnce(q, d.now, log)
           l == Loaded(d)
           v == Decide(q, LookedUp(d.lookup), m.rows)
<1>2. /\ Request(c) = q /\ q.byModel /\ q \in Requests /\ IsDecided(d)
  BY <1>1, CommittingIs DEF HasInserted, Request
<1>3. Agrees(d, m)
  BY <1>1, <1>2, DecidesNow
<1>4. q.consistency = "strict"
  BY <1>2, RequestsType
<1>5. /\ LookedUp(d.lookup) = Of(LookupOf(q), log) /\ m.scope = l.scope /\ m.rows = l.rows /\ m.boundary = l.boundary
      /\ v = Decision(d)
  BY <1>3, <1>4 DEF Agrees
<1>6. OwnEvents(v, m) = Own(d)
  BY <1>5 DEF OwnEvents, Own
<1>7. KeepsByModel(q, d.lookup, l, Own(d))
  BY <1>2 DEF IsDecided
<1>8. Decide(q, LookedUp(d.lookup), l.rows \cup {[event |-> e] : e \in {e \in Own(d) : Matches(l.boundary, e)}}).tag = "noop"
  BY <1>2, <1>7 DEF KeepsByModel
<1> HIDE DEF m, v, l
<1>9. KeepsAtOnce(q, d.now, log)
  BY <1>5, <1>6, <1>8 DEF KeepsAtOnce, m, v
<1> QED
  BY <1>1, <1>2, <1>9

LEMMA PromisesStay ==
  ASSUME WellDefined, ConcurrentByDeclaration, TypeInv, PhaseInv, HeldInv, TurnInv, KeptInv, [Next]_vars
  PROVE  KeptInv'
<1>1. CASE log' = log
  BY <1>1 DEF KeptInv, Written, ReadUpTo
<1>2. ASSUME NEW c \in Calls, NEW e, Commits(c, e)
      PROVE  KeptInv'
  <2>1. /\ Written' = Written \cup RowsOf(c) /\ commits \in Nat /\ HasInserted(c)
        /\ \A r \in RowsOf(c) : r.at = commits + 1 /\ r.request = Request(c) /\ r.now = call[c].now
    BY <1>2, CommitAdds
  <2>2. /\ \A n \in 0 .. commits : ReadUpTo(n)' = ReadUpTo(n)
        /\ ReadUpTo(commits) = log
    BY <1>2, CommitIs
  <2>3. ASSUME NEW r \in Written', r.request.byModel
        PROVE  \E n \in Nat : n = r.at - 1 /\ KeepsAtOnce(r.request, r.now, ReadUpTo(n)')
    <3>1. CASE r \in Written
      <4>1. r.at \in 1 .. commits
        BY <3>1, WrittenIs DEF IsWritten, Written
      <4>2. PICK n \in Nat : n = r.at - 1 /\ n \in 0 .. commits
        BY <2>1, <4>1
      <4>3. KeepsAtOnce(r.request, r.now, ReadUpTo(r.at - 1))
        BY <2>3, <3>1 DEF KeptInv
      <4> QED
        BY <2>2, <4>2, <4>3
    <3>2. CASE r \in RowsOf(c)
      <4>1. r.at = commits + 1 /\ r.request = Request(c) /\ r.now = call[c].now
        BY <2>1, <3>2
      <4>2. commits \in 0 .. commits /\ commits = r.at - 1
        BY <2>1, <4>1
      <4>3. PICK n \in Nat : n = commits
        BY <2>1
      <4>4. ReadUpTo(n)' = log
        BY <2>2, <4>2, <4>3
      <4>5. KeepsAtOnce(Request(c), call[c].now, log)
        BY <2>1, <2>3, <4>1, KeepsNow
      <4> QED
        BY <4>1, <4>2, <4>3, <4>4, <4>5
    <3> QED
      BY <2>1, <3>1, <3>2
  <2> QED
    BY <2>3 DEF KeptInv
<1>3. ASSUME NEW c \in Calls, NEW e, Moves(c, e) PROVE KeptInv'
  <2>1. Quiet(c, e) \/ Inserts(c, e) \/ Records(c, e) => log' = log
    BY DEF Quiet, Inserts, MayInsert, Records, Unchanging
  <2> QED
    BY <1>1, <1>2, <1>3, <2>1, QuietMoves
<1> QED
  BY <1>1, <1>3, StepsAreMoves DEF vars


(* Two commits of one request are one: the second would not have appended. *)
LEMMA OneOfModel ==
  ASSUME ByModelIsKept, TypeInv, DecidedOnTheLog, KeptInv,
         NEW r \in Written, NEW s \in Written, r.request = s.request, r.request.byModel
  PROVE  ~ (r.at < s.at)
<1> SUFFICES ASSUME r.at < s.at PROVE FALSE
  OBVIOUS
<1> DEFINE q      == r.request
           before == ReadUpTo(r.at - 1)
           after  == ReadUpTo(s.at - 1)
           a      == AtOnce(q, r.now, before)
<1>1. IsWritten(r) /\ IsWritten(s) /\ r \in log /\ s \in log /\ \A t \in log : t.at \in Nat
  BY InitialRowsType, WrittenIs DEF Written, TypeInv, IsWritten
<1>2. q \in Requests /\ r.at \in Nat \ {0} /\ s.at \in Nat \ {0} /\ r.now \in Periods /\ s.now \in Periods
  BY <1>1, ClockType DEF IsWritten
<1>3. before \subseteq after
  BY <1>1, <1>2 DEF ReadUpTo
<1>4. a.tag = "emit" /\ a.events = {t.event : t \in {t \in log : t.at = r.at}}
  BY DEF DecidedOnTheLog
<1>5. \A t \in log : t.at = r.at => t \in after
  BY <1>1, <1>2 DEF ReadUpTo
<1>6. KeepsAtOnce(q, r.now, before)
  BY DEF KeptInv
<1>7. AtOnce(q, s.now, after).tag = "emit"
  BY DEF DecidedOnTheLog
<1> HIDE DEF before, after, q
<1>8. \A e \in a.events : \E t \in after : t.event = e
  BY <1>4, <1>5
<1>9. q.byModel
  BY DEF q
<1> QED
  BY <1>2, <1>3, <1>4, <1>6, <1>7, <1>8, <1>9 DEF ByModelIsKept, PromiseIsKept

LEMMA OneOfKey ==
  ASSUME TypeInv, RowsInv, KeysInv, KeyUsedOnce,
         NEW r \in Written, NEW s \in Written, r.request = s.request, r.request.idempotentBy # {}
  PROVE  ~ (r.at < s.at)
<1>1. PICK t \in Written : t.by = r.by /\ Matches(r.request.idempotentBy, t.event)
  BY DEF KeysInv
<1>2. t.at = r.at /\ t \in log /\ s \in log
  BY <1>1 DEF RowsInv, Written
<1> QED
  BY <1>1, <1>2 DEF KeyUsedOnce

LEMMA AppliedFollows ==
  ASSUME ByModelIsKept, TypeInv, RowsInv, KeysInv, KeyUsedOnce, DecidedOnTheLog, KeptInv
  PROVE  AppliedOnce
<1>1. ASSUME NEW r \in Written, NEW s \in Written,
             r.by = s.by \/ (Recognised(r.request) /\ r.request = s.request)
      PROVE  r.xid = s.xid
  <2>1. /\ r.at \in Nat /\ s.at \in Nat /\ r.xid = call[r.by].xid /\ s.xid = call[s.by].xid
        /\ r.at = s.at <=> r.by = s.by
    BY WrittenIs DEF RowsInv, IsWritten, Written
  <2>2. CASE r.by = s.by
    BY <2>1, <2>2
  <2> SUFFICES ASSUME Recognised(r.request), r.request = s.request PROVE r.by = s.by
    BY <1>1, <2>2
  <2>3. CASE r.request.cause # NoCause
    <3>1. r.cause = r.request.cause /\ s.cause = r.cause /\ r.fingerprint = s.fingerprint
      BY WrittenIs DEF IsWritten, Written
    <3> QED
      BY <2>3, <3>1 DEF RowsInv
  <2>4. CASE r.request.idempotentBy # {} \/ r.request.byModel
    <3>1. ~ (r.at < s.at) /\ ~ (s.at < r.at)
      BY <2>4, OneOfKey, OneOfModel
    <3> QED
      BY <2>1, <3>1
  <2> QED
    BY <2>3, <2>4 DEF Recognised
<1> QED
  BY <1>1 DEF AppliedOnce

(* However often a request is sent, delivered, retried or left without an  *)
(* answer, its effect takes place once.                                    *)
THEOREM AppliedHolds ==
  ASSUME WellDefined, ConcurrentByDeclaration, KeysAreKept, ByModelIsKept
  PROVE  Spec => []AppliedOnce
<1> DEFINE Inv == /\ TypeInv /\ PhaseInv /\ HeldInv /\ RowsInv /\ KeysInv /\ KeyUsedOnce
                  /\ TurnInv /\ DecidedOnTheLog /\ KeptInv
<1>1. Init => Inv
  <2>1. Init => KeyUsedOnce
    BY DEF Init, KeyUsedOnce, Written
  <2> QED
    BY <2>1, InitTypes, InitRests, InitTurns
<1>2. Inv /\ [Next]_vars => Inv'
  BY TypesAreInductive, HeldIsKept, RowsAreKept, KeysAreWritten, KeysStayUsedOnce, PeriodsAreTurned,
     DecisionsStay, PromisesStay
<1>3. Inv => AppliedOnce
  BY AppliedFollows
<1> QED
  BY <1>1, <1>2, <1>3, PTL DEF Spec

(* A key is used once, whatever the commands decide.                       *)
THEOREM KeysHold == ASSUME WellDefined PROVE Spec => []KeyUsedOnce
<1> DEFINE Inv == TypeInv /\ PhaseInv /\ HeldInv /\ KeyUsedOnce
<1>1. Init => Inv
  <2>1. Init => KeyUsedOnce
    BY DEF Init, KeyUsedOnce, Written
  <2> QED
    BY <2>1, InitTypes, InitRests
<1>2. Inv /\ [Next]_vars => Inv'
  BY TypesAreInductive, HeldIsKept, KeysStayUsedOnce
<1> QED
  BY <1>1, <1>2, PTL DEF Spec
=============================================================================
