----------------------------- MODULE EventStore -----------------------------
(***************************************************************************)
(* Sessions that read to decide and append under the condition the read    *)
(* implies: EventStore.project, appendEventsIf and the SQL function        *)
(* append_events_if, one step per statement, at READ COMMITTED.            *)
(*                                                                         *)
(* A transaction makes one or more appends (a command makes one; an        *)
(* application's own transaction may make several).  An append first reads *)
(* its boundary with one or more queries; then it takes its writer locks   *)
(* in one order, looks for a duplicate, looks for a conflict, takes its    *)
(* transaction id and inserts its rows.  A refusal rolls the transaction   *)
(* back, and the session may run the same request again.                   *)
(***************************************************************************)
EXTENDS EventLog, Dcb, Sequences

CONSTANTS Sessions,      \* connections
          Requests,      \* the transactions they may run
          MaxRuns,       \* bound: transactions begun, all sessions together
          NoCause        \* the cause of an append made under none

VARIABLES txn,           \* what each session is doing
          runs           \* transactions begun

vars == <<logVars, txn, runs>>

(* An append: the queries its decision reads (none: unconditional), its    *)
(* events, its idempotency query (empty: no check), whether it must be its *)
(* transaction's first write, and the cause and fingerprint it is made     *)
(* under, as one value.                                                    *)
IsAppend(a) == /\ a.reads \in SUBSET SUBSET Item
               /\ a.events \in Seq(Event) /\ a.events # <<>>
               /\ a.idem \in SUBSET Item
               /\ a.firstWrite \in BOOLEAN
               /\ DOMAIN a = {"reads", "events", "idem", "firstWrite", "cause"}

(* A request: its appends in order, and whether its transaction has        *)
(* written to some other table before them.                                *)
ASSUME RequestsType ==
  /\ \A q \in Requests : /\ Len(q.appends) \in Nat
                         /\ \A i \in 1 .. Len(q.appends) : IsAppend(q.appends[i])
                         /\ q.writesFirst \in BOOLEAN
  /\ Requests # {}

ASSUME MaxRunsType == MaxRuns \in Nat

Phases == {"idle", "begin", "snapshot", "read", "append", "lock", "idempotency",
           "conflict", "xid", "insert", "commit"}

Outcomes == {"none", "committed", "rolled back", "duplicate", "conflict",
             "not fresh", "deadlock"}

(* A session between transactions, which remembers how the last one ended. *)
Idle(o) ==
  [phase   |-> "idle", outcome |-> o,
   request |-> CHOOSE q \in Requests : TRUE,
   part    |-> 1,             \* the append it is at
   xid     |-> 0,             \* its transaction id, 0 until its first write
   unread  |-> {},            \* queries of this append still to be read
   query   |-> {},            \* the one being read, and the snapshot taken for it
   snap    |-> [xmin |-> 0, xmax |-> 0, xip |-> {}],
   seen    |-> [xmin |-> 0, xmax |-> 0, xip |-> {}],  \* what every read could see
   cursor  |-> ZeroCursor,    \* the position to append after
   loaded  |-> {},            \* what the reads returned: <<query, position>>
   known   |-> {},            \* committed when the last snapshot was taken (history)
   todo    |-> {},            \* writer locks still to be taken
   held    |-> {},            \* locks held until the transaction ends
   wrote   |-> 0]             \* events of this append inserted

Boundary(a) == UNION a.reads

(* The transaction t about to make its k-th append, or to commit. *)
AtPart(t, k) ==
  IF k > Len(t.request.appends)
  THEN [t EXCEPT !.phase = "commit", !.part = k, !.unread = {}, !.loaded = {}, !.wrote = 0]
  ELSE LET a == t.request.appends[k]
       IN  [t EXCEPT !.phase  = IF a.reads = {} THEN "append" ELSE "snapshot",
                     !.part   = k,
                     !.unread = a.reads, !.loaded = {}, !.known = {},
                     !.cursor = ZeroCursor, !.wrote = 0]

StoreInit == /\ LogInit
             /\ txn = [s \in Sessions |-> Idle("none")]
             /\ runs = 0

At(s, phase) == txn[s].phase = phase

AppendAt(t) == t.request.appends[t.part]

AppendOf(s) == AppendAt(txn[s])

Become(s, t) == txn' = [txn EXCEPT ![s] = t]

(* A transaction that never wrote leaves no trace in the log. *)
EndUncommitted(s, o) ==
  /\ IF txn[s].xid = 0 THEN UNCHANGED logVars ELSE AbortXid(txn[s].xid)
  /\ Become(s, Idle(o))
  /\ UNCHANGED runs

-----------------------------------------------------------------------------
Begin(s) ==
  /\ At(s, "idle")
  /\ runs < MaxRuns
  /\ runs' = runs + 1
  /\ \E q \in Requests :
       LET t == [Idle("none") EXCEPT !.request = q]
       IN  Become(s, IF q.writesFirst THEN [t EXCEPT !.phase = "begin"] ELSE AtPart(t, 1))
  /\ UNCHANGED logVars

(* A write to another table of the database. *)
WriteElsewhere(s) ==
  /\ At(s, "begin")
  /\ AssignXid
  /\ Become(s, AtPart([txn[s] EXCEPT !.xid = nextXid], 1))
  /\ UNCHANGED runs

(* project, its first statement: the snapshot, BEFORE the events are read. *)
TakeSnapshot(s) ==
  /\ At(s, "snapshot")
  /\ \E q \in txn[s].unread :
       Become(s, [txn[s] EXCEPT !.phase = "read", !.query = q, !.snap = CurrentSnapshot(txn[s].xid),
                                !.known = IF txn[s].unread = AppendOf(s).reads
                                          THEN committed ELSE @ \cap committed])
  /\ UNCHANGED <<logVars, runs>>

(* project, its second statement.  With one read the append goes after the *)
(* last settled event it returned; with several, after the earliest of     *)
(* their horizons (xmin, 0).                                               *)
ReadEvents(s) ==
  LET t       == txn[s]
      first   == t.unread = AppendOf(s).reads
      result  == {r \in Visible(t.xid) : Matches(t.query, r.data.event)}
      settled == {r \in result : Settled(r)}
      horizon == [xid |-> t.snap.xmin, pos |-> 0]
  IN
  /\ At(s, "read")
  /\ Become(s, [t EXCEPT
       !.phase  = IF t.unread = {t.query} THEN "append" ELSE "snapshot",
       !.unread = @ \ {t.query},
       !.loaded = @ \cup {<<t.query, r.pos>> : r \in {r \in result : r.xid # t.xid}},
       !.seen   = IF first THEN t.snap ELSE Intersect(@, t.snap),
       !.cursor = IF AppendOf(s).reads = {t.query} THEN LastOf(settled, ZeroCursor)
                  ELSE IF first THEN horizon ELSE Earliest(@, horizon)])
  /\ UNCHANGED <<logVars, runs>>

-----------------------------------------------------------------------------
(* append_events_if *)

(* A command's append must be its transaction's first write (CRB01). *)
NotFresh(s) == /\ At(s, "append")
               /\ AppendOf(s).firstWrite
               /\ txn[s].xid # 0
               /\ EndUncommitted(s, "not fresh")

(* A mutated form: the events' locks only, not the conditions'. *)
LocksOfEvents(a) == WriterLocks({a.events[i] : i \in 1 .. Len(a.events)}, {})

LocksOf(a) == WriterLocks({a.events[i] : i \in 1 .. Len(a.events)}, Boundary(a) \cup a.idem)

(* A mutated form: the first-write rule is not enforced. *)
StartAnyAppend(s) ==
  /\ At(s, "append")
  /\ Become(s, [txn[s] EXCEPT !.phase = "lock", !.todo = LocksOf(AppendOf(s))])
  /\ UNCHANGED <<logVars, runs>>

StartAppend(s) ==
  /\ At(s, "append")
  /\ AppendOf(s).firstWrite => txn[s].xid = 0
  /\ Become(s, [txn[s] EXCEPT !.phase = "lock", !.todo = LocksOf(AppendOf(s))])
  /\ UNCHANGED <<logVars, runs>>

(* A mutated form: the locks in any order. *)
AnyLock(s, l) == l \in txn[s].todo

NextLock(s, l) == l \in txn[s].todo /\ \A k \in txn[s].todo : l.id <= k.id

Blocks(d, l) == \E h \in txn[d].held : Incompatible(h, l)

(* pg_advisory_xact_lock(_shared), in the order of the lock numbers. *)
TakeLock(s) ==
  /\ At(s, "lock")
  /\ \E l \in txn[s].todo :
       /\ NextLock(s, l)
       /\ \A d \in Sessions \ {s} : ~ Blocks(d, l)
       /\ Become(s, [txn[s] EXCEPT !.todo = @ \ {l}, !.held = @ \cup {l},
                                   !.phase = IF txn[s].todo = {l} THEN "idempotency" ELSE @])
  /\ UNCHANGED <<logVars, runs>>

(* What the idempotency query matches at all, own rows included. *)
Duplicates(s) == {r \in Visible(txn[s].xid) : Matches(AppendOf(s).idem, r.data.event)}

IsDuplicate(s) == /\ At(s, "idempotency")
                  /\ Duplicates(s) # {}
                  /\ EndUncommitted(s, "duplicate")

NoDuplicate(s) == /\ At(s, "idempotency")
                  /\ Duplicates(s) = {}
                  /\ Become(s, [txn[s] EXCEPT !.phase = "conflict"])
                  /\ UNCHANGED <<logVars, runs>>

(* A mutated form: by the cursor alone, as before ADR-0048. *)
ConflictsByCursor(s) ==
  {r \in Visible(txn[s].xid) : /\ After(r, txn[s].cursor)
                               /\ r.xid # txn[s].xid
                               /\ Matches(Boundary(AppendOf(s)), r.data.event)}

(* What the decision's queries match after the cursor that its reads could *)
(* not see and its own transaction did not write.                          *)
Conflicts(s) ==
  {r \in Visible(txn[s].xid) : /\ After(r, txn[s].cursor)
                               /\ r.xid # txn[s].xid
                               /\ ~ Sees(txn[s].seen, r.xid)
                               /\ Matches(Boundary(AppendOf(s)), r.data.event)}

IsConflict(s) == /\ At(s, "conflict")
                 /\ Conflicts(s) # {}
                 /\ EndUncommitted(s, "conflict")

NoConflict(s) ==
  /\ At(s, "conflict")
  /\ Conflicts(s) = {}
  /\ Become(s, [txn[s] EXCEPT !.phase = IF txn[s].xid = 0 THEN "xid" ELSE "insert"])
  /\ UNCHANGED <<logVars, runs>>

TakeXid(s) == /\ At(s, "xid")
              /\ AssignXid
              /\ Become(s, [txn[s] EXCEPT !.xid = nextXid, !.phase = "insert"])
              /\ UNCHANGED runs

(* The emit key of the next row, unique among the rows that have a cause. *)
EmitKey(s) == [cause |-> AppendOf(s).cause, ord |-> txn[s].wrote + 1]

Holders(key) == {r \in rows : key.cause # NoCause /\ r.data.emit = key}

InsertEvent(s) ==
  LET t == txn[s]
      a == AppendOf(s)
      i == t.wrote + 1
  IN
  /\ At(s, "insert")
  /\ Holders(EmitKey(s)) = {}
  /\ InsertRow(t.xid, [event |-> a.events[i], emit |-> EmitKey(s),
                       append |-> a, part |-> t.part, basis |-> t.loaded])
  /\ Become(s, IF i = Len(a.events) THEN AtPart(t, t.part + 1) ELSE [t EXCEPT !.wrote = i])
  /\ UNCHANGED runs

(* unique_violation on the emit key, once its holder has committed (or is  *)
(* this transaction); while another transaction holds it, the insert waits.*)
IsEmitted(s) ==
  /\ At(s, "insert")
  /\ \E r \in Holders(EmitKey(s)) : r \in Visible(txn[s].xid)
  /\ EndUncommitted(s, "duplicate")

-----------------------------------------------------------------------------
(* A mutated form: locks of the session, not of the transaction. *)
CommitKeepingLocks(s) ==
  /\ At(s, "commit")
  /\ IF txn[s].xid = 0 THEN UNCHANGED logVars ELSE CommitXid(txn[s].xid)
  /\ Become(s, [Idle("committed") EXCEPT !.held = txn[s].held])
  /\ UNCHANGED runs

Commit(s) ==
  /\ At(s, "commit")
  /\ IF txn[s].xid = 0 THEN UNCHANGED logVars ELSE CommitXid(txn[s].xid)
  /\ Become(s, Idle("committed"))
  /\ UNCHANGED runs

(* The decision refuses, the caller is interrupted, the connection is lost.*)
Rollback(s) == ~ At(s, "idle") /\ EndUncommitted(s, "rolled back")

(* s waits for a lock or an emit key that d's transaction holds. *)
WaitsFor(s, d) ==
  /\ s # d
  /\ \/ At(s, "lock") /\ \E l \in txn[s].todo : NextLock(s, l) /\ Blocks(d, l)
     \/ At(s, "insert") /\ txn[d].xid # 0 /\ \E r \in Holders(EmitKey(s)) : r.xid = txn[d].xid

(* A set of sessions each of which waits for another of them. *)
WaitCycle(S) == S # {} /\ \A s \in S : /\ \E d \in S : WaitsFor(s, d)
                                       /\ \E d \in S : WaitsFor(d, s)

(* PostgreSQL's deadlock detector (SQLSTATE 40P01). *)
DeadlockVictim(s) == /\ \E S \in SUBSET Sessions : s \in S /\ WaitCycle(S)
                     /\ EndUncommitted(s, "deadlock")

Terminated == /\ runs = MaxRuns
              /\ \A s \in Sessions : At(s, "idle")
              /\ UNCHANGED vars

(* What a session does by itself, blocked statements apart. *)
Proceed(s) == \/ WriteElsewhere(s) \/ TakeSnapshot(s) \/ ReadEvents(s)
              \/ NotFresh(s) \/ StartAppend(s)
              \/ IsDuplicate(s) \/ NoDuplicate(s) \/ IsConflict(s) \/ NoConflict(s)
              \/ TakeXid(s) \/ Commit(s)

(* The statements that may wait for another transaction. *)
MayWait(s) == TakeLock(s) \/ InsertEvent(s) \/ IsEmitted(s)

SessionStep(s) == Begin(s) \/ Proceed(s) \/ MayWait(s) \/ Rollback(s) \/ DeadlockVictim(s)

StoreNext == (\E s \in Sessions : SessionStep(s)) \/ Terminated

StoreSpec == StoreInit /\ [][StoreNext]_vars

(* A session runs its statements, a statement that waits is served in the  *)
(* order of the queue (so one that is possible again and again is taken),  *)
(* and the deadlock detector runs.  Beginning a transaction and failing it *)
(* are never owed.                                                         *)
StoreFairness == \A s \in Sessions : /\ WF_vars(Proceed(s))
                                     /\ SF_vars(MayWait(s))
                                     /\ WF_vars(DeadlockVictim(s))

FairStoreSpec == StoreSpec /\ StoreFairness

-----------------------------------------------------------------------------
Txn == [phase : Phases, outcome : Outcomes, request : Requests, part : Nat \ {0},
        xid : Nat, unread : SUBSET SUBSET Item, query : SUBSET Item,
        snap : Snapshot, seen : Snapshot, cursor : Cursor,
        loaded : SUBSET ((SUBSET Item) \X Nat), known : SUBSET Nat,
        todo : SUBSET Lock, held : SUBSET Lock, wrote : Nat]

(* The type of every variable. *)
TypeOK == /\ nextXid \in Nat \ {0}
          /\ running \in SUBSET Nat
          /\ lastDone \in Nat
          /\ committed \in SUBSET Nat
          /\ nextPos \in Nat \ {0}
          /\ \A r \in rows : IsRow(r) /\ r.data.event \in Event
          /\ txn \in [Sessions -> Txn]
          /\ runs \in 0 .. MaxRuns

(* The transactions that commit are a serial run of conditional appends:   *)
(* each one decided on exactly the events its queries match in the log it  *)
(* joins, no other event having joined its boundary between its reads and  *)
(* its commit; all of its events join at once; and a key or a cause is     *)
(* used once.                                                              *)
AbstractLog == INSTANCE DcbLog WITH log <- CommittedRows

SerialAppends == AbstractLog!Spec

(* Past its conflict check and until it ends, a transaction's boundary     *)
(* holds still: whatever the other sessions commit meanwhile, the queries  *)
(* of the append it checked, and of the appends it has already written,    *)
(* match nothing in the committed log that its reads did not return.       *)
Checked(t) == t.phase \in {"xid", "insert"}

Covers(basis, a) == \A q \in a.reads : \A p \in CommittedRows :
                      Matches(q, p.data.event) => <<q, p.pos>> \in basis

BoundaryHeld ==
  /\ \A s \in Sessions : Checked(txn[s]) => Covers(txn[s].loaded, AppendOf(s))
  /\ \A r \in rows : r.xid \notin committed => Covers(r.data.basis, r.data.append)

(* An event of a command sorts, in the order every processor follows,      *)
(* after every event its decision was made on (ADR-0033).                  *)
SortsAfterItsBasis ==
  \A r, p \in rows : r.data.append.firstWrite =>
    ((\E q \in r.data.append.reads : <<q, p.pos>> \in r.data.basis) => After(r, p))

(* Two appends under one idempotency query, each of which leaves an event  *)
(* that the query matches, are never both in the log.                      *)
OncePerKey ==
  \A r, p \in CommittedRows :
    (/\ r.data.append.idem = p.data.append.idem
     /\ Matches(r.data.append.idem, r.data.event)
     /\ Matches(p.data.append.idem, p.data.event))
    => r.xid = p.xid /\ r.data.part = p.data.part

(* A refusal as a conflict is never for what the decision had seen: some   *)
(* matching event is in the log whose transaction had not committed when a *)
(* snapshot of the decision was taken (ADR-0048).                          *)
ConflictIsReal ==
  [][\A s \in Sessions :
       (txn[s].outcome # "conflict" /\ txn'[s].outcome = "conflict")
       => \E r \in CommittedRows : /\ r.xid \notin txn[s].known
                                  /\ Matches(Boundary(AppendOf(s)), r.data.event)]_vars

(* A command never waits in a circle with other commands: only a           *)
(* transaction at its second append can be part of one.                    *)
CommandsDoNotDeadlock ==
  \A S \in SUBSET Sessions : WaitCycle(S) => \E s \in S : txn[s].part > 1

(* Every transaction ends, whatever it waited for. *)
EveryRunEnds == \A s \in Sessions : ~ At(s, "idle") ~> At(s, "idle")

-----------------------------------------------------------------------------
(* The inductive invariant behind TypeOK and BoundaryHeld. *)

(* Ids: one that was taken is below the next one, and it is running or it  *)
(* has finished; a row belongs to a transaction that runs or has           *)
(* committed.                                                              *)
LogInv ==
  /\ \A x \in running \cup committed : 0 < x /\ x < nextXid
  /\ \A x \in running : x \notin committed
  /\ lastDone < nextXid
  /\ \A r \in rows : r.xid \in running \cup committed /\ r.pos < nextPos

(* A running id is one session's, and a session's id is running. *)
OwnerInv ==
  /\ \A s \in Sessions : txn[s].xid # 0 => txn[s].xid \in running
  /\ \A s, d \in Sessions : s # d /\ txn[s].xid # 0 => txn[s].xid # txn[d].xid
  /\ \A x \in running : \E s \in Sessions : txn[s].xid = x

(* Where in its request a transaction is. *)
InAppend(t) == t.phase \notin {"idle", "begin", "commit"}

PhaseOK(t) ==
  /\ t.phase \in {"idle", "begin", "xid"} => t.xid = 0
  /\ t.phase = "insert" => t.xid # 0
  /\ InAppend(t) => /\ t.part <= Len(t.request.appends)
                    /\ t.wrote < Len(AppendAt(t).events)
                    /\ t.unread \subseteq AppendAt(t).reads
  /\ t.phase \in {"append", "lock", "idempotency", "conflict"} => t.unread = {}
  /\ t.phase = "read" => t.query \in t.unread

PhaseInv == \A s \in Sessions : PhaseOK(txn[s])

(* A row is an event of the append it was written for. *)
RowInv ==
  \A r \in rows : /\ IsAppend(r.data.append)
                  /\ r.data.event \in {r.data.append.events[i] : i \in 1 .. Len(r.data.append.events)}

(* Writer locks: two sessions never hold incompatible ones, and a          *)
(* transaction past its lock loop holds those of the append it is at and   *)
(* of every row it has written.                                            *)
LocksOK(t) ==
  /\ t.phase = "lock" => LocksOf(AppendAt(t)) \subseteq t.held \cup t.todo
  /\ t.phase \in {"idempotency", "conflict", "xid", "insert"} => LocksOf(AppendAt(t)) \subseteq t.held

LockInv ==
  /\ \A s, d \in Sessions : s # d =>
       \A h \in txn[s].held, g \in txn[d].held : ~ Incompatible(h, g)
  /\ \A s \in Sessions : LocksOK(txn[s])
  /\ \A r \in rows : \A s \in Sessions :
       r.xid = txn[s].xid => LocksOf(r.data.append) \subseteq txn[s].held

(* No snapshot and no cursor of a read has passed an id that is still to   *)
(* commit, another session's or a new one, so what a read did not return   *)
(* stays a conflict.                                                       *)
Others(t) == running \ {t.xid}

BlindTo(t, snap) == /\ snap.xmin <= nextXid /\ snap.xmax <= nextXid
                    /\ \A x \in Others(t) : ~ Sees(snap, x)

Before(c, x) == c.xid < x \/ (c.xid = x /\ c.pos = 0)

Behind(t, c) == Before(c, nextXid) /\ \A x \in Others(t) : Before(c, x)

Horizon(snap) == [xid |-> snap.xmin, pos |-> 0]

(* Some of the append's queries have been read, and its check is to come. *)
Reading(t) == t.phase \in {"snapshot", "read", "append", "lock", "idempotency", "conflict"}

HasRead(t) == Reading(t) /\ t.unread # AppendAt(t).reads

(* What the reads returned, and what they could not have missed. *)
Returned(t, q) ==
  \A r \in CommittedRows :
    (/\ Matches(q, r.data.event)
     /\ Sees(t.seen, r.xid) \/ ~ After(r, t.cursor))
    => <<q, r.pos>> \in t.loaded

ReadOK(t) ==
  /\ t.phase = "read" => /\ BlindTo(t, t.snap)
                         /\ t.snap.xmin > 0
                         /\ Behind(t, Horizon(t.snap))
  /\ HasRead(t) =>
       /\ BlindTo(t, t.seen)
       /\ Behind(t, t.cursor)
       /\ (\A q \in AppendAt(t).reads : AppendAt(t).reads # {q}) => t.cursor.xid > 0
       /\ \A q \in AppendAt(t).reads \ t.unread : Returned(t, q)

ReadInv == \A s \in Sessions : ReadOK(txn[s])

Inv == /\ TypeOK
       /\ LogInv
       /\ OwnerInv
       /\ PhaseInv
       /\ RowInv
       /\ LockInv
       /\ ReadInv
       /\ BoundaryHeld
=============================================================================
