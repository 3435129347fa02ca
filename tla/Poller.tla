------------------------------- MODULE Poller -------------------------------
(***************************************************************************)
(* One processor of the log (a view, an outbox publisher, an automation)   *)
(* run by several instances: EventProcessor.processWith and its tick, the  *)
(* progress row it keeps (PostgresProgressTracker), and the operator's     *)
(* pause, resume and reset.                                                *)
(*                                                                         *)
(* Each statement to the database is a step.  Instances take turns by a    *)
(* leader lock, which is modelled here by what a processor sees of it (its *)
(* own view of the matter may be out of date: a zombie); `process` may     *)
(* also be called with no leadership at all.  The log is written by        *)
(* anonymous transactions, which take ids and positions in any order.      *)
(***************************************************************************)
EXTENDS EventLog

CONSTANTS
  Instances,     \* what may run a tick: each process's loop, or a direct call
  Unfenced,      \* those that may call `process` directly, leader or not
  NoOne,         \* no instance
  Kind,          \* what the processor is
  BatchSize,     \* the most events of a batch
  MaxErrors,     \* errors before the processor is FAILED
  MaxXid,        \* bound: transactions that write
  MaxPos,        \* bound: events
  MaxFailures,   \* bound: batches the handler fails
  MaxFaults,     \* bound: crashes, lost sessions, failed statements
  MaxRequests    \* bound: what the operator asks for

Kinds == {"view", "publisher", "automation"}

ASSUME PollerConstants ==
  /\ NoOne \notin Instances
  /\ Unfenced \subseteq Instances
  /\ Kind \in Kinds
  /\ BatchSize \in Nat \ {0} /\ MaxErrors \in Nat \ {0}
  /\ MaxXid \in Nat /\ MaxPos \in Nat
  /\ MaxFailures \in Nat /\ MaxFaults \in Nat /\ MaxRequests \in Nat

(* A view's writes are in the database, so its batch and its cursor are    *)
(* one transaction.  A publisher of single events reports how many it sent *)
(* (HandledPrefix); an automation fails as a whole.                        *)
Atomic  == Kind = "view"
Partial == Kind = "publisher"

VARIABLES
  progress,   \* the processor's row
  rowLock,    \* the instance whose open transaction has updated that row
  owner,      \* the instance whose session holds the leader lock
  leads,      \* the instances that believe they lead
  tick,       \* what each instance's fiber is doing
  resetting,  \* statements left of the operator's reset
  handled,    \* events whose handling was done and reported (history)
  again,      \* events handled more than once (history)
  used        \* how much of each bound is used up

workVars == <<progress, rowLock, tick, handled, again>>
lockVars == <<owner, leads>>
vars == <<logVars, workVars, lockVars, resetting, used>>

Steps == {"idle", "status", "register", "cursor", "fetch", "fence", "handle",
          "fence again", "move", "commit", "reset",
          "fence prefix", "move prefix", "failed"}

Selected(r) == r.data = "selected"

PollerInit ==
  /\ LogInit
  /\ progress = [registered |-> FALSE, cursor |-> ZeroCursor, errors |-> 0, status |-> "ACTIVE"]
  /\ rowLock = NoOne
  /\ owner = NoOne
  /\ leads = {}
  /\ tick = [i \in Instances |-> [step |-> "idle", fence |-> "none", from |-> ZeroCursor,
                                  batch |-> {}, todo |-> {}]]
  /\ resetting = 0
  /\ handled = {}
  /\ again = {}
  /\ used = [failures |-> 0, faults |-> 0, requests |-> 0]

At(i, step) == tick[i].step = step

Go(i, step) == tick' = [tick EXCEPT ![i].step = step]

(* The fiber is between ticks, and any transaction of its tick is over. *)
EndTick(i) == /\ tick' = [tick EXCEPT ![i].step = "idle", ![i].from = ZeroCursor,
                                      ![i].batch = {}, ![i].todo = {}]
              /\ rowLock' = IF rowLock = i THEN NoOne ELSE rowLock

Fault == /\ used.faults < MaxFaults
         /\ used' = [used EXCEPT !.faults = @ + 1]

-----------------------------------------------------------------------------
(* The writers of the log, and what the leader lock looks like from here.  *)

WriterBegins == /\ nextXid <= MaxXid
                /\ AssignXid

WriterInserts(x) == /\ nextPos <= MaxPos
                    /\ \E kind \in {"selected", "other"} : InsertRow(x, kind)

WriterStep == /\ \/ WriterBegins
                 \/ \E x \in running : WriterInserts(x) \/ CommitXid(x) \/ AbortXid(x)
              /\ UNCHANGED <<workVars, lockVars, resetting, used>>

(* leaderRetryLoop: an instance that does not lead tries the lock. *)
Acquires(i) == /\ i \notin leads
               /\ owner = NoOne
               /\ owner' = i
               /\ leads' = leads \cup {i}
               /\ UNCHANGED <<logVars, workVars, resetting, used>>

(* The session ends and the server frees the lock; nobody tells the leader.*)
LosesSession(i) == /\ owner = i
                   /\ i \in leads => Fault
                   /\ i \notin leads => UNCHANGED used
                   /\ owner' = NoOne
                   /\ UNCHANGED <<logVars, workVars, leads, resetting>>

(* The heartbeat finds it lost, rightly or not: the tick's handle is lost  *)
(* for good, whoever holds the lock from then on.                          *)
StopsLeading(i) == /\ i \in leads
                   /\ owner = i => Fault
                   /\ owner # i => UNCHANGED used
                   /\ leads' = leads \ {i}
                   /\ tick' = [tick EXCEPT ![i].fence = IF @ = "held" THEN "lost" ELSE @]
                   /\ UNCHANGED <<logVars, progress, rowLock, handled, again, owner, resetting>>

-----------------------------------------------------------------------------
(* processWith *)

StartTick(i) ==
  /\ At(i, "idle")
  /\ \E fence \in {"held", "none"} :
       /\ IF fence = "held" THEN i \in leads ELSE i \in Unfenced
       /\ tick' = [tick EXCEPT ![i].step = "status", ![i].fence = fence]
  /\ UNCHANGED <<logVars, progress, rowLock, handled, again, lockVars, resetting, used>>

(* What a step of a tick leaves alone that moves nothing but the tick. *)
OnlyTick == UNCHANGED <<logVars, progress, handled, again, lockVars, resetting, used>>

(* A paused or failed processor handles nothing (no row yet: ACTIVE). *)
ReadStatus(i) ==
  /\ At(i, "status")
  /\ IF progress.status = "ACTIVE" THEN Go(i, "register") /\ UNCHANGED rowLock ELSE EndTick(i)
  /\ OnlyTick

(* The row can be updated: no other open transaction has. *)
RowFree(i) == rowLock \in {i, NoOne}

(* A mutated form: the row is expected to be there. *)
ExpectRow(i) ==
  /\ At(i, "register")
  /\ Go(i, "cursor")
  /\ UNCHANGED <<logVars, progress, rowLock, handled, again, lockVars, resetting, used>>

(* A mutated form: ON CONFLICT DO UPDATE, as if the row were new. *)
RegisterAnew(i) ==
  /\ At(i, "register")
  /\ progress' = [progress EXCEPT !.registered = TRUE, !.status = "ACTIVE"]
  /\ Go(i, "cursor")
  /\ UNCHANGED <<logVars, rowLock, handled, again, lockVars, resetting, used>>

AutoRegister(i) ==
  /\ At(i, "register")
  /\ progress' = [progress EXCEPT !.registered = TRUE]
  /\ Go(i, "cursor")
  /\ UNCHANGED <<logVars, rowLock, handled, again, lockVars, resetting, used>>

GetCursor(i) ==
  /\ At(i, "cursor")
  /\ tick' = [tick EXCEPT ![i].step = "fetch", ![i].from = progress.cursor]
  /\ UNCHANGED rowLock /\ OnlyTick

(* A mutated form: whatever is committed may be fetched. *)
CommittedOnly(r) == r.xid \in committed

(* Below the oldest running transaction of the statement's snapshot. *)
Fetchable(r) == r.xid \in committed /\ r.xid < CurrentSnapshot(0).xmin

(* What there is to fetch after a cursor. *)
Ready(cursor) == {r \in rows : Fetchable(r) /\ Selected(r) /\ After(r, cursor)}

(* The first of them, in log order, at most BatchSize. *)
FirstOf(S, B) == /\ B \subseteq S
                 /\ \A r \in B : \A q \in S : After(r, q) => q \in B
                 /\ Cardinality(B) = Lesser(Cardinality(S), BatchSize)

FetchEvents(i) ==
  /\ At(i, "fetch")
  /\ \E B \in SUBSET Ready(tick[i].from) :
       /\ FirstOf(Ready(tick[i].from), B)
       /\ IF B = {} THEN EndTick(i)
          ELSE /\ tick' = [tick EXCEPT ![i].step = "fence", ![i].batch = B, ![i].todo = B]
               /\ UNCHANGED rowLock
  /\ OnlyTick

(* The fence asks the session of the tick's own handle whether it still    *)
(* holds the lock; a direct call of `process` has none.                    *)
Leads(i) == tick[i].fence = "held" => owner = i

AfterFence == [step \in {"fence", "fence again", "fence prefix"} |->
                 CASE step = "fence"        -> "handle"
                   [] step = "fence again"  -> "move"
                   [] step = "fence prefix" -> "move prefix"]

AtFence(i) == tick[i].step \in DOMAIN AfterFence

FencePasses(i) == /\ AtFence(i)
                  /\ tick[i].fence # "lost" /\ Leads(i)
                  /\ Go(i, AfterFence[tick[i].step])
                  /\ UNCHANGED rowLock /\ OnlyTick

(* LeadershipLost: the tick ends, and no error is recorded. *)
FenceFails(i) == /\ AtFence(i)
                 /\ tick[i].fence = "lost" \/ ~ Leads(i)
                 /\ EndTick(i)
                 /\ OnlyTick

-----------------------------------------------------------------------------
(* The handler *)

Done(S) == /\ handled' = handled \cup S
           /\ again' = again \cup (handled \cap S)

(* Inside the batch's transaction: nothing shows until it commits. *)
HandleInTransaction(i) ==
  /\ Atomic
  /\ At(i, "handle")
  /\ tick' = [tick EXCEPT ![i].step = "fence again", ![i].todo = {}]
  /\ UNCHANGED rowLock /\ OnlyTick

(* A mutated form: in the order of the positions alone. *)
FirstByPosition(r, S) == r \in S /\ \A q \in S : q.pos >= r.pos

IsFirstOf(r, S) == r \in S /\ \A q \in S : ~ After(r, q)

HandleEvent(i) ==
  /\ ~ Atomic
  /\ At(i, "handle")
  /\ \E r \in tick[i].todo :
       /\ IsFirstOf(r, tick[i].todo)
       /\ tick' = [tick EXCEPT ![i].todo = @ \ {r},
                               ![i].step = IF tick[i].todo = {r} THEN "fence again" ELSE @]
       /\ Done({r})
  /\ UNCHANGED <<logVars, progress, rowLock, lockVars, resetting, used>>

(* A publisher that fails part-way reports the events it handled; for a    *)
(* view this is the rollback.                                              *)
HandlerFails(i) ==
  /\ At(i, "handle")
  /\ used.failures < MaxFailures
  /\ used' = [used EXCEPT !.failures = @ + 1]
  /\ Go(i, IF Partial /\ tick[i].todo # tick[i].batch THEN "fence prefix" ELSE "failed")
  /\ UNCHANGED <<logVars, progress, rowLock, handled, again, lockVars, resetting>>

(* moveCursor: only from where the batch began. *)
Move(i, to) == progress' = IF progress.registered /\ progress.cursor = tick[i].from
                           THEN [progress EXCEPT !.cursor = to] ELSE progress

MovePrefix(i) ==
  /\ At(i, "move prefix")
  /\ RowFree(i)
  /\ Move(i, LastOf(tick[i].batch \ tick[i].todo, ZeroCursor))
  /\ Go(i, "failed")
  /\ UNCHANGED <<logVars, rowLock, handled, again, lockVars, resetting, used>>

(* recordError: one more, and FAILED at MaxErrors. *)
RecordError(i) ==
  LET errors == progress.errors + 1
  IN
  /\ At(i, "failed")
  /\ RowFree(i)
  /\ progress' = [progress EXCEPT !.errors = errors,
                                  !.status = IF errors >= MaxErrors THEN "FAILED" ELSE @]
  /\ EndTick(i)
  /\ UNCHANGED <<logVars, handled, again, lockVars, resetting, used>>

-----------------------------------------------------------------------------
(* The cursor *)

(* With effects already done, a cursor that moved meanwhile means only     *)
(* that the batch was handled twice.                                       *)
MoveCursor(i) ==
  /\ ~ Atomic
  /\ At(i, "move")
  /\ RowFree(i)
  /\ Move(i, LastOf(tick[i].batch, ZeroCursor))
  /\ Go(i, "reset")
  /\ UNCHANGED <<logVars, rowLock, handled, again, lockVars, resetting, used>>

(* A mutated form: the transaction is not rolled back. *)
NeverSuperseded(i) == FALSE

(* In the batch's transaction the cursor has to be where the batch began.  *)
Superseded(i) == progress.cursor # tick[i].from \/ ~ progress.registered

MoveInTransaction(i) ==
  /\ Atomic
  /\ At(i, "move")
  /\ RowFree(i)
  /\ ~ Superseded(i)
  /\ rowLock' = i
  /\ Go(i, "commit")
  /\ OnlyTick

RollBack(i) == /\ Atomic
               /\ At(i, "move")
               /\ RowFree(i)
               /\ Superseded(i)
               /\ EndTick(i)
               /\ OnlyTick

CommitBatch(i) ==
  /\ At(i, "commit")
  /\ progress' = [progress EXCEPT !.cursor = LastOf(tick[i].batch, ZeroCursor)]
  /\ rowLock' = NoOne
  /\ Done(tick[i].batch)
  /\ Go(i, "reset")
  /\ UNCHANGED <<logVars, lockVars, resetting, used>>

(* resetErrorCount, a statement of its own. *)
ResetErrorCount(i) ==
  /\ At(i, "reset")
  /\ RowFree(i)
  /\ progress' = [progress EXCEPT !.errors = 0]
  /\ EndTick(i)
  /\ UNCHANGED <<logVars, handled, again, lockVars, resetting, used>>

(* A statement fails: the tick ends where it is (a failure while moving    *)
(* past a prefix is the batch's failure).                                  *)
StatementFails(i) ==
  /\ ~ At(i, "idle")
  /\ Fault
  /\ IF At(i, "move prefix") THEN Go(i, "failed") /\ UNCHANGED rowLock ELSE EndTick(i)
  /\ UNCHANGED <<logVars, progress, handled, again, lockVars, resetting>>

(* The process stops or crashes; its lock goes when its session does. *)
Stops(i) ==
  /\ Fault
  /\ leads' = leads \ {i}
  /\ EndTick(i)
  /\ UNCHANGED <<logVars, progress, handled, again, owner, resetting>>

-----------------------------------------------------------------------------
(* The operator.  An update of a row that is not there changes nothing.    *)

SetStatus(s) == /\ rowLock = NoOne
                /\ progress' = IF progress.registered THEN [progress EXCEPT !.status = s] ELSE progress
                /\ UNCHANGED <<logVars, rowLock, tick, handled, again, lockVars>>

Asks == /\ resetting = 0
        /\ used.requests < MaxRequests
        /\ used' = [used EXCEPT !.requests = @ + 1]

Pause == Asks /\ SetStatus("PAUSED") /\ UNCHANGED resetting

Resume == Asks /\ SetStatus("ACTIVE") /\ UNCHANGED resetting

(* reset: resetErrorCount, setStatus, resume. *)
ResetBegins == /\ Asks
               /\ rowLock = NoOne
               /\ progress' = [progress EXCEPT !.errors = 0]
               /\ resetting' = 2
               /\ UNCHANGED <<logVars, rowLock, tick, handled, again, lockVars>>

ResetGoesOn == /\ resetting > 0
               /\ SetStatus("ACTIVE")
               /\ resetting' = resetting - 1
               /\ UNCHANGED used

-----------------------------------------------------------------------------
(* How a batch is handled and becomes durable. *)
BatchStep(i) == IF Atomic THEN HandleInTransaction(i) \/ MoveInTransaction(i) \/ RollBack(i) \/ CommitBatch(i)
                ELSE HandleEvent(i) \/ MovePrefix(i) \/ MoveCursor(i)

(* What a tick does by itself. *)
Proceeds(i) == \/ ReadStatus(i) \/ AutoRegister(i) \/ GetCursor(i) \/ FetchEvents(i)
               \/ FencePasses(i) \/ FenceFails(i)
               \/ BatchStep(i)
               \/ RecordError(i) \/ ResetErrorCount(i)

InstanceStep(i) == \/ Acquires(i) \/ LosesSession(i) \/ StopsLeading(i)
                   \/ StartTick(i) \/ Proceeds(i)
                   \/ HandlerFails(i) \/ StatementFails(i) \/ Stops(i)

OperatorStep == Pause \/ Resume \/ ResetBegins \/ ResetGoesOn

PollerNext == WriterStep \/ OperatorStep \/ \E i \in Instances : InstanceStep(i)

PollerSpec == PollerInit /\ [][PollerNext]_vars

(* The writers' transactions end (the server ends one that goes idle), an  *)
(* instance polls for as long as it leads, its heartbeat notices a lost    *)
(* lock and the server a lost session, and somebody tries the lock.        *)
Ends(x) == CommitXid(x) \/ AbortXid(x)

PollerFairness ==
  /\ \A x \in 1 .. MaxXid : WF_vars(x \in running /\ Ends(x) /\ UNCHANGED <<workVars, lockVars, resetting, used>>)
  /\ \A i \in Instances : /\ WF_vars(StartTick(i) /\ i \in leads)
                          /\ WF_vars(Proceeds(i))
                          /\ WF_vars(owner # i /\ StopsLeading(i))
                          /\ WF_vars(i \notin leads /\ LosesSession(i))
                          /\ SF_vars(Acquires(i))

FairPollerSpec == PollerSpec /\ PollerFairness

-----------------------------------------------------------------------------
IsRowOf(r) == IsRow(r) /\ r.data \in {"selected", "other"}

Progress == [registered : BOOLEAN, cursor : Cursor, errors : Nat,
             status : {"ACTIVE", "PAUSED", "FAILED"}]

Ticks == [step : Steps, fence : {"none", "held", "lost"}, from : Cursor, batch : SUBSET rows, todo : SUBSET rows]

(* The type of every variable. *)
PollerTypeOK ==
  /\ nextXid \in Nat \ {0} /\ nextPos \in Nat \ {0} /\ lastDone \in Nat
  /\ running \in SUBSET Nat /\ committed \in SUBSET Nat
  /\ \A r \in rows : IsRowOf(r)
  /\ progress \in Progress
  /\ rowLock \in Instances \cup {NoOne}
  /\ owner \in Instances \cup {NoOne}
  /\ leads \subseteq Instances
  /\ tick \in [Instances -> Ticks]
  /\ resetting \in 0 .. 2
  /\ handled \subseteq rows /\ again \subseteq handled
  /\ used \in [failures : Nat, faults : Nat, requests : Nat]

(* No event is skipped: whatever the order the writers' ids, positions and *)
(* commits come in, every selected event at or before the stored cursor is *)
(* in the log for good and has been handled.                               *)
NoSkip == \A r \in rows : (Selected(r) /\ ~ After(r, progress.cursor))
                          => r.xid \in committed /\ r \in handled

(* A view holds exactly the events at or before its cursor, each applied   *)
(* once, whoever ran it and wherever they crashed (ADR-0023, ADR-0032).    *)
ViewIsItsCursor ==
  Atomic => /\ handled = {r \in rows : Selected(r) /\ ~ After(r, progress.cursor)}
            /\ again = {}

(* Every selected event that commits is handled in the end, unless the     *)
(* processor stops at its errors or is paused.                             *)
HandledInTheEnd ==
  \A p \in 1 .. MaxPos :
    (\E r \in CommittedRows : r.pos = p /\ Selected(r))
    ~> (\/ \E r \in handled : r.pos = p
        \/ progress.status # "ACTIVE")

-----------------------------------------------------------------------------
(* The inductive invariant behind NoSkip and ViewIsItsCursor. *)

(* Ids and positions: those taken are below the next ones, a running id    *)
(* has not committed, no two rows share a position, and what is handled is *)
(* in the log for good.                                                    *)
IdsInv ==
  /\ \A x \in running : 0 < x /\ x < nextXid /\ x \notin committed
  /\ lastDone < nextXid
  /\ \A x \in committed : x < nextXid
  /\ \A r \in rows : r.xid \in running \cup committed /\ r.xid < nextXid /\ r.pos < nextPos
  /\ \A r, q \in rows : r.pos = q.pos => r = q
  /\ \A r \in handled : r.xid \in committed

(* Nothing can still be added at or before the cursor c. *)
Passed(c) == c.xid < nextXid /\ \A x \in running : c.xid < x

(* All there is at or before it has been handled. *)
HandledTo(c) == /\ Passed(c)
                /\ \A r \in rows : (Selected(r) /\ ~ After(r, c)) => r.xid \in committed /\ r \in handled

(* A batch starts right after the cursor it was read from, leaves nothing  *)
(* out, and is handled from its front.                                     *)
Batched(t) ==
  /\ t.batch # {}
  /\ \A r \in t.batch : Selected(r) /\ r.xid \in committed /\ Passed(r) /\ After(r, t.from)
  /\ \A r \in t.batch, q \in rows : (Selected(q) /\ After(q, t.from) /\ After(r, q)) => q \in t.batch
  /\ \A r \in t.todo, q \in t.batch : After(q, r) => q \in t.todo

BeforeCursor == {"idle", "status", "register", "cursor"}
BeforeBatch  == BeforeCursor \cup {"fetch"}

TickOK(i, t) ==
  /\ t.step \in BeforeBatch => t.batch = {}
  /\ t.step \notin BeforeCursor => HandledTo(t.from)
  /\ t.step \notin BeforeBatch => Batched(t)
  /\ t.todo \subseteq t.batch
  /\ t.step \in {"fence again", "move", "commit"} => t.todo = {}
  /\ ~ Atomic => t.batch \ t.todo \subseteq handled
  /\ t.step \in {"fence prefix", "move prefix"} => ~ Atomic /\ t.todo # t.batch
  /\ t.step = "commit" => Atomic /\ rowLock = i /\ progress.cursor = t.from

PollerInv == /\ PollerTypeOK
             /\ IdsInv
             /\ HandledTo(progress.cursor)
             /\ ViewIsItsCursor
             /\ \A i \in Instances : TickOK(i, tick[i])
=============================================================================
