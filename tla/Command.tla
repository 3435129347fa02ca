------------------------------ MODULE Command -------------------------------
(***************************************************************************)
(* The command executor: what a command's call does between the request    *)
(* and the answer (commands/src/CommandExecutor.ts, Command.ts,            *)
(* CommandDecision.ts, Repeat.ts), many calls at a time.                   *)
(*                                                                         *)
(* An attempt is one transaction: look the request's key up, make the      *)
(* reads of `resolve` and of the model's load, each a statement that may   *)
(* see more of the log than the one before, decide, append under the       *)
(* condition the reads and the decision imply, record the command, commit. *)
(* A Conflict runs the whole attempt again.  A client that did not get its *)
(* answer sends the request again, and a trigger may be delivered again:   *)
(* both are other calls with the same request.                             *)
(*                                                                         *)
(* The log is kept as its commits: a read of this module is the rows       *)
(* committed so far, one number.  EventStore has the statements, the       *)
(* snapshots and the locks of a read and an append one by one, and shows   *)
(* that they amount to this.                                               *)
(***************************************************************************)
EXTENDS Period, FiniteSets

CONSTANTS Calls,          \* calls of `run`, each made once
          Requests,       \* what a call may ask for
          Sendings,       \* who sends what: functions from Calls to Requests
          InitialRows,    \* the log at the start
          Retries,        \* a command's `retries`
          MaxFaults,      \* bound: statements failing, answers lost, deadlocks
          NoCause,        \* the cause of a request no trigger made
          NoFingerprint,
          LastPeriod,     \* bound: how far the clock runs
          Entities,       \* the tags of the entities that have periods
          LookupOf(_),    \* request: the query of its `resolve` (empty: none)
          ModelOf(_, _),  \* request, rows looked up: the query of its model (empty: no model)
          EntityOf(_, _), \* request, rows looked up: the entity, when its model has a period
          Decide(_, _, _) \* request, rows looked up, rows loaded: what `decide` says

VARIABLES log,      \* the committed rows
          commits,  \* how many transactions have committed
          nextXid,  \* the next transaction id
          call,     \* what each call is doing
          clock,    \* the period of the day
          faults    \* faults so far

vars == <<log, commits, nextXid, call, clock, faults>>

dbVars == <<log, commits, nextXid>>

(* A request: what it is (its command's name and input), the cause it runs *)
(* under, and what its command declares.                                   *)
IsRequest(q) == /\ q.idempotentBy \in SUBSET Item     \* empty: no key
                /\ q.byModel \in BOOLEAN
                /\ q.consistency \in {"strict", "concurrent"}
                /\ q.guard \in SUBSET Item            \* empty: no guard
                /\ q.timed \in BOOLEAN                 \* its model has a period
                /\ DOMAIN q = {"id", "cause", "idempotentBy", "byModel", "consistency", "guard", "timed"}

(* byModel() decides under strict() and has no key.  A fingerprint is never *)
(* null.                                                                   *)
ASSUME RequestsType ==
  \A q \in Requests : /\ IsRequest(q)
                      /\ q.byModel => q.consistency = "strict" /\ q.idempotentBy = {}
                      /\ q.id # NoFingerprint

ASSUME BoundsType == Retries \in Nat /\ MaxFaults \in Nat /\ LastPeriod \in Nat \ {0}

(* The log at the start is older than every request, and no entity has had *)
(* a period in it.                                                         *)
ASSUME InitialRowsType ==
  \A r \in InitialRows : /\ r.event \in Event /\ r.event.type \notin {OpenedType, ClosedType}
                         /\ r.xid = 1 /\ r.at = 0 /\ r.fingerprint = NoFingerprint

ASSUME ClockType == 1 .. LastPeriod \subseteq Periods /\ Entities \subseteq Tags

ASSUME SendingsType == Sendings \subseteq [Calls -> Requests] /\ Sendings # {}

-----------------------------------------------------------------------------
(* The request is fingerprinted for its key or for its trigger.            *)
FingerprintOf(q) == IF q.idempotentBy = {} /\ q.cause = NoCause THEN NoFingerprint ELSE q.id

ReadUpTo(n) == {r \in log : r.at <= n}

Of(query, rows) == {r \in rows : Matches(query, r.event)}

(* A marker is a place in the log; which transaction it is in is all that   *)
(* matters here, for its rows become visible together.                     *)
NoMarker == 0

XidsOf(rows) == {r.xid : r \in rows}

(* A mutated form: the oldest of the rows. *)
EarliestOf(rows) == IF rows = {} THEN NoMarker ELSE CHOOSE x \in XidsOf(rows) : \A y \in XidsOf(rows) : x <= y

(* Where the newest of the rows is, in log order. *)
LatestOf(rows) == IF rows = {} THEN NoMarker ELSE CHOOSE x \in XidsOf(rows) : \A y \in XidsOf(rows) : y <= x

(* isSameRequest: the same trigger again, or no other fingerprint. *)
IsSameRequest(q, rows) ==
  \/ q.cause # NoCause /\ \E r \in rows : r.cause = q.cause
  \/ FingerprintOf(q) = NoFingerprint
  \/ \A r \in rows : r.fingerprint \in {NoFingerprint, FingerprintOf(q)}

-----------------------------------------------------------------------------
Phases == {"precheck", "resolve", "load", "append", "record", "commit", "answered"}

Answers == {"none", "created", "idempotent", "noop", "mismatch", "refused", "conflict", "defect", "died", "error"}

NoAppend == [events |-> {}, condition |-> {}, seen |-> 0, locks |-> {}]

NewCall(q) ==
  [phase  |-> "precheck", request |-> q,
   tries  |-> 0,             \* attempts refused so far
   now    |-> 0,             \* the period of this attempt's clock, once read
   lookup |-> {},            \* what resolve read, if it did
   reads  |-> <<>>,          \* what the load read, in order
   append |-> NoAppend,      \* what it appends, once it has decided
   xid    |-> 0,             \* the transaction id, once it has appended
   answer |-> "none", marker |-> NoMarker]

Init == /\ log = InitialRows
        /\ commits = 0
        /\ nextXid = 2
        /\ call \in {[c \in Calls |-> NewCall(s[c])] : s \in Sendings}
        /\ clock = 1
        /\ faults = 0

At(c, phase) == call[c].phase = phase

Request(c) == call[c].request

Become(c, d) == call' = [call EXCEPT ![c] = d]

(* The attempt's transaction is over, its locks with it. *)
Answer(c, d, answer, marker) ==
  Become(c, [d EXCEPT !.phase = "answered", !.lookup = {}, !.reads = <<>>, !.append = NoAppend,
                      !.answer = answer, !.marker = marker])

AnswerRepeat(c, d, rows) == IF IsSameRequest(d.request, rows)
                            THEN Answer(c, d, "idempotent", LatestOf(rows))
                            ELSE Answer(c, d, "mismatch", NoMarker)

(* A fresh transaction and a fresh load, while retries remain. *)
RetryOrGiveUp(c) ==
  IF call[c].tries < Retries
  THEN Become(c, [NewCall(Request(c)) EXCEPT !.tries = call[c].tries + 1])
  ELSE Answer(c, call[c], "conflict", NoMarker)

-----------------------------------------------------------------------------
(* A read: what it asked for, what it returned, and how much of the log it *)
(* saw.                                                                    *)
ReadOf(query) == [query |-> query, rows |-> Of(query, log), upTo |-> commits]

(* What resolve looked up. *)
LookedUp(lookup) == UNION {r.rows : r \in lookup}

LookupQuery(lookup) == UNION {r.query : r \in lookup}

(* What the load reads next, nothing when it has read enough. *)
NextQuery(q, now, looked, reads) ==
  IF q.timed THEN NextPeriodQuery(EntityOf(q, looked), now, reads)
  ELSE IF reads = <<>> THEN ModelOf(q, looked) ELSE {}

(* What the load returns: the rows decided on, the reads they are from, the *)
(* queries that make its boundary and its guard, the events that turn a    *)
(* period and the tags its model reads the command's events by.            *)
Load(q, now, looked, reads) ==
  IF q.timed THEN LoadedPeriod(EntityOf(q, looked), now, reads)
  ELSE [rows     |-> UNION {reads[i].rows : i \in DOMAIN reads},
        uses     |-> DOMAIN reads,
        boundary |-> UNION {reads[i].query : i \in DOMAIN reads},
        guard    |-> {}, prefix |-> {}, scope |-> {}, dies |-> FALSE]

(* byModel() is a promise: with the command's own events, decide answers   *)
(* the same request with a noop.                                           *)
KeepsByModel(q, lookup, l, own) ==
  LET shown == {[event |-> e] : e \in {e \in own : Matches(l.boundary, e)}}
  IN  q.byModel => Decide(q, LookedUp(lookup), l.rows \cup shown).tag = "noop"

(* Strict by declaration, to turn a period, or because a lookup reads what *)
(* the command appends and could not be a guard.                           *)
IsStrict(q, lookup, l, events) ==
  \/ q.consistency = "strict"
  \/ l.prefix # {}
  \/ \E i \in LookupQuery(lookup) : i.types = {} \/ \E e \in events : e.type \in i.types

(* A mutated form: the lookups are left out. *)
ModelCondition(q, lookup, l, events) ==
  IF IsStrict(q, lookup, l, events) THEN l.boundary ELSE q.guard \cup l.guard

Condition(q, lookup, l, events) ==
  LookupQuery(lookup) \cup (IF IsStrict(q, lookup, l, events) THEN l.boundary ELSE q.guard \cup l.guard)

(* A condition needs a read whose position it starts from, and a guard     *)
(* over an event the command appends would refuse its own concurrent runs. *)
IsDefined(q, d, l, events) ==
  LET guard == q.guard \cup l.guard
  IN  /\ q.consistency = "strict" \/ q.guard # {} => d.lookup # {} \/ d.reads # <<>>
      /\ ~ IsStrict(q, d.lookup, l, events) =>
           \A i \in guard : (i.types # {} \/ i.tags # {}) /\ \A e \in events : e.type \notin i.types

(* What every read of the decision could see. *)
Seen(lookup, reads, l) ==
  LET counted == {r.upTo : r \in lookup} \cup {reads[i].upTo : i \in l.uses}
  IN  IF counted = {} THEN commits ELSE CHOOSE n \in counted : \A m \in counted : n <= m

(* The append: the events (with the tags the command's model reads them by *)
(* added), and the condition that the consistency implies.                 *)
AppendOf(q, d, l, events) ==
  LET condition == Condition(q, d.lookup, l, events)
  IN  [events |-> events, condition |-> condition, seen |-> Seen(d.lookup, d.reads, l),
       locks |-> WriterLocks(events, condition \cup q.idempotentBy)]

(* The command's own events. *)
OwnEvents(decision, l) == {[e EXCEPT !.tags = @ \cup l.scope] : e \in decision.events}

(* What becomes of the attempt d once it has read: it is over, or it       *)
(* appends.                                                                *)
Decided(c, d) ==
  LET l        == Load(d.request, d.now, LookedUp(d.lookup), d.reads)
      decision == Decide(d.request, LookedUp(d.lookup), l.rows)
      own      == OwnEvents(decision, l)
      events   == l.prefix \cup own
  IN
  CASE l.dies                 -> Answer(c, d, "died", NoMarker)
    [] ~ l.dies /\ decision.tag = "fail" -> Answer(c, d, "refused", NoMarker)
    [] ~ l.dies /\ (decision.tag = "noop" \/ (decision.tag = "emit" /\ decision.events = {})) ->
         Answer(c, d, "noop", LatestOf(UNION {d.reads[i].rows : i \in l.uses}))
    [] ~ l.dies /\ decision.tag = "emit" /\ decision.events # {} ->
         IF KeepsByModel(d.request, d.lookup, l, own) /\ IsDefined(d.request, d, l, events)
         THEN Become(c, [d EXCEPT !.phase = "append", !.append = AppendOf(d.request, d, l, events)])
         ELSE Answer(c, d, "defect", NoMarker)

(* Decide is pure: it runs with the last read. *)
Proceed(c, d) ==
  IF NextQuery(d.request, d.now, LookedUp(d.lookup), d.reads) = {} THEN Decided(c, d)
  ELSE Become(c, [d EXCEPT !.phase = "load"])

(* What the clock may say: a process's clock may be behind.  It matters to *)
(* a model with a period only.                                             *)
Clocks(q) == IF q.timed THEN {clock, clock - 1} \ {0} ELSE {1}

(* The key is looked up before anything else.  The clock is read here for  *)
(* the whole attempt.                                                      *)
FindDuplicate(c) ==
  /\ At(c, "precheck")
  /\ LET rows == Of(Request(c).idempotentBy, log)
     IN  IF rows # {} THEN AnswerRepeat(c, call[c], rows)
         ELSE \E now \in Clocks(Request(c)) :
                IF LookupOf(Request(c)) = {} THEN Proceed(c, [call[c] EXCEPT !.now = now])
                ELSE Become(c, [call[c] EXCEPT !.phase = "resolve", !.now = now])
  /\ UNCHANGED <<dbVars, clock, faults>>

Resolve(c) ==
  /\ At(c, "resolve")
  /\ Proceed(c, [call[c] EXCEPT !.lookup = {ReadOf(LookupOf(Request(c)))}])
  /\ UNCHANGED <<dbVars, clock, faults>>

(* One read of the load. *)
ReadModel(c) ==
  /\ At(c, "load")
  /\ LET query == NextQuery(Request(c), call[c].now, LookedUp(call[c].lookup), call[c].reads)
     IN  Proceed(c, [call[c] EXCEPT !.reads = Append(@, ReadOf(query))])
  /\ UNCHANGED <<dbVars, clock, faults>>

-----------------------------------------------------------------------------
(* A mutated form: locked from the decision on. *)
HeldEarly(c) == IF At(c, "append") \/ At(c, "record") \/ At(c, "commit") THEN call[c].append.locks ELSE {}

(* Writer locks are held from the append to the end of the transaction.    *)
Held(c) == IF At(c, "record") \/ At(c, "commit") THEN call[c].append.locks ELSE {}

LocksAreFree(c) == \A o \in Calls \ {c} : \A h \in Held(o), l \in call[c].append.locks : ~ Incompatible(h, l)

(* A mutated form: the pre-check was enough. *)
NoDuplicates(c) == {}

Duplicates(c) == Of(Request(c).idempotentBy, log)

Conflicts(c) == {r \in Of(call[c].append.condition, log) : r.at > call[c].append.seen}

(* The rows the unique index on (causation_id, emit_key) holds against the *)
(* append: the same request appended under the same cause.                 *)
Emitted(q) == {r \in log : q.cause # NoCause /\ r.cause = q.cause /\ r.fingerprint = FingerprintOf(q)}

(* Another transaction has inserted the same emit key and not ended: the   *)
(* insert waits for it.                                                    *)
EmitKeyIsTaken(c) ==
  \E o \in Calls \ {c} : /\ Held(o) # {}
                         /\ Request(c).cause # NoCause
                         /\ Request(o).cause = Request(c).cause
                         /\ FingerprintOf(Request(o)) = FingerprintOf(Request(c))

(* append_events_if, under its locks: the key first, then the conflict,    *)
(* then the rows and, under a cause, their emit keys.                      *)
AppendIf(c) ==
  /\ At(c, "append")
  /\ LocksAreFree(c)
  /\ \/ /\ Duplicates(c) # {}
        /\ AnswerRepeat(c, call[c], Duplicates(c))
        /\ UNCHANGED nextXid
     \/ /\ Duplicates(c) = {} /\ Conflicts(c) # {}
        /\ RetryOrGiveUp(c)
        /\ UNCHANGED nextXid
     \/ /\ Duplicates(c) = {} /\ Conflicts(c) = {} /\ ~ EmitKeyIsTaken(c)
        /\ nextXid' = nextXid + 1
        /\ IF Emitted(Request(c)) # {} THEN AnswerRepeat(c, call[c], Emitted(Request(c)))
           ELSE Become(c, [call[c] EXCEPT !.phase = "record", !.xid = nextXid])
  /\ UNCHANGED <<log, commits, clock, faults>>

(* The audit row, in the same transaction. *)
RecordCommand(c) ==
  /\ At(c, "record")
  /\ Become(c, [call[c] EXCEPT !.phase = "commit"])
  /\ UNCHANGED <<dbVars, clock, faults>>

RowsOf(c) == {[event |-> e, xid |-> call[c].xid, at |-> commits + 1, cause |-> Request(c).cause,
               fingerprint |-> FingerprintOf(Request(c)), request |-> Request(c), now |-> call[c].now, by |-> c]
                : e \in call[c].append.events}

Committed(c) == /\ At(c, "commit")
                /\ log' = log \cup RowsOf(c)
                /\ commits' = commits + 1
                /\ UNCHANGED <<nextXid, clock>>

Commit(c) == /\ Committed(c)
             /\ Answer(c, call[c], "created", call[c].xid)
             /\ UNCHANGED faults

-----------------------------------------------------------------------------
Fault == faults < MaxFaults /\ faults' = faults + 1

(* A statement fails, or the process or its connection is gone: the        *)
(* transaction is rolled back and the caller has no result.                *)
Fail(c) == /\ ~ At(c, "answered")
           /\ Fault
           /\ Answer(c, call[c], "error", NoMarker)
           /\ UNCHANGED <<dbVars, clock>>

(* The commit took place, its confirmation never came. *)
CommitUnheard(c) == /\ Committed(c)
                    /\ Fault
                    /\ Answer(c, call[c], "error", NoMarker)

(* An application's transaction holds and wants the locks the other way    *)
(* round, and PostgreSQL aborts the command: a Conflict to the executor.   *)
Deadlock(c) == /\ At(c, "append")
               /\ Fault
               /\ RetryOrGiveUp(c)
               /\ UNCHANGED <<dbVars, clock>>

Tick == /\ clock < LastPeriod
        /\ \E c \in Calls : Request(c).timed /\ ~ At(c, "answered")
        /\ clock' = clock + 1
        /\ UNCHANGED <<dbVars, call, faults>>

Step(c) == FindDuplicate(c) \/ Resolve(c) \/ ReadModel(c) \/ AppendIf(c) \/ RecordCommand(c) \/ Commit(c)

Next == \/ \E c \in Calls : Step(c) \/ Fail(c) \/ CommitUnheard(c) \/ Deadlock(c)
        \/ Tick

Spec == Init /\ [][Next]_vars

(* The database runs a statement it was sent, and grants a lock that is    *)
(* free, so an attempt that can go on is not left where it is for ever     *)
(* (weak fairness of its steps, with their enabling condition written out).*)
CanGoOn(c) == \/ call[c].phase \in {"precheck", "resolve", "load", "record", "commit"}
              \/ /\ At(c, "append") /\ LocksAreFree(c)
                 /\ Duplicates(c) # {} \/ Conflicts(c) # {} \/ ~ EmitKeyIsTaken(c)

FairSpec == Spec /\ \A c \in Calls : []<>~ CanGoOn(c) \/ []<><<call'[c] # call[c]>>_vars

-----------------------------------------------------------------------------
(* The log holds rows of committed transactions; a call holds locks from   *)
(* its append to the end of its transaction.                               *)
TypeOK ==
  /\ \A r \in log : /\ r.event \in Event /\ r.at \in 0 .. commits /\ r.xid \in 1 .. nextXid - 1
  /\ commits \in Nat /\ nextXid \in Nat /\ clock \in 1 .. LastPeriod /\ faults \in 0 .. MaxFaults
  /\ \A c \in Calls :
       /\ call[c].phase \in Phases /\ call[c].request \in Requests /\ call[c].tries \in 0 .. Retries
       /\ call[c].now \in 0 .. clock /\ Len(call[c].reads) <= 3
       /\ \A i \in DOMAIN call[c].reads : call[c].reads[i].upTo \in 0 .. commits
       /\ \A r \in call[c].lookup : r.upTo \in 0 .. commits
       /\ call[c].answer \in Answers /\ call[c].marker \in 0 .. nextXid - 1
       /\ call[c].phase \in {"record", "commit"} => call[c].xid \in 2 .. nextXid - 1
       /\ (call[c].answer = "none") <=> call[c].phase # "answered"

Written == log \ InitialRows

Recognised(q) == q.idempotentBy # {} \/ q.byModel \/ q.cause # NoCause

(* What a key stands for is appended once: no row was under the key of the *)
(* request that a later commit ran.                                        *)
KeyUsedOnce ==
  \A r, s \in log : r \in Written /\ s.at < r.at => ~ Matches(r.request.idempotentBy, s.event)

(* However often a request is sent, delivered, retried or left without an  *)
(* answer: a call commits at most once, of the calls with one request      *)
(* whose command recognises a repeat, or that one trigger made, one        *)
(* commits, and a key is used once.                                        *)
AppliedOnce ==
  /\ \A r, s \in Written :
       r.by = s.by \/ (Recognised(r.request) /\ r.request = s.request) => r.xid = s.xid
  /\ KeyUsedOnce

(* A load of q that makes all its reads at once, of these rows. *)
ReadsAtOnce(q, now, looked, rows) ==
  LET next(reads) == NextQuery(q, now, looked, reads)
      more(reads) == IF next(reads) = {} THEN reads
                     ELSE Append(reads, [query |-> next(reads), rows |-> Of(next(reads), rows)])
  IN  more(more(more(<<>>)))

(* What an attempt of that kind decides, and the events it appends. *)
AtOnce(q, now, rows) ==
  LET looked == Of(LookupOf(q), rows)
      l      == Load(q, now, looked, ReadsAtOnce(q, now, looked, rows))
      d      == Decide(q, looked, l.rows)
  IN  [tag    |-> IF l.dies THEN "dies" ELSE IF d.tag = "emit" /\ d.events = {} THEN "noop" ELSE d.tag,
       events |-> l.prefix \cup OwnEvents(d, l)]

(* Commands are serializable: every commit appended exactly what its       *)
(* command decides on the log just before it, whatever its own reads had   *)
(* returned and however they were spread in time; a turn of a period       *)
(* carries all of the period it closes.                                    *)
DecidedOnTheLog ==
  \A r \in Written :
    LET d == AtOnce(r.request, r.now, ReadUpTo(r.at - 1))
    IN  d.tag = "emit" /\ d.events = {s.event : s \in {s \in log : s.at = r.at}}

(* What an answer "already done" points at is there, at or before the      *)
(* marker a reader will wait for: rows of the same request or trigger, or  *)
(* a row under the key that no fingerprint tells apart.                    *)
IsDoneAt(c, marker) ==
  LET rows == {r \in log : r.xid <= marker}
  IN  \/ \E r \in rows \cap Written : r.request.id = Request(c).id
      \/ Request(c).cause # NoCause /\ \E r \in rows : r.cause = Request(c).cause
      \/ \E r \in Of(Request(c).idempotentBy, rows) : r.fingerprint = NoFingerprint

(* A command that decides on one read of the log. *)
ReadsOnce(q) == LookupOf(q) = {} /\ ~ q.timed

(* On the log up to the marker, the command has nothing to do. *)
HasNothingToDoAt(c, marker) ==
  AtOnce(Request(c), call[c].now, {r \in log : r.xid <= marker}).tag = "noop"

(* A call that gives up has lost to others as many times as it tried: each *)
(* of its attempts read anew, so each was refused by a commit of its own   *)
(* that changed what the call depends on.  Commands that declare they may  *)
(* run side by side are no such reason.                                    *)
GivesUpForAReason(c) == Cardinality({r.at : r \in {r \in Written : r.by # c}}) > Retries

(* The caller is told what happened: "created" when its rows are in the    *)
(* log where the marker says, "already done" when they were, a mismatch    *)
(* when another request has the key, and anything else but a lost answer   *)
(* when the call has left nothing; a conflict only after it lost to others.*)
AnswersAreTrue ==
  /\ TypeOK
  /\ \A c \in Calls :
    LET mine == {r \in Written : r.by = c}
    IN  /\ call[c].answer = "created" => mine # {} /\ \A r \in mine : r.xid = call[c].marker
        /\ call[c].answer = "idempotent" => IsDoneAt(c, call[c].marker)
        /\ call[c].answer = "noop" /\ ReadsOnce(Request(c)) => HasNothingToDoAt(c, call[c].marker)
        /\ call[c].answer = "mismatch" =>
             \E r \in Written : /\ Matches(Request(c).idempotentBy, r.event)
                                /\ r.request.id # Request(c).id
                                /\ (Request(c).cause = NoCause \/ r.cause # Request(c).cause)
        /\ call[c].answer \notin {"created", "error"} => mine = {}
        /\ call[c].answer = "conflict" /\ faults = 0 => GivesUpForAReason(c)

(* Every call is answered: no two wait for each other's locks or emit keys *)
(* and none is retried for ever.                                           *)
EveryCallIsAnswered == \A c \in Calls : <>At(c, "answered")

(* No load dies (Model.ts:337 "its own events say otherwise", :341 "a      *)
(* closed period is not reopened") on a log that only commands have        *)
(* written.                                                                *)
NoLoadDies == \A c \in Calls : call[c].answer # "died"
=============================================================================
