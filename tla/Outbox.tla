-------------------------------- MODULE Outbox --------------------------------
(***************************************************************************)
(* One (topic, publisher) pair of the outbox and everything that looks at  *)
(* it: the processor of Poller with Kind = "publisher" (a publisher in     *)
(* individual mode), the consumer behind its destination, the operator and *)
(* the reports of the admin API, and a client that browses the log.        *)
(*                                                                         *)
(* The observers do not act on each other, so a behaviour has one of them  *)
(* (`watch`): TLC then adds their states up instead of multiplying them    *)
(* (and the processor rests while the log alone is read).                  *)
(* The pairs share a leader and nothing else.  Left out: leader_instance   *)
(* and leader_heartbeat, which nothing reads back.                         *)
(***************************************************************************)
EXTENDS Poller

CONSTANTS PageSize,     \* events of a page of the log
          BacklogCap    \* where a backlog stops counting (BACKLOG_CAP)

ASSUME OutboxConstants == /\ Kind = "publisher"
                          /\ PageSize \in Nat \ {0} /\ BacklogCap \in Nat \ {0}

VARIABLES
  watch,     \* who looks at the processor in this behaviour
  wire,      \* events whose publish began: each may reach the consumer, now or later, once or again
  applied,   \* the events the consumer has applied
  desk,      \* the answer to the operator's last request, and the ticks under way when it said PAUSED
  report,    \* a listing, what was in the log when it began, and what it found pending
  browse     \* where the reader of the log is, and what it has been shown

observers == <<wire, applied, desk, report, browse>>
outboxVars == <<vars, watch, observers>>

Watchers == {"consumer", "operator", "report", "reader"}

OutboxInit ==
  /\ PollerInit
  /\ watch \in Watchers
  /\ wire = {} /\ applied = {}
  /\ desk = [answer |-> "none", before |-> {}]
  /\ report = [step |-> "none", known |-> {}, from |-> ZeroCursor, pending |-> 0]
  /\ browse = [after |-> ZeroCursor, seen |-> {}]

-----------------------------------------------------------------------------
(* Publishing *)

(* The consumer keeps the order it receives and skips what is at or below  *)
(* the last event it applied.                                              *)
Receives(r) == applied' = IF After(r, LastOf(applied, ZeroCursor)) THEN applied \cup {r} ELSE applied

(* The event the publisher is called with. *)
Publishing(i) == {r \in tick[i].todo : At(i, "handle") /\ IsFirstOf(r, tick[i].todo)}

OnTheWire(S) == wire' = IF watch = "consumer" THEN wire \cup S ELSE wire

(* publishBatch returned: the event has arrived. *)
Publish(i) == /\ HandleEvent(i)
              /\ OnTheWire(Publishing(i))
              /\ IF watch = "consumer" THEN \E r \in Publishing(i) : Receives(r) ELSE UNCHANGED applied
              /\ UNCHANGED <<desk, report, browse>>

(* A publish that failed, took too long or was interrupted may still       *)
(* reach the destination.                                                  *)
PublishEnds(i) == /\ HandlerFails(i) \/ StatementFails(i) \/ Stops(i)
                  /\ OnTheWire(Publishing(i))
                  /\ UNCHANGED <<applied, report, browse>>

Arrives(r) == Receives(r) /\ UNCHANGED <<vars, watch, wire, desk, report, browse>>

-----------------------------------------------------------------------------
(* The row of the pair: OutboxProgressTracker's statements. *)

Registers(i)    == AutoRegister(i)
TakesCursor(i)  == GetCursor(i)
MovesOn(i)      == MoveCursor(i) \/ MovePrefix(i)
CountsError(i)  == RecordError(i)
ForgetsErrors(i) == ResetErrorCount(i)

RowStep(i) == Registers(i) \/ TakesCursor(i) \/ MovesOn(i) \/ CountsError(i) \/ ForgetsErrors(i)

OtherStep(i) == \/ Acquires(i) \/ LosesSession(i) \/ StopsLeading(i)
                \/ StartTick(i) \/ ReadStatus(i) \/ FetchEvents(i) \/ FencePasses(i) \/ FenceFails(i)

-----------------------------------------------------------------------------
(* The operator: actOnProcessor.  A processor is known by its              *)
(* configuration, so one without a row yet is acted on too: nothing        *)
(* changes, and the answer says ACTIVE.                                    *)

Busy == {i \in Instances : tick[i].step \notin {"idle", "status"}}

Request == /\ watch = "operator" /\ desk.answer # "awaited"
           /\ desk' = [answer |-> "awaited", before |-> {}]
           /\ UNCHANGED <<watch, wire, applied, report, browse>>

PauseProcessor  == Pause /\ Request
ResumeProcessor == Resume /\ Request
ResetProcessor  == ResetBegins /\ Request

(* The status answered is read after the action, by a statement of its own.*)
Answer == /\ desk.answer = "awaited" /\ resetting = 0
          /\ desk' = [answer |-> progress.status, before |-> IF progress.status = "PAUSED" THEN Busy ELSE {}]
          /\ UNCHANGED <<vars, watch, wire, applied, report, browse>>

(* A tick that was under way is over. *)
TicksEnd == desk' = [desk EXCEPT !.before = {i \in @ : tick'[i].step # "idle"}]

-----------------------------------------------------------------------------
(* A listing (listProcessors) and a sample (sampleProcessors): the cursor  *)
(* and what is pending after it are two statements.                        *)

Reported(step) == step /\ UNCHANGED <<vars, watch, wire, applied, desk, browse>>

ListBegins == Reported(
  /\ watch = "report" /\ report.step = "none"
  /\ report' = [report EXCEPT !.step = "cursor", !.known = {r \in CommittedRows : Selected(r)}])

PeekCursor == Reported(
  /\ report.step = "cursor"
  /\ report' = [report EXCEPT !.step = "count", !.from = progress.cursor])

(* A mutated form: pending by position, as getLag counts. *)
Beyond(r, cursor) == r.pos > cursor.pos

(* The fetch's predicate without its bound: what there is, readable or not.*)
Pending(r, cursor) == After(r, cursor)

GetBacklog == Reported(
  /\ report.step = "count"
  /\ LET waiting == {r \in CommittedRows : Selected(r) /\ Pending(r, report.from)}
     IN report' = [report EXCEPT !.step = "done", !.from = ZeroCursor,
                                 !.pending = Lesser(Cardinality(waiting), BacklogCap)])

(* The backlog cannot be read: nothing is said of it. *)
BacklogUnreadable == Reported(
  /\ report.step \in {"cursor", "count"}
  /\ report' = [report EXCEPT !.step = "none", !.known = {}, !.from = ZeroCursor])

ReportStep == ListBegins \/ PeekCursor \/ GetBacklog \/ BacklogUnreadable

-----------------------------------------------------------------------------
(* The reader: a page of the log after the last one's cursor (listEvents,  *)
(* EventStore.read), whoever wrote it.                                     *)

(* A mutated form: a committed event is shown at once. *)
ShownAtOnce(r) == r.xid \in committed

(* Its transaction had finished, and so had every older one. *)
Readable(r) == r.xid \in committed /\ Settled(r)

QueryPage(after, B) ==
  LET there == {r \in rows : Readable(r) /\ After(r, after)}
  IN  /\ B \subseteq there
      /\ \A r \in B, q \in there : After(r, q) => q \in B
      /\ Cardinality(B) = Lesser(Cardinality(there), PageSize)

ListEvents ==
  /\ watch = "reader"
  /\ \E B \in SUBSET rows :
       /\ QueryPage(browse.after, B)
       /\ browse' = [after |-> LastOf(B, browse.after), seen |-> browse.seen \cup B]
  /\ UNCHANGED <<vars, watch, wire, applied, desk, report>>

-----------------------------------------------------------------------------
InstanceMoves(i) ==
  /\ watch # "reader" /\ UNCHANGED watch
  /\ \/ Publish(i)
     \/ PublishEnds(i) /\ TicksEnd
     \/ (RowStep(i) \/ OtherStep(i)) /\ TicksEnd /\ UNCHANGED <<wire, applied, report, browse>>

OutboxNext ==
  \/ (WriterStep \/ ResetGoesOn) /\ UNCHANGED <<watch, observers>>
  \/ \E i \in Instances : InstanceMoves(i)
  \/ \E r \in wire : Arrives(r)
  \/ PauseProcessor \/ ResumeProcessor \/ ResetProcessor \/ Answer
  \/ ReportStep
  \/ ListEvents

OutboxSpec == OutboxInit /\ [][OutboxNext]_outboxVars

-----------------------------------------------------------------------------
(* Whoever follows the log in its own order misses nothing behind where he *)
(* is.  A consumer that skips what is at or below the last event it        *)
(* applied (OutboxPublisher.ts): whatever was published twice, late, or by *)
(* a leader that no longer led.  A reader that goes on from the cursor of  *)
(* a page (EventsApi.ts): in whatever order transactions take ids and      *)
(* positions and commit.                                                   *)
FollowersMissNothing ==
  \A r \in CommittedRows :
    /\ (Selected(r) /\ ~ After(r, LastOf(applied, ZeroCursor))) => r \in applied
    /\ ~ After(r, browse.after) => r \in browse.seen

(* A pause answered PAUSED holds until the next request: only ticks that   *)
(* were under way when it was answered go on, whatever they record.        *)
AnsweredPauseHolds == desk.answer = "PAUSED" => Busy \subseteq desk.before

(* A report that nothing is pending is true of all that was committed when *)
(* it was asked for, though its cursor and its count are read apart.       *)
CaughtUpIsTrue == (report.step = "done" /\ report.pending = 0) => report.known \subseteq handled
=============================================================================
