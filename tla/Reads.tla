------------------------------- MODULE Reads -------------------------------
(***************************************************************************)
(* Reading from the views what was written to the log: the rules of one    *)
(* request (resolveReadPolicy), the first look (readCheck), the waits of   *)
(* the views that are behind (settleViews, waitUntilProcessed), the hub    *)
(* that hands out the views' pings (ViewProgressHub), and the feed that    *)
(* tells a page where its views are (viewProgressFeed).                    *)
(*                                                                         *)
(* The views themselves are what Poller promises of them: a batch and its  *)
(* cursor are one step, and the ping is sent by the statement that moves   *)
(* the cursor.  Each statement of a read is a step, and so is each turn of *)
(* a fiber between two waits.                                              *)
(***************************************************************************)
EXTENDS EventLog, Sequences

CONSTANTS
  View,          \* the views
  Selection,     \* the kinds of event each of them handles
  Endpoints,     \* settings an endpoint may end up with
  Endpoint,      \* what an endpoint reads
  Page,          \* pages that follow views
  Follows,       \* the views each of them follows
  MaxXid,        \* bound: transactions that write
  MayFail,       \* bound: the views that may fail
  MaxFaults      \* bound: lost connections and failed views

ASSUME ReadsConstants == /\ Endpoint \subseteq View /\ Page \cap View = {}
                         /\ Follows \in [Page -> SUBSET View]
                         /\ MaxXid \in Nat

Kind == UNION {Selection[v] : v \in DOMAIN Selection}

VARIABLES
  view,     \* each view's progress row, and what its table holds
  link,     \* the hub's LISTEN: it hears; it is cut and nobody knows; it is down
  sent,     \* pings on their way to it
  sub,      \* what each subscriber has not looked at: the request's waits, the pages
  request,  \* the read: its settings, what it waits for, what it answered
  wait,     \* each view's wait
  page,     \* each page: the feed's step, and where it was told its views are
  faults,
  serves     \* bound: what the process serves, reads or pages

hubVars  == <<link, sent, sub>>
readVars == <<request, wait>>
vars == <<logVars, view, hubVars, readVars, page, faults, serves>>

Subscriber == View \cup Page
Wants(s) == IF s \in View THEN {s} ELSE Follows[s]

(* A mutated form: positions alone. *)
PositionAtLeast(a, b) == a.pos >= b.pos

(* Rows in log order: compare. *)
AtOrPast(a, b) == ~ After(b, a)

Handles(v, r) == r.data \in Selection[v]

-----------------------------------------------------------------------------
(* The log and the views *)

(* Bound: a transaction appends one event, and none rolls back. *)
WriterStep ==
  /\ \/ nextXid <= MaxXid /\ AssignXid
     \/ \E x \in running : IF \E r \in rows : r.xid = x THEN CommitXid(x)
                           ELSE \E k \in Kind : InsertRow(x, k)
  /\ UNCHANGED <<view, hubVars, readVars, page, faults, serves>>

Ready(v) == {r \in CommittedRows : Settled(r) /\ Handles(v, r) /\ After(r, view[v].cursor)}

(* A batch of a view: rows, cursor and ping are one commit. *)
Project(v) ==
  /\ view[v].status = "ACTIVE"
  /\ \E last \in Ready(v) :
       LET batch == {r \in Ready(v) : AtOrPast(last, r)}
           to    == LastOf(batch, ZeroCursor)
       IN /\ view' = [view EXCEPT ![v].cursor = to, ![v].holds = @ \cup batch]
          /\ sent' = IF link = "up" THEN Append(sent, [id |-> v, cursor |-> to]) ELSE sent
  /\ UNCHANGED <<logVars, link, sub, readVars, page, faults, serves>>

Fault == faults < MaxFaults /\ faults' = faults + 1

SetStatus(v, s) == /\ view[v].status # s
                   /\ view' = [view EXCEPT ![v].status = s]
                   /\ UNCHANGED <<logVars, hubVars, readVars, page, serves>>

Fails(v) == v \in MayFail /\ Fault /\ SetStatus(v, "FAILED")
Reset(v) == SetStatus(v, "ACTIVE") /\ UNCHANGED faults

-----------------------------------------------------------------------------
(* The hub *)

Unsubscribed == [on |-> FALSE, dirty |-> {}, resync |-> FALSE, open |-> FALSE]
Subscribed   == [Unsubscribed EXCEPT !.on = TRUE]

(* publish: the newest ping of each view it asked for, and its latch. *)
Publish(ping) ==
  sub' = [s \in Subscriber |->
            IF sub[s].on /\ ping.id \in Wants(s)
            THEN [sub[s] EXCEPT !.dirty = {p \in @ : p.id # ping.id} \cup {ping}, !.open = TRUE]
            ELSE sub[s]]

Deliver == /\ link = "up" /\ sent # <<>>
           /\ Publish(Head(sent)) /\ sent' = Tail(sent)
           /\ UNCHANGED <<logVars, view, link, readVars, page, faults, serves>>

(* The connection is lost with what was on its way; the hub learns later. *)
Cut == /\ link = "up" /\ Fault
       /\ link' = "cut" /\ sent' = <<>>
       /\ UNCHANGED <<logVars, view, sub, readVars, page, serves>>

Notices == /\ link = "cut"
           /\ link' = "down"
           /\ UNCHANGED <<logVars, view, sent, sub, readVars, page, faults, serves>>

(* A mutated form: a connection says nothing of what it may have missed. *)
ConnectQuietly == /\ link = "down"
                  /\ link' = "up"
                  /\ UNCHANGED <<logVars, view, sent, sub, readVars, page, faults, serves>>

(* connection: LISTEN is confirmed, and every subscriber is to look. *)
Connect == /\ link = "down"
           /\ link' = "up"
           /\ sub' = [s \in Subscriber |->
                        IF sub[s].on THEN [sub[s] EXCEPT !.resync = TRUE, !.open = TRUE] ELSE sub[s]]
           /\ UNCHANGED <<logVars, view, sent, readVars, page, faults, serves>>

(* take: the latch is closed before the batch is read. *)
HasBatch(s) == sub[s].open /\ (sub[s].dirty # {} \/ sub[s].resync)
Taken(s) == sub' = [sub EXCEPT ![s] = Subscribed]

-----------------------------------------------------------------------------
(* What a request may ask (resolveReadPolicy).  A parameter is "" when the *)
(* request leaves it out; how long a wait may last is left to TimePasses.  *)

Strictness == [strict |-> 2, bounded |-> 1, eventual |-> 0]

ASSUME EndpointSettings ==
  Endpoints \subseteq [mode : DOMAIN Strictness, whenNoMarker : {"latest", "none"}, clientMayRelax : BOOLEAN]

Asks == [mode : {""} \cup DOMAIN Strictness, with : {"", "latest", "marker", "forged"}, malformed : BOOLEAN]

(* A stricter mode than the endpoint's is allowed, a looser one if it says so. *)
Rejected(base, asks) ==
  \/ asks.malformed
  \/ /\ asks.mode # "" /\ ~ base.clientMayRelax
     /\ Strictness[asks.mode] < Strictness[base.mode]

Policy(base, asks) ==
  LET mode == IF asks.mode = "" THEN base.mode ELSE asks.mode
  IN [mode |-> mode, target |-> IF mode = "eventual" THEN "none"
                                ELSE IF asks.with = "" THEN base.whenNoMarker ELSE asks.with]

(* A write's marker: where its transaction's last event is. *)
Markers == {LastOf({r \in CommittedRows : r.xid = x}, ZeroCursor) : x \in {r.xid : r \in CommittedRows}}
Forged  == [xid |-> MaxXid + 1, pos |-> 1]

(* Whether the loosest answer of the request's mode is one that the        *)
(* endpoint's settings allow it (history).                                 *)
Granted(base, asks) ==
  LET policy == Policy(base, asks)
  IN \/ base.clientMayRelax
     \/ IF policy.target # "none" THEN base.mode # "strict" \/ policy.mode = "strict"
        ELSE base.mode = "eventual" \/ (asks.with = "" /\ base.whenNoMarker = "none")

(* `owed` is what the answer is to show: what was committed when it asked, *)
(* up to its marker.                                                       *)
Asked(base, asks, m) ==
  LET policy  == Policy(base, asks)
      checked == policy.target # "none"
  IN [step |-> IF checked THEN "check" ELSE "run", granted |-> Granted(base, asks), policy |-> policy,
      late |-> FALSE, write |-> m, answer |-> IF checked THEN "fresh" ELSE "unchecked",
      owed |-> {r \in CommittedRows : policy.target = "latest" \/ AtOrPast(m, r)}]

(* Answered: with its data, or with a problem. *)
NoRequest == [step |-> "none"]

(* makeConsistentRead: the parameters first (a request they refuse is over *)
(* at once); a read that waits for nothing goes straight to its query.     *)
Ask == /\ request.step = "none" /\ serves = "reads"
       /\ \E base \in Endpoints, asks \in Asks, m \in Markers \cup {Forged} :
            /\ (m = Forged) = (asks.with # "marker")
            /\ ~ Rejected(base, asks)
            /\ request' = Asked(base, asks, m)
       /\ UNCHANGED <<logVars, view, hubVars, wait, page, faults, serves>>

-----------------------------------------------------------------------------
(* Settling the views *)

End == LastOf(CommittedRows, ZeroCursor)

At(step) == [step |-> step, cursor |-> ZeroCursor, status |-> ""]

Pending(v, after, upTo) ==
  \E r \in CommittedRows : Handles(v, r) /\ After(r, after) /\ AtOrPast(upTo, r)

Verdict(v, write, cursor, status, pending) ==
  IF AtOrPast(cursor, write) \/ ~ pending THEN "caught_up"
  ELSE IF status = "FAILED" THEN "failed" ELSE "wait"

(* The first look: where the log ends, and every view, in one statement. *)
Check ==
  LET write == IF request.policy.target = "latest" THEN End ELSE request.write
      verdict(v) == Verdict(v, write, view[v].cursor, view[v].status, Pending(v, view[v].cursor, write))
  IN
  /\ request.step = "check"
  /\ IF After(write, End)
     THEN /\ request' = NoRequest
          /\ UNCHANGED wait
     ELSE /\ request' = [request EXCEPT !.step = "wait", !.write = write, !.policy.target = "marker"]
          /\ wait' = [v \in View |-> At(IF v \in Endpoint THEN verdict(v) ELSE "caught_up")]
  /\ UNCHANGED <<logVars, view, hubVars, page, faults, serves>>

OnlyWaits == UNCHANGED <<logVars, view, link, sent, request, page, faults, serves>>

(* Subscribed before the first look of its own. *)
Subscribe(v) == /\ request.step = "wait" /\ wait[v].step = "wait"
                /\ sub' = [sub EXCEPT ![v] = Subscribed]
                /\ wait' = [wait EXCEPT ![v].step = "look"]
                /\ OnlyWaits

(* The wait is over, and its subscription with it. *)
Ends(v, step) == /\ wait' = [wait EXCEPT ![v] = At(step)]
                 /\ sub' = [sub EXCEPT ![v] = Unsubscribed]

Look(v) == /\ wait[v].step = "look"
           /\ IF AtOrPast(view[v].cursor, request.write) THEN Ends(v, "caught_up")
              ELSE /\ wait' = [wait EXCEPT ![v] = [step |-> "pending", cursor |-> view[v].cursor,
                                                   status |-> view[v].status]]
                   /\ UNCHANGED sub
           /\ OnlyWaits

(* The second statement of a look, its verdict, and the pause: for a ping  *)
(* if the hub says it is connected.                                        *)
AskPending(v) ==
  LET verdict == Verdict(v, request.write, wait[v].cursor, wait[v].status,
                         Pending(v, wait[v].cursor, request.write))
  IN
  /\ wait[v].step = "pending"
  /\ IF verdict # "wait" THEN Ends(v, verdict)
     ELSE IF request.late THEN Ends(v, "late")
     ELSE /\ wait' = [wait EXCEPT ![v] = At(IF link = "down" THEN "asleep" ELSE "listening")]
          /\ UNCHANGED sub
  /\ OnlyWaits

(* A ping that covers the write is the answer; any other, or a resync, is  *)
(* a reason to look.                                                       *)
Covers(s, v, write) == ~ sub[s].resync /\ \E p \in sub[s].dirty : p.id = v /\ AtOrPast(p.cursor, write)

Woken(v) == /\ wait[v].step = "listening" /\ HasBatch(v)
            /\ IF Covers(v, v, request.write) THEN Ends(v, "caught_up")
               ELSE wait' = [wait EXCEPT ![v].step = "look"] /\ Taken(v)
            /\ OnlyWaits

(* A mutated form: only a ping ends the wait for one. *)
PollEnds(v) == /\ wait[v].step = "asleep"
               /\ wait' = [wait EXCEPT ![v].step = "look"]
               /\ UNCHANGED sub /\ OnlyWaits

(* The polling interval, the safety interval or the deadline. *)
PauseEnds(v) == /\ wait[v].step \in {"asleep", "listening"}
                /\ wait' = [wait EXCEPT ![v].step = "look"]
                /\ UNCHANGED sub /\ OnlyWaits

TimePasses == /\ request.step = "wait" /\ ~ request.late
              /\ request' = [request EXCEPT !.late = TRUE]
              /\ UNCHANGED <<logVars, view, hubVars, wait, page, faults, serves>>

Over(v) == wait[v].step \in {"caught_up", "failed", "late"}

(* The outcome of every view, once all have one: strict refuses the read   *)
(* (503), bounded answers with what there is and says so.                  *)
Settle ==
  LET behind == {wait[v].step : v \in Endpoint} \ {"caught_up"}
  IN
  /\ request.step = "wait" /\ \A v \in Endpoint : Over(v)
  /\ request' = IF behind # {} /\ request.policy.mode = "strict" THEN NoRequest
                ELSE [request EXCEPT !.step = "run", !.late = FALSE, !.write = ZeroCursor, !.answer = IF behind = {} THEN @ ELSE "stale"]
  /\ wait' = [v \in View |-> At("caught_up")]
  /\ UNCHANGED <<logVars, view, hubVars, page, faults, serves>>

(* The endpoint's own query, a statement of its own. *)
Run == /\ request.step = "run"
       /\ request' = NoRequest
       /\ UNCHANGED <<logVars, view, hubVars, wait, page, faults, serves>>

-----------------------------------------------------------------------------
(* The feed *)

Where(g) == [v \in Follows[g] |-> view[v].cursor]
Closed(g) == [step |-> "off", told |-> [v \in Follows[g] |-> ZeroCursor]]
OnlyPages == UNCHANGED <<logVars, view, link, sent, readVars, faults, serves>>

OpenFeed(g) == /\ page[g].step = "off" /\ serves = "pages"
               /\ sub' = [sub EXCEPT ![g] = Subscribed]
               /\ page' = [page EXCEPT ![g].step = "read"]
               /\ OnlyPages

(* The opening, or the answer to a resync: where the views are now. *)
ReadFeed(g) == /\ page[g].step = "read"
               /\ page' = [page EXCEPT ![g] = [step |-> "open", told |-> Where(g)]]
               /\ UNCHANGED sub /\ OnlyPages

Told(g) == [v \in Follows[g] |-> IF \E p \in sub[g].dirty : p.id = v
                                  THEN (CHOOSE p \in sub[g].dirty : p.id = v).cursor ELSE page[g].told[v]]

(* A batch with a resync is answered with where the views are now. *)
NextOfFeed(g) == /\ page[g].step = "open" /\ HasBatch(g)
                 /\ Taken(g)
                 /\ page' = [page EXCEPT ![g] = IF sub[g].resync THEN [@ EXCEPT !.step = "read"]
                                                ELSE [@ EXCEPT !.told = Told(g)]]
                 /\ OnlyPages

CloseFeed(g) == /\ page[g].step # "off"
                /\ page' = [page EXCEPT ![g] = Closed(g)]
                /\ sub' = [sub EXCEPT ![g] = Unsubscribed]
                /\ OnlyPages

-----------------------------------------------------------------------------
Init == /\ LogInit
        /\ view = [v \in View |-> [cursor |-> ZeroCursor, holds |-> {}, status |-> "ACTIVE"]]
        /\ link = "down"
        /\ sent = <<>>
        /\ sub = [s \in Subscriber |-> Unsubscribed]
        /\ request = NoRequest
        /\ wait = [v \in View |-> At("caught_up")]
        /\ page = [g \in Page |-> Closed(g)]
        /\ faults = 0
        /\ serves \in {"reads", "pages"}

HubStep == Deliver \/ Cut \/ Notices \/ Connect
ViewStep == \E v \in View : Project(v) \/ Fails(v) \/ Reset(v)
WaitStep(v) == Subscribe(v) \/ Look(v) \/ AskPending(v) \/ Woken(v) \/ PauseEnds(v)
PageStep == \E g \in Page : OpenFeed(g) \/ ReadFeed(g) \/ NextOfFeed(g) \/ CloseFeed(g)

Next == \/ WriterStep \/ ViewStep \/ HubStep
        \/ Ask \/ Check \/ TimePasses \/ Settle \/ Run
        \/ \E v \in View : WaitStep(v)
        \/ PageStep

Spec == Init /\ [][Next]_vars

(* Some fiber of the read runs, and time passes; nothing makes the views or *)
(* the hub move.                                                           *)
FairSpec == /\ Spec
            /\ WF_vars(Check \/ Settle \/ Run \/ \E v \in View : WaitStep(v))
            /\ WF_vars(TimePasses)

-----------------------------------------------------------------------------
(* The state's types. *)
ReadsTypeOK ==
  /\ view \in [View -> [cursor : Cursor, holds : SUBSET rows, status : {"ACTIVE", "FAILED"}]]
  /\ link \in {"up", "cut", "down"}
  /\ \A s \in Subscriber : /\ sub[s].open <=> (sub[s].dirty # {} \/ sub[s].resync)
                           /\ sub[s].open => sub[s].on
                           /\ \A p, q \in sub[s].dirty : p.id = q.id => p = q
  /\ \A v \in View : sub[v].on <=> wait[v].step \in {"look", "pending", "listening", "asleep"}

(* An answer without the stale mark, of a read that was to wait, shows      *)
(* everything its marker, or the log's end when it asked, stood for:       *)
(* though the cursor and what is pending are two reads, though a cursor    *)
(* never reaches an event the view ignores, though a later position may    *)
(* belong to an earlier transaction.  An answer that is stale, or waited   *)
(* for nothing, is one the endpoint's settings allow.                      *)
ReadsWhatWasWritten ==
  /\ ReadsTypeOK
  /\ request.step = "run" =>
       IF request.answer = "fresh"
       THEN \A v \in Endpoint : {r \in request.owed : Handles(v, r)} \subseteq view[v].holds
       ELSE request.granted


HasNews(s, v) == \/ sub[s].resync
                 \/ \E p \in sub[s].dirty : p.id = v
                 \/ \E k \in DOMAIN sent : sent[k].id = v

(* A wait that pauses for a ping, of a view that has nothing left to do for *)
(* its write, has a ping or a resync coming, unless the connection is gone. *)
PausedIsTold ==
  \A v \in View : (wait[v].step = "listening" /\ link = "up"
                    /\ ~ Pending(v, view[v].cursor, request.write)) => HasNews(v, v)

(* A page that is not where its view is has been sent, or will be, what     *)
(* brings it there: reconnects and the time before it listened included.   *)
PageIsTold ==
  \A g \in Page : (page[g].step = "open" /\ link = "up") =>
    \A v \in Follows[g] : page[g].told[v] # view[v].cursor => HasNews(g, v)

(* Nobody sleeps on news: neither the wait of a read nor a page. *)
SleepersAreTold == PausedIsTold /\ PageIsTold

(* Every read is answered: no pause outlasts the deadline. *)
ReadsEnd == (request.step = "check") ~> (request.step = "none")
=============================================================================
