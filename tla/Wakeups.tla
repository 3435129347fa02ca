------------------------------ MODULE Wakeups ------------------------------
(***************************************************************************)
(* How a processor learns that there is something to read: the writer's    *)
(* notifier (WakeupNotifier), the payload (NotifyPayload), the connection  *)
(* a process's LISTENs share (SharedListen), the stream that listens again *)
(* (wakeupStreamFrom), the module's hub and leader hint (dispatcherLoop),  *)
(* and the loops that sleep until one of them speaks (tick,                *)
(* leaderRetryLoop).                                                       *)
(*                                                                         *)
(* A wake-up is only a hint: whatever loses one, the interval remains.     *)
(* `excused` remembers which events a processor may learn of by its        *)
(* interval alone, and everything else must have a wake-up on its way.     *)
(* The processors here are the modules of one process; other writers and   *)
(* other instances are what they see of them.                              *)
(***************************************************************************)
EXTENDS Naturals, Sequences, FiniteSets

CONSTANTS
  Event,        \* one event, appended by one transaction
  TypeOf,       \* its type
  KeysOf,       \* the keys of its tags
  Separated,    \* types and keys that hold one of the payload's separators
  MaxNames,     \* names that fit in a payload
  Foreign,      \* payloads other processes send, of events nobody here selects
  Processor,    \* the processors of a process, one per module
  Others,       \* other streams of the process (the views' progress hub)
  Selection,    \* what each processor selects
  Contended,    \* those whose module another process leads at first
  HubSize,      \* wake-ups kept for a processor that does not look
  BatchSize,    \* events of a batch
  MaxFaults     \* bound: what fails

ASSUME WakeupConstants ==
  /\ Contended \subseteq Processor /\ Others \cap Processor = {}
  /\ HubSize \in Nat \ {0} /\ BatchSize \in Nat \ {0}
  /\ MaxNames \in Nat /\ MaxFaults \in Nat

Stream == Processor \cup Others

VARIABLES
  tx,        \* each event's transaction
  order,     \* the events in the order of their transactions' ids
  unsaid,    \* committed events withWakeups has not yet signalled
  notifier,  \* the notifier's state, and whether its window is still open
  shared,    \* the process's LISTEN connection
  users,     \* how many listens it serves
  stream,    \* each module's wake-up stream
  arrived,   \* what was sent to it and is not yet a batch, merged: at most one
  hub,       \* batches its processor has not looked at
  loop,      \* where the processor's loop is
  seen,      \* events it has handled
  lock,      \* each module's leader lock
  hint,      \* whether a leader hint is queued
  excused,   \* <<processor, event>> left to the interval (history)
  faults     \* how many things have failed

writerVars == <<tx, order, unsaid, notifier>>
listenVars == <<shared, users, stream, arrived>>
loopVars   == <<hub, loop, seen>>
leadVars   == <<lock, hint>>
vars == <<writerVars, listenVars, loopVars, leadVars, excused, faults>>

-----------------------------------------------------------------------------
(* The payload and the filter *)

Wildcard == [wildcard |-> TRUE, types |-> {}, keys |-> {}]

(* What a subscriber decodes from what encodePayload wrote.  No keys means  *)
(* the tag part was left out: the keys are then not looked at.             *)
EncodePayload(types, keys) ==
  LET fit(names) == Cardinality(names) <= MaxNames /\ names \cap Separated = {}
  IN IF types = {} \/ ~fit(types) THEN Wildcard
     ELSE [wildcard |-> FALSE, types |-> types,
           keys |-> IF keys \cap Separated = {} /\ fit(types \cup keys) THEN keys ELSE {}]

MergeBatch(payloads) ==
  IF \E b \in payloads : b.wildcard THEN Wildcard
  ELSE [wildcard |-> FALSE, types |-> UNION {b.types : b \in payloads},
                            keys  |-> UNION {b.keys : b \in payloads}]

(* exactTags: of the wanted pairs the wake-up compares the keys alone.      *)
ShouldWake(b, s) ==
  \/ b.wildcard
  \/ /\ s.types = {} \/ s.types \cap b.types # {}
     /\ b.keys # {} =>
          /\ s.required \subseteq b.keys
          /\ s.anyOf = {} \/ s.anyOf \cap b.keys # {}
          /\ s.exact \subseteq b.keys

(* What the fetch selects, tag values apart (an event selected has the key  *)
(* of every exact tag).                                                    *)
Selects(s, e) == /\ s.types = {} \/ TypeOf[e] \in s.types
                 /\ s.required \cup s.exact \subseteq KeysOf[e]
                 /\ s.anyOf = {} \/ s.anyOf \cap KeysOf[e] # {}

Wanted(p) == {e \in Event : Selects(Selection[p], e)}
Committed == {e \in Event : tx[e] = "committed"}

(* Of what is committed and not handled, the interval alone may tell ps.    *)
Unhandled(p) == (Wanted(p) \cap Committed) \ seen[p]
Excuse(ps) == excused' = excused \cup {pe \in ps \X Committed : pe[2] \in Unhandled(pe[1])}

Fault == faults < MaxFaults /\ faults' = faults + 1

Leading(p) == lock[p] = "ours"

-----------------------------------------------------------------------------
Init ==
  /\ tx = [e \in Event |-> "none"]
  /\ order = <<>>
  /\ unsaid = {}
  /\ notifier \in {[types |-> {}, keys |-> {}, windowOpen |-> sent, timers |-> 0] : sent \in BOOLEAN}
  /\ shared = "none"
  /\ users = 0
  /\ stream = [s \in Stream |-> [link |-> "out", once |-> FALSE]]
  /\ arrived = [p \in Processor |-> {}]
  /\ hub = [p \in Processor |-> <<>>]
  /\ loop = [p \in Processor |-> "tick"]
  /\ seen = [p \in Processor |-> {}]
  /\ lock = [p \in Processor |-> IF p \in Contended THEN "elsewhere" ELSE "ours"]
  /\ hint = [p \in Processor |-> FALSE]
  /\ excused = {}
  /\ faults = 0

-----------------------------------------------------------------------------
(* Writers: a transaction takes its id, commits or rolls back, and the      *)
(* process signals what it appended after the commit.                      *)

(* What is signalled of a transaction that has not committed: PendingWakeups *)
(* keeps it apart until the commit.                                        *)
AtTheAppend(e) == {e}
BeforeCommit(e) == {}

Begin(e) == /\ tx[e] = "none"
            /\ tx' = [tx EXCEPT ![e] = "running"]
            /\ order' = Append(order, e)
            /\ unsaid' = unsaid \cup BeforeCommit(e)
            /\ UNCHANGED <<notifier, listenVars, loopVars, leadVars, excused, faults>>

Commit(e) == /\ tx[e] = "running"
             /\ tx' = [tx EXCEPT ![e] = "committed"]
             /\ unsaid' = unsaid \cup {e}
             /\ UNCHANGED <<order, notifier, listenVars, loopVars, leadVars, excused, faults>>

Abort(e) == /\ tx[e] = "running"
            /\ tx' = [tx EXCEPT ![e] = "aborted"]
            /\ UNCHANGED <<order, unsaid, notifier, listenVars, loopVars, leadVars, excused, faults>>

(* pg_notify: every session that listens gets it.                           *)
ToListeners(payload) ==
  arrived' = [p \in Processor |-> IF stream[p].link = "on" THEN {MergeBatch(arrived[p] \cup {payload})} ELSE arrived[p]]

(* deliver: a send that fails is logged and not tried again.                *)
Send(types, keys) ==
  \/ /\ ToListeners(EncodePayload(types, keys))
     /\ UNCHANGED <<excused, faults>>
  \/ /\ Fault
     /\ Excuse(Processor)
     /\ UNCHANGED arrived

(* The flag that says a timer is set, as a signal looks at it.              *)
TimerScheduled == notifier.timers > 0

(* The leading edge sends at once; later signals of a window are merged and *)
(* one timer sends them.                                                   *)
Signal(e) ==
  LET types == notifier.types \cup {TypeOf[e]}
      keys  == notifier.keys \cup KeysOf[e]
  IN /\ e \in unsaid
     /\ unsaid' = unsaid \ {e}
     /\ IF ~TimerScheduled /\ ~notifier.windowOpen
        THEN /\ Send(types, keys)
             /\ notifier' = [notifier EXCEPT !.types = {}, !.keys = {}, !.windowOpen = TRUE]
        ELSE /\ notifier' = [notifier EXCEPT !.types = types, !.keys = keys,
                                            !.timers = IF TimerScheduled THEN @ ELSE @ + 1]
             /\ UNCHANGED <<arrived, excused, faults>>
     /\ UNCHANGED <<tx, order, shared, users, stream, loopVars, leadVars>>

WindowEnds == /\ notifier.windowOpen
              /\ notifier' = [notifier EXCEPT !.windowOpen = FALSE]
              /\ UNCHANGED <<tx, order, unsaid, listenVars, loopVars, leadVars, excused, faults>>

Trailing == /\ notifier.timers > 0
            /\ ~notifier.windowOpen
            /\ Send(notifier.types, notifier.keys)
            /\ notifier' = [types |-> {}, keys |-> {}, windowOpen |-> TRUE, timers |-> notifier.timers - 1]
            /\ UNCHANGED <<tx, order, unsaid, shared, users, stream, loopVars, leadVars>>

(* What other processes append, to which nobody here listens.               *)
OthersNotify == \E payload \in Foreign :
  /\ ToListeners(payload)
  /\ UNCHANGED <<writerVars, shared, users, stream, loopVars, leadVars, excused, faults>>

(* The writing process stops: what it has not signalled or sent is gone.    *)
WriterCrashes ==
  /\ Fault
  /\ unsaid # {} \/ notifier.timers > 0
  /\ tx' = [e \in Event |-> IF tx[e] = "running" THEN "aborted" ELSE tx[e]]
  /\ unsaid' = {}
  /\ notifier' = [types |-> {}, keys |-> {}, windowOpen |-> FALSE, timers |-> 0]
  /\ Excuse(Processor)
  /\ UNCHANGED <<order, listenVars, loopVars, leadVars>>

-----------------------------------------------------------------------------
(* The process's LISTEN connection and the streams on it.  `listen` and     *)
(* `leave` run under a permit, each as one step.                           *)

(* On the connection there is, if it is still alive; else on a new one. A   *)
(* stream's later connections begin with a wildcard.                       *)
Listen(s) ==
  /\ stream[s].link = "out"
  /\ users' = users + 1
  /\ shared' = "up"
  /\ stream' = [stream EXCEPT ![s] = [link |-> "on", once |-> TRUE]]
  /\ IF stream[s].once
     THEN /\ arrived' = [p \in Processor |-> IF p = s THEN {Wildcard} ELSE arrived[p]]
          /\ UNCHANGED excused
     ELSE /\ Excuse({s} \cap Processor)
          /\ UNCHANGED arrived
  /\ UNCHANGED <<writerVars, loopVars, leadVars, faults>>

(* Every queue on the connection ends; what was on the wire is gone.        *)
Cut == /\ stream' = [s \in Stream |-> IF stream[s].link = "on" THEN [stream[s] EXCEPT !.link = "failed"] ELSE stream[s]]
       /\ \E received \in SUBSET Processor :
            arrived' = [p \in Processor |-> IF p \in received THEN arrived[p] ELSE {}]

(* A listen that fails drops the connection, whoever else is on it, and the *)
(* one opened in its place fails too; the caller's count is given back as  *)
(* its scope closes.                                                       *)
ListenFails(s) ==
  /\ stream[s].link = "out"
  /\ Fault
  /\ shared' = "none"
  /\ Cut
  /\ UNCHANGED <<users, writerVars, loopVars, leadVars, excused>>

ConnectionLost ==
  /\ shared = "up"
  /\ Fault
  /\ shared' = "dead"
  /\ Cut
  /\ UNCHANGED <<users, writerVars, loopVars, leadVars, excused>>

AnyLeaves  == TRUE
LastLeaves == users = 1

(* The stream's scope closes before it pauses; the last to leave closes the *)
(* connection.                                                             *)
Leave(s) ==
  /\ stream[s].link = "failed"
  /\ stream' = [stream EXCEPT ![s].link = "out"]
  /\ users' = users - 1
  /\ shared' = IF LastLeaves THEN "none" ELSE shared
  /\ UNCHANGED <<arrived, writerVars, loopVars, leadVars, excused, faults>>

(* A wake-up that names no type announces a lock, too.                      *)
IsHint(batch) == batch.wildcard

(* dispatcherLoop: a batch of what arrived goes to the hub, which slides.   *)
Dispatch(p) == \E batch \in arrived[p] :
  /\ arrived' = [arrived EXCEPT ![p] = {}]
  /\ IF Len(hub[p]) < HubSize
     THEN /\ hub' = [hub EXCEPT ![p] = Append(@, batch)]
          /\ UNCHANGED excused
     ELSE /\ hub' = [hub EXCEPT ![p] = Append(Tail(@), batch)]
          /\ Excuse({p})
  /\ hint' = [hint EXCEPT ![p] = @ \/ IsHint(batch)]
  /\ UNCHANGED <<shared, users, stream, writerVars, loop, seen, lock, faults>>

-----------------------------------------------------------------------------
(* The loops *)

(* Rows whose transaction is below every running one.                      *)
Visible == {order[k] : k \in {j \in DOMAIN order : \A i \in 1..j : tx[order[i]] # "running"}} \cap Committed

Fetched(p) == CHOOSE S \in SUBSET ((Wanted(p) \cap Visible) \ seen[p]) :
  LET todo == (Wanted(p) \cap Visible) \ seen[p]
      at(e) == CHOOSE k \in DOMAIN order : order[k] = e
  IN /\ Cardinality(S) = IF Cardinality(todo) < BatchSize THEN Cardinality(todo) ELSE BatchSize
     /\ \A e \in S, f \in todo \ S : at(e) < at(f)

(* One batch. What it leaves (beyond the batch, or below a running          *)
(* transaction) waits for the interval, or for another wake-up.            *)
Poll(p) ==
  /\ loop[p] = "tick" /\ Leading(p)
  /\ loop' = [loop EXCEPT ![p] = "polled"]
  /\ seen' = [seen EXCEPT ![p] = @ \cup Fetched(p)]
  /\ excused' = {pe \in excused : pe[1] # p} \cup ({p} \X (Unhandled(p) \ Fetched(p)))
  /\ UNCHANGED <<hub, writerVars, listenVars, leadVars, faults>>

PollFails(p) ==
  /\ loop[p] = "tick" /\ Leading(p)
  /\ Fault
  /\ loop' = [loop EXCEPT ![p] = "polled"]
  /\ Excuse({p})
  /\ UNCHANGED <<hub, seen, writerVars, listenVars, leadVars>>

(* A standby, and a leader whose fence fails, read nothing.                 *)
Skip(p) == /\ loop[p] = "tick" /\ ~Leading(p)
           /\ loop' = [loop EXCEPT ![p] = "polled"]
           /\ UNCHANGED <<hub, seen, writerVars, listenVars, leadVars, excused, faults>>

(* What the subscription holds when the sleep begins: it is the loop's, so  *)
(* what was published meanwhile is in it.  One for each sleep is empty.    *)
Resubscribed(p) == <<>>
Subscribed(p) == hub[p]

(* The race of the delay against waitForRelevantWakeup begins.              *)
Sleep(p) == /\ loop[p] = "polled"
            /\ loop' = [loop EXCEPT ![p] = "asleep"]
            /\ hub' = [hub EXCEPT ![p] = Subscribed(p)]
            /\ UNCHANGED <<seen, writerVars, listenVars, leadVars, excused, faults>>

TakeWakeup(p) ==
  /\ loop[p] = "asleep"
  /\ hub[p] # <<>>
  /\ hub' = [hub EXCEPT ![p] = Tail(@)]
  /\ loop' = [loop EXCEPT ![p] = IF ShouldWake(Head(hub[p]), Selection[p]) THEN "tick" ELSE @]
  /\ UNCHANGED <<seen, writerVars, listenVars, leadVars, excused, faults>>

SleepEnds(p) == /\ loop[p] = "asleep"
                /\ loop' = [loop EXCEPT ![p] = "tick"]
                /\ UNCHANGED <<hub, seen, writerVars, listenVars, leadVars, excused, faults>>

(* leaderRetryLoop, by a hint or by its timer. A processor that begins to   *)
(* lead may be asleep: what is there already waits for its interval.       *)
Retry(p) ==
  /\ ~Leading(p)
  /\ hint' = [hint EXCEPT ![p] = FALSE]
  /\ IF lock[p] \in {"announced", "free"}
     THEN /\ lock' = [lock EXCEPT ![p] = "ours"]
          /\ Excuse({p})
     ELSE UNCHANGED <<lock, excused>>
  /\ UNCHANGED <<writerVars, listenVars, loopVars, faults>>

(* A leader takes the hint too, for nothing.                                *)
TakeHint(p) == /\ Leading(p) /\ hint[p]
               /\ hint' = [hint EXCEPT ![p] = FALSE]
               /\ UNCHANGED <<lock, writerVars, listenVars, loopVars, excused, faults>>

(* Another process stops leading: its unlock announces itself in the same   *)
(* statement, to whoever listens or will listen again.                     *)
ReleasedElsewhere(p) ==
  /\ lock[p] = "elsewhere"
  /\ lock' = [lock EXCEPT ![p] = IF stream[p].once THEN "announced" ELSE "free"]
  /\ ToListeners(Wildcard)
  /\ UNCHANGED <<hint, shared, users, stream, writerVars, loopVars, excused, faults>>

(* ... or dies, and announces nothing.                                      *)
DiesElsewhere(p) ==
  /\ lock[p] = "elsewhere"
  /\ Fault
  /\ lock' = [lock EXCEPT ![p] = "free"]
  /\ UNCHANGED <<hint, writerVars, listenVars, loopVars, excused>>

(* Our session is lost, and found out; another process may lead meanwhile.  *)
LosesLeadership(p) ==
  /\ Leading(p)
  /\ Fault
  /\ \E now \in {"free", "elsewhere"} : lock' = [lock EXCEPT ![p] = now]
  /\ UNCHANGED <<hint, writerVars, listenVars, loopVars, excused>>

-----------------------------------------------------------------------------
WriterStep == \/ \E e \in Event : Begin(e) \/ Commit(e) \/ Abort(e) \/ Signal(e)
              \/ WindowEnds \/ Trailing \/ OthersNotify \/ WriterCrashes

ListenStep == \/ ConnectionLost
              \/ \E s \in Stream : Listen(s) \/ ListenFails(s) \/ Leave(s)
              \/ \E p \in Processor : Dispatch(p)

LoopStep(p) == \/ Poll(p) \/ PollFails(p) \/ Skip(p) \/ Sleep(p) \/ TakeWakeup(p) \/ SleepEnds(p)

LeadStep(p) == \/ Retry(p) \/ TakeHint(p)
               \/ ReleasedElsewhere(p) \/ DiesElsewhere(p) \/ LosesLeadership(p)

Next == WriterStep \/ ListenStep \/ \E p \in Processor : LoopStep(p) \/ LeadStep(p)

Spec == Init /\ [][Next]_vars

-----------------------------------------------------------------------------
Payload == [wildcard : BOOLEAN,
            types : SUBSET ({TypeOf[e] : e \in Event} \cup UNION {b.types : b \in Foreign}),
            keys  : SUBSET (UNION {KeysOf[e] : e \in Event} \cup UNION {b.keys : b \in Foreign})]

(* Others encode theirs the same way.                                       *)
ASSUME ForeignPayloads == Foreign \subseteq Payload

(* The state's types.                                                       *)
WakeupsTypeOK ==
  /\ tx \in [Event -> {"none", "running", "committed", "aborted"}]
  /\ unsaid \subseteq Committed
  /\ notifier.timers \in 0..1 /\ notifier.windowOpen \in BOOLEAN
  /\ shared \in {"none", "up", "dead"}
  /\ stream \in [Stream -> [link : {"out", "on", "failed"}, once : BOOLEAN]]
  /\ \A p \in Processor : /\ arrived[p] \subseteq Payload /\ Cardinality(arrived[p]) <= 1
                          /\ Len(hub[p]) <= HubSize
  /\ loop \in [Processor -> {"tick", "polled", "asleep"}]
  /\ lock \in [Processor -> {"ours", "elsewhere", "announced", "free"}]

(* Somewhere between the notifier and p's hub there is a wake-up, or p's    *)
(* stream owes a wildcard, that ends p's sleep for e.                      *)
ToldOf(p, e) ==
  LET wakes(b) == ShouldWake(b, Selection[p])
  IN \/ e \in unsaid
     \/ notifier.timers > 0 /\ TypeOf[e] \in notifier.types /\ KeysOf[e] \subseteq notifier.keys
     \/ \E b \in arrived[p] : wakes(b)
     \/ \E k \in DOMAIN hub[p] : wakes(hub[p][k])
     \/ stream[p].link # "on" /\ stream[p].once

(* A standby is told of a lock released on purpose, not left to its timer.  *)
StandbyIsTold ==
  \A p \in Processor : lock[p] = "announced" =>
    \/ hint[p]
    \/ Wildcard \in arrived[p]
    \/ stream[p].link # "on"

(* An event that was committed since a processor last looked, and that      *)
(* nothing lost, has a wake-up on its way which its filter lets through,    *)
(* through merging, debouncing, reconnects, a shared connection and the     *)
(* time between a poll and the sleep after it; so has a standby's chance.    *)
WakeUpOnItsWay ==
  /\ StandbyIsTold
  /\ \A p \in Processor : \A e \in Unhandled(p) :
       (/\ loop[p] # "tick" /\ Leading(p) /\ stream[p].once /\ <<p, e>> \notin excused) => ToldOf(p, e)

(* A wake-up never names what is not committed: the flush of one command    *)
(* leaves another's uncommitted types alone (PendingWakeups).              *)
NamesCommitted ==
  LET committedTypes == {TypeOf[e] : e \in Committed}
      foreignTypes == UNION {b.types : b \in Foreign}
  IN /\ notifier.types \subseteq committedTypes
     /\ \A p \in Processor : \A b \in arrived[p] : b.types \subseteq committedTypes \cup foreignTypes

(* The shared connection: whoever listens does so on a live connection, the *)
(* count is that of the streams on it, and it is closed with the last.     *)
ConnectionIsShared ==
  /\ WakeupsTypeOK
  /\ users = Cardinality({s \in Stream : stream[s].link # "out"})
  /\ \A s \in Stream : stream[s].link = "on" => shared = "up"
  /\ users = 0 => shared = "none"

=============================================================================
