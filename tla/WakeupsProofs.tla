---------------------------- MODULE WakeupsProofs ----------------------------
(***************************************************************************)
(* A wake-up names nothing that is not committed, the connection is shared *)
(* as it should be, and what nothing lost is on its way to the processor   *)
(* that sleeps: for every set of events, tags, processors and selections,  *)
(* every batch, hub and payload size and every number of faults.           *)
(***************************************************************************)
EXTENDS Wakeups, FiniteSetTheorems, SequenceTheorems, TLAPS

EventTypes == {TypeOf[e] : e \in Event}
EventKeys  == UNION {KeysOf[e] : e \in Event}

Notifier == [types : SUBSET EventTypes, keys : SUBSET EventKeys, windowOpen : BOOLEAN, timers : 0 .. 1]

Streams == [Stream -> [link : {"out", "on", "failed"}, once : BOOLEAN]]

(* The streams that a listen counts. *)
Listening == {s \in Stream : stream[s].link # "out"}

(* What arrives is one payload or none. *)
Arrivals(a) == /\ a \in [Processor -> SUBSET Payload]
               /\ \A p \in Processor : a[p] = {} \/ \E b \in Payload : a[p] = {b}

(* The types, as far as the proofs need them. *)
WriterTypes == /\ tx \in [Event -> {"none", "running", "committed", "aborted"}]
               /\ unsaid \subseteq Committed
               /\ notifier \in Notifier

ListenTypes == /\ shared \in {"none", "up", "dead"}
               /\ stream \in Streams
               /\ Arrivals(arrived)

LoopTypes == /\ hub \in [Processor -> Seq(Payload)]
             /\ \A p \in Processor : Len(hub[p]) <= HubSize
             /\ loop \in [Processor -> {"tick", "polled", "asleep"}]
             /\ seen = [p \in Processor |-> seen[p]]
             /\ lock \in [Processor -> {"ours", "elsewhere", "announced", "free"}]
             /\ hint \in [Processor -> BOOLEAN]

TypesInv == WriterTypes /\ ListenTypes /\ LoopTypes

(* The count is of the streams that listen, each on the connection that    *)
(* lives, and one that has listened knows it.                              *)
SharedInv ==
  /\ IsFiniteSet(Listening)
  /\ users = Cardinality(Listening)
  /\ \A s \in Stream : stream[s].link = "on" => shared = "up"
  /\ users = 0 => shared = "none"
  /\ \A s \in Stream : stream[s].link # "out" => stream[s].once

(* A payload that wakes whoever waits for the event e, merged or not.      *)
Covers(b, e) == b.wildcard \/ (TypeOf[e] \in b.types /\ KeysOf[e] \subseteq b.keys)

InNotifier(e) == notifier.timers > 0 /\ TypeOf[e] \in notifier.types /\ KeysOf[e] \subseteq notifier.keys

OnItsWay(p, e) ==
  \/ e \in unsaid
  \/ InNotifier(e)
  \/ \E b \in arrived[p] : Covers(b, e)
  \/ \E k \in DOMAIN hub[p] : Covers(hub[p][k], e)
  \/ stream[p].link # "on" /\ stream[p].once

(* Whom the interval alone may tell: nothing more is asked. *)
Asks(p, e) == loop[p] # "tick" /\ Leading(p) /\ stream[p].once /\ <<p, e>> \notin excused

(* Who waits for a lock released on purpose. *)
StandbyInv ==
  /\ StandbyIsTold
  /\ \A p \in Processor : lock[p] = "announced" => stream[p].once

(* Whoever asks has a wake-up on its way. *)
Told(p, e) == e \in Unhandled(p) /\ Asks(p, e) => OnItsWay(p, e)

TellInv == \A p \in Processor : \A e \in Event : Told(p, e)

(* The names of events fit in a payload, and no key of one contains a      *)
(* separator: no payload has to leave its keys out.                        *)
KeysAreKept ==
  LET names == EventTypes \cup EventKeys
  IN  /\ IsFiniteSet(names) /\ Cardinality(names) <= MaxNames
      /\ EventKeys \cap Separated = {}

-----------------------------------------------------------------------------
(* Payloads *)

LEMMA EncodeIsPayload ==
  ASSUME NEW T \in SUBSET EventTypes, NEW K \in SUBSET EventKeys
  PROVE  EncodePayload(T, K) \in Payload
  BY DEF EncodePayload, Payload, Wildcard, EventTypes, EventKeys

LEMMA MergeIsPayload ==
  ASSUME NEW B \in SUBSET Payload
  PROVE  MergeBatch(B) \in Payload
<1> DEFINE types == {TypeOf[e] : e \in Event} \cup UNION {b.types : b \in Foreign}
           keys  == UNION {KeysOf[e] : e \in Event} \cup UNION {b.keys : b \in Foreign}
<1>1. Payload = [wildcard : BOOLEAN, types : SUBSET types, keys : SUBSET keys]
  BY DEF Payload
<1> HIDE DEF types, keys
<1>2. UNION {b.types : b \in B} \subseteq types /\ UNION {b.keys : b \in B} \subseteq keys
  BY <1>1
<1>3. QED  BY <1>1, <1>2 DEF MergeBatch, Wildcard

(* A merge wakes for whatever one of its parts wakes for. *)
LEMMA MergeCovers ==
  ASSUME NEW B, NEW b \in B, NEW e, Covers(b, e)
  PROVE  Covers(MergeBatch(B), e)
  BY DEF MergeBatch, Covers, Wildcard

LEMMA MergeKeepsWildcard ==
  ASSUME NEW B, Wildcard \in B
  PROVE  MergeBatch(B) = Wildcard
  BY DEF MergeBatch, Wildcard

(* The payload a notifier writes wakes for every event it was told of,     *)
(* when its keys fit.                                                      *)
LEMMA EncodeCovers ==
  ASSUME KeysAreKept, NEW T \in SUBSET EventTypes, NEW K \in SUBSET EventKeys,
         NEW e, TypeOf[e] \in T, KeysOf[e] \subseteq K
  PROVE  Covers(EncodePayload(T, K), e)
<1>1. Cardinality(T \cup K) <= MaxNames
  <2>1. T \cup K \subseteq EventTypes \cup EventKeys  OBVIOUS
  <2>2. IsFiniteSet(T \cup K) /\ Cardinality(T \cup K) <= Cardinality(EventTypes \cup EventKeys)
    BY <2>1, FS_Subset DEF KeysAreKept
  <2>3. Cardinality(T \cup K) \in Nat /\ Cardinality(EventTypes \cup EventKeys) \in Nat
    BY <2>2, FS_CardinalityType DEF KeysAreKept
  <2>4. QED  BY <2>2, <2>3, WakeupConstants DEF KeysAreKept
<1>2. K \cap Separated = {}
  BY DEF KeysAreKept
<1>3. CASE T = {} \/ ~(Cardinality(T) <= MaxNames /\ T \cap Separated = {})
  BY <1>3 DEF EncodePayload, Covers, Wildcard
<1>4. CASE ~(T = {} \/ ~(Cardinality(T) <= MaxNames /\ T \cap Separated = {})) /\ (T \cup K) \cap Separated = {}
  BY <1>1, <1>2, <1>4 DEF EncodePayload, Covers
<1>5. QED  BY <1>2, <1>3, <1>4

(* The filter lets through what covers an event that the fetch selects. *)
LEMMA CoveredWakes ==
  ASSUME NEW p \in Processor, NEW e \in Wanted(p), NEW b, Covers(b, e)
  PROVE  ShouldWake(b, Selection[p])
  BY DEF Wanted, Selects, Covers, ShouldWake

-----------------------------------------------------------------------------
(* Types *)

LEMMA Queue ==
  ASSUME NEW h \in Seq(Payload), NEW b \in Payload
  PROVE  /\ Append(h, b) \in Seq(Payload) /\ Len(Append(h, b)) = Len(h) + 1
         /\ h # <<>> => /\ Tail(h) \in Seq(Payload) /\ Len(Tail(h)) = Len(h) - 1
                        /\ Head(h) \in Payload
         /\ h # <<>> <=> Len(h) > 0
  BY AppendProperties, HeadTailProperties, EmptySeq

LEMMA ListenersGetPayloads ==
  ASSUME Arrivals(arrived), NEW b \in Payload, ToListeners(b)
  PROVE  Arrivals(arrived')
<1>1. ASSUME NEW p \in Processor
      PROVE  MergeBatch(arrived[p] \cup {b}) \in Payload
  <2>1. arrived[p] \cup {b} \in SUBSET Payload  BY DEF Arrivals
  <2>2. QED  BY <2>1, MergeIsPayload
<1>2. QED  BY <1>1 DEF ToListeners, Arrivals

LEMMA SendsPayloads ==
  ASSUME Arrivals(arrived), NEW T \in SUBSET EventTypes, NEW K \in SUBSET EventKeys, Send(T, K)
  PROVE  Arrivals(arrived')
  BY EncodeIsPayload, ListenersGetPayloads DEF Send, Arrivals

LEMMA WildcardIsPayload == Wildcard \in Payload
  BY DEF Wildcard, Payload

LEMMA InitTypes == Init => TypesInv
<1> SUFFICES ASSUME Init PROVE TypesInv
  OBVIOUS
<1>1. WriterTypes
  BY DEF Init, WriterTypes, Committed, Notifier
<1>2. ListenTypes
  BY DEF Init, ListenTypes, Streams, Arrivals
<1>3. LoopTypes
  BY WakeupConstants, EmptySeq DEF Init, LoopTypes
<1>4. QED  BY <1>1, <1>2, <1>3 DEF TypesInv

LEMMA WriterKeepsTypes ==
  ASSUME TypesInv, WriterStep
  PROVE  TypesInv'
<1>0. WriterTypes /\ ListenTypes /\ LoopTypes
  BY DEF TypesInv
<1>a. ASSUME UNCHANGED <<loopVars, leadVars>> PROVE LoopTypes'
  BY <1>0, <1>a DEF LoopTypes, loopVars, leadVars
<1>b. ASSUME UNCHANGED listenVars PROVE ListenTypes'
  BY <1>0, <1>b DEF ListenTypes, listenVars, Arrivals
<1>c. ASSUME UNCHANGED <<shared, users, stream>>, Arrivals(arrived') PROVE ListenTypes'
  BY <1>0, <1>c DEF ListenTypes, Arrivals
<1>1. ASSUME NEW e \in Event, Begin(e) PROVE TypesInv'
  <2>1. WriterTypes'
    BY <1>0, <1>1 DEF Begin, WriterTypes, Committed, BeforeCommit
  <2>2. QED  BY <1>1, <1>a, <1>b, <2>1 DEF Begin, TypesInv
<1>2. ASSUME NEW e \in Event, Commit(e) PROVE TypesInv'
  <2>1. WriterTypes'
    BY <1>0, <1>2 DEF Commit, WriterTypes, Committed
  <2>2. QED  BY <1>2, <1>a, <1>b, <2>1 DEF Commit, TypesInv
<1>3. ASSUME NEW e \in Event, Abort(e) PROVE TypesInv'
  <2>1. WriterTypes'
    BY <1>0, <1>3 DEF Abort, WriterTypes, Committed
  <2>2. QED  BY <1>3, <1>a, <1>b, <2>1 DEF Abort, TypesInv
<1>4. ASSUME NEW e \in Event, Signal(e) PROVE TypesInv'
  <2> DEFINE T == notifier.types \cup {TypeOf[e]}
             K == notifier.keys \cup KeysOf[e]
  <2>1. T \in SUBSET EventTypes /\ K \in SUBSET EventKeys
    BY <1>0 DEF WriterTypes, Notifier, EventTypes, EventKeys
  <2>2. UNCHANGED tx /\ unsaid' = unsaid \ {e} /\ UNCHANGED <<shared, users, stream, loopVars, leadVars>>
    BY <1>4 DEF Signal
  <2>3. \/ Send(T, K) /\ notifier' = [notifier EXCEPT !.types = {}, !.keys = {}, !.windowOpen = TRUE]
        \/ /\ notifier' = [notifier EXCEPT !.types = T, !.keys = K,
                                           !.timers = IF TimerScheduled THEN @ ELSE @ + 1]
           /\ UNCHANGED arrived
    BY <1>4 DEF Signal
  <2> HIDE DEF T, K
  <2>4. notifier' \in Notifier
    <3>1. notifier \in Notifier  BY <1>0 DEF WriterTypes
    <3>2. CASE notifier' = [notifier EXCEPT !.types = {}, !.keys = {}, !.windowOpen = TRUE]
      BY <3>1, <3>2 DEF Notifier
    <3>3. CASE notifier' = [notifier EXCEPT !.types = T, !.keys = K,
                                            !.timers = IF TimerScheduled THEN @ ELSE @ + 1]
      <4>1. (IF TimerScheduled THEN notifier.timers ELSE notifier.timers + 1) \in 0 .. 1
        BY <3>1 DEF Notifier, TimerScheduled
      <4>2. QED  BY <2>1, <3>1, <3>3, <4>1 DEF Notifier
    <3>4. QED  BY <2>3, <3>2, <3>3
  <2>5. WriterTypes'
    BY <1>0, <2>2, <2>4 DEF WriterTypes, Committed
  <2>6. Arrivals(arrived')
    <3>1. Arrivals(arrived)  BY <1>0 DEF ListenTypes
    <3>2. CASE Send(T, K)  BY <3>1, <3>2, <2>1, SendsPayloads
    <3>3. CASE UNCHANGED arrived  BY <3>1, <3>3 DEF Arrivals
    <3>4. QED  BY <2>3, <3>2, <3>3
  <2>7. QED  BY <1>a, <1>c, <2>2, <2>5, <2>6 DEF TypesInv
<1>5. ASSUME WindowEnds PROVE TypesInv'
  <2>1. WriterTypes'
    BY <1>0, <1>5 DEF WindowEnds, WriterTypes, Committed, Notifier
  <2>2. QED  BY <1>5, <1>a, <1>b, <2>1 DEF WindowEnds, TypesInv
<1>6. ASSUME Trailing PROVE TypesInv'
  <2>1. WriterTypes'
    BY <1>0, <1>6 DEF Trailing, WriterTypes, Committed, Notifier
  <2>2. Arrivals(arrived')
    <3>1. notifier.types \in SUBSET EventTypes /\ notifier.keys \in SUBSET EventKeys
      BY <1>0 DEF WriterTypes, Notifier
    <3>2. Send(notifier.types, notifier.keys)  BY <1>6 DEF Trailing
    <3>3. QED  BY <1>0, <3>1, <3>2, SendsPayloads DEF ListenTypes
  <2>3. QED  BY <1>6, <1>a, <1>c, <2>1, <2>2 DEF Trailing, TypesInv
<1>7. ASSUME OthersNotify PROVE TypesInv'
  <2>1. WriterTypes'
    BY <1>0, <1>7 DEF OthersNotify, WriterTypes, Committed, writerVars
  <2>2. Arrivals(arrived')
    <3>1. PICK b \in Foreign : ToListeners(b)  BY <1>7 DEF OthersNotify
    <3>2. QED  BY <1>0, <3>1, ForeignPayloads, ListenersGetPayloads DEF ListenTypes
  <2>3. QED  BY <1>7, <1>a, <1>c, <2>1, <2>2 DEF OthersNotify, TypesInv
<1>8. ASSUME WriterCrashes PROVE TypesInv'
  <2>1. WriterTypes'
    BY <1>0, <1>8 DEF WriterCrashes, WriterTypes, Committed, Notifier
  <2>2. QED  BY <1>8, <1>a, <1>b, <2>1 DEF WriterCrashes, TypesInv
<1>9. QED  BY <1>1, <1>2, <1>3, <1>4, <1>5, <1>6, <1>7, <1>8 DEF WriterStep

LEMMA ListenKeepsTypes ==
  ASSUME TypesInv, ListenStep
  PROVE  TypesInv'
<1>0. WriterTypes /\ ListenTypes /\ LoopTypes
  BY DEF TypesInv
<1>a. ASSUME UNCHANGED <<loopVars, leadVars>> PROVE LoopTypes'
  BY <1>0, <1>a DEF LoopTypes, loopVars, leadVars
<1>b. ASSUME UNCHANGED writerVars PROVE WriterTypes'
  BY <1>0, <1>b DEF WriterTypes, writerVars, Committed
<1>c. ASSUME Cut PROVE stream' \in Streams /\ Arrivals(arrived')
  <2>1. stream' \in Streams
    BY <1>0, <1>c DEF Cut, ListenTypes, Streams
  <2>2. Arrivals(arrived')
    BY <1>0, <1>c DEF Cut, ListenTypes, Arrivals
  <2>3. QED  BY <2>1, <2>2
<1>1. ASSUME ConnectionLost PROVE TypesInv'
  <2>1. ListenTypes'
    BY <1>1, <1>c DEF ConnectionLost, ListenTypes
  <2>2. QED  BY <1>1, <1>a, <1>b, <2>1 DEF ConnectionLost, TypesInv
<1>2. ASSUME NEW s \in Stream, Listen(s) PROVE TypesInv'
  <2>1. stream' \in Streams /\ shared' = "up"
    BY <1>0, <1>2 DEF Listen, ListenTypes, Streams
  <2>2. Arrivals(arrived')
    BY <1>0, <1>2, WildcardIsPayload DEF Listen, ListenTypes, Arrivals
  <2>3. ListenTypes'
    BY <2>1, <2>2 DEF ListenTypes
  <2>4. QED  BY <1>2, <1>a, <1>b, <2>3 DEF Listen, TypesInv
<1>3. ASSUME NEW s \in Stream, ListenFails(s) PROVE TypesInv'
  <2>1. ListenTypes'
    BY <1>3, <1>c DEF ListenFails, ListenTypes
  <2>2. QED  BY <1>3, <1>a, <1>b, <2>1 DEF ListenFails, TypesInv
<1>4. ASSUME NEW s \in Stream, Leave(s) PROVE TypesInv'
  <2>1. ListenTypes'
    BY <1>0, <1>4 DEF Leave, ListenTypes, Streams, Arrivals
  <2>2. QED  BY <1>4, <1>a, <1>b, <2>1 DEF Leave, TypesInv
<1>5. ASSUME NEW p \in Processor, Dispatch(p) PROVE TypesInv'
  <2>1. PICK b \in arrived[p] :
          /\ arrived' = [arrived EXCEPT ![p] = {}]
          /\ \/ Len(hub[p]) < HubSize /\ hub' = [hub EXCEPT ![p] = Append(@, b)]
             \/ ~(Len(hub[p]) < HubSize) /\ hub' = [hub EXCEPT ![p] = Append(Tail(@), b)]
          /\ hint' = [hint EXCEPT ![p] = @ \/ IsHint(b)]
          /\ UNCHANGED <<shared, users, stream, writerVars, loop, seen, lock, faults>>
    BY <1>5 DEF Dispatch
  <2>2. b \in Payload /\ hub[p] \in Seq(Payload) /\ Len(hub[p]) \in Nat /\ Len(hub[p]) <= HubSize
    BY <1>0 DEF ListenTypes, LoopTypes, Arrivals
  <2>3. ListenTypes'
    BY <1>0, <2>1 DEF ListenTypes, Arrivals
  <2> DEFINE q == IF Len(hub[p]) < HubSize THEN Append(hub[p], b) ELSE Append(Tail(hub[p]), b)
  <2>q. hub' = [hub EXCEPT ![p] = q]
    BY <2>1
  <2>4. q \in Seq(Payload) /\ Len(q) <= HubSize
    <3>1. CASE Len(hub[p]) < HubSize
      <4>1. Append(hub[p], b) \in Seq(Payload) /\ Len(Append(hub[p], b)) = Len(hub[p]) + 1
        BY <2>2, Queue
      <4>2. QED  BY <2>2, <3>1, <4>1, WakeupConstants
    <3>2. CASE ~(Len(hub[p]) < HubSize)
      <4>1. Len(hub[p]) = HubSize /\ Len(hub[p]) > 0
        BY <2>2, <3>2, WakeupConstants
      <4>2. Tail(hub[p]) \in Seq(Payload) /\ Len(Tail(hub[p])) = Len(hub[p]) - 1
        BY <2>2, <4>1, Queue
      <4>3. Append(Tail(hub[p]), b) \in Seq(Payload)
            /\ Len(Append(Tail(hub[p]), b)) = Len(Tail(hub[p])) + 1
        BY <2>2, <4>2, Queue
      <4>4. QED  BY <2>2, <3>2, <4>1, <4>2, <4>3, WakeupConstants
    <3>3. QED  BY <3>1, <3>2
  <2> HIDE DEF q
  <2>5. hint' \in [Processor -> BOOLEAN]
    <3>1. IsHint(b) \in BOOLEAN  BY <2>2 DEF IsHint, Payload
    <3>2. QED  BY <1>0, <2>1, <3>1 DEF LoopTypes
  <2>6. LoopTypes'
    BY <1>0, <2>1, <2>q, <2>4, <2>5 DEF LoopTypes
  <2>7. QED  BY <1>b, <2>1, <2>3, <2>6 DEF TypesInv
<1>6. QED  BY <1>1, <1>2, <1>3, <1>4, <1>5 DEF ListenStep

LEMMA LoopKeepsTypes ==
  ASSUME TypesInv, NEW p \in Processor, LoopStep(p)
  PROVE  TypesInv'
<1>0. WriterTypes /\ ListenTypes /\ LoopTypes
  BY DEF TypesInv
<1>1. UNCHANGED <<writerVars, listenVars, leadVars>>
  BY DEF LoopStep, Poll, PollFails, Skip, Sleep, TakeWakeup, SleepEnds
<1>2. WriterTypes' /\ ListenTypes'
  BY <1>0, <1>1 DEF WriterTypes, ListenTypes, writerVars, listenVars, Committed, Arrivals
<1>3. /\ lock' \in [Processor -> {"ours", "elsewhere", "announced", "free"}]
      /\ hint' \in [Processor -> BOOLEAN]
  BY <1>0, <1>1 DEF LoopTypes, leadVars
<1>4. seen' = [q \in Processor |-> seen'[q]]
  BY <1>0 DEF LoopTypes, LoopStep, Poll, PollFails, Skip, Sleep, TakeWakeup, SleepEnds
<1>5. loop' \in [Processor -> {"tick", "polled", "asleep"}]
  BY <1>0 DEF LoopTypes, LoopStep, Poll, PollFails, Skip, Sleep, TakeWakeup, SleepEnds
<1>6. hub' \in [Processor -> Seq(Payload)] /\ \A q \in Processor : Len(hub'[q]) <= HubSize
  <2>1. CASE TakeWakeup(p)
    <3>1. hub[p] # <<>> /\ hub' = [hub EXCEPT ![p] = Tail(@)]  BY <2>1 DEF TakeWakeup
    <3>2. hub[p] \in Seq(Payload) /\ Len(hub[p]) \in Nat /\ Len(hub[p]) <= HubSize
      BY <1>0 DEF LoopTypes
    <3>3. Tail(hub[p]) \in Seq(Payload) /\ Len(Tail(hub[p])) = Len(hub[p]) - 1
      BY <3>1, <3>2, HeadTailProperties
    <3>4. Len(Tail(hub[p])) <= HubSize
      BY <3>2, <3>3, WakeupConstants
    <3>5. QED  BY <1>0, <3>1, <3>3, <3>4 DEF LoopTypes
  <2>2. CASE Sleep(p)
    BY <1>0, <2>2 DEF LoopTypes, Sleep, Subscribed
  <2>3. CASE Poll(p) \/ PollFails(p) \/ Skip(p) \/ SleepEnds(p)
    BY <1>0, <2>3 DEF LoopTypes, Poll, PollFails, Skip, SleepEnds
  <2>4. QED  BY <2>1, <2>2, <2>3 DEF LoopStep
<1>7. QED  BY <1>2, <1>3, <1>4, <1>5, <1>6 DEF TypesInv, LoopTypes

LEMMA LeadKeepsTypes ==
  ASSUME TypesInv, NEW p \in Processor, LeadStep(p)
  PROVE  TypesInv'
<1>0. WriterTypes /\ ListenTypes /\ LoopTypes
  BY DEF TypesInv
<1>1. UNCHANGED <<writerVars, loopVars, shared, users, stream>>
  BY DEF LeadStep, Retry, TakeHint, ReleasedElsewhere, DiesElsewhere, LosesLeadership, listenVars
<1>2. WriterTypes'
  BY <1>0, <1>1 DEF WriterTypes, writerVars, Committed
<1>3. Arrivals(arrived')
  <2>1. CASE ReleasedElsewhere(p)
    BY <1>0, <2>1, WildcardIsPayload, ListenersGetPayloads DEF ReleasedElsewhere, ListenTypes
  <2>2. CASE UNCHANGED arrived
    BY <1>0, <2>2 DEF ListenTypes, Arrivals
  <2>3. QED
    BY <2>1, <2>2 DEF LeadStep, Retry, TakeHint, DiesElsewhere, LosesLeadership, listenVars
<1>4. /\ lock' \in [Processor -> {"ours", "elsewhere", "announced", "free"}]
      /\ hint' \in [Processor -> BOOLEAN]
  <2>0. /\ lock \in [Processor -> {"ours", "elsewhere", "announced", "free"}]
        /\ hint \in [Processor -> BOOLEAN]
    BY <1>0 DEF LoopTypes
  <2>1. CASE Retry(p)  BY <2>0, <2>1 DEF Retry
  <2>2. CASE TakeHint(p)  BY <2>0, <2>2 DEF TakeHint
  <2>3. CASE ReleasedElsewhere(p)  BY <2>0, <2>3 DEF ReleasedElsewhere
  <2>4. CASE DiesElsewhere(p)  BY <2>0, <2>4 DEF DiesElsewhere
  <2>5. CASE LosesLeadership(p)  BY <2>0, <2>5 DEF LosesLeadership
  <2>6. QED  BY <2>1, <2>2, <2>3, <2>4, <2>5 DEF LeadStep
<1>5. LoopTypes'
  BY <1>0, <1>1, <1>4 DEF LoopTypes, loopVars
<1>6. QED  BY <1>0, <1>1, <1>2, <1>3, <1>5 DEF TypesInv, ListenTypes

LEMMA StutterKeepsTypes ==
  ASSUME TypesInv, UNCHANGED vars
  PROVE  TypesInv'
  BY DEF TypesInv, WriterTypes, ListenTypes, LoopTypes, Committed, Arrivals, vars,
         writerVars, listenVars, loopVars, leadVars

LEMMA NextKeepsTypes ==
  ASSUME TypesInv, [Next]_vars
  PROVE  TypesInv'
  BY WriterKeepsTypes, ListenKeepsTypes, LoopKeepsTypes, LeadKeepsTypes, StutterKeepsTypes DEF Next

-----------------------------------------------------------------------------
(* The shared connection *)

LEMMA InitShared == Init => SharedInv
<1> SUFFICES ASSUME Init PROVE SharedInv
  OBVIOUS
<1>1. Listening = {}
  BY DEF Init, Listening
<1>2. QED  BY <1>1, FS_EmptySet DEF Init, SharedInv

LEMMA CutShares ==
  ASSUME TypesInv, SharedInv, Cut, UNCHANGED users, shared' # "up", users = 0 => shared' = "none"
  PROVE  SharedInv'
<1>1. Listening' = Listening
  BY DEF Cut, Listening
<1>2. \A s \in Stream : stream'[s].link # "on" /\ (stream'[s].link # "out" => stream'[s].once)
  BY DEF Cut, SharedInv, TypesInv, ListenTypes, Streams
<1>3. QED  BY <1>1, <1>2 DEF SharedInv

LEMMA NextKeepsShared ==
  ASSUME TypesInv, SharedInv, [Next]_vars
  PROVE  SharedInv'
<1>0. stream \in Streams
  BY DEF TypesInv, ListenTypes
<1>1. ASSUME UNCHANGED <<shared, users, stream>> PROVE SharedInv'
  BY <1>1 DEF SharedInv, Listening
<1>2. ASSUME ConnectionLost PROVE SharedInv'
  BY <1>2, CutShares DEF ConnectionLost, SharedInv
<1>3. ASSUME NEW s \in Stream, Listen(s) PROVE SharedInv'
  <2>1. /\ stream[s].link = "out" /\ users' = users + 1 /\ shared' = "up"
        /\ stream' = [stream EXCEPT ![s] = [link |-> "on", once |-> TRUE]]
    BY <1>3 DEF Listen
  <2>2. Listening' = Listening \cup {s} /\ s \notin Listening
    BY <1>0, <2>1 DEF Listening, Streams
  <2>3. IsFiniteSet(Listening') /\ Cardinality(Listening') = Cardinality(Listening) + 1
    BY <2>2, FS_AddElement DEF SharedInv
  <2>4. users' # 0
    BY <2>1, FS_CardinalityType DEF SharedInv
  <2>5. \A t \in Stream : stream'[t].link # "out" => stream'[t].once
    BY <1>0, <2>1 DEF SharedInv, Streams
  <2>6. QED  BY <2>1, <2>3, <2>4, <2>5 DEF SharedInv
<1>4. ASSUME NEW s \in Stream, ListenFails(s) PROVE SharedInv'
  BY <1>4, CutShares DEF ListenFails
<1>5. ASSUME NEW s \in Stream, Leave(s) PROVE SharedInv'
  <2>1. /\ stream[s].link = "failed" /\ users' = users - 1
        /\ stream' = [stream EXCEPT ![s].link = "out"]
        /\ shared' = IF users = 1 THEN "none" ELSE shared
    BY <1>5 DEF Leave, LastLeaves
  <2>2. Listening' = Listening \ {s} /\ s \in Listening
    BY <1>0, <2>1 DEF Listening, Streams
  <2>3. IsFiniteSet(Listening') /\ Cardinality(Listening') = Cardinality(Listening) - 1
    BY <2>2, FS_RemoveElement DEF SharedInv
  <2>4. Cardinality(Listening) \in Nat /\ Cardinality(Listening') \in Nat
    BY <2>3, FS_CardinalityType DEF SharedInv
  <2>5. users' = 0 => shared' = "none"
    BY <2>1, <2>4 DEF SharedInv
  <2>6. \A t \in Stream : stream'[t].link = "on" => shared' = "up"
    <3>1. SUFFICES ASSUME NEW t \in Stream, stream'[t].link = "on" PROVE shared' = "up"
      OBVIOUS
    <3>2. stream[t].link = "on" /\ t # s
      BY <1>0, <2>1, <3>1 DEF Streams
    <3>3. t \in Listening'
      BY <3>1 DEF Listening
    <3>4. users # 1
      <4>1. SUFFICES ASSUME users = 1 PROVE FALSE
        OBVIOUS
      <4>2. Cardinality(Listening') = 0
        BY <2>3, <4>1 DEF SharedInv
      <4>3. Listening' = {}
        BY <2>3, <4>2, FS_EmptySet
      <4>4. QED  BY <3>3, <4>3
    <3>5. QED  BY <2>1, <3>2, <3>4 DEF SharedInv
  <2>7. \A t \in Stream : stream'[t].link # "out" => stream'[t].once
    BY <1>0, <2>1 DEF SharedInv, Streams
  <2>8. QED  BY <2>1, <2>3, <2>5, <2>6, <2>7 DEF SharedInv
<1>6. CASE WriterStep
  BY <1>1, <1>6 DEF WriterStep, Begin, Commit, Abort, Signal, WindowEnds, Trailing, OthersNotify,
     WriterCrashes, listenVars
<1>7. CASE ListenStep
  BY <1>1, <1>2, <1>3, <1>4, <1>5, <1>7 DEF ListenStep, Dispatch
<1>8. CASE \E p \in Processor : LoopStep(p) \/ LeadStep(p)
  BY <1>1, <1>8 DEF LoopStep, Poll, PollFails, Skip, Sleep, TakeWakeup, SleepEnds,
     LeadStep, Retry, TakeHint, ReleasedElsewhere, DiesElsewhere, LosesLeadership, listenVars
<1>9. QED  BY <1>1, <1>6, <1>7, <1>8 DEF Next, vars, listenVars

LEMMA SharedStates == TypesInv /\ SharedInv => ConnectionIsShared
<1> SUFFICES ASSUME TypesInv, SharedInv PROVE ConnectionIsShared
  OBVIOUS
<1>1. \A p \in Processor : arrived[p] \subseteq Payload /\ Cardinality(arrived[p]) <= 1
  <2>1. TAKE p \in Processor
  <2>2. CASE arrived[p] = {}
    BY <2>2, FS_EmptySet
  <2>3. CASE \E b \in Payload : arrived[p] = {b}
    BY <2>3, FS_Singleton
  <2>4. QED  BY <2>2, <2>3 DEF TypesInv, ListenTypes, Arrivals
<1>2. WakeupsTypeOK
  BY <1>1 DEF WakeupsTypeOK, TypesInv, WriterTypes, ListenTypes, LoopTypes, Notifier, Streams
<1>3. QED  BY <1>2 DEF ConnectionIsShared, SharedInv, Listening

(* The connection a process's LISTENs share has as many users as streams    *)
(* listen, one that listens does so on a connection that lives, and the     *)
(* last to leave closes it, whoever fails and in whatever order they leave  *)
(* and come back (SharedListen's `listen` and `leave`).                     *)
THEOREM ListensShare == Spec => []ConnectionIsShared
<1>1. Init => TypesInv /\ SharedInv
  BY InitTypes, InitShared
<1>2. TypesInv /\ SharedInv /\ [Next]_vars => (TypesInv /\ SharedInv)'
  BY NextKeepsTypes, NextKeepsShared
<1>3. QED  BY <1>1, <1>2, SharedStates, PTL DEF Spec

-----------------------------------------------------------------------------
(* What the wake-ups name *)

CommittedTypes == {TypeOf[e] : e \in Committed}
ForeignTypes   == UNION {b.types : b \in Foreign}

(* No payload that has arrived names a type outside X. *)
Names(a, X) == \A p \in Processor : \A b \in a[p] : b.types \subseteq X

NamesInv == /\ notifier.types \subseteq CommittedTypes
            /\ Names(arrived, CommittedTypes \cup ForeignTypes)

LEMMA NamesIsNames == NamesInv <=> NamesCommitted
  BY DEF NamesInv, NamesCommitted, Names, CommittedTypes, ForeignTypes

LEMMA CommittedGrows ==
  ASSUME TypesInv, [Next]_vars
  PROVE  Committed \subseteq Committed' /\ CommittedTypes \subseteq CommittedTypes'
<1>0. SUFFICES Committed \subseteq Committed'
  BY DEF CommittedTypes
<1>1. tx \in [Event -> {"none", "running", "committed", "aborted"}]
  BY DEF TypesInv, WriterTypes
<1>2. ASSUME NEW e \in Event, Begin(e) \/ Commit(e) \/ Abort(e) PROVE Committed \subseteq Committed'
  BY <1>1, <1>2 DEF Begin, Commit, Abort, Committed
<1>3. ASSUME WriterCrashes PROVE Committed \subseteq Committed'
  BY <1>1, <1>3 DEF WriterCrashes, Committed
<1>4. ASSUME UNCHANGED tx PROVE Committed \subseteq Committed'
  BY <1>4 DEF Committed
<1>5. CASE WriterStep
  BY <1>2, <1>3, <1>4, <1>5 DEF WriterStep, Signal, WindowEnds, Trailing, OthersNotify, writerVars
<1>6. CASE ListenStep
  BY <1>4, <1>6 DEF ListenStep, ConnectionLost, Listen, ListenFails, Leave, Dispatch, writerVars
<1>7. CASE \E p \in Processor : LoopStep(p) \/ LeadStep(p)
  BY <1>4, <1>7 DEF LoopStep, Poll, PollFails, Skip, Sleep, TakeWakeup, SleepEnds,
     LeadStep, Retry, TakeHint, ReleasedElsewhere, DiesElsewhere, LosesLeadership, writerVars
<1>8. QED  BY <1>4, <1>5, <1>6, <1>7 DEF Next, vars, writerVars

LEMMA ListenersGetNames ==
  ASSUME Arrivals(arrived), NEW X, Names(arrived, X), NEW b, b.types \subseteq X, ToListeners(b)
  PROVE  Names(arrived', X)
<1>1. ASSUME NEW p \in Processor
      PROVE  MergeBatch(arrived[p] \cup {b}).types \subseteq X
  <2>1. UNION {c.types : c \in arrived[p] \cup {b}} \subseteq X  BY DEF Names
  <2>2. QED  BY <2>1 DEF MergeBatch, Wildcard
<1>2. QED  BY <1>1 DEF ToListeners, Names

LEMMA SendsNames ==
  ASSUME Arrivals(arrived), NEW X, Names(arrived, X), NEW T, NEW K, T \subseteq X, Send(T, K)
  PROVE  Names(arrived', X)
<1>1. EncodePayload(T, K).types \subseteq X
  BY DEF EncodePayload, Wildcard
<1>2. QED  BY <1>1, ListenersGetNames DEF Send

LEMMA InitNames == Init => NamesInv
  BY DEF Init, NamesInv, Names

LEMMA NextKeepsNames ==
  ASSUME TypesInv, NamesInv, [Next]_vars
  PROVE  NamesInv'
<1> DEFINE X == CommittedTypes \cup ForeignTypes
<1>1. CommittedTypes \subseteq CommittedTypes' /\ X \subseteq CommittedTypes' \cup ForeignTypes
  BY CommittedGrows
<1>2. Names(arrived, X) /\ notifier.types \subseteq CommittedTypes
  BY DEF NamesInv
<1>3. Arrivals(arrived) /\ notifier \in Notifier /\ unsaid \subseteq Committed
  BY DEF TypesInv, WriterTypes, ListenTypes
<1>4. ASSUME notifier'.types \subseteq CommittedTypes, Names(arrived', X) PROVE NamesInv'
  BY <1>1, <1>4 DEF NamesInv, Names
<1>5. UNCHANGED arrived => Names(arrived', X)
  BY <1>2 DEF Names
<1>6. UNCHANGED notifier => notifier'.types \subseteq CommittedTypes
  BY <1>2
<1> HIDE DEF X
<1>a. ASSUME Cut PROVE Names(arrived', X)
  BY <1>2, <1>a DEF Cut, Names
<1>7. CASE WriterStep
  <2>1. ASSUME NEW e \in Event, Begin(e) \/ Commit(e) \/ Abort(e) PROVE NamesInv'
    BY <1>4, <1>5, <1>6, <2>1 DEF Begin, Commit, Abort, listenVars
  <2>2. ASSUME NEW e \in Event, Signal(e) PROVE NamesInv'
    <3> DEFINE T == notifier.types \cup {TypeOf[e]}
               K == notifier.keys \cup KeysOf[e]
    <3>1. T \subseteq CommittedTypes /\ T \subseteq X
      BY <1>2, <1>3, <2>2 DEF Signal, CommittedTypes, X
    <3>2. \/ Send(T, K) /\ notifier' = [notifier EXCEPT !.types = {}, !.keys = {}, !.windowOpen = TRUE]
          \/ /\ notifier' = [notifier EXCEPT !.types = T, !.keys = K,
                                             !.timers = IF TimerScheduled THEN @ ELSE @ + 1]
             /\ UNCHANGED arrived
      BY <2>2 DEF Signal
    <3> HIDE DEF T, K
    <3>3. notifier'.types \subseteq CommittedTypes
      BY <1>3, <3>1, <3>2 DEF Notifier
    <3>4. Names(arrived', X)
      BY <1>2, <1>3, <1>5, <3>1, <3>2, SendsNames
    <3>5. QED  BY <1>4, <3>3, <3>4
  <2>3. CASE WindowEnds
    BY <1>2, <1>3, <1>4, <1>5, <2>3 DEF WindowEnds, listenVars, Notifier
  <2>4. CASE Trailing
    <3>1. notifier.types \subseteq X /\ Send(notifier.types, notifier.keys) /\ notifier'.types = {}
      BY <1>2, <2>4 DEF Trailing, X
    <3>2. Names(arrived', X)
      BY <1>2, <1>3, <3>1, SendsNames
    <3>3. QED  BY <1>4, <3>1, <3>2
  <2>5. CASE OthersNotify
    <3>1. PICK b \in Foreign : ToListeners(b)  BY <2>5 DEF OthersNotify
    <3>2. b.types \subseteq X  BY <3>1 DEF X, ForeignTypes
    <3>3. Names(arrived', X)
      BY <1>2, <1>3, <3>1, <3>2, ListenersGetNames
    <3>4. QED  BY <1>4, <1>6, <2>5, <3>3 DEF OthersNotify, writerVars
  <2>6. CASE WriterCrashes
    BY <1>4, <1>5, <2>6 DEF WriterCrashes, listenVars
  <2>7. QED  BY <1>7, <2>1, <2>2, <2>3, <2>4, <2>5, <2>6 DEF WriterStep
<1>8. CASE ListenStep
  <2>1. UNCHANGED notifier
    BY <1>8 DEF ListenStep, ConnectionLost, Listen, ListenFails, Leave, Dispatch, writerVars
  <2>2. Names(arrived', X)
    <3>1. CASE ConnectionLost \/ \E s \in Stream : ListenFails(s)
      BY <1>a, <3>1 DEF ConnectionLost, ListenFails
    <3>2. CASE \E s \in Stream : Listen(s) \/ Leave(s)
      BY <1>2, <1>5, <3>2 DEF Listen, Leave, Names, Wildcard
    <3>3. CASE \E p \in Processor : Dispatch(p)
      BY <1>2, <1>3, <3>3 DEF Dispatch, Names, Arrivals
    <3>4. QED  BY <1>8, <3>1, <3>2, <3>3 DEF ListenStep
  <2>3. QED  BY <1>4, <1>6, <2>1, <2>2
<1>9. CASE \E p \in Processor : LoopStep(p) \/ LeadStep(p)
  <2>1. PICK p \in Processor : LoopStep(p) \/ LeadStep(p)  BY <1>9
  <2>2. UNCHANGED notifier
    BY <2>1 DEF LoopStep, Poll, PollFails, Skip, Sleep, TakeWakeup, SleepEnds,
       LeadStep, Retry, TakeHint, ReleasedElsewhere, DiesElsewhere, LosesLeadership, writerVars
  <2>3. CASE ReleasedElsewhere(p)
    <3>1. Wildcard.types \subseteq X /\ ToListeners(Wildcard)
      BY <2>3 DEF ReleasedElsewhere, Wildcard
    <3>2. Names(arrived', X)
      BY <1>2, <1>3, <3>1, ListenersGetNames
    <3>3. QED  BY <1>4, <1>6, <2>2, <3>2
  <2>4. CASE ~ReleasedElsewhere(p)
    <3>1. UNCHANGED arrived
      BY <2>1, <2>4 DEF LoopStep, Poll, PollFails, Skip, Sleep, TakeWakeup, SleepEnds,
         LeadStep, Retry, TakeHint, DiesElsewhere, LosesLeadership, listenVars
    <3>2. QED  BY <1>4, <1>5, <1>6, <2>2, <3>1
  <2>5. QED  BY <2>3, <2>4
<1>10. CASE UNCHANGED vars
  BY <1>4, <1>5, <1>6, <1>10 DEF vars, writerVars, listenVars
<1>11. QED  BY <1>7, <1>8, <1>9, <1>10 DEF Next

(* No wake-up names a type that nothing committed has: PendingWakeups keeps *)
(* what a transaction appends apart until it commits, and the notifier and  *)
(* the queues only merge what they were given.                             *)
THEOREM WakeupsNameTheCommitted == Spec => []NamesCommitted
<1>1. Init => TypesInv /\ NamesInv
  BY InitTypes, InitNames
<1>2. TypesInv /\ NamesInv /\ [Next]_vars => (TypesInv /\ NamesInv)'
  BY NextKeepsTypes, NextKeepsNames
<1>3. QED  BY <1>1, <1>2, NamesIsNames, PTL DEF Spec

-----------------------------------------------------------------------------
(* The standbys *)

LEMMA ListenersAlsoGet ==
  ASSUME NEW p \in Processor, NEW b, ToListeners(b)
  PROVE  arrived'[p] = IF stream[p].link = "on" THEN {MergeBatch(arrived[p] \cup {b})} ELSE arrived[p]
  BY DEF ToListeners

LEMMA WildcardSurvives ==
  ASSUME NEW p \in Processor, NEW b, ToListeners(b), Wildcard \in arrived[p]
  PROVE  Wildcard \in arrived'[p]
<1>1. MergeBatch(arrived[p] \cup {b}) = Wildcard
  BY MergeKeepsWildcard
<1>2. QED  BY <1>1, ListenersAlsoGet

LEMMA SendKeepsStandbys ==
  ASSUME StandbyInv, NEW T, NEW K, Send(T, K) \/ UNCHANGED arrived, UNCHANGED <<stream, lock, hint>>
  PROVE  StandbyInv'
<1>1. ASSUME NEW p \in Processor, Wildcard \in arrived[p] PROVE Wildcard \in arrived'[p]
  BY <1>1, WildcardSurvives DEF Send
<1>2. QED  BY <1>1 DEF StandbyInv, StandbyIsTold

LEMMA CutKeepsStandbys ==
  ASSUME TypesInv, StandbyInv, Cut, UNCHANGED lock
  PROVE  StandbyInv'
<1>1. \A p \in Processor : stream'[p].link # "on" /\ stream'[p].once = stream[p].once
  BY DEF Cut, Stream, TypesInv, ListenTypes, Streams
<1>2. QED  BY <1>1 DEF StandbyInv, StandbyIsTold

LEMMA NextKeepsStandbys ==
  ASSUME TypesInv, StandbyInv, [Next]_vars
  PROVE  StandbyInv'
<1>0. /\ stream \in Streams /\ Arrivals(arrived)
      /\ hint \in [Processor -> BOOLEAN]
      /\ lock \in [Processor -> {"ours", "elsewhere", "announced", "free"}]
  BY DEF TypesInv, ListenTypes, LoopTypes
<1>1. ASSUME UNCHANGED <<arrived, stream, lock, hint>> PROVE StandbyInv'
  BY <1>1 DEF StandbyInv, StandbyIsTold
<1>2. CASE WriterStep
  <2>1. ASSUME NEW e \in Event, Begin(e) \/ Commit(e) \/ Abort(e) PROVE StandbyInv'
    BY <1>1, <2>1 DEF Begin, Commit, Abort, listenVars, leadVars
  <2>2. ASSUME NEW e \in Event, Signal(e) PROVE StandbyInv'
    BY <2>2, SendKeepsStandbys DEF Signal, leadVars
  <2>3. ASSUME WindowEnds \/ WriterCrashes PROVE StandbyInv'
    BY <1>1, <2>3 DEF WindowEnds, WriterCrashes, listenVars, leadVars
  <2>4. ASSUME Trailing PROVE StandbyInv'
    BY <2>4, SendKeepsStandbys DEF Trailing, leadVars
  <2>5. ASSUME OthersNotify PROVE StandbyInv'
    <3>1. PICK b \in Foreign : ToListeners(b)  BY <2>5 DEF OthersNotify
    <3>2. UNCHANGED <<stream, lock, hint>>  BY <2>5 DEF OthersNotify, leadVars
    <3>3. QED  BY <3>1, <3>2, WildcardSurvives DEF StandbyInv, StandbyIsTold
  <2>6. QED  BY <1>2, <2>1, <2>2, <2>3, <2>4, <2>5 DEF WriterStep
<1>3. CASE ListenStep
  <2>1. ASSUME ConnectionLost \/ \E s \in Stream : ListenFails(s) PROVE StandbyInv'
    BY <2>1, CutKeepsStandbys DEF ConnectionLost, ListenFails, leadVars
  <2>2. ASSUME NEW s \in Stream, Listen(s) PROVE StandbyInv'
    <3>1. /\ stream' = [stream EXCEPT ![s] = [link |-> "on", once |-> TRUE]]
          /\ stream[s].once \/ UNCHANGED arrived
          /\ stream[s].once =>
               arrived' = [p \in Processor |-> IF p = s THEN {Wildcard} ELSE arrived[p]]
          /\ UNCHANGED <<lock, hint>>
      BY <2>2 DEF Listen, leadVars
    <3>2. ASSUME NEW p \in Processor, lock'[p] = "announced"
          PROVE  stream'[p].once /\ (hint'[p] \/ Wildcard \in arrived'[p] \/ stream'[p].link # "on")
      <4>1. CASE p = s
        BY <1>0, <3>1, <3>2, <4>1 DEF StandbyInv, Streams
      <4>2. CASE p # s
        BY <1>0, <3>1, <3>2, <4>2 DEF StandbyInv, StandbyIsTold, Streams, Stream
      <4>3. QED  BY <4>1, <4>2
    <3>3. QED  BY <3>2 DEF StandbyInv, StandbyIsTold
  <2>3. ASSUME NEW s \in Stream, Leave(s) PROVE StandbyInv'
    BY <1>0, <2>3 DEF Leave, leadVars, StandbyInv, StandbyIsTold, Streams, Stream
  <2>4. ASSUME NEW q \in Processor, Dispatch(q) PROVE StandbyInv'
    <3>1. PICK b \in arrived[q] : /\ arrived' = [arrived EXCEPT ![q] = {}]
                                  /\ hint' = [hint EXCEPT ![q] = @ \/ IsHint(b)]
                                  /\ UNCHANGED <<stream, lock>>
      BY <2>4 DEF Dispatch
    <3>2. ASSUME NEW p \in Processor, lock'[p] = "announced"
          PROVE  hint'[p] \/ Wildcard \in arrived'[p] \/ stream'[p].link # "on"
      <4>1. CASE p = q /\ Wildcard \in arrived[p]
        <5>1. b = Wildcard  BY <1>0, <4>1 DEF Arrivals
        <5>2. QED  BY <1>0, <3>1, <4>1, <5>1 DEF IsHint, Wildcard
      <4>2. CASE ~(p = q /\ Wildcard \in arrived[p])
        BY <1>0, <3>1, <3>2, <4>2 DEF StandbyInv, StandbyIsTold, Arrivals
      <4>3. QED  BY <4>1, <4>2
    <3>3. QED  BY <3>1, <3>2 DEF StandbyInv, StandbyIsTold
  <2>5. QED  BY <1>3, <2>1, <2>2, <2>3, <2>4 DEF ListenStep
<1>4. ASSUME NEW q \in Processor, LoopStep(q) PROVE StandbyInv'
  BY <1>1, <1>4 DEF LoopStep, Poll, PollFails, Skip, Sleep, TakeWakeup, SleepEnds, listenVars, leadVars
<1>5. ASSUME NEW q \in Processor, LeadStep(q) PROVE StandbyInv'
  <2>1. CASE ReleasedElsewhere(q)
    <3>1. /\ ToListeners(Wildcard) /\ UNCHANGED <<hint, stream>>
          /\ lock' = [lock EXCEPT ![q] = IF stream[q].once THEN "announced" ELSE "free"]
      BY <2>1 DEF ReleasedElsewhere
    <3>2. ASSUME NEW p \in Processor, stream[p].link = "on" PROVE Wildcard \in arrived'[p]
      <4>1. MergeBatch(arrived[p] \cup {Wildcard}) = Wildcard  BY MergeKeepsWildcard
      <4>2. QED  BY <3>1, <3>2, <4>1, ListenersAlsoGet
    <3>3. \A p \in Processor : lock'[p] = "announced" => stream'[p].once
      BY <1>0, <3>1 DEF StandbyInv
    <3>4. QED  BY <3>1, <3>2, <3>3 DEF StandbyInv, StandbyIsTold
  <2>2. CASE Retry(q)
    BY <1>0, <2>2 DEF Retry, listenVars, StandbyInv, StandbyIsTold
  <2>3. CASE TakeHint(q)
    BY <1>0, <2>3 DEF TakeHint, Leading, listenVars, StandbyInv, StandbyIsTold
  <2>4. CASE DiesElsewhere(q) \/ LosesLeadership(q)
    BY <1>0, <2>4 DEF DiesElsewhere, LosesLeadership, listenVars, StandbyInv, StandbyIsTold
  <2>5. QED  BY <1>5, <2>1, <2>2, <2>3, <2>4 DEF LeadStep
<1>6. CASE UNCHANGED vars
  BY <1>1, <1>6 DEF vars, listenVars, leadVars
<1>7. QED  BY <1>2, <1>3, <1>4, <1>5, <1>6 DEF Next

LEMMA InitStandbys == Init => StandbyInv
  BY DEF Init, StandbyInv, StandbyIsTold

(* A lock released on purpose does not wait for a standby's timer: its      *)
(* announcement is with the standby's module, or its stream will begin      *)
(* with a wildcard (unlockAndWake, wakeupStreamFrom, leaderHintFrom).       *)
THEOREM StandbysAreTold == Spec => []StandbyIsTold
<1>1. Init => TypesInv /\ StandbyInv
  BY InitTypes, InitStandbys
<1>2. TypesInv /\ StandbyInv /\ [Next]_vars => (TypesInv /\ StandbyInv)'
  BY NextKeepsTypes, NextKeepsStandbys
<1>3. StandbyInv => StandbyIsTold
  BY DEF StandbyInv
<1>4. QED  BY <1>1, <1>2, <1>3, PTL DEF Spec

-----------------------------------------------------------------------------
(* The processors that sleep *)

(* What is excused need not be on its way. *)
LEMMA ExcusedIsToldNothing ==
  ASSUME NEW P, NEW p \in P, NEW e \in Event, Excuse(P), Unhandled(p)' = Unhandled(p)
  PROVE  Told(p, e)'
<1>1. e \in Unhandled(p) => <<p, e>> \in excused'
  BY DEF Excuse, Unhandled
<1>2. QED  BY <1>1 DEF Told, Asks

(* A step that moves no wake-up of p's, and asks for nothing new. *)
Still(p, e) ==
  /\ e \in Unhandled(p)' => e \in Unhandled(p)
  /\ Asks(p, e)' => Asks(p, e)
  /\ e \in unsaid => e \in unsaid'
  /\ InNotifier(e) => InNotifier(e)'
  /\ \A b \in arrived[p] : Covers(b, e) => \E c \in arrived'[p] : Covers(c, e)
  /\ hub'[p] = hub[p]
  /\ stream[p].link # "on" => stream'[p].link # "on"

LEMMA StillIsTold ==
  ASSUME NEW p, NEW e, Told(p, e), Still(p, e)
  PROVE  Told(p, e)'
<1>1. SUFFICES ASSUME e \in Unhandled(p)', Asks(p, e)' PROVE OnItsWay(p, e)'
  BY DEF Told
<1>2. OnItsWay(p, e) /\ stream'[p].once
  BY <1>1 DEF Told, Still, Asks
<1>3. QED  BY <1>2 DEF OnItsWay, Still

LEMMA ListenersStillCovered ==
  ASSUME NEW p \in Processor, NEW e, NEW b, ToListeners(b), NEW c \in arrived[p], Covers(c, e)
  PROVE  \E d \in arrived'[p] : Covers(d, e)
<1>1. Covers(MergeBatch(arrived[p] \cup {b}), e)
  BY MergeCovers
<1>2. QED  BY <1>1, ListenersAlsoGet

(* What is sent and covers e is on its way to whoever has listened.        *)
LEMMA SentIsOnItsWay ==
  ASSUME NEW p \in Processor, NEW e \in Event, NEW b, ToListeners(b), Covers(b, e), UNCHANGED stream
  PROVE  Told(p, e)'
<1>1. Covers(MergeBatch(arrived[p] \cup {b}), e)
  BY MergeCovers
<1>2. CASE stream[p].link = "on"
  BY <1>1, <1>2, ListenersAlsoGet DEF Told, OnItsWay
<1>3. CASE stream[p].link # "on"
  BY <1>3 DEF Told, OnItsWay, Asks
<1>4. QED  BY <1>2, <1>3

LEMMA SendTells ==
  ASSUME KeysAreKept, NEW p \in Processor, NEW e \in Event,
         NEW T \in SUBSET EventTypes, NEW K \in SUBSET EventKeys, Send(T, K),
         TypeOf[e] \in T, KeysOf[e] \subseteq K,
         UNCHANGED stream, Unhandled(p)' = Unhandled(p)
  PROVE  Told(p, e)'
<1>1. CASE ToListeners(EncodePayload(T, K))
  BY <1>1, EncodeCovers, SentIsOnItsWay
<1>2. CASE Excuse(Processor)
  BY <1>2, ExcusedIsToldNothing
<1>3. QED  BY <1>1, <1>2 DEF Send

(* ... and what was on its way before stays so. *)
LEMMA SendIsStill ==
  ASSUME NEW p \in Processor, NEW e \in Event, NEW T, NEW K, Send(T, K)
  PROVE  /\ \A b \in arrived[p] : Covers(b, e) => \E c \in arrived'[p] : Covers(c, e)
         /\ excused \subseteq excused'
<1>1. CASE ToListeners(EncodePayload(T, K)) /\ UNCHANGED excused
  BY <1>1, ListenersStillCovered
<1>2. CASE Excuse(Processor) /\ UNCHANGED arrived
  BY <1>2 DEF Excuse
<1>3. QED  BY <1>1, <1>2 DEF Send

LEMMA WriterTells ==
  ASSUME KeysAreKept, TypesInv, WriterStep, NEW p \in Processor, NEW e \in Event, Told(p, e)
  PROVE  Told(p, e)'
<1>0. /\ tx \in [Event -> {"none", "running", "committed", "aborted"}]
      /\ notifier \in Notifier
  BY DEF TypesInv, WriterTypes
<1>a. UNCHANGED <<users, shared, stream, loopVars, leadVars>>
  BY DEF WriterStep, Begin, Commit, Abort, Signal, WindowEnds, Trailing, OthersNotify, WriterCrashes, listenVars
<1>b. UNCHANGED Committed => Unhandled(p)' = Unhandled(p)
  BY <1>a DEF Unhandled, Wanted, Selects, loopVars
<1>c. excused \subseteq excused' => (Asks(p, e)' => Asks(p, e))
  BY <1>a DEF Asks, Leading, loopVars, leadVars
<1>d. hub'[p] = hub[p] /\ stream'[p] = stream[p]
  BY <1>a DEF loopVars
<1>1. ASSUME NEW f \in Event, Begin(f) \/ Abort(f) PROVE Told(p, e)'
  <2>1. Committed' = Committed
    BY <1>0, <1>1 DEF Begin, Abort, Committed
  <2>2. Still(p, e)
    BY <1>1, <1>b, <1>c, <1>d, <2>1
    DEF Still, Begin, Abort, InNotifier, BeforeCommit, listenVars
  <2>3. QED  BY <2>2, StillIsTold
<1>2. ASSUME NEW f \in Event, Commit(f) PROVE Told(p, e)'
  <2>1. Committed' = Committed \cup {f} /\ unsaid' = unsaid \cup {f}
    BY <1>0, <1>2 DEF Commit, Committed
  <2>2. CASE e = f
    BY <2>1, <2>2 DEF Told, OnItsWay
  <2>3. CASE e # f
    <3>1. e \in Unhandled(p)' => e \in Unhandled(p)
      BY <1>a, <2>1, <2>3 DEF Unhandled, Wanted, Selects, loopVars
    <3>2. Still(p, e)
      BY <1>2, <1>c, <1>d, <2>1, <3>1 DEF Still, Commit, InNotifier, listenVars
    <3>3. QED  BY <3>2, StillIsTold
  <2>4. QED  BY <2>2, <2>3
<1>3. ASSUME NEW f \in Event, Signal(f) PROVE Told(p, e)'
  <2> DEFINE T == notifier.types \cup {TypeOf[f]}
             K == notifier.keys \cup KeysOf[f]
  <2>1. /\ T \in SUBSET EventTypes /\ K \in SUBSET EventKeys
        /\ e = f \/ InNotifier(e) => TypeOf[e] \in T /\ KeysOf[e] \subseteq K
    BY <1>0 DEF Notifier, EventTypes, EventKeys, InNotifier
  <2>2. unsaid' = unsaid \ {f} /\ UNCHANGED tx
    BY <1>3 DEF Signal
  <2>3. \/ /\ ~TimerScheduled /\ Send(T, K)
           /\ notifier' = [notifier EXCEPT !.types = {}, !.keys = {}, !.windowOpen = TRUE]
        \/ /\ notifier' = [notifier EXCEPT !.types = T, !.keys = K,
                                           !.timers = IF TimerScheduled THEN @ ELSE @ + 1]
           /\ UNCHANGED <<arrived, excused>>
    BY <1>3 DEF Signal
  <2> HIDE DEF T, K
  <2>4. Unhandled(p)' = Unhandled(p)
    BY <1>b, <2>2 DEF Committed
  <2>5. CASE ~TimerScheduled /\ Send(T, K)
    <3>1. CASE e = f
      BY <1>a, <2>1, <2>4, <2>5, <3>1, SendTells
    <3>2. CASE e # f
      <4>1. ~InNotifier(e)
        BY <2>5 DEF InNotifier, TimerScheduled
      <4>2. Still(p, e)
        BY <1>c, <1>d, <2>2, <2>4, <2>5, <3>2, <4>1, SendIsStill DEF Still
      <4>3. QED  BY <4>2, StillIsTold
    <3>3. QED  BY <3>1, <3>2
  <2>6. CASE /\ notifier' = [notifier EXCEPT !.types = T, !.keys = K,
                                           !.timers = IF TimerScheduled THEN @ ELSE @ + 1]
             /\ UNCHANGED <<arrived, excused>>
    <3>1. notifier'.timers > 0 /\ notifier'.types = T /\ notifier'.keys = K
      BY <1>0, <2>6 DEF Notifier, TimerScheduled
    <3>2. CASE e = f
      BY <2>1, <3>1, <3>2 DEF Told, OnItsWay, InNotifier
    <3>3. CASE e # f
      <4>1. Still(p, e)
        BY <1>c, <1>d, <2>1, <2>2, <2>4, <2>6, <3>1, <3>3 DEF Still, InNotifier
      <4>2. QED  BY <4>1, StillIsTold
    <3>4. QED  BY <3>2, <3>3
  <2>7. QED  BY <2>3, <2>5, <2>6
<1>4. ASSUME WindowEnds PROVE Told(p, e)'
  <2>1. Still(p, e)
    BY <1>0, <1>4, <1>b, <1>c, <1>d DEF Still, WindowEnds, InNotifier, Notifier, Committed, listenVars
  <2>2. QED  BY <2>1, StillIsTold
<1>5. ASSUME Trailing PROVE Told(p, e)'
  <2>1. /\ Send(notifier.types, notifier.keys) /\ UNCHANGED <<tx, unsaid>>
        /\ notifier.types \in SUBSET EventTypes /\ notifier.keys \in SUBSET EventKeys
    BY <1>0, <1>5 DEF Trailing, Notifier
  <2>2. Unhandled(p)' = Unhandled(p)
    BY <1>b, <2>1 DEF Committed
  <2>3. CASE InNotifier(e)
    BY <1>a, <2>1, <2>2, <2>3, SendTells DEF InNotifier
  <2>4. CASE ~InNotifier(e)
    <3>1. Still(p, e)
      BY <1>c, <1>d, <2>1, <2>2, <2>4, SendIsStill DEF Still
    <3>2. QED  BY <3>1, StillIsTold
  <2>5. QED  BY <2>3, <2>4
<1>6. ASSUME OthersNotify PROVE Told(p, e)'
  <2>1. PICK b \in Foreign : ToListeners(b)  BY <1>6 DEF OthersNotify
  <2>2. UNCHANGED <<writerVars, excused>>  BY <1>6 DEF OthersNotify
  <2>3. Unhandled(p)' = Unhandled(p)
    BY <1>b, <2>2 DEF Committed, writerVars
  <2>4. Still(p, e)
    BY <1>c, <1>d, <2>1, <2>2, <2>3, ListenersStillCovered DEF Still, InNotifier, writerVars
  <2>5. QED  BY <2>4, StillIsTold
<1>7. ASSUME WriterCrashes PROVE Told(p, e)'
  <2>1. Committed' = Committed
    BY <1>0, <1>7 DEF WriterCrashes, Committed
  <2>2. QED  BY <1>7, <1>b, <2>1, ExcusedIsToldNothing DEF WriterCrashes
<1>8. QED  BY <1>1, <1>2, <1>3, <1>4, <1>5, <1>6, <1>7 DEF WriterStep

LEMMA ListenTells ==
  ASSUME TypesInv, ListenStep, NEW p \in Processor, NEW e \in Event, Told(p, e)
  PROVE  Told(p, e)'
<1>0. /\ stream \in Streams /\ Arrivals(arrived) /\ p \in Stream
      /\ hub \in [Processor -> Seq(Payload)]
  BY DEF TypesInv, ListenTypes, LoopTypes, Stream
<1>a. UNCHANGED <<writerVars, loop, seen, lock>>
  BY DEF ListenStep, ConnectionLost, Listen, ListenFails, Leave, Dispatch, loopVars, leadVars
<1>b. Unhandled(p)' = Unhandled(p) /\ (InNotifier(e)' <=> InNotifier(e)) /\ unsaid' = unsaid
  BY <1>a DEF Unhandled, Wanted, Selects, Committed, InNotifier, writerVars
<1>c. excused \subseteq excused' /\ stream'[p].once = stream[p].once => (Asks(p, e)' => Asks(p, e))
  BY <1>a DEF Asks, Leading
<1>1. ASSUME Cut PROVE Told(p, e)'
  <2>1. stream'[p].link # "on"
    BY <1>0, <1>1 DEF Cut, Streams
  <2>2. QED  BY <2>1 DEF Told, Asks, OnItsWay
<1>2. ASSUME NEW s \in Stream, Listen(s) PROVE Told(p, e)'
  <2>1. /\ stream' = [stream EXCEPT ![s] = [link |-> "on", once |-> TRUE]]
        /\ UNCHANGED loopVars
        /\ \/ /\ arrived' = [q \in Processor |-> IF q = s THEN {Wildcard} ELSE arrived[q]]
              /\ UNCHANGED excused
           \/ Excuse({s} \cap Processor) /\ UNCHANGED arrived
    BY <1>2 DEF Listen
  <2>2. CASE p = s /\ arrived'[p] = {Wildcard}
    BY <2>2 DEF Told, OnItsWay, Covers, Wildcard
  <2>3. CASE p = s /\ arrived'[p] # {Wildcard}
    BY <1>b, <2>1, <2>3, ExcusedIsToldNothing
  <2>4. CASE p # s
    <3>1. stream'[p] = stream[p] /\ arrived'[p] = arrived[p] /\ hub'[p] = hub[p] /\ excused \subseteq excused'
      BY <1>0, <2>1, <2>4 DEF Streams, loopVars, Excuse
    <3>2. Still(p, e)
      BY <1>b, <1>c, <3>1 DEF Still
    <3>3. QED  BY <3>2, StillIsTold
  <2>5. QED  BY <2>2, <2>3, <2>4
<1>3. ASSUME NEW s \in Stream, Leave(s) PROVE Told(p, e)'
  <2>1. /\ stream[s].link = "failed" /\ stream' = [stream EXCEPT ![s].link = "out"]
        /\ UNCHANGED <<arrived, loopVars, excused>>
    BY <1>3 DEF Leave
  <2>2. stream'[p].once = stream[p].once /\ (stream[p].link # "on" => stream'[p].link # "on")
    BY <1>0, <2>1 DEF Streams
  <2>3. Still(p, e)
    BY <1>b, <1>c, <2>1, <2>2 DEF Still, loopVars
  <2>4. QED  BY <2>3, StillIsTold
<1>4. ASSUME NEW q \in Processor, Dispatch(q) PROVE Told(p, e)'
  <2>1. PICK b \in arrived[q] :
          /\ arrived' = [arrived EXCEPT ![q] = {}]
          /\ \/ hub' = [hub EXCEPT ![q] = Append(@, b)] /\ UNCHANGED excused
             \/ hub' = [hub EXCEPT ![q] = Append(Tail(@), b)] /\ Excuse({q})
          /\ UNCHANGED stream
    BY <1>4 DEF Dispatch
  <2>2. CASE p # q
    <3>1. arrived'[p] = arrived[p] /\ hub'[p] = hub[p] /\ excused \subseteq excused'
      BY <1>0, <2>1, <2>2 DEF Excuse, Arrivals
    <3>2. Still(p, e)
      BY <1>b, <1>c, <2>1, <3>1 DEF Still
    <3>3. QED  BY <3>2, StillIsTold
  <2>3. CASE p = q /\ Excuse({q})
    BY <1>b, <2>3, ExcusedIsToldNothing
  <2>4. CASE p = q /\ hub' = [hub EXCEPT ![q] = Append(@, b)] /\ UNCHANGED excused
    <3>1. SUFFICES ASSUME e \in Unhandled(p)', Asks(p, e)' PROVE OnItsWay(p, e)'
      BY DEF Told
    <3>2. OnItsWay(p, e)
      BY <1>b, <1>c, <2>1, <2>4, <3>1 DEF Told
    <3>3. b \in Payload /\ arrived[p] = {b} /\ hub[p] \in Seq(Payload)
      BY <1>0, <2>1, <2>4 DEF Arrivals
    <3>4. /\ hub'[p] = Append(hub[p], b) /\ Len(hub[p]) \in Nat
          /\ DOMAIN hub[p] = 1 .. Len(hub[p]) /\ DOMAIN hub'[p] = 1 .. Len(hub[p]) + 1
          /\ \A k \in 1 .. Len(hub[p]) : hub'[p][k] = hub[p][k]
          /\ hub'[p][Len(hub[p]) + 1] = b
      BY <1>0, <2>4, <3>3
    <3>5. CASE \E c \in arrived[p] : Covers(c, e)
      <4>1. Covers(b, e)  BY <3>3, <3>5
      <4>2. Len(hub[p]) + 1 \in DOMAIN hub'[p]  BY <3>4
      <4>3. QED  BY <3>4, <4>1, <4>2 DEF OnItsWay
    <3>6. CASE \E k \in DOMAIN hub[p] : Covers(hub[p][k], e)
      <4>1. PICK k \in DOMAIN hub[p] : Covers(hub[p][k], e)  BY <3>6
      <4>2. k \in DOMAIN hub'[p] /\ hub'[p][k] = hub[p][k]  BY <3>4, <4>1
      <4>3. QED  BY <4>1, <4>2 DEF OnItsWay
    <3>7. CASE e \in unsaid \/ InNotifier(e) \/ (stream[p].link # "on" /\ stream[p].once)
      BY <1>b, <2>1, <3>7 DEF OnItsWay
    <3>8. QED  BY <3>2, <3>5, <3>6, <3>7 DEF OnItsWay
  <2>5. QED  BY <2>1, <2>2, <2>3, <2>4
<1>5. QED  BY <1>1, <1>2, <1>3, <1>4 DEF ListenStep, ConnectionLost, ListenFails

LEMMA LoopTells ==
  ASSUME TypesInv, NEW q \in Processor, LoopStep(q), NEW p \in Processor, NEW e \in Event, Told(p, e)
  PROVE  Told(p, e)'
<1>0. /\ loop \in [Processor -> {"tick", "polled", "asleep"}]
      /\ seen = [r \in Processor |-> seen[r]]
      /\ hub \in [Processor -> Seq(Payload)]
  BY DEF TypesInv, LoopTypes
<1>a. UNCHANGED <<writerVars, listenVars, leadVars>>
  BY DEF LoopStep, Poll, PollFails, Skip, Sleep, TakeWakeup, SleepEnds
<1>b. /\ (InNotifier(e)' <=> InNotifier(e)) /\ unsaid' = unsaid /\ Committed' = Committed
      /\ UNCHANGED <<stream, arrived, lock>>
  BY <1>a DEF Committed, InNotifier, writerVars, listenVars, leadVars
<1>c. seen'[p] = seen[p] => Unhandled(p)' = Unhandled(p)
  BY <1>b DEF Unhandled, Wanted, Selects
<1>d. ASSUME seen'[p] = seen[p], hub'[p] = hub[p], Asks(p, e)' => Asks(p, e) PROVE Told(p, e)'
  <2>1. Still(p, e)
    BY <1>b, <1>c, <1>d DEF Still
  <2>2. QED  BY <2>1, StillIsTold
<1>1. CASE Poll(q)
  <2>1. /\ loop' = [loop EXCEPT ![q] = "polled"] /\ UNCHANGED hub
        /\ seen' = [seen EXCEPT ![q] = @ \cup Fetched(q)]
        /\ excused' = {pe \in excused : pe[1] # q} \cup ({q} \X (Unhandled(q) \ Fetched(q)))
    BY <1>1 DEF Poll
  <2>2. CASE p = q
    <3>1. Unhandled(p)' \subseteq Unhandled(p) \ Fetched(p)
      BY <1>0, <1>b, <2>1, <2>2 DEF Unhandled, Wanted, Selects
    <3>2. e \in Unhandled(p)' => <<p, e>> \in excused'
      BY <2>1, <2>2, <3>1
    <3>3. QED  BY <3>2 DEF Told, Asks
  <2>3. CASE p # q
    <3>1. <<p, e>> \in excused => <<p, e>> \in excused'
      BY <2>1, <2>3
    <3>2. QED  BY <1>0, <1>b, <1>d, <2>1, <2>3, <3>1 DEF Asks, Leading
  <2>4. QED  BY <2>2, <2>3
<1>2. CASE PollFails(q)
  <2>1. /\ loop' = [loop EXCEPT ![q] = "polled"] /\ UNCHANGED <<hub, seen>> /\ Excuse({q})
    BY <1>2 DEF PollFails
  <2>2. CASE p = q
    BY <1>c, <2>1, <2>2, ExcusedIsToldNothing
  <2>3. CASE p # q
    BY <1>0, <1>b, <1>d, <2>1, <2>3 DEF Asks, Leading, Excuse
  <2>4. QED  BY <2>2, <2>3
<1>3. CASE Skip(q)
  <2>1. /\ ~Leading(q) /\ loop' = [loop EXCEPT ![q] = "polled"] /\ UNCHANGED <<hub, seen, excused>>
    BY <1>3 DEF Skip
  <2>2. QED  BY <1>0, <1>b, <1>d, <2>1 DEF Asks, Leading
<1>4. CASE Sleep(q)
  <2>1. /\ loop[q] = "polled" /\ loop' = [loop EXCEPT ![q] = "asleep"]
        /\ hub' = [hub EXCEPT ![q] = hub[q]] /\ UNCHANGED <<seen, excused>>
    BY <1>4 DEF Sleep, Subscribed
  <2>2. QED  BY <1>0, <1>b, <1>d, <2>1 DEF Asks, Leading
<1>5. CASE TakeWakeup(q)
  <2>1. /\ loop[q] = "asleep" /\ hub[q] # <<>> /\ hub' = [hub EXCEPT ![q] = Tail(@)]
        /\ loop' = [loop EXCEPT ![q] = IF ShouldWake(Head(hub[q]), Selection[q]) THEN "tick" ELSE @]
        /\ UNCHANGED <<seen, excused>>
    BY <1>5 DEF TakeWakeup
  <2>2. CASE p # q
    BY <1>0, <1>b, <1>d, <2>1, <2>2 DEF Asks, Leading
  <2>3. CASE p = q
    <3>1. SUFFICES ASSUME e \in Unhandled(p)', Asks(p, e)' PROVE OnItsWay(p, e)'
      BY DEF Told
    <3>2. loop'[p] # "tick" /\ ~ShouldWake(Head(hub[p]), Selection[p])
      BY <1>0, <2>1, <2>3, <3>1 DEF Asks
    <3>3. e \in Unhandled(p) /\ Asks(p, e)
      BY <1>b, <1>c, <2>1, <2>3, <3>1 DEF Asks, Leading
    <3>4. OnItsWay(p, e)
      BY <3>3 DEF Told
    <3>5. ~Covers(Head(hub[p]), e)
      BY <3>2, <3>3, CoveredWakes DEF Unhandled
    <3>6. CASE \E k \in DOMAIN hub[p] : Covers(hub[p][k], e)
      <4>1. PICK k \in DOMAIN hub[p] : Covers(hub[p][k], e)  BY <3>6
      <4>2. hub[p] \in Seq(Payload) /\ hub[p] # <<>> /\ hub'[p] = Tail(hub[p])
        BY <1>0, <2>1, <2>3
      <4>3. k # 1
        BY <3>5, <4>1, <4>2
      <4>4. k - 1 \in DOMAIN hub'[p] /\ hub'[p][k - 1] = hub[p][k]
        BY <4>1, <4>2, <4>3
      <4>5. QED  BY <4>1, <4>4 DEF OnItsWay
    <3>7. CASE ~\E k \in DOMAIN hub[p] : Covers(hub[p][k], e)
      BY <1>b, <3>4, <3>7 DEF OnItsWay
    <3>8. QED  BY <3>6, <3>7
  <2>4. QED  BY <2>2, <2>3
<1>6. CASE SleepEnds(q)
  <2>1. loop' = [loop EXCEPT ![q] = "tick"] /\ UNCHANGED <<hub, seen, excused>>
    BY <1>6 DEF SleepEnds
  <2>2. QED  BY <1>0, <1>b, <1>d, <2>1 DEF Asks, Leading
<1>7. QED  BY <1>1, <1>2, <1>3, <1>4, <1>5, <1>6 DEF LoopStep

LEMMA LeadTells ==
  ASSUME TypesInv, NEW q \in Processor, LeadStep(q), NEW p \in Processor, NEW e \in Event, Told(p, e)
  PROVE  Told(p, e)'
<1>0. lock \in [Processor -> {"ours", "elsewhere", "announced", "free"}]
  BY DEF TypesInv, LoopTypes
<1>a. UNCHANGED <<writerVars, loopVars, stream>>
  BY DEF LeadStep, Retry, TakeHint, ReleasedElsewhere, DiesElsewhere, LosesLeadership, listenVars
<1>b. /\ (InNotifier(e)' <=> InNotifier(e)) /\ unsaid' = unsaid /\ Unhandled(p)' = Unhandled(p)
      /\ hub'[p] = hub[p] /\ stream'[p] = stream[p] /\ loop'[p] = loop[p]
  BY <1>a DEF Unhandled, Wanted, Selects, Committed, InNotifier, writerVars, loopVars
<1>c. ASSUME Asks(p, e)' => Asks(p, e),
             \A b \in arrived[p] : Covers(b, e) => \E c \in arrived'[p] : Covers(c, e)
      PROVE  Told(p, e)'
  <2>1. Still(p, e)
    BY <1>b, <1>c DEF Still
  <2>2. QED  BY <2>1, StillIsTold
<1>1. CASE Retry(q)
  <2>1. CASE p = q /\ Excuse({q})
    BY <1>b, <2>1, ExcusedIsToldNothing
  <2>2. CASE p # q \/ ~Excuse({q})
    <3>1. arrived' = arrived /\ excused \subseteq excused' /\ (lock'[p] = lock[p])
      BY <1>0, <1>1, <2>2 DEF Retry, listenVars, Excuse
    <3>2. QED  BY <1>b, <1>c, <3>1 DEF Asks, Leading
  <2>3. QED  BY <2>1, <2>2
<1>2. CASE TakeHint(q)
  BY <1>2, <1>b, <1>c DEF TakeHint, Asks, Leading, listenVars
<1>3. CASE ReleasedElsewhere(q)
  <2>1. /\ ToListeners(Wildcard) /\ UNCHANGED excused
        /\ lock' = [lock EXCEPT ![q] = IF stream[q].once THEN "announced" ELSE "free"]
    BY <1>3 DEF ReleasedElsewhere
  <2>2. Asks(p, e)' => Asks(p, e)
    BY <1>0, <1>b, <2>1 DEF Asks, Leading
  <2>3. QED  BY <1>c, <2>1, <2>2, ListenersStillCovered
<1>4. CASE DiesElsewhere(q) \/ LosesLeadership(q)
  <2>1. UNCHANGED <<arrived, excused>> /\ \E now \in {"free", "elsewhere"} : lock' = [lock EXCEPT ![q] = now]
    BY <1>4 DEF DiesElsewhere, LosesLeadership, listenVars
  <2>2. Asks(p, e)' => Asks(p, e)
    BY <1>0, <1>b, <2>1 DEF Asks, Leading
  <2>3. QED  BY <1>c, <2>1, <2>2
<1>5. QED  BY <1>1, <1>2, <1>3, <1>4 DEF LeadStep

LEMMA NextTells ==
  ASSUME KeysAreKept, TypesInv, TellInv, [Next]_vars
  PROVE  TellInv'
<1>1. SUFFICES ASSUME NEW p \in Processor, NEW e \in Event PROVE Told(p, e)'
  BY DEF TellInv
<1>2. Told(p, e)
  BY DEF TellInv
<1>3. CASE UNCHANGED vars
  BY <1>2, <1>3 DEF Told, Asks, Leading, OnItsWay, InNotifier, Unhandled, Wanted, Selects, Committed,
     vars, writerVars, listenVars, loopVars, leadVars
<1>4. QED  BY <1>2, <1>3, WriterTells, ListenTells, LoopTells, LeadTells DEF Next

LEMMA InitTells == Init => TellInv
  BY DEF Init, TellInv, Told, Unhandled, Committed

LEMMA ToldStates == StandbyInv /\ TellInv => WakeUpOnItsWay
<1> SUFFICES ASSUME StandbyInv, TellInv PROVE WakeUpOnItsWay
  OBVIOUS
<1>1. ASSUME NEW p \in Processor, NEW e \in Unhandled(p), Asks(p, e)
      PROVE  ToldOf(p, e)
  <2>1. e \in Event /\ e \in Wanted(p)
    BY DEF Unhandled, Wanted
  <2>2. OnItsWay(p, e)
    BY <1>1, <2>1 DEF TellInv, Told
  <2>3. \A b : Covers(b, e) => ShouldWake(b, Selection[p])
    BY <2>1, CoveredWakes
  <2>4. QED  BY <2>2, <2>3 DEF OnItsWay, InNotifier, ToldOf
<1>2. QED  BY <1>1 DEF WakeUpOnItsWay, StandbyInv, Asks

(* Whatever nothing lost is on its way to the processor that sleeps, in a   *)
(* form its filter lets through: from the commit to the notifier's window,  *)
(* from there to the connection, merged with others, to the hub, and over   *)
(* the time between a poll and the sleep after it.                         *)
(* The names of the events must fit in a payload, and no key of one may     *)
(* hold its separators: a payload that leaves its keys out, merged with one *)
(* that does not, speaks of the other's keys alone (MergeBatch).           *)
THEOREM SleepersAreWoken == KeysAreKept => (Spec => []WakeUpOnItsWay)
<1> SUFFICES ASSUME KeysAreKept PROVE Spec => []WakeUpOnItsWay
  OBVIOUS
<1>1. Init => TypesInv /\ StandbyInv /\ TellInv
  BY InitTypes, InitStandbys, InitTells
<1>2. TypesInv /\ StandbyInv /\ TellInv /\ [Next]_vars => (TypesInv /\ StandbyInv /\ TellInv)'
  BY NextKeepsTypes, NextKeepsStandbys, NextTells
<1>3. QED  BY <1>1, <1>2, ToldStates, PTL DEF Spec
=============================================================================
