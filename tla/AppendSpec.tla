----------------------------- MODULE AppendSpec -----------------------------
(***************************************************************************)
(* The specification of reads and conditional appends (eventstore's        *)
(* spec/Spec.ts), which the store in memory implements: everything a       *)
(* reader or an appender sees is a function of the log.  An event is what  *)
(* its definition makes; stored, it carries the request's fingerprint and  *)
(* the event that caused it (0: none).  Tags are <<key, value>> pairs.     *)
(***************************************************************************)
EXTENDS Integers, Sequences, FiniteSets, SequencesExt

Event(type, tags, data) == [type |-> type, tags |-> tags, data |-> data]
Item(types, tags) == [types |-> types, tags |-> tags]

itemMatches(item, e) ==
    /\ item.types = {} \/ e.type \in item.types
    /\ item.tags \subseteq e.tags

\* A read with no items matches everything; a condition with none checks nothing.
queryMatches(query, e) == query = {} \/ \E item \in query : itemMatches(item, e)
conditionMatches(query, e) == \E item \in query : itemMatches(item, e)

matching(log, query) == SelectSeq(log, LAMBDA e : queryMatches(query, e))

\* mutant: a newer event is never a conflict
NeverStale(log, condition) ==
    IF \E e \in ToSet(log) : conditionMatches(condition.idempotency, e) THEN "duplicate" ELSE "ok"

(* What a conditional append decides; in the log of one store, position is the order of the cursor. *)
checkAppend(log, condition) ==
    IF \E e \in ToSet(log) : conditionMatches(condition.idempotency, e) THEN "duplicate"
    ELSE IF \E i \in DOMAIN log : i > condition.after /\ conditionMatches(condition.concurrency, log[i]) THEN "conflict"
    ELSE "ok"

(* The distinct requests behind what a key matches; none when it matches nothing. *)
duplicateOf(log, query) ==
    {[fingerprint |-> e.fingerprint, cause |-> e.cause] : e \in {f \in ToSet(log) : queryMatches(query, f)}}

\* mutant: a key that was used is this request done
AnyRepeat(requests, fingerprint, cause) == TRUE
(* Whether what the key matched is this same request: its trigger again, or the same name and input. *)
isSameRequest(requests, fingerprint, cause) ==
    \/ cause # 0 /\ \E r \in requests : r.cause = cause
    \/ \A r \in requests : r.fingerprint = fingerprint

(* The log with an append's events at its end. *)
store(log, events, fingerprint, cause) ==
    log \o [i \in DOMAIN events |->
              [type |-> events[i].type, tags |-> events[i].tags, data |-> events[i].data, fingerprint |-> fingerprint, cause |-> cause]]
=============================================================================
