---------------------------- MODULE MCEventStore ----------------------------
(* Small instances of EventStore: two event types, two tags, and a family  *)
(* of requests for each question.                                          *)
EXTENDS EventStore, TLC

A == "Opened"
B == "Moved"
t == "wallet=1"
u == "wallet=2"

MCTypes == {A, B}
MCTags  == {t, u}

Is(types, tags)  == [types |-> types, tags |-> tags]
Ev(type, tags)   == [type |-> type, tags |-> tags]
App(reads, events, idem, first, cause) ==
  [reads |-> reads, events |-> events, idem |-> idem, firstWrite |-> first, cause |-> cause]
Req(first, appends) == [writesFirst |-> first, appends |-> appends]
Command(reads, events) == Req(FALSE, <<App(reads, events, {}, TRUE, NoCause)>>)

(* Lock numbers in an order that is not the order of the keys, with two    *)
(* keys on one number.                                                     *)
MCLockHash ==
  [k \in LockKeys |->
     CASE k = GlobalKey     -> 3
       [] k = TypeKey(A)    -> 1
       [] k = TypeKey(B)    -> 5
       [] k = LeafKey(A, t) -> 4
       [] k = LeafKey(A, u) -> 2
       [] k = LeafKey(B, t) -> 6
       [] OTHER             -> 4]

(* Races: an entity; two entities read one after the other; a type with no *)
(* tag, under a key; a command inside a transaction that has written; a    *)
(* transaction that has written elsewhere, stays open, and appends late    *)
(* under an old id, twice, with its locks in another order than theirs; a  *)
(* deposit with the same key and another event type, made by an            *)
(* automation; and the automation's decision delivered again, which asks   *)
(* for something else this time.                                           *)
RacingRequests ==
  { Command({{Is({A, B}, {t})}}, <<Ev(A, {t})>>),
    Command({{Is({A}, {t})}, {Is({}, {u})}}, <<Ev(B, {u})>>),
    Req(FALSE, <<App({{Is({B}, {})}}, <<Ev(B, {t}), Ev(A, {u})>>, {Is({A, B}, {t})}, TRUE, NoCause)>>),
    Req(TRUE, <<App({{Is({A}, {t})}}, <<Ev(B, {t})>>, {}, TRUE, NoCause)>>),
    Req(TRUE, <<App({}, <<Ev(B, {t})>>, {}, FALSE, NoCause), App({}, <<Ev(A, {t})>>, {}, FALSE, NoCause)>>),
    Req(FALSE, <<App({}, <<Ev(A, {t})>>, {Is({A, B}, {t})}, TRUE, "cause-1")>>),
    Req(FALSE, <<App({}, <<Ev(A, {u}), Ev(B, {})>>, {}, TRUE, "cause-1")>>) }

SessionSymmetry == Permutations(Sessions)
=============================================================================
