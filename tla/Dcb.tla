-------------------------------- MODULE Dcb ---------------------------------
(***************************************************************************)
(* Dynamic consistency boundaries: events, the query items that select     *)
(* them, and the advisory locks an append takes so that a writer of an     *)
(* event and a checker of an item that selects it always meet on a lock.   *)
(*                                                                         *)
(* Pure operators: db-migrations/sql/V2 (crablet_writer_lock_keys) and V6  *)
(* (the matching half of crablet_items_match_any).                         *)
(***************************************************************************)
EXTENDS Naturals

CONSTANTS Types,      \* event types
          Tags,       \* tags ("key=value")
          LockHash    \* hashtextextended: lock key -> advisory lock number

Item  == [types : SUBSET Types, tags : SUBSET Tags]
Event == [type : Types, tags : SUBSET Tags]

(* Query.all(): one item with neither types nor tags. *)
AllEvents == {[types |-> {}, tags |-> {}]}

(* An item selects an event of one of its types that carries all of its    *)
(* tags; no types is any type.                                             *)
ItemMatches(i, e) == /\ i.types = {} \/ e.type \in i.types
                     /\ i.tags \subseteq e.tags

(* A query is an OR of items. *)
Matches(q, e) == \E i \in q : ItemMatches(i, e)

-----------------------------------------------------------------------------
(* The three levels of writer locks: "L:type|tag", "T:type" and "G". *)
LeafKey(t, g) == <<"L", t, g>>
TypeKey(t)    == <<"T", t>>
GlobalKey     == <<"G">>

LockKeys == {LeafKey(t, g) : t \in Types, g \in Tags}
            \cup {TypeKey(t) : t \in Types} \cup {GlobalKey}

(* The hash may map two keys to one number; nothing here needs it not to.  *)
ASSUME LockHashType == LockHash \in [LockKeys -> Nat]

(* What one appended event asks for: <<key, mode>> pairs. *)
EventWants(e) ==
  {<<LeafKey(e.type, g), "exclusive">> : g \in e.tags}
  \cup {<<TypeKey(e.type), "shared">>, <<GlobalKey, "shared">>}

(* What one condition item asks for: its (type, tag) pairs; the type alone *)
(* when it has no tags; everything when it has no types.                   *)
ItemWants(i) ==
  CASE i.types = {}                 -> {<<GlobalKey, "exclusive">>}
    [] i.types # {} /\ i.tags = {}  -> {<<TypeKey(t), "exclusive">> : t \in i.types}
    [] i.types # {} /\ i.tags # {}  -> {<<LeafKey(t, g), "exclusive">> : t \in i.types, g \in i.tags}

Wanted(events, items) == (UNION {EventWants(e) : e \in events}) \cup (UNION {ItemWants(i) : i \in items})

(* crablet_writer_lock_keys: one lock per distinct number, exclusive if    *)
(* any use of it is.                                                       *)
Lock == [id : Nat, excl : BOOLEAN]

WriterLocks(events, items) ==
  {[id   |-> LockHash[w[1]],
    excl |-> \E v \in Wanted(events, items) : LockHash[v[1]] = LockHash[w[1]] /\ v[2] = "exclusive"]
     : w \in Wanted(events, items)}

(* Two transactions cannot hold these at the same time. *)
Incompatible(h, g) == h.id = g.id /\ (h.excl \/ g.excl)
=============================================================================
