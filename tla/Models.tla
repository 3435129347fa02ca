------------------------------- MODULE Models -------------------------------
(***************************************************************************)
(* defineModel: from the handlers a model declares come the query of the   *)
(* events it reads, the fold of them, and the tags an event about to be    *)
(* appended lacks.  And a model with a period: an entity's events of one   *)
(* period, and the events that turn it.  A load is one read of the log     *)
(* here; Period and Command take it read by read.                          *)
(***************************************************************************)
EXTENDS AppendSpec

CONSTANTS Handlers,          \* what is declared: [type, lifecycle, by], `by` the tag keys it is bound through
          Initial,
          Handle(_, _, _),   \* the state after an event, for the entity id
          OpenedType, ClosedType, By,
          Tags(_),           \* the tags of a period
          Fields(_),         \* the period an opening or closing says it is of
          AtLeast(_, _),     \* the order of two periods' keys, as text
          Open(_, _, _), Close(_, _, _), \* the events of a turn: the state, the entity, the period
          None               \* no period

(* Events of one kind bound by one tag share an item; a lifecycle event is of every period. *)
ItemOf(id, scope, lifecycle, binding) ==
    Item({h.type : h \in {g \in Handlers : g.lifecycle = lifecycle /\ binding \in g.by}},
         {<<binding, id>>} \cup (IF lifecycle THEN {} ELSE scope))
queryOf(id, scope, kinds) ==
    {item \in {ItemOf(id, scope, k, b) : k \in kinds, b \in UNION {h.by : h \in Handlers}} : item.types # {}}
modelQuery(id, scope) == queryOf(id, scope, BOOLEAN)
lifecycleQuery(id) == queryOf(id, {}, {TRUE})

foldWith(state, events, query, id) ==
    FoldLeft(LAMBDA s, e : IF queryMatches(query, e) THEN Handle(s, e, id) ELSE s, state, events)

(* What a load hands a command: the state it decides on, the events that turn the period, what its append is conditioned on. *)
Loaded(state, prefix, boundary, guard, scope, period) ==
    [state |-> state, prefix |-> prefix, boundary |-> boundary, guard |-> guard, scope |-> scope, period |-> period, dies |-> FALSE]

(* A model of the whole of an entity. *)
load(log, id) == LET query == modelQuery(id, {}) IN Loaded(foldWith(Initial, log, query, id), <<>>, query, {}, {}, None)

(* The event with the tags it needs to be read back; another value under such a key is a conflict. *)
completeWith(e, id, scope) ==
    LET scoped == \E h \in Handlers : h.type = e.type /\ ~ h.lifecycle /\ \E b \in h.by : <<b, id>> \in e.tags
        lacking == IF scoped THEN scope \ e.tags ELSE {}
        absent == {t \in lacking : \A u \in e.tags : u[1] # t[1]}
    IN  [event |-> [e EXCEPT !.tags = @ \cup absent], conflicts |-> lacking \ absent]

-----------------------------------------------------------------------------
trackingQuery(id) == {Item({OpenedType, ClosedType}, {<<By, id>>})}
closingQuery(id, p) == {Item({ClosedType}, {<<By, id>>} \cup Tags(p))}

(* The period the last opening opened, unless a later closing closed it. *)
tracking(log, id) ==
    FoldLeft(LAMBDA open, e : IF e.type = OpenedType THEN Fields(e) ELSE IF open = Fields(e) THEN None ELSE open,
             None, matching(log, trackingQuery(id)))

(* A period of an entity as its rows tell it. *)
ReadFrom(rows, query, id) ==
    [s |-> foldWith(Initial, rows, query, id), query |-> query,
     open |-> (\E e \in ToSet(rows) : e.type = OpenedType) /\ (\A e \in ToSet(rows) : e.type # ClosedType),
     closed |-> \E e \in ToSet(rows) : e.type = ClosedType]
read(log, id, p) == LET query == modelQuery(id, Tags(p)) IN ReadFrom(matching(log, query), query, id)

inOpen(r, id, p) == Loaded(r.s, <<>>, r.query, closingQuery(id, p), Tags(p), p)
dies == [Loaded(Initial, <<>>, {}, {}, {}, None) EXCEPT !.dies = TRUE]

(* From the period that is open (None: none is) to that of now, with the state carried forward. *)
turned(id, target, first, current, old) ==
    LET opening == Open(IF current = None THEN first.s ELSE old.s, id, target)
    IN  Loaded(Handle(first.s, opening, id), (IF current = None THEN <<>> ELSE <<Close(old.s, id, current)>>) \o <<opening>>,
               first.query \cup trackingQuery(id) \cup (IF current = None THEN {} ELSE old.query), {}, Tags(target), target)

\* mutant: what is open is kept
KeepsOpen(log, id, target) ==
    LET current == tracking(log, id)
    IN  IF current # None THEN inOpen(read(log, id, current), id, current) ELSE turned(id, target, read(log, id, target), None, dies)
(* What a load makes of the period of now (`first`) and the one that is open (`old`): a period is never turned back, and a closed one is not *)
(* opened again.                                                                                                                           *)
LoadedFrom(id, target, first, current, old) ==
    IF first.open THEN inOpen(first, id, target)
    ELSE IF current # None /\ AtLeast(current, target) THEN IF old.open THEN inOpen(old, id, current) ELSE dies
    ELSE IF current = None /\ first.closed THEN dies
    ELSE turned(id, target, first, current, old)
(* The load of a model with a period. *)
loadPeriod(log, id, target) ==
    LET current == tracking(log, id) IN LoadedFrom(id, target, read(log, id, target), current, read(log, id, current))

-----------------------------------------------------------------------------
(* A model over several entities: what each of its members loaded, as one. *)
all(members) ==
    [state |-> [i \in DOMAIN members |-> members[i].state],
     period |-> [i \in DOMAIN members |-> members[i].period],
     prefix |-> FlattenSeq([i \in DOMAIN members |-> members[i].prefix]),
     boundary |-> UNION {m.boundary : m \in ToSet(members)},
     guard |-> UNION {m.guard : m \in ToSet(members)},
     dies |-> \E m \in ToSet(members) : m.dies]
=============================================================================
