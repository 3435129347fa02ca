------------------------------- MODULE EventDefs -------------------------------
(***************************************************************************)
(* Event definitions (defineEvent), what their schemas mark personal, the  *)
(* fixtures of the shapes events were written in and the impact of an      *)
(* event on the decision models: the pure part of how events evolve.       *)
(*                                                                         *)
(* A stored value is [leaf |-> x], [keys |-> a function of field names] or *)
(* [items |-> a sequence].  A schema is the tree that Personal.ts walks.   *)
(* Kinds of scalars, transformed fields (an Instant), tuples, the wording  *)
(* of issues and the coverage of fixtures are left out.                    *)
(***************************************************************************)
EXTENDS Naturals, SequencesExt, FiniteSetsExt

Scalar == [kind |-> "scalar", marked |-> FALSE]
Struct(fields, optional) ==
  [kind |-> "objects", marked |-> FALSE, fields |-> fields, optional |-> optional, index |-> {}]
RecordOf(item) ==
  [kind |-> "objects", marked |-> FALSE, fields |-> <<>>, optional |-> {}, index |-> {item}]
ArrayOf(item) == [kind |-> "arrays", marked |-> FALSE, rest |-> item]
Union(types) == [kind |-> "union", marked |-> FALSE, types |-> types]

(* The no-op check that marks a field, in whatever order it was added. *)
personal(ast) == [ast EXCEPT !.marked = TRUE]

isRecord(v) == "keys" \in DOMAIN v
isArray(v) == "items" \in DOMAIN v

(* Every string and number in a value. *)
RECURSIVE collect(_)
collect(v) == IF isRecord(v) THEN UNION {collect(v.keys[f]) : f \in DOMAIN v.keys}
              ELSE IF isArray(v) THEN UNION {collect(v.items[n]) : n \in DOMAIN v.items}
              ELSE {v.leaf}

-----------------------------------------------------------------------------
(* Decoding *)

RECURSIVE Fits(_, _)
Fits(ast, v) ==
  CASE ast.kind = "scalar" -> ~ isRecord(v) /\ ~ isArray(v)
    [] ast.kind = "arrays" -> isArray(v) /\ \A n \in DOMAIN v.items : Fits(ast.rest, v.items[n])
    [] ast.kind = "union"  -> \E n \in DOMAIN ast.types : Fits(ast.types[n], v)
    [] ast.kind = "objects" ->
         /\ isRecord(v)
         /\ (DOMAIN ast.fields) \ ast.optional \subseteq DOMAIN v.keys
         /\ \A f \in DOMAIN v.keys : LET as == IF f \in DOMAIN ast.fields THEN {ast.fields[f]} ELSE ast.index
                                     IN \A a \in as : Fits(a, v.keys[f])

(* What a reader gets: fields the schema does not know are left out.  A    *)
(* union reads as the first of its members that fits.                      *)
RECURSIVE decode(_, _)
decode(ast, v) ==
  CASE ast.kind = "scalar" -> v
    [] ast.kind = "arrays" -> [items |-> [n \in DOMAIN v.items |-> decode(ast.rest, v.items[n])]]
    [] ast.kind = "union"  -> decode(ast.types[Min({n \in DOMAIN ast.types : Fits(ast.types[n], v)})], v)
    [] ast.kind = "objects" ->
         [keys |-> [f \in {f \in DOMAIN v.keys : f \in DOMAIN ast.fields \/ ast.index # {}} |->
                      IF f \in DOMAIN ast.fields THEN decode(ast.fields[f], v.keys[f])
                      ELSE decode(CHOOSE i \in ast.index : TRUE, v.keys[f])]]

-----------------------------------------------------------------------------
(* Personal data *)

(* The paths of what is marked; "*" is every value of a record, "[]" every *)
(* element of an array.                                                    *)
RECURSIVE personalPaths(_)
personalPaths(ast) ==
  LET under(step, a) == {<<step>> \o p : p \in personalPaths(a)}
      below == CASE ast.kind = "objects" -> UNION ({under(f, ast.fields[f]) : f \in DOMAIN ast.fields}
                                                   \cup {under("*", a) : a \in ast.index})
                 [] ast.kind = "arrays" -> under("[]", ast.rest)
                 [] ast.kind = "union"  -> UNION {personalPaths(ast.types[n]) : n \in DOMAIN ast.types}
                 [] OTHER -> {}
  IN  below \cup (IF ast.marked THEN {<<>>} ELSE {})

RECURSIVE ValuesAt(_, _)
ValuesAt(v, path) ==
  IF path = <<>> THEN collect(v)
  ELSE LET into == CASE Head(path) = "[]" -> IF isArray(v) THEN Range(v.items) ELSE {}
                     [] Head(path) = "*"  -> IF isRecord(v) THEN Range(v.keys) ELSE {}
                     [] OTHER -> IF isRecord(v) THEN {v.keys[f] : f \in {Head(path)} \cap DOMAIN v.keys} ELSE {}
       IN  UNION {ValuesAt(u, Tail(path)) : u \in into}

personalValues(ast, v) == UNION {ValuesAt(v, p) : p \in personalPaths(ast)}

REDACTED == [leaf |-> "[redacted]"]

(* Keys the schema does not know are left alone.  In a union the first     *)
(* member that changes the value applies.                                  *)
RECURSIVE redact(_, _)
redact(ast, v) ==
  CASE ast.marked -> REDACTED
    [] ~ ast.marked /\ ast.kind = "objects" /\ isRecord(v) ->
         [keys |-> [f \in DOMAIN v.keys |->
                      IF f \in DOMAIN ast.fields THEN redact(ast.fields[f], v.keys[f])
                      ELSE IF ast.index # {} THEN redact(CHOOSE i \in ast.index : TRUE, v.keys[f])
                      ELSE v.keys[f]]]
    [] ~ ast.marked /\ ast.kind = "arrays" /\ isArray(v) ->
         [items |-> [n \in DOMAIN v.items |-> redact(ast.rest, v.items[n])]]
    [] ~ ast.marked /\ ast.kind = "union" ->
         LET changes == {n \in DOMAIN ast.types : redact(ast.types[n], v) # v}
         IN  IF changes = {} THEN v ELSE redact(ast.types[Min(changes)], v)
    [] OTHER -> v

canHold(ast, v) == CASE ast.kind = "objects" -> isRecord(v) [] ast.kind = "arrays" -> isArray(v)
                     [] OTHER -> ast.kind # "scalar"

size(v) == IF isRecord(v) THEN Cardinality(DOMAIN v.keys) ELSE IF isArray(v) THEN Len(v.items) ELSE 0

(* Only the keys the schema knows; of a union, the member of the value's   *)
(* shape that keeps the most (the first of those).                         *)
RECURSIVE keep(_, _)
keep(ast, v) ==
  CASE ast.kind = "objects" /\ isRecord(v) ->
         [keys |-> [f \in {f \in DOMAIN v.keys : f \in DOMAIN ast.fields \/ ast.index # {}} |->
                      IF f \in DOMAIN ast.fields THEN keep(ast.fields[f], v.keys[f])
                      ELSE keep(CHOOSE i \in ast.index : TRUE, v.keys[f])]]
    [] ast.kind = "arrays" /\ isArray(v) -> [items |-> [n \in DOMAIN v.items |-> keep(ast.rest, v.items[n])]]
    [] ast.kind = "union" ->
         LET kept == {n \in DOMAIN ast.types : canHold(ast.types[n], v)}
             most == {n \in kept : \A k \in kept : size(keep(ast.types[n], v)) >= size(keep(ast.types[k], v))}
         IN  IF kept = {} THEN v ELSE keep(ast.types[Min(most)], v)
    [] OTHER -> v

(* A mutated form: what no definition knows is shown. *)
RedactedOnly(ast, v) == redact(ast, v)

exposed(ast, v) == keep(ast, redact(ast, v))

(* What the log API shows of a payload: nothing of a type with no          *)
(* definition.                                                             *)
eventPayloadMask(definitions, type, v) ==
  IF type \in DOMAIN definitions THEN {exposed(definitions[type].schema, v)} ELSE {}

-----------------------------------------------------------------------------
(* Building: a definition is its schema and, for each tag key, the field   *)
(* its values come from (an array gives a tag for each element).           *)

DerivedTags(d, data) ==
  UNION {{[key |-> k, value |-> x] : x \in ValuesAt(data, <<d.tags[k]>>)} : k \in DOMAIN d.tags}

guardTags(d, data, tags) == \A t \in tags : t.value \notin personalValues(d.schema, data)

CanBuild(d, data, extraTags) == Fits(d.schema, data) /\ guardTags(d, data, DerivedTags(d, data) \cup extraTags)

(* What verifyEvents asks of a stored event: that it decodes and, if it    *)
(* can be built again, that no tag is derived now that it does not have.   *)
Reads(d, e) == /\ Fits(d.schema, e.data)
               /\ LET data == decode(d.schema, e.data)
                  IN  CanBuild(d, data, {}) => DerivedTags(d, data) \subseteq e.tags

-----------------------------------------------------------------------------
(* Fixtures *)

fixtureOf(e, scopeTags) == [type |-> e.type, data |-> e.data, tags |-> e.tags, scopeTags |-> scopeTags]

checkEventFixture(definitions, f) ==
  IF f.type \notin DOMAIN definitions THEN {"no_definition"}
  ELSE LET d == definitions[f.type] IN
       IF ~ Fits(d.schema, f.data) THEN {"undecodable"}
       ELSE LET data == decode(d.schema, f.data)
                derived == DerivedTags(d, data)
            IN  IF ~ CanBuild(d, data, {}) THEN {"cannot_build"}
                ELSE {"invented_tag" : t \in derived \ f.tags}
                     \cup {"lost_tag" : t \in {t \in f.tags : t.key \notin f.scopeTags} \ derived}

assertEventFixtures(definitions, fixtures) == \A f \in fixtures : checkEventFixture(definitions, f) = {}

-----------------------------------------------------------------------------
(* Impact: a model is what it handles, ignores and binds by. *)

eventFactsFromFixtures(definitions, fixtures) ==
  [type \in DOMAIN definitions |->
     LET d == definitions[type]
         built == {decode(d.schema, f.data) : f \in {f \in fixtures : f.type = type /\ Fits(d.schema, f.data)}}
     IN  UNION {{t.key : t \in DerivedTags(d, data)} : data \in {b \in built : CanBuild(d, b, {})}}]

(* Pairs of a model and a type it does not account for that carries a key  *)
(* it binds by.                                                            *)
Findings(facts, models) ==
  {<<m, type>> \in (DOMAIN models) \X (DOMAIN facts) :
     /\ type \notin models[m].handles \cup models[m].ignores
     /\ facts[type] \cap models[m].bindings # {}}

isExplained(reason) == reason = "explained"

newFindings(findings, baseline) == findings \ (DOMAIN baseline)

(* A mutated form: entries that are no longer findings are left alone. *)
NoneStale(findings, baseline) == {}

staleBaseline(findings, baseline) == (DOMAIN baseline) \ findings

unexplained(findings, baseline) == {p \in (DOMAIN baseline) \cap findings : ~ isExplained(baseline[p])}

modelImpactOk(findings, baseline) ==
  newFindings(findings, baseline) \cup staleBaseline(findings, baseline) \cup unexplained(findings, baseline) = {}

(* The baseline of these findings: reasons already written are kept. *)
baselineOf(findings, previous) == [p \in findings |-> IF p \in DOMAIN previous THEN previous[p] ELSE ""]
=============================================================================
