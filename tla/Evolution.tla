------------------------------- MODULE Evolution -------------------------------
(***************************************************************************)
(* Events over the releases of an application.  Pods of several releases   *)
(* write to one log and show it; verifyEvents walks it with the            *)
(* definitions of one of them; fixtures are captured from it and checked   *)
(* before a release is deployed; and a working copy whose events and       *)
(* models change is checked against its baseline of accepted findings.     *)
(* These do not act on each other: a behaviour is a verification of what   *)
(* all releases write, a deployment, or the working copy (`scene`).        *)
(*                                                                         *)
(* Left out: the counts a verification starts with and the figures of its  *)
(* report, and a deadline's input inside its fixture.                      *)
(***************************************************************************)
EXTENDS EventLog, EventDefs

CONSTANTS Catalogue,        \* the releases: their definitions and models
          Data,             \* payloads the application may build
          Scopes,           \* sets of extra tags an event may be given
          PageSize, SampleSize,
          MaxXid, MaxPos    \* bounds: transactions, rows

VARIABLES
  scene,
  pods,        \* the releases that run
  fixtures,
  check,       \* a verification: its options, where it is, what it has checked
  tree,        \* the release in the working copy
  baseline,    \* the baseline file: for a pair accepted, the reason
  ci,          \* the last impact check: did it pass, and with which findings
  written      \* pairs whose reason was written since they last were no finding of a passing check (history)

podVars == <<pods, fixtures, check>>
treeVars == <<tree, baseline, ci, written>>
vars == <<logVars, scene, podVars, treeVars>>

Releases == DOMAIN Catalogue
DefsOf(n) == Catalogue[n].defs

(* A field that later releases keep keeps its mark. *)
ASSUME MarksStay == \A n, k \in Releases : n < k =>
  \A type \in (DOMAIN DefsOf(n)) \cap (DOMAIN DefsOf(k)), v \in Data :
    LET old == DefsOf(n)[type]
        new == DefsOf(k)[type].schema
    IN  CanBuild(old, v, {}) =>
          personalValues(old.schema, v) \cap collect(keep(new, v)) \subseteq personalValues(new, v)

Init == /\ LogInit
        /\ scene \in {"verification", "deployment", "tree"}
        /\ pods = (IF scene = "verification" THEN Releases ELSE {1}) /\ fixtures = {}
        /\ check = [step |-> "idle", all |-> FALSE, release |-> 1, todo |-> {}, on |-> {}, from |-> 0, after |-> ZeroCursor,
                    checked |-> {}, there |-> {}]
        /\ tree = 1 /\ baseline = <<>> /\ written = {}
        /\ ci = [passed |-> FALSE, accepted |-> {}]

-----------------------------------------------------------------------------
(* The log and the pods *)

(* A pod builds an event (its guards pass) and its transaction inserts it. *)
Writes(x, n) ==
  /\ nextPos <= MaxPos
  /\ \E type \in DOMAIN DefsOf(n), data \in Data, extra \in Scopes :
       LET d == DefsOf(n)[type] IN
       /\ CanBuild(d, data, extra) /\ decode(d.schema, data) = data
       /\ InsertRow(x, [type |-> type, by |-> n, data |-> data, tags |-> DerivedTags(d, data) \cup extra])
  /\ UNCHANGED podVars

WriterStep == \/ nextXid <= MaxXid /\ AssignXid /\ UNCHANGED podVars
              \/ \E x \in running : \/ \E n \in pods : Writes(x, n)
                                    \/ (CommitXid(x) \/ AbortXid(x)) /\ UNCHANGED podVars

(* A payload of the log becomes a fixture, with the keys of its extra tags.*)
Captures(r) == /\ LET extra == r.data.tags \ DerivedTags(DefsOf(r.data.by)[r.data.type], r.data.data)
                  IN  fixtures' = fixtures \cup {fixtureOf(r.data, {t.key : t \in extra})}
               /\ UNCHANGED <<logVars, pods, check>>

(* A release goes out beside those that run, its fixtures checked. *)
Deploys(n) == /\ n \notin pods
              /\ assertEventFixtures(DefsOf(n), fixtures)
              /\ pods' = pods \cup {n}
              /\ UNCHANGED <<logVars, fixtures, check>>

-----------------------------------------------------------------------------
(* verifyEvents *)

StartsVerifying ==
  /\ check.step = "idle"
  /\ \E n \in Releases, all \in BOOLEAN, from \in 1 .. MaxPos : \E types \in (SUBSET DOMAIN DefsOf(n)) \ {{}} :
       check' = [check EXCEPT !.step = "types", !.all = all, !.release = n, !.todo = types, !.from = from]
  /\ UNCHANGED <<logVars, pods, fixtures>>

(* A mutated form: whatever is committed is on the page. *)
OnceCommitted(r) == r.xid \in committed

IsFinished(r) == r.xid \in committed /\ Settled(r)

OfType(type) == {r \in rows : r.data.type = type}
InWindow(S) == {r \in S : r.pos >= check.from}

(* A page of one type's events, after the cursor of the one before; one    *)
(* that is not full is the last.                                           *)
ReadsPage(type) ==
  /\ check.step = "types" /\ check.all /\ type \in check.todo /\ check.on \subseteq {type}
  /\ LET there == {r \in OfType(type) : IsFinished(r)}
         ahead == {r \in there : After(r, check.after)}
     IN  \E page \in SUBSET ahead :
           /\ Cardinality(page) = Lesser(Cardinality(ahead), PageSize)
           /\ \A r \in page, q \in ahead : After(r, q) => q \in page
           /\ LET seen == [check EXCEPT !.checked = @ \cup InWindow(page)]
              IN check' = IF Cardinality(page) = PageSize
                          THEN [seen EXCEPT !.after = LastOf(page, @), !.on = {type}]
                          ELSE [seen EXCEPT !.after = ZeroCursor, !.on = {}, !.todo = @ \ {type}, !.there = @ \cup InWindow(there)]
  /\ UNCHANGED <<logVars, pods, fixtures>>

(* Without `all`: some of what is committed. *)
ReadsSample(type) ==
  /\ check.step = "types" /\ ~ check.all /\ type \in check.todo
  /\ LET there == InWindow(OfType(type) \cap CommittedRows)
     IN  \E S \in SUBSET there :
           /\ Cardinality(S) = Lesser(Cardinality(there), SampleSize)
           /\ check' = [check EXCEPT !.todo = @ \ {type}, !.checked = @ \cup S]
  /\ UNCHANGED <<logVars, pods, fixtures>>

EndsVerifying == /\ check.step = "types" /\ check.todo = {}
                 /\ check' = [check EXCEPT !.step = "done"]
                 /\ UNCHANGED <<logVars, pods, fixtures>>

ReadBy(r) == Reads(DefsOf(check.release)[r.data.type], r.data)
Ok == check.step = "done" /\ \A r \in check.checked : ReadBy(r)

-----------------------------------------------------------------------------
(* The working copy *)

Found == Findings(eventFactsFromFixtures(DefsOf(tree), fixtures), Catalogue[tree].models)
Pairs == UNION {(DOMAIN Catalogue[n].models) \X (DOMAIN DefsOf(n)) : n \in Releases}

Works == /\ tree' \in Releases \ {tree}
         /\ UNCHANGED <<baseline, written, fixtures>>

AddsFixture == /\ \E type \in DOMAIN DefsOf(tree), data \in Data :
                    LET d == DefsOf(tree)[type] IN
                    /\ CanBuild(d, data, {})
                    /\ fixtures' = fixtures \cup {fixtureOf([type |-> type, data |-> data, tags |-> DerivedTags(d, data)], {})}
               /\ UNCHANGED <<tree, baseline, written>>

(* A person writes a reason, or takes an entry out. *)
WritesReason == /\ \E p \in Pairs, reason \in {"short", "explained"} :
                     /\ baseline' = [q \in (DOMAIN baseline) \cup {p} |-> IF q = p THEN reason ELSE baseline[q]]
                     /\ written' = written \cup {p}
                /\ UNCHANGED <<tree, fixtures>>

RemovesEntry == /\ \E p \in DOMAIN baseline :
                     /\ baseline' = [q \in (DOMAIN baseline) \ {p} |-> baseline[q]]
                     /\ written' = written \ {p}
                /\ UNCHANGED <<tree, fixtures>>

assertModelImpact(update) ==
  LET compared == IF update THEN baselineOf(Found, baseline) ELSE baseline
      passed == modelImpactOk(Found, compared)
  IN  /\ baseline' = compared
      /\ ci' = [passed |-> passed, accepted |-> IF passed THEN Found ELSE {}]
      /\ written' = IF passed THEN written \cap Found ELSE written
      /\ UNCHANGED <<tree, fixtures>>

TreeStep == \/ (Works \/ AddsFixture \/ WritesReason \/ RemovesEntry) /\ ci' = [passed |-> FALSE, accepted |-> {}]
            \/ \E update \in BOOLEAN : assertModelImpact(update)

-----------------------------------------------------------------------------
DeploymentStep == \/ \E r \in CommittedRows : Captures(r)
                  \/ \E n \in Releases : Deploys(n)

VerificationStep == \/ StartsVerifying \/ EndsVerifying
                    \/ \E type \in check.todo : ReadsPage(type) \/ ReadsSample(type)

Next == /\ UNCHANGED scene
        /\ \/ scene # "tree" /\ WriterStep /\ UNCHANGED treeVars
           \/ scene = "deployment" /\ DeploymentStep /\ UNCHANGED treeVars
           \/ scene = "verification" /\ VerificationStep /\ UNCHANGED treeVars
           \/ scene = "tree" /\ TreeStep /\ UNCHANGED <<logVars, pods, check>>

Spec == Init /\ [][Next]_vars

-----------------------------------------------------------------------------
(* A verification of every event that finds nothing answers for every      *)
(* event of its types and window that was finished when it came to the end *)
(* of its type: it decodes, and has every tag derived now, in whatever     *)
(* order transactions took their ids and positions and committed while it  *)
(* went on (VerifyEvents.ts).                                              *)
VerifiedIsReadable == (Ok /\ check.all) => \A r \in check.there : ReadBy(r)

(* Whatever release wrote an event and whatever release shows it, nothing  *)
(* its writer marked personal is in what the log API shows of it, payload  *)
(* or tags: an old shape's fields are not those of today's schema          *)
(* (Personal.ts).                                                          *)
NothingPersonalIsShown ==
  \A r \in rows, n \in pods :
    LET secret == personalValues(DefsOf(r.data.by)[r.data.type].schema, r.data.data)
    IN  /\ \A shown \in eventPayloadMask(DefsOf(n), r.data.type, r.data.data) : collect(shown) \cap secret = {}
        /\ {t.value : t \in r.data.tags} \cap secret = {}

(* What a passing impact check accepts was accepted for what it is now: a  *)
(* pair that was resolved and is a finding again needs a reason written    *)
(* since, whoever refreshed the baseline in between (ModelImpact.ts).      *)
ReasonsAreOfNow == ci.passed => ci.accepted \subseteq written
=============================================================================
