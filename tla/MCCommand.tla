----------------------------- MODULE MCCommand ------------------------------
(***************************************************************************)
(* Wallets: w1 is open and holds one unit, w2 is still to be opened, the   *)
(* card c1 names w1; bookings are kept by period.                          *)
(***************************************************************************)
EXTENDS CommandProofs, TLC

TypeSeq == <<"Opened", "Closed", "Deposited", "Withdrawn", "Card", "Greeted", "Started", "Ended", "Booked">>
TagSeq  == <<"w1", "w2", "alice", "bob", "d1", "x1", "x2", "c1", "p1", "p2", "p3", "b1", "b2",
             "sum 0", "sum 1", "sum 2", "sum 3">>

MCTypes == {TypeSeq[i] : i \in 1 .. Len(TypeSeq)}
MCTags  == {TagSeq[i] : i \in 1 .. Len(TagSeq)}

IndexIn(seq, v) == CHOOSE i \in 1 .. Len(seq) : seq[i] = v

(* A lock for every key. *)
MCLockHash ==
  [k \in LockKeys |->
     CASE k[1] = "G" -> 0
       [] k[1] = "T" -> IndexIn(TypeSeq, k[2])
       [] k[1] = "L" -> 100 * IndexIn(TypeSeq, k[2]) + IndexIn(TagSeq, k[3])]

Ev(type, tags)   == [type |-> type, tags |-> tags]
Is(types, tags)  == [types |-> types, tags |-> tags]

-----------------------------------------------------------------------------
(* The requests. *)
Cmd(id, cause, key, consistency, guard) ==
  [id |-> id, cause |-> cause, idempotentBy |-> key, byModel |-> FALSE,
   consistency |-> consistency, guard |-> guard, timed |-> FALSE]

OnceByModel(id)    == [Cmd(id, NoCause, {}, "strict", {}) EXCEPT !.byModel = TRUE]
Keyed(id, type, t) == Cmd(id, NoCause, {Is({type}, {t})}, "strict", {})
Lifecycle(w)       == {Is({"Opened", "Closed"}, {w})}

OpenAlice  == OnceByModel("open alice")
OpenBob    == OnceByModel("open bob")
Deposit    == Cmd("deposit", NoCause, {Is({"Deposited"}, {"d1"})}, "concurrent", Lifecycle("w1"))
DepositTwo == [Deposit EXCEPT !.id = "deposit two"]
Withdraw1  == Keyed("withdraw x1", "Withdrawn", "x1")
Withdraw2  == Keyed("withdraw x2", "Withdrawn", "x2")
Close      == OnceByModel("close")
Careless   == OnceByModel("careless")       \* its model does not show what it did
MoveCard   == OnceByModel("move card")
Pay        == Keyed("pay", "Withdrawn", "x1")  \* from the wallet the card names

(* An automation's: without a key, with one, and with the same key and     *)
(* another input.                                                          *)
Greet      == Cmd("greet", "trigger", {}, "concurrent", {})
GreetKeyed == Cmd("greet keyed", "trigger", {Is({"Greeted"}, {"w2"})}, "concurrent", {})
GreetAgain == [GreetKeyed EXCEPT !.id = "greet again"]

(* A lookup over the type the command appends. *)
GreetOnce  == Cmd("greet once", NoCause, {}, "concurrent", {})

(* Of the model with a period. *)
Timed(id, t) == [Cmd(id, NoCause, {Is({"Booked"}, {t})}, "concurrent", Lifecycle("w1")) EXCEPT !.timed = TRUE]
Book1      == Timed("book 1", "b1")
Book2      == Timed("book 2", "b2")
Statement  == [Cmd("statement", NoCause, {}, "strict", {}) EXCEPT !.timed = TRUE]

MCRequests == {OpenAlice, OpenBob, Deposit, DepositTwo, Withdraw1, Withdraw2, Close, Careless, MoveCard,
               Pay, Greet, GreetKeyed, GreetAgain, GreetOnce, Book1, Book2, Statement}

Start(e) == [event |-> e, xid |-> 1, at |-> 0, cause |-> NoCause, fingerprint |-> NoFingerprint,
             request |-> OpenAlice, now |-> 0, by |-> 0]

MCInitialRows == {Start(Ev("Opened", {"w1", "alice"})), Start(Ev("Deposited", {"w1"})),
                  Start(Ev("Card", {"c1", "w1"}))}

-----------------------------------------------------------------------------
(* The model with a period: what was booked, with what earlier periods     *)
(* carried over.                                                           *)
MCTagOfPeriod(p) == <<"p1", "p2", "p3">>[p]

SumTag(n) == IF n \in 0 .. 2 THEN <<"sum 0", "sum 1", "sum 2">>[n + 1] ELSE "sum 3"

Count(rows, type) == Cardinality({r \in rows : r.event.type = type})

Sum(rows) == Count(rows, "Booked") + (IF \E r \in rows : r.event.type = "Started" /\ "sum 1" \in r.event.tags THEN 1
                                      ELSE IF \E r \in rows : r.event.type = "Started" /\ "sum 2" \in r.event.tags THEN 2
                                      ELSE 0)

MCLifecycleTypes == {"Opened", "Closed"}
MCScopedTypes    == {"Started", "Ended", "Booked"}

MCOpening(id, p, rows) == Ev("Started", {id, TagOfPeriod(p), SumTag(Sum(rows))})
MCClosing(id, p, rows) == Ev("Ended", {id, TagOfPeriod(p), SumTag(Sum(rows))})

-----------------------------------------------------------------------------
(* What resolve looks up, and the model the request is decided on. *)
MCLookupOf(q) == CASE q \in {Pay, Greet}         -> {Is({"Card"}, {"c1"})}
                 [] q = GreetOnce       -> {Is({"Greeted"}, {"w2"})}
                 [] OTHER                      -> {}

WalletOf(looked) == IF \E r \in looked : r.event.type = "Card" /\ "w2" \in r.event.tags THEN "w2" ELSE "w1"

Wallet(w) == {Is({"Opened", "Closed", "Deposited", "Withdrawn"}, {w})}

MCModelOf(q, looked) ==
  CASE q \in {OpenAlice, OpenBob}                   -> Wallet("w2")
    [] q \in {Deposit, DepositTwo, Careless}        -> Lifecycle("w1")
    [] q \in {Withdraw1, Withdraw2, Close} -> Wallet("w1")
    [] q = Pay                                      -> Wallet(WalletOf(looked))
    [] q = MoveCard                                 -> {Is({"Card"}, {"c1"})}
    [] OTHER                                        -> {}

MCEntityOf(q, looked) == "w1"

Emit(e) == [tag |-> "emit", events |-> {e}]
Noop    == [tag |-> "noop", events |-> {}]
Refuse  == [tag |-> "fail", events |-> {}]

Has(rows, type) == \E r \in rows : r.event.type = type

(* A closed wallet is not opened again. *)
IsOpen(rows) == Has(rows, "Opened") /\ ~ Has(rows, "Closed")

IfOpen(rows, e) == IF IsOpen(rows) THEN Emit(e) ELSE Refuse

Spend(rows, e) == IF IsOpen(rows) /\ Count(rows, "Deposited") > Count(rows, "Withdrawn") THEN Emit(e) ELSE Refuse

Open(rows, owner) == IF \E r \in rows : r.event = Ev("Opened", {"w2", owner}) THEN Noop
                     ELSE IF rows # {} THEN Refuse
                     ELSE Emit(Ev("Opened", {"w2", owner}))

MCDecide(q, looked, rows) ==
  CASE q = OpenAlice  -> Open(rows, "alice")
    [] q = OpenBob    -> Open(rows, "bob")
    [] q \in {Deposit, DepositTwo} -> IfOpen(rows, Ev("Deposited", {"w1", "d1"}))
    [] q = Withdraw1  -> Spend(rows, Ev("Withdrawn", {"w1", "x1"}))
    [] q = Withdraw2  -> Spend(rows, Ev("Withdrawn", {"w1", "x2"}))
    [] q = Pay        -> IfOpen(rows, Ev("Withdrawn", {WalletOf(looked), "x1"}))
    [] q = Close      -> IF Has(rows, "Closed") THEN Noop ELSE IfOpen(rows, Ev("Closed", {"w1"}))
    [] q = Careless   -> Emit(Ev("Greeted", {"w1"}))
    [] q = MoveCard   -> IF WalletOf(rows) = "w2" THEN Noop ELSE Emit(Ev("Card", {"c1", "w2"}))
    [] q = Greet      -> Emit(Ev("Greeted", {WalletOf(looked)}))
    [] q \in {GreetKeyed, GreetAgain} -> Emit(Ev("Greeted", {"w2"}))
    [] q = GreetOnce  -> IF looked # {} THEN Noop ELSE Emit(Ev("Greeted", {"w2"}))
    [] q = Book1      -> IfOpen(rows, Ev("Booked", {"w1", "b1"}))
    [] q = Book2      -> IfOpen(rows, Ev("Booked", {"w1", "b2"}))
    [] q = Statement  -> Emit(Ev("Booked", {"w1", SumTag(Sum(rows))}))

-----------------------------------------------------------------------------
(* Who sends what: repeats, keys taken by others, changed lookups, models  *)
(* that change between a read and the append.                              *)
RacingSendings ==
  { <<OpenAlice, OpenAlice, OpenBob>>, <<Deposit, Deposit, DepositTwo>>, <<Deposit, DepositTwo, Close>>,
    <<Withdraw1, Withdraw1, Withdraw2>>, <<Withdraw1, Withdraw2, Deposit>>, <<Pay, MoveCard, Close>>,
    <<Greet, Greet, MoveCard>>, <<GreetKeyed, GreetAgain, GreetOnce>>, <<GreetOnce, GreetOnce, Careless>>,
    <<Close, Close, Careless>>, <<Book1, Book1, Book2>>, <<Book1, Book2, Close>>, <<Book1, Statement, Statement>> }

(* Two turns of the period during a third load. *)
TurningSendings == {<<Book1, Book2, Statement>>}

-----------------------------------------------------------------------------
(* These commands are what the theorems ask of commands, here of rows up   *)
(* to two at a time.                                                       *)
SomeEvents == {Ev("Opened", {"w1", "alice"}), Ev("Opened", {"w2", "alice"}), Ev("Closed", {"w1"}),
               Ev("Deposited", {"w1"}), Ev("Withdrawn", {"w1", "x1"}), Ev("Card", {"c1", "w2"}), Ev("Greeted", {"w2"}),
               Ev("Started", {"w1", "p1", "sum 1"}), Ev("Ended", {"w1", "p1", "sum 1"}), Ev("Booked", {"w1", "p1", "b1"})}

RowsOfTwo == LET rows == {Start(e) : e \in SomeEvents} IN {{r, s} : r, s \in rows} \cup {{}}

ASSUME SomeAreWellDefined ==
  /\ \A q \in MCRequests : \A rows \in RowsOfTwo :
       /\ LookupOf(q) \in SUBSET Item /\ ModelOf(q, rows) \in SUBSET Item /\ EntityOf(q, rows) \in Entities
       /\ \A looked \in RowsOfTwo : IsDecision(Decide(q, looked, rows))
  /\ \A id \in Entities, p \in Periods : \A rows \in RowsOfTwo : IsTurn(id, p, rows)

ASSUME SomeAreAsDeclared ==
  \A q \in MCRequests : \A rows, more \in RowsOfTwo :
    /\ NoopStays(q, rows, more) /\ KeyIsKept(q, more, rows)
    /\ \A p \in Periods : RunsBeside(q, p, {}, rows, more)
    /\ \A now, later \in Periods : PromiseIsKept(q, now, later, rows, rows \cup more)
=============================================================================
