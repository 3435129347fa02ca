------------------------------- MODULE Wallet -------------------------------
(***************************************************************************)
(* The wallet example: its events and models, what each command decides,   *)
(* the HTTP answer it gives, its four views and the pages a reader lists.  *)
(*                                                                         *)
(* A command decides on the log as it was when it loaded (the first n      *)
(* events) and by the clock it read then; the log at its append may hold   *)
(* more, and what the append does with them is the store's specification   *)
(* (AppendSpec).  A command that is run again after a conflict is another  *)
(* command here.  A view's rows follow its events at once (Poller, Reads). *)
(* Amounts and periods are numbers; owners, descriptions and the balances  *)
(* that events record for their readers are left out.                      *)
(***************************************************************************)
EXTENDS AppendSpec, FiniteSetsExt

CONSTANTS Wallets, Requests,
          First,           \* the two requests a log begins with
          None, Null, Required, Refused,
          AtLeast(_, _),   \* the order of two periods' keys
          After(_, _),     \* the order of two wallets' ids
          PageSize,
          MaxNow, Skew,    \* bounds: the last period, and how far a command's clock is from now
          MaxEvents        \* bound: no command is run when the log holds this many

VARIABLES log, now, rows, reader
vars == <<log, now, rows, reader>>

T == INSTANCE ViewTable

-----------------------------------------------------------------------------
statementIdOf(w, p) == <<w, p>>
Tags(p) == {<<"period", p>>}
Fields(e) == e.data.period
statementTags(w, p) == {<<"statement_id", statementIdOf(w, p)>>}
OfWallet(w) == {<<"wallet_id", w>>}

WalletOpened(w, balance) == Event("WalletOpened", OfWallet(w), [walletId |-> w, initialBalance |-> balance])
WalletClosed(w) == Event("WalletClosed", OfWallet(w), [walletId |-> w])
WalletStatementOpened(w, p, balance) ==
    Event("WalletStatementOpened", OfWallet(w) \cup statementTags(w, p) \cup Tags(p), [walletId |-> w, period |-> p, openingBalance |-> balance])
WalletStatementClosed(w, p, opening, closing) ==
    Event("WalletStatementClosed", OfWallet(w) \cup statementTags(w, p) \cup Tags(p),
          [walletId |-> w, period |-> p, openingBalance |-> opening, closingBalance |-> closing])
DepositMade(r, at, extra) == Event("DepositMade", OfWallet(r.wallet) \cup {<<"deposit_id", r.id>>} \cup extra, [walletId |-> r.wallet, id |-> r.id, amount |-> r.amount, at |-> at])
WithdrawalMade(r, at, extra) == Event("WithdrawalMade", OfWallet(r.wallet) \cup {<<"withdrawal_id", r.id>>} \cup extra, [walletId |-> r.wallet, id |-> r.id, amount |-> r.amount, at |-> at])
MoneyTransferred(r, at, extra) ==
    Event("MoneyTransferred", {<<"transfer_id", r.id>>, <<"from_wallet_id", r.wallet>>, <<"to_wallet_id", r.to>>} \cup extra,
          [fromWalletId |-> r.wallet, toWalletId |-> r.to, id |-> r.id, amount |-> r.amount, at |-> at])
WelcomeNotificationSent(w) == Event("WelcomeNotificationSent", OfWallet(w), [walletId |-> w])

-----------------------------------------------------------------------------
(* The models.  Amounts are folded, never balances. *)
Handler(type, lifecycle, by) == [type |-> type, lifecycle |-> lifecycle, by |-> by]
ByWallet == {"wallet_id"}

WalletHandlers ==
    {Handler("WalletOpened", TRUE, ByWallet), Handler("WalletClosed", TRUE, ByWallet),
     Handler("WalletStatementOpened", FALSE, ByWallet), Handler("WalletStatementClosed", FALSE, ByWallet),
     Handler("DepositMade", FALSE, ByWallet), Handler("WithdrawalMade", FALSE, ByWallet),
     Handler("MoneyTransferred", FALSE, {"from_wallet_id", "to_wallet_id"})}

walletFold(w, e, id) ==
    CASE e.type = "WalletOpened" -> [exists |-> TRUE, balance |-> e.data.initialBalance, openingBalance |-> e.data.initialBalance]
      [] e.type = "WalletClosed" -> [w EXCEPT !.exists = FALSE]
      [] e.type = "WalletStatementOpened" -> [w EXCEPT !.balance = e.data.openingBalance, !.openingBalance = e.data.openingBalance]
      [] e.type = "DepositMade" -> [w EXCEPT !.balance = @ + e.data.amount]
      [] e.type = "WithdrawalMade" -> [w EXCEPT !.balance = @ - e.data.amount]
      [] e.type = "MoneyTransferred" -> [w EXCEPT !.balance = @ + (IF e.data.toWalletId = id THEN e.data.amount ELSE - e.data.amount)]
      [] OTHER -> w

LifecycleFold(w, e, id) == [exists |-> e.type = "WalletOpened", closed |-> e.type = "WalletClosed"]
OpeningFold(opened, e, id) == e.data.initialBalance

NoWallet == [exists |-> FALSE, balance |-> 0, openingBalance |-> 0]
OpenStatement(carry, w, p) == WalletStatementOpened(w, p, carry.balance)
CloseStatement(state, w, p) == WalletStatementClosed(w, p, state.openingBalance, state.balance)

WalletPeriodModel == INSTANCE Models WITH
    Handlers <- WalletHandlers, Handle <- walletFold, Initial <- NoWallet, Open <- OpenStatement, Close <- CloseStatement,
    By <- "wallet_id", OpenedType <- "WalletStatementOpened", ClosedType <- "WalletStatementClosed"
WalletLifecycleModel == INSTANCE Models WITH
    Handlers <- {h \in WalletHandlers : h.lifecycle}, Handle <- LifecycleFold, Initial <- [exists |-> FALSE, closed |-> FALSE],
    Open <- OpenStatement, Close <- CloseStatement, By <- "wallet_id", OpenedType <- None, ClosedType <- None
WalletOpeningModel == INSTANCE Models WITH
    Handlers <- {Handler("WalletOpened", FALSE, ByWallet)}, Handle <- OpeningFold, Initial <- None,
    Open <- OpenStatement, Close <- CloseStatement, By <- "wallet_id", OpenedType <- None, ClosedType <- None

-----------------------------------------------------------------------------
(* What the commands decide. *)
Emit(events) == [tag |-> "Emit", events |-> events, kind |-> None]
Fail(kind) == [tag |-> "Fail", events |-> <<>>, kind |-> kind]
Noop == [tag |-> "Noop", events |-> <<>>, kind |-> None]
WalletNotFound == Fail("not_found")
WalletAlreadyExists == Fail("conflict")
InsufficientFunds == Fail("invalid")

OpenWallet(opened, r) ==
    IF opened = None THEN Emit(<<WalletOpened(r.wallet, r.amount)>>)
    ELSE IF opened = r.amount THEN Noop ELSE WalletAlreadyExists

Deposit(wallet, r, p, at) ==
    IF wallet.exists THEN Emit(<<DepositMade(r, at, statementTags(r.wallet, p))>>) ELSE WalletNotFound

Withdraw(wallet, r, p, at) ==
    IF ~ wallet.exists THEN WalletNotFound
    ELSE IF wallet.balance < r.amount THEN InsufficientFunds
    ELSE Emit(<<WithdrawalMade(r, at, statementTags(r.wallet, p))>>)

TransferMoney(wallets, r, ps, at) ==
    IF ~ wallets[1].exists \/ ~ wallets[2].exists THEN WalletNotFound
    ELSE IF wallets[1].balance < r.amount THEN InsufficientFunds
    ELSE Emit(<<MoneyTransferred(r, at, {<<"from_statement_id", statementIdOf(r.wallet, ps[1])>>, <<"to_statement_id", statementIdOf(r.to, ps[2])>>})>>)

CloseWallet(wallet, r) ==
    IF wallet.exists THEN Emit(<<WalletClosed(r.wallet)>>) ELSE IF wallet.closed THEN Noop ELSE WalletNotFound

SendWelcomeNotification(r) == Emit(<<WelcomeNotificationSent(r.wallet)>>)

-----------------------------------------------------------------------------
(* A command as it is defined: its input's schema, the key of its request, its model, and how its append is protected. *)
Valid(r) ==
    /\ r.command = "open_wallet" => r.amount >= 0
    /\ r.command \in {"deposit", "withdraw", "transfer_money"} => r.amount > 0
    /\ r.command = "transfer_money" => r.wallet # r.to

Where(type, tag) == {Item({type}, {tag})}
idempotentBy(r) ==
    CASE r.command = "deposit" -> Where("DepositMade", <<"deposit_id", r.id>>)
      [] r.command = "withdraw" -> Where("WithdrawalMade", <<"withdrawal_id", r.id>>)
      [] r.command = "transfer_money" -> Where("MoneyTransferred", <<"transfer_id", r.id>>)
      [] r.command = "send_welcome" -> Where("WelcomeNotificationSent", <<"wallet_id", r.wallet>>)
      [] OTHER -> {}
byModel(r) == r.command \in {"open_wallet", "close_wallet"}

modelOf(r, seen, at) ==
    CASE r.command = "open_wallet" -> WalletOpeningModel!load(seen, r.wallet)
      [] r.command = "close_wallet" -> WalletLifecycleModel!load(seen, r.wallet)
      [] r.command = "transfer_money" ->
            WalletPeriodModel!all(<<WalletPeriodModel!loadPeriod(seen, r.wallet, at), WalletPeriodModel!loadPeriod(seen, r.to, at)>>)
      [] r.command = "send_welcome" -> [WalletPeriodModel!dies EXCEPT !.dies = FALSE]
      [] OTHER -> WalletPeriodModel!loadPeriod(seen, r.wallet, at)

decide(r, state, p, at) ==
    CASE r.command = "open_wallet" -> OpenWallet(state, r)
      [] r.command = "deposit" -> Deposit(state, r, p, at)
      [] r.command = "withdraw" -> Withdraw(state, r, p, at)
      [] r.command = "transfer_money" -> TransferMoney(state, r, p, at)
      [] r.command = "close_wallet" -> CloseWallet(state, r)
      [] r.command = "send_welcome" -> SendWelcomeNotification(r)

\* The command's events with the tags its model reads them by, and what cannot be completed.
Completed(r, e, periods) ==
    FoldLeft(LAMBDA acc, m : LET c == WalletPeriodModel!completeWith(acc.event, m[1], Tags(m[2]))
                             IN  [event |-> c.event, conflicts |-> acc.conflicts \cup c.conflicts],
             [event |-> e, conflicts |-> {}], periods)
PeriodsOf(r, loaded) ==
    CASE r.command = "transfer_money" -> <<<<r.wallet, loaded.period[1]>>, <<r.to, loaded.period[2]>>>>
      [] r.command \in {"deposit", "withdraw"} -> <<<<r.wallet, loaded.period>>>>
      [] OTHER -> <<>>

\* mutant: a deposit is not guarded by the closing of its period
LifecycleOnly(r, loaded) ==
    CASE r.command = "send_welcome" -> {}
      [] r.command = "deposit" /\ loaded.prefix = <<>> -> WalletPeriodModel!lifecycleQuery(r.wallet)
      [] OTHER -> loaded.boundary
(* What must not have changed since the load.  A deposit commutes, unless it turns the period: then everything that was read is. *)
concurrencyQuery(r, loaded) ==
    CASE r.command = "send_welcome" -> {}
      [] r.command = "deposit" /\ loaded.prefix = <<>> -> WalletPeriodModel!lifecycleQuery(r.wallet) \cup loaded.guard
      [] OTHER -> loaded.boundary

-----------------------------------------------------------------------------
(* Running a command: what the attempt answers, and the log after it. *)
Answer(status, events) == [status |-> status, events |-> events]
statusOf == [not_found |-> 404, invalid |-> 400, conflict |-> 409, forbidden |-> 403]

appends(r, cause, n, events, concurrency) ==
    LET verdict == checkAppend(log, [concurrency |-> concurrency, after |-> n, idempotency |-> idempotentBy(r)])
    IN  CASE verdict = "ok" -> Answer(201, events)
          [] verdict = "conflict" -> Answer(409, <<>>)
          [] verdict = "duplicate" -> Answer(IF isSameRequest(duplicateOf(log, idempotentBy(r)), r, cause) THEN 200 ELSE 422, <<>>)

\* A command that is idempotent by its model: the state after its own event has to answer it again with a no-op.
ShowsInItsModel(r, state, e, at) ==
    decide(r, IF r.command = "open_wallet" THEN OpeningFold(state, e, r.wallet) ELSE LifecycleFold(state, e, r.wallet), None, at).tag = "Noop"

\* The decision's events, complete, and what is appended of them.
Carried(r, cause, n, at, loaded, own) ==
    LET events == [i \in DOMAIN own |-> own[i].event]
    IN  IF \E i \in DOMAIN own : own[i].conflicts # {} THEN Answer(500, <<>>)
        ELSE IF byModel(r) /\ ~ ShowsInItsModel(r, loaded.state, events[1], at) THEN Answer(500, <<>>)
        ELSE appends(r, cause, n, loaded.prefix \o events, concurrencyQuery(r, loaded))

Decided(r, cause, n, at, loaded, decision) ==
    IF decision.tag = "Fail" THEN Answer(statusOf[decision.kind], <<>>)
    ELSE IF decision.tag = "Noop" THEN Answer(200, <<>>)
    ELSE Carried(r, cause, n, at, loaded, [i \in DOMAIN decision.events |-> Completed(r, decision.events[i], PeriodsOf(r, loaded))])

HasLoaded(r, cause, n, at, loaded) ==
    IF loaded.dies THEN Answer(500, <<>>) ELSE Decided(r, cause, n, at, loaded, decide(r, loaded.state, loaded.period, at))

\* A repeat of the request is looked for first; then the load, the decision, and the append.
handler(r, cause, n, at) ==
    LET seen == SubSeq(log, 1, n)
        repeats == IF idempotentBy(r) = {} THEN {} ELSE duplicateOf(seen, idempotentBy(r))
    IN  IF repeats # {} THEN Answer(IF isSameRequest(repeats, r, cause) THEN 200 ELSE 422, <<>>)
        ELSE HasLoaded(r, cause, n, at, modelOf(r, seen, at))

(* The HTTP interface: a body that is not the command's input is refused before it runs. *)
handleCommand(r, cause, n, at) == IF Valid(r) THEN handler(r, cause, n, at) ELSE Answer(400, <<>>)

-----------------------------------------------------------------------------
(* The views: the tables, and the operations an event makes on each. *)
Tables == [balance |-> [balance |-> Required, last_updated_at |-> Null],
           summary |-> [total_deposits |-> 0, total_withdrawals |-> 0, total_transfers_in |-> 0, total_transfers_out |-> 0,
                        current_balance |-> 0, last_transaction_at |-> Null],
           transactions |-> [wallet_id |-> Required, amount |-> Required, occurred_at |-> Required],
           statements |-> [wallet_id |-> Required, opening_balance |-> Required, closing_balance |-> Null, total_deposits |-> 0,
                           total_withdrawals |-> 0, total_transfers_in |-> 0, total_transfers_out |-> 0, transaction_count |-> 0]]

\* One wallet's side of a transaction: whose, by how much its balance changes, and the total it counts in.
Side(w, change, total, tag) == [wallet |-> w, change |-> change, total |-> total, tag |-> tag]
SidesOf(e) ==
    CASE e.type = "DepositMade" -> <<Side(e.data.walletId, e.data.amount, "total_deposits", "statement_id")>>
      [] e.type = "WithdrawalMade" -> <<Side(e.data.walletId, - e.data.amount, "total_withdrawals", "statement_id")>>
      [] e.type = "MoneyTransferred" -> <<Side(e.data.fromWalletId, - e.data.amount, "total_transfers_out", "from_statement_id"),
                                          Side(e.data.toWalletId, e.data.amount, "total_transfers_in", "to_statement_id")>>
      [] OTHER -> <<>>
Amount(side) == IF side.change < 0 THEN - side.change ELSE side.change
ForSides(e, Op(_)) == [i \in DOMAIN SidesOf(e) |-> Op(SidesOf(e)[i])]

WalletBalanceView(e) ==
    CASE e.type = "WalletOpened" -> <<T!Insert(e.data.walletId, [balance |-> e.data.initialBalance], "replace")>>
      [] e.type = "WalletClosed" -> <<T!Remove(e.data.walletId)>>
      [] OTHER -> ForSides(e, LAMBDA s : T!Update(s.wallet, [T!Adding([balance |-> s.change]) EXCEPT !.set = [last_updated_at |-> e.data.at]]))

\* mutant: the row of a wallet that is closed stays
NeverRemoved(e) ==
    CASE e.type = "WalletOpened" -> <<T!Insert(e.data.walletId, [current_balance |-> e.data.initialBalance], "replace")>>
      [] OTHER -> ForSides(e, LAMBDA s : T!Upsert(s.wallet, [T!Adding((s.total :> Amount(s)) @@ [current_balance |-> s.change])
                                                               EXCEPT !.max = [last_transaction_at |-> e.data.at]]))
WalletSummaryView(e) ==
    CASE e.type = "WalletOpened" -> <<T!Insert(e.data.walletId, [current_balance |-> e.data.initialBalance], "replace")>>
      [] e.type = "WalletClosed" -> <<T!Remove(e.data.walletId)>>
      [] OTHER -> ForSides(e, LAMBDA s : T!Upsert(s.wallet, [T!Adding((s.total :> Amount(s)) @@ [current_balance |-> s.change])
                                                               EXCEPT !.max = [last_transaction_at |-> e.data.at]]))

WalletTransactionView(e, position) ==
    ForSides(e, LAMBDA s : T!Insert(<<e.data.id, s.total, position>>, [wallet_id |-> s.wallet, amount |-> s.change, occurred_at |-> e.data.at], "ignore"))

\* The value of an event's tag.
TagOf(e, key) == (CHOOSE t \in e.tags : t[1] = key)[2]
WalletStatementView(e) ==
    CASE e.type = "WalletStatementOpened" -> <<T!Insert(statementIdOf(e.data.walletId, e.data.period), [wallet_id |-> e.data.walletId, opening_balance |-> e.data.openingBalance], "ignore")>>
      [] e.type = "WalletStatementClosed" -> <<T!Update(statementIdOf(e.data.walletId, e.data.period), T!Setting([closing_balance |-> e.data.closingBalance]))>>
      [] OTHER -> ForSides(e, LAMBDA s : T!Update(TagOf(e, s.tag), T!Adding((s.total :> Amount(s)) @@ [transaction_count |-> 1])))

OpsOf(e, position) == [balance |-> WalletBalanceView(e), summary |-> WalletSummaryView(e),
                       transactions |-> WalletTransactionView(e, position), statements |-> WalletStatementView(e)]
Applied(tables, e, position, Apply(_, _, _)) ==
    [t \in DOMAIN Tables |-> FoldLeft(LAMBDA table, o : Apply(Tables[t], table, o), tables[t], OpsOf(e, position)[t])]
Projected(tables, e, position) == Applied(tables, e, position, T!RunOp)
InMemory(tables, e, position) == Applied(tables, e, position, T!ApplyOp)

NoRows == [t \in DOMAIN Tables |-> <<>>]

\* An append, and the views it moves.
Appended(events, r, cause) ==
    /\ log' = store(log, events, r, cause)
    /\ rows' = FoldLeft(LAMBDA tables, i : Projected(tables, events[i], Len(log) + i), rows, [i \in DOMAIN events |-> i])

-----------------------------------------------------------------------------
(* The pages of a wallet's transactions, newest first, by keyset: (occurred_at, event_position). *)
KeyOf(k) == <<rows.transactions[k].occurred_at, k[3]>>
\* mutant: the cursor compares the time alone
EarlierThan(a, b) == a[1] < b[1]
Before(a, b) == a[1] < b[1] \/ (a[1] = b[1] /\ a[2] < b[2])

RowsOf(w) == {k \in DOMAIN rows.transactions : rows.transactions[k].wallet_id = w}
\* One row more than the page is read, to know whether there is a next one.
listTransactions(w, cursor) ==
    LET found == {k \in RowsOf(w) : cursor = <<>> \/ Before(KeyOf(k), cursor)}
        ordered == SetToSortSeq(found, LAMBDA a, b : Before(KeyOf(b), KeyOf(a)))
    IN  SubSeq(ordered, 1, IF Len(ordered) <= PageSize THEN Len(ordered) ELSE PageSize + 1)

getWalletTransactions(w, cursor) ==
    LET found == listTransactions(w, cursor)
        page == SubSeq(found, 1, IF Len(found) <= PageSize THEN Len(found) ELSE PageSize)
    IN  [page |-> page, next |-> IF Len(found) > PageSize THEN KeyOf(Last(page)) ELSE <<>>]

(* One wallet's row; and the list of the wallets, by keyset on the id. *)
Row(table, w) == IF w \in DOMAIN table THEN [status |-> 200, row |-> table[w]] ELSE [status |-> 404, row |-> None]
getWallet(w) == Row(rows.balance, w)
getWalletSummary(w) == Row(rows.summary, w)
listWallets(after) ==
    LET found == SetToSortSeq({w \in DOMAIN rows.balance : after = None \/ After(w, after)}, LAMBDA v, w : After(w, v))
        page == SubSeq(found, 1, IF Len(found) <= PageSize THEN Len(found) ELSE PageSize)
    IN  [page |-> page, next |-> IF Len(found) > PageSize THEN Last(page) ELSE None]

NotReading == [wallet |-> None, first |-> {}, got |-> <<>>, cursor |-> <<>>, phase |-> "idle"]
ReadsOn(w, first, got, cursor) ==
    LET answer == getWalletTransactions(w, cursor)
    IN  reader' = [wallet |-> w, first |-> first, got |-> got \o answer.page, cursor |-> answer.next,
                   phase |-> IF answer.next = <<>> THEN "done" ELSE "reading"]

StartsReading(w) == reader.phase = "idle" /\ ReadsOn(w, RowsOf(w), <<>>, <<>>) /\ UNCHANGED <<log, now, rows>>
ReadsNext == reader.phase = "reading" /\ ReadsOn(reader.wallet, reader.first, reader.got, reader.cursor) /\ UNCHANGED <<log, now, rows>>

-----------------------------------------------------------------------------
\* The clock a command may have read: another pod's, or this one's when the command was younger.
Clocks == {at \in 0 .. (MaxNow + Skew) : at <= now + Skew /\ now <= at + Skew}

\* The logs a load may have seen: an append, whose last event is the command's own, is seen whole or not at all.
Snapshots == {n \in 0 .. Len(log) : n > 0 => log[n].type \notin {"WalletStatementOpened", "WalletStatementClosed"}}

Runs(r, cause) ==
    /\ Len(log) < MaxEvents
    /\ \E n \in Snapshots, at \in Clocks : \E answer \in {handleCommand(r, cause, n, at)} :
          answer.events # <<>> /\ Appended(answer.events, r, cause)
    /\ UNCHANGED <<now, reader>>

Welcome(w) == [command |-> "send_welcome", wallet |-> w]
\* The automation runs its command for an opening, and may run it again.
Welcomes == \E i \in DOMAIN log : log[i].type = "WalletOpened" /\ Runs(Welcome(log[i].data.walletId), i)

\* A wallet has been opened, and then used once.
Init ==
    LET opened == <<WalletOpened(First.opens.wallet, First.opens.amount)>>
        used == <<OpenStatement([balance |-> First.opens.amount], First.uses.wallet, 0),
                  DepositMade(First.uses, 0, statementTags(First.uses.wallet, 0) \cup Tags(0))>>
    IN  /\ now = 0 /\ reader = NotReading
        /\ log = store(store(<<>>, opened, First.opens, 0), used, First.uses, 0)
        /\ rows = FoldLeft(LAMBDA tables, i : Projected(tables, (opened \o used)[i], i), NoRows, <<1, 2, 3>>)

Ticks == now < MaxNow /\ now' = now + 1 /\ UNCHANGED <<log, rows, reader>>

Next ==
    \/ \E r \in Requests : Runs(r, 0)
    \/ Welcomes
    \/ Ticks
    \/ \E w \in Wallets : StartsReading(w)
    \/ ReadsNext
Spec == Init /\ [][Next]_vars

-----------------------------------------------------------------------------
(* What a wallet is worth, by every event of the log that names it: no period, no boundary. *)
Opened(w) == \E e \in ToSet(log) : e.type = "WalletOpened" /\ e.data.walletId = w
Closed(w) == \E e \in ToSet(log) : e.type = "WalletClosed" /\ e.data.walletId = w
SidesIn(P(_, _)) == {<<i, j>> \in (DOMAIN log) \X {1, 2} : j \in DOMAIN SidesOf(log[i]) /\ P(log[i], SidesOf(log[i])[j])}
Total(P(_, _)) == MapThenSumSet(LAMBDA x : SidesOf(log[x[1]])[x[2]].change, SidesIn(P))
OpenedWith(w) == (CHOOSE e \in ToSet(log) : e.type = "WalletOpened" /\ e.data.walletId = w).data.initialBalance
Money(w) == OpenedWith(w) + Total(LAMBDA e, s : s.wallet = w)

Statements(w) == SelectSeq(log, LAMBDA e : e.type = "WalletStatementOpened" /\ e.data.walletId = w)
ClosingsOf(w, p) == {e \in ToSet(log) : e.type = "WalletStatementClosed" /\ e.data.walletId = w /\ e.data.period = p}
MovedIn(w, p) == Total(LAMBDA e, s : s.wallet = w /\ TagOf(e, s.tag) = statementIdOf(w, p))

(* A command leaves its wallet in the period of its clock, or in a later one: the first command of a new period turns it.                    *)
IsTurned(r, at, answer) == answer.status = 201 => WalletPeriodModel!tracking(store(log, answer.events, r, 0), r.wallet) >= at
OlderPeriodsAreTurned == \A r \in {q \in Requests : q.command \in {"deposit", "withdraw"}}, at \in Clocks :
    IsTurned(r, at, handleCommand(r, 0, Len(log), at))

(* A wallet's statements are its books: each opens with what the one before closed with (the first, with what the wallet was opened with),   *)
(* every statement but the last is closed, once, with what it opened with and everything that moved in it, and what is left is never less    *)
(* than nothing.  A deposit that lands after its period was closed, or an append that turns a period read too early, breaks it.             *)
StatementsAddUp == OlderPeriodsAreTurned /\ \A w \in {v \in Wallets : Opened(v)} :
    LET s == Statements(w)
        closes(i) == s[i].data.openingBalance + MovedIn(w, s[i].data.period)
    IN  /\ Money(w) >= 0
        /\ s # <<>> => s[1].data.openingBalance = OpenedWith(w)
        /\ \A i \in DOMAIN s :
              IF i = Len(s) THEN ClosingsOf(w, s[i].data.period) = {} /\ closes(i) = Money(w)
              ELSE /\ s[i + 1].data.openingBalance = closes(i)
                   /\ {e.data.closingBalance : e \in ClosingsOf(w, s[i].data.period)} = {closes(i)}

(* Nothing happens to a wallet after it is closed, though closing it looks at nothing but its lifecycle: a deposit, a transfer to it or a   *)
(* statement that was decided while it was open is refused by the store.  It is welcomed whenever the automation gets to it.                *)
ClosedWalletsAreStill == \A i, j \in DOMAIN log :
    (log[i].type = "WalletClosed" /\ i < j /\ log[j].type # "WelcomeNotificationSent") =>
        \A t \in log[j].tags : t[1] \in {"wallet_id", "from_wallet_id", "to_wallet_id"} => t[2] # log[i].data.walletId

(* A reader who follows the pages to the end has seen every transaction that was there when it began, none twice, whatever was appended      *)
(* between two of its requests: also one whose time, another pod's, is before the cursor.                                                    *)
PagesAreWhole ==
    /\ \A i, j \in DOMAIN reader.got : reader.got[i] = reader.got[j] => i = j
    /\ reader.phase = "done" => reader.first \subseteq ToSet(reader.got)

(* The list of the wallets, page after page. *)
Listed == FoldLeft(LAMBDA got, i : IF i > 1 /\ got.next = None THEN got
                                   ELSE LET answer == listWallets(got.next) IN [page |-> got.page \o answer.page, next |-> answer.next],
                   [page |-> <<>>, next |-> None], [i \in 1 .. Cardinality(Wallets) |-> i]).page

(* The four views agree with the log and with each other: the balances with the money, the totals with what moved, the statements with     *)
(* what their closings say, a closed wallet nowhere but in its history; and the list of the wallets has each open one, once.                *)
RowsShowTheLog ==
    LET open == {w \in Wallets : Opened(w) /\ ~ Closed(w)}
        moved(w, t) == Total(LAMBDA e, s : s.wallet = w /\ s.total = t)
    IN  /\ ToSet(Listed) = open /\ Len(Listed) = Cardinality(open)
        /\ \A w \in Wallets \ open : getWallet(w).status = 404 /\ getWalletSummary(w).status = 404
        /\ \A w \in open :
              LET sum == getWalletSummary(w).row
              IN  /\ getWallet(w).row.balance = Money(w) /\ sum.current_balance = Money(w)
                  /\ sum.total_deposits = moved(w, "total_deposits") /\ sum.total_withdrawals = - moved(w, "total_withdrawals")
                  /\ sum.total_transfers_in = moved(w, "total_transfers_in") /\ sum.total_transfers_out = - moved(w, "total_transfers_out")
        /\ \A k \in DOMAIN rows.statements :
              LET s == rows.statements[k]
                  balance == s.opening_balance + s.total_deposits - s.total_withdrawals + s.total_transfers_in - s.total_transfers_out
              IN  /\ s.closing_balance # Null => s.closing_balance = balance
                  /\ s.closing_balance = Null => balance = Money(k[1])
                  /\ s.transaction_count = Cardinality(SidesIn(LAMBDA e, x : TagOf(e, x.tag) = k))

(* What a client is told is so.  Done means that the log, at that append or before, holds what was asked for, as it was asked for, once;     *)
(* a conflict, that it holds nothing of it; a request id used before, that another request used it; any other refusal, that it was not done  *)
(* when the command looked; and nothing is ever a defect but a transfer between two periods (TransferMoney).                                 *)
DoneIn(l, r) == {i \in DOMAIN l : l[i].fingerprint = r /\ l[i].type \notin {"WalletStatementOpened", "WalletStatementClosed"}}
IsSo(r, n, answer) ==
    CASE answer.status \in {200, 201} -> Cardinality(DoneIn(store(log, answer.events, r, 0), r)) = 1 \/ (byModel(r) /\ Opened(r.wallet))
      [] answer.status = 422 -> DoneIn(log, r) = {} /\ duplicateOf(log, idempotentBy(r)) # {}
      [] answer.status = 409 -> byModel(r) \/ DoneIn(log, r) = {}
      [] answer.status \in {400, 404} -> DoneIn(SubSeq(log, 1, n), r) = {}
      [] OTHER -> answer.status = 500 /\ r.command = "transfer_money" /\ DoneIn(SubSeq(log, 1, n), r) = {}
AnswersAreSo == \A r \in Requests, n \in Snapshots, at \in Clocks : IsSo(r, n, handleCommand(r, 0, n, at))

(* A replay of the log in memory, which the views' operations are tested by, leaves the rows that their SQL has left in the tables.         *)
ReplayLeavesTheRows == FoldLeft(LAMBDA tables, i : InMemory(tables, log[i], i), NoRows, [i \in DOMAIN log |-> i]) = rows

(* What is read of the wallets is so: the rows of the views, and the pages of a wallet's transactions.                                      *)
ReadsAreSo == RowsShowTheLog /\ ReplayLeavesTheRows /\ PagesAreWhole
=============================================================================
