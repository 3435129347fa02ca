------------------------------ MODULE MCWallet ------------------------------
EXTENDS Wallet, Calendar

Asked(command, wallet, amount) == [command |-> command, wallet |-> wallet, amount |-> amount]
Named(command, id, wallet, amount) == [command |-> command, id |-> id, wallet |-> wallet, amount |-> amount]
Transfer(id, from, to, amount) == [command |-> "transfer_money", id |-> id, wallet |-> from, to |-> to, amount |-> amount]
MCFirst == [opens |-> Asked("open_wallet", "w1", 1), uses |-> Named("deposit", "d1", "w1", 2)]

\* A wallet opened twice, with the same balance and with another; one request id used for two amounts; a transfer to oneself.
MCRequests ==
    {MCFirst.opens, MCFirst.uses, Asked("open_wallet", "w1", 0), Asked("open_wallet", "w2", 0),
     Named("deposit", "d1", "w1", 1), Named("deposit", "d2", "w1", 1), Named("withdraw", "x1", "w1", 2),
     Transfer("t1", "w1", "w2", 1), Transfer("t2", "w1", "w1", 1), [command |-> "close_wallet", wallet |-> "w1"]}

MCAfter(v, w) == v = "w2" /\ w = "w1"

\* Period 0 is December 2026.
MonthOf(p) == [year |-> 2026 + (11 + p) \div 12, month |-> ((11 + p) % 12) + 1]
MCAtLeast(p, q) == ~ Later(monthKey(MonthOf(q)), monthKey(MonthOf(p)))

\* The keys of every level sort in time: on each day of the calendar but those whose week may have its fourth day outside it.
ASSUME MCKeysSort == \A n \in 7 .. DaysBeforeYear[LastYear] : KeysSort(n)
=============================================================================
