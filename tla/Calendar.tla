------------------------------ MODULE Calendar ------------------------------
(***************************************************************************)
(* The cycles a period can follow: which one a day falls in, and the key   *)
(* it has.  A day is a number, 0 the first of FirstYear; a key is text, as *)
(* the sequence of its digits (what separates them is in the same place in *)
(* every key of a level).                                                  *)
(***************************************************************************)
EXTENDS Integers, Sequences

CONSTANTS FirstYear, FirstWeekday,   \* 0 is a Sunday
          LastYear                   \* bound: the calendar ends with it

(* The calendar (UTC). *)
IsLeap(y) == y % 4 = 0 /\ (y % 100 # 0 \/ y % 400 = 0)
DaysIn(y, m) == CASE m = 2 -> IF IsLeap(y) THEN 29 ELSE 28 [] m \in {4, 6, 9, 11} -> 30 [] OTHER -> 31
DaysBeforeYear == [y \in FirstYear .. LastYear |->
    365 * (y - FirstYear) + LET leaps(z) == z \div 4 - z \div 100 + z \div 400 IN leaps(y - 1) - leaps(FirstYear - 1)]
DaysBeforeMonth(y, m) == (<<0, 31, 59, 90, 120, 151, 181, 212, 243, 273, 304, 334>>[m]) + (IF m > 2 /\ IsLeap(y) THEN 1 ELSE 0)
YearOf(n) == CHOOSE y \in FirstYear .. LastYear : DaysBeforeYear[y] <= n /\ (y = LastYear \/ n < DaysBeforeYear[y + 1])
DateOf(n) ==
    LET y == YearOf(n)
        ofYear == n - DaysBeforeYear[y]
        m == CHOOSE k \in 1 .. 12 : DaysBeforeMonth(y, k) <= ofYear /\ ofYear < DaysBeforeMonth(y, k) + DaysIn(y, k)
    IN  [year |-> y, month |-> m, day |-> ofYear - DaysBeforeMonth(y, m) + 1]
Weekday(n) == (FirstWeekday + n) % 7

-----------------------------------------------------------------------------
Digits(n) ==
    LET width == CHOOSE w \in 1 .. 10 : n < 10 ^ w /\ (w = 1 \/ n >= 10 ^ (w - 1))
    IN  [i \in 1 .. width |-> (n \div 10 ^ (width - i)) % 10]
pad(n, width) == [i \in 1 .. (width - Len(Digits(n))) |-> 0] \o Digits(n)

Later(a, b) ==   \* as text
    \/ \E i \in DOMAIN a \cap DOMAIN b : a[i] > b[i] /\ SubSeq(a, 1, i - 1) = SubSeq(b, 1, i - 1)
    \/ Len(a) > Len(b) /\ SubSeq(a, 1, Len(b)) = b

yearAt(n) == [year |-> YearOf(n)]
yearKey(f) == pad(f.year, 4)
monthAt(n) == [year |-> DateOf(n).year, month |-> DateOf(n).month]
monthKey(f) == pad(f.year, 4) \o pad(f.month, 2)
dayAt(n) == DateOf(n)
dayKey(f) == pad(f.year, 4) \o pad(f.month, 2) \o pad(f.day, 2)

(* The week of a day is of the year that holds its fourth day, and numbered from the first that has four days in it. *)
weekAt(startsOn, n) ==
    LET anchor == n - ((Weekday(n) - startsOn) % 7) + 3
    IN  [year |-> YearOf(anchor), week |-> (anchor - DaysBeforeYear[YearOf(anchor)]) \div 7 + 1]
weekKey(f) == pad(f.year, 4) \o pad(f.week, 2)

(* A slot of some minutes, numbered since the epoch. *)
minutesKey(bucket) == Digits(bucket)

-----------------------------------------------------------------------------
(* Two days have one key exactly when they are in one period, and a later period's key is a later text: what a load takes to know which     *)
(* of two periods is the newer.  The days of a week share a key though their year changes in its middle.                                    *)
SortsInTime(n, key(_), same) == IF same THEN key(n + 1) = key(n) ELSE Later(key(n + 1), key(n))
KeysSort(n) ==
    LET today == DateOf(n)
        tomorrow == DateOf(n + 1)
    IN  /\ SortsInTime(n, LAMBDA d : yearKey(yearAt(d)), today.year = tomorrow.year)
        /\ SortsInTime(n, LAMBDA d : monthKey(monthAt(d)), tomorrow.day # 1)
        /\ SortsInTime(n, LAMBDA d : dayKey(dayAt(d)), FALSE)
        /\ \A startsOn \in {0, 1} : SortsInTime(n, LAMBDA d : weekKey(weekAt(startsOn, d)), Weekday(n + 1) # startsOn)
=============================================================================
