------------------------------ MODULE Forecast ------------------------------
(***************************************************************************)
(* The dates a forecast is given, ml/forecasting.py: the spacing of the    *)
(* history decides how to step beyond it.  A date is a month, counted from *)
(* a January, and a day of it; the fit itself is floating point and left   *)
(* out.                                                                    *)
(***************************************************************************)
EXTENDS Integers, FiniteSets, Sequences, SequencesExt

CONSTANTS
    MinPoints,  \* MIN_POINTS
    Horizon,    \* periods asked for
    LastMonth   \* bound: months a history may span

ASSUME ForecastAssumption == MinPoints \in Nat \ {0} /\ Horizon \in Nat /\ LastMonth \in Nat

(* The year that is month 12 to 23 is a leap year.                          *)
DaysIn(month) ==
    LET m == month % 12 IN
    IF m = 1 THEN (IF (month \div 12) % 4 = 1 THEN 29 ELSE 28) ELSE IF m \in {3, 5, 8, 10} THEN 30 ELSE 31

StartOf[month \in 0..(LastMonth + 12 * Horizon)] ==
    IF month = 0 THEN 0 ELSE StartOf[month - 1] + DaysIn(month - 1)

DayNumber(p) == StartOf[p.month] + p.day

(* Beyond the end of a short month, its last day.                           *)
AddMonths(p, n) ==
    [month |-> p.month + n, day |-> IF p.day <= DaysIn(p.month + n) THEN p.day ELSE DaysIn(p.month + n)]

Gaps(history) == [i \in 1..(Len(history) - 1) |-> DayNumber(history[i + 1]) - DayNumber(history[i])]

(* The k-th smallest: the least with k of them up to it.                    *)
Smallest(k, gap) == Min({g \in Range(gap) : k <= Cardinality({i \in DOMAIN gap : gap[i] <= g})})

(* Twice the median gap in days, to stay whole.                             *)
TwiceMedianGap(history) ==
    LET n == Len(history) - 1
        gap == Gaps(history)
    IN  IF n = 0 THEN 60 ELSE Smallest((n + 1) \div 2, gap) + Smallest(n \div 2 + 1, gap)

Between(low, twice, high) == 2 * low <= twice /\ twice <= 2 * high

(* _next_periods as day numbers: by the calendar where the spacing is that  *)
(* of months, quarters or years, by the gap where it is not.                *)
NextByGap(history) ==
    [i \in 1..Horizon |-> DayNumber(Last(history)) + (i * TwiceMedianGap(history)) \div 2]

NextPeriods(history) ==
    LET step == TwiceMedianGap(history)
        months == IF Between(27, step, 32) THEN 1 ELSE IF Between(88, step, 95) THEN 3
                  ELSE IF Between(360, step, 370) THEN 12 ELSE 0
    IN  [i \in 1..Horizon |->
            IF months = 0 THEN NextByGap(history)[i] ELSE DayNumber(AddMonths(Last(history), months * i))]

(* forecast_series: periods with a value, oldest first, refused when few.   *)
Nth(present, i) == CHOOSE m \in present : Cardinality({k \in present : k <= m}) = i
History(present) == [i \in 1..Cardinality(present) |-> [month |-> Nth(present, i), day |-> 1]]

Forecasts(present) ==
    IF Cardinality(present) < MinPoints THEN {} ELSE {NextPeriods(History(present))}

-----------------------------------------------------------------------------
(* Whichever months of a monthly series have a value, the forecast is dated *)
(* after it and in order; and as long as most months follow one another, or *)
(* every third does, it is dated at the starts of the months or quarters    *)
(* that come next.                                                          *)
FollowsCalendar(present) ==
    LET last == Max(present)
        Steps(k) == Cardinality({m \in present : m + k \in present /\ \A j \in 1..(k - 1) : m + j \notin present})
    IN  \A next \in Forecasts(present) :
            /\ \A i \in 1..Horizon :
                  next[i] > (IF i = 1 THEN DayNumber([month |-> last, day |-> 1]) ELSE next[i - 1])
            /\ \A k \in {1, 3} : 2 * Steps(k) > Cardinality(present) - 1 =>
                  \A i \in 1..Horizon : next[i] = DayNumber([month |-> last + k * i, day |-> 1])
=============================================================================
