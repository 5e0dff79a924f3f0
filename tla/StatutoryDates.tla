--------------------------- MODULE StatutoryDates ---------------------------
(***************************************************************************)
(* The statutory dates of an estate (app/domain/deadlines.py).  A date is  *)
(* the number yyyymmdd of its ISO form, which orders dates as they are.    *)
(***************************************************************************)
EXTENDS Integers

Date(y, m, d) == 10000 * y + 100 * m + d
YearOf(n) == n \div 10000
MonthOf(n) == (n \div 100) % 100
DayOf(n) == n % 100

Leap(y) == y % 4 = 0 /\ (y % 100 # 0 \/ y % 400 = 0)

MonthLength(y, m) ==
  IF m = 2 THEN IF Leap(y) THEN 29 ELSE 28
  ELSE IF m \in {4, 6, 9, 11} THEN 30 ELSE 31

\* A date of the calendar.
IsDate(n) ==
  /\ n \in Nat
  /\ YearOf(n) >= 1 /\ MonthOf(n) \in 1 .. 12
  /\ DayOf(n) \in 1 .. MonthLength(YearOf(n), MonthOf(n))

\* A date whose derived dates the calendar has: MAXYEAR less the ten years of the
\* instalments.  A later one makes the derivations raise.
IsRecorded(n) == IsDate(n) /\ YearOf(n) <= 9989

\* date.toordinal: days since the first of January of the year 1, which is 1.
Ordinal(n) ==
  LET y == YearOf(n)
      m == MonthOf(n)
  IN  365 * (y - 1) + (y - 1) \div 4 - (y - 1) \div 100 + (y - 1) \div 400
      + <<0, 31, 59, 90, 120, 151, 181, 212, 243, 273, 304, 334>>[m]
      + (IF m > 2 /\ Leap(y) THEN 1 ELSE 0) + DayOf(n)

\* The month k months after that of n, with day d.
InMonth(n, k, d) ==
  LET total == YearOf(n) * 12 + MonthOf(n) - 1 + k IN Date(total \div 12, (total % 12) + 1, d)

LengthOfMonth(n) == MonthLength(YearOf(n), MonthOf(n))

EndOfMonth(n) == InMonth(n, 0, LengthOfMonth(n))

\* A pair of a month and a day of it: a day the month lacks is one of the next.
Spill(p) ==
  IF p[2] <= LengthOfMonth(p[1]) THEN p
  ELSE <<InMonth(p[1], 1, 1), p[2] - LengthOfMonth(p[1])>>

\* date + timedelta(days=k) for k up to 60, which reaches the third month at most.
AddDays(n, k) ==
  LET p == Spill(Spill(Spill(<<InMonth(n, 0, 1), DayOf(n) + k>>))) IN InMonth(p[1], 0, p[2])

-----------------------------------------------------------------------------
\* _add_months: the day is clamped to the end of the target month.
AddMonths(n, k) ==
  LET end == LengthOfMonth(InMonth(n, k, 1)) IN
  InMonth(n, k, IF DayOf(n) <= end THEN DayOf(n) ELSE end)

IhtPaymentDue(death) == EndOfMonth(AddMonths(InMonth(death, 0, 1), 6))

Iht400FilingDue(death) == EndOfMonth(AddMonths(InMonth(death, 0, 1), 12))

\* Faulty variant: two calendar months, without the day more.
GazetteClaimMonths(published) == AddMonths(published, 2)

GazetteClaimDeadline(published) == AddDays(AddMonths(published, 2), 1)

\* The k-th of the ten yearly instalments.
InstalmentDue(death, k) == AddMonths(IhtPaymentDue(death), 12 * (k - 1))

Cgt60DayDeadline(completion) == AddDays(completion, 60)

\* Callers never pass the completion of the administration.
IsaExemptionEnd(death) == AddMonths(death, 36)
=============================================================================
