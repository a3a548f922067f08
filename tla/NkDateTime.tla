----------------------------- MODULE NkDateTime -----------------------------
(***************************************************************************)
(* The calendar, src/nkdatetime.c.  Days and months count from 0.  A UNIX  *)
(* time is a number of days and the seconds of the day.                    *)
(***************************************************************************)
EXTENDS Integers, Sequences

LastYear == 2199    \* of nk_datetime_sanity

dpm == << 31, 28, 31, 30, 31, 30, 31, 31, 30, 31, 30, 31 >>
dpmleap == [dpm EXCEPT ![2] = 29]

isleapyear(year) == year % 4 = 0 /\ ~(year % 100 = 0 /\ year % 400 # 0)

MonthsOf(year) == IF isleapyear(year) THEN dpmleap ELSE dpm
YearLength(year) == IF isleapyear(year) THEN 366 ELSE 365

(* the days before a year since 1970; nk_datetime_to_unix adds them up *)
LeapYearsUpTo(year) == (year \div 4) - (year \div 100) + (year \div 400)
DaysBeforeYear(year) ==
  365 * (year - 1970) + LeapYearsUpTo(year - 1) - LeapYearsUpTo(1969)

ASSUME SumOfYears ==
  /\ DaysBeforeYear(1970) = 0
  /\ \A year \in 1970 .. LastYear :
       DaysBeforeYear(year + 1) = DaysBeforeYear(year) + YearLength(year)

(* the days before a month, for the lengths of the months of a year *)
DaysBeforeMonth(months, month) ==
  LET f[m \in 0 .. 12] == IF m = 0 THEN 0 ELSE f[m - 1] + months[m]
  IN  f[month]

t == << 0, 3, 2, 5, 0, 3, 5, 1, 4, 6, 2, 4 >>

nk_calc_day_of_week(year, month, day) ==
  LET y == IF month + 1 < 3 THEN year - 1 ELSE year
  IN  (y + (y \div 4) - (y \div 100) + (y \div 400)
         + t[month + 1] + day + 1) % 7

(* what nk_datetime_clear sets, Jan 1, 2000 *)
Cleared ==
  [sec |-> 0, min |-> 0, hour |-> 0, weekday |-> 6, day |-> 0, month |-> 0,
   year |-> 2000]

nk_datetime_sanity(d) ==
  [ok |-> /\ d.sec <= 59 /\ d.min <= 59 /\ d.hour <= 23
          /\ d.weekday <= 6 /\ d.day <= 30 /\ d.month <= 11
          /\ d.year <= LastYear,
   datetime |->
     [sec |-> d.sec,
      min |-> IF d.sec > 59 \/ d.min > 59 THEN 0 ELSE d.min,
      hour |-> IF d.hour > 23 THEN 0 ELSE d.hour,
      weekday |-> IF d.weekday > 6 THEN 0 ELSE d.weekday,
      day |-> IF d.day > 30 THEN 0 ELSE d.day,
      month |-> IF d.month > 11 THEN 0 ELSE d.month,
      year |-> IF d.year < 2000 \/ d.year > LastYear THEN 2000 ELSE d.year]]

NoTime == [day |-> -1, sec |-> 0]

nk_datetime_to_unix(d) ==
  IF \/ d.year < 1970 \/ d.month > 11
     \/ d.day >= MonthsOf(d.year)[d.month + 1]
     \/ d.hour > 23 \/ d.min > 59 \/ d.sec > 59
  THEN NoTime
  ELSE [day |-> DaysBeforeYear(d.year)
                  + DaysBeforeMonth(MonthsOf(d.year), d.month) + d.day,
        sec |-> d.hour * 3600 + d.min * 60 + d.sec]

nk_unix_to_datetime(unix) ==
  LET year == CHOOSE y \in 1970 .. LastYear :
                /\ DaysBeforeYear(y) <= unix.day
                /\ unix.day < DaysBeforeYear(y) + YearLength(y)
      rest == unix.day - DaysBeforeYear(year)
      before == [m \in 0 .. 12 |-> DaysBeforeMonth(MonthsOf(year), m)]
      month == CHOOSE m \in 0 .. 11 : before[m] <= rest /\ rest < before[m + 1]
      day == rest - before[month]
  IN  [sec |-> unix.sec % 60, min |-> (unix.sec \div 60) % 60,
       hour |-> unix.sec \div 3600,
       weekday |-> nk_calc_day_of_week(year, month, day),
       day |-> day, month |-> month, year |-> year]
=============================================================================
