------------------------------- MODULE NkRtc -------------------------------
(***************************************************************************)
(* A real time clock and its driver: src/nkdriver_pcf8523.c,               *)
(* src/nkdriver_ds1307.c, src/nkdriver_ds3231.c, src/nkdriver_rv8803.c,    *)
(* and the command of src/nkrtc.c.  The chip counts while the driver reads *)
(* it; its power may fail, and the bus may.                                *)
(***************************************************************************)
EXTENDS NkDateTime

CONSTANTS
  Days,      \* bound: UNIX days on which the clock is used
  Seconds,   \* bound: seconds of the day that it is seen at
  UnixTimes, \* that a program sets: [day, sec]
  Dates,     \* that a user types: [year, month, day, hour, min, sec]
  MaxLag     \* bound: the seconds that a call takes, less than a minute

ASSUME RtcConstantsOK ==
  /\ Days \subseteq DaysBeforeYear(2000) .. DaysBeforeYear(2100) - 1
  /\ Seconds \subseteq 0 .. 86399
  /\ UnixTimes \subseteq [day : Days, sec : Seconds]
  /\ MaxLag \in 0 .. 58

VARIABLES
  model,    \* of the chip
  reg,      \* its registers, and whether it has noticed a loss of power
  now,      \* ghost: the time that it was set to and that has passed since
  known,    \* ghost: "known", "lost" with the power, or "unsure" after a
            \* failed call
  rtc,      \* get_datetime that is under way: what it has read
  since,    \* ghost: the time when it began
  answer    \* what the last step has returned

rvars == << model, reg, now, known, rtc, since, answer >>

Models == {"pcf8523", "ds1307", "ds3231", "rv8803"}

(* they have the flag of a loss of power in the register of the seconds *)
FlagInSeconds == {"pcf8523", "ds1307"}

NoAnswer == [rtn |-> "none", datetime |-> Cleared]

-----------------------------------------------------------------------------
(* Registers *)

Bcd(n) == (n \div 10) * 16 + (n % 10)

(* the digits that mask leaves of a register: 0x0F & b, mask & (b >> 4) *)
Digits(b, mask) == (b % 16) + ((b \div 16) % (mask + 1)) * 10

Byte(n) == n % 256

WeekdayCode(w) ==
  CASE model = "pcf8523" -> w
    [] model \in {"ds1307", "ds3231"} -> w + 1
    [] model = "rv8803" -> 2 ^ w

(* onehot_to_bin *)
LowestBit(b) ==
  IF b = 0 THEN 0
  ELSE CHOOSE x \in 0 .. 7 : b % (2 ^ x) = 0 /\ (b \div (2 ^ x)) % 2 = 1

Weekday(b) ==
  CASE model = "pcf8523" -> b % 8
    [] model \in {"ds1307", "ds3231"} -> Byte((b % 8) - 1)
    [] model = "rv8803" -> LowestBit(b)

(* the registers in the order in which they are read and written *)
Order ==
  << "sec", "min", "hour" >>
    \o (IF model = "pcf8523" THEN << "day", "weekday" >>
        ELSE << "weekday", "day" >>)
    \o << "month", "year", "lost" >>

(* set_datetime *)
Encoded(d) ==
  [sec |-> Bcd(d.sec), min |-> Bcd(d.min), hour |-> Bcd(d.hour),
   weekday |-> WeekdayCode(d.weekday), day |-> Bcd(d.day + 1),
   month |-> Bcd(d.month + 1), year |-> Bcd(d.year - 2000), lost |-> FALSE]

(* get_datetime *)
Decoded(r) ==
  [sec |-> Digits(r.sec, 7), min |-> Digits(r.min, 7),
   hour |-> Digits(r.hour, 3), weekday |-> Weekday(r.weekday),
   day |-> Byte(Digits(r.day, 3) - 1), month |-> Byte(Digits(r.month, 1) - 1),
   year |-> Digits(r.year, 15) + 2000]

-----------------------------------------------------------------------------
(* The chip.  Its calendar takes every fourth year for a leap year          *)

NextDay(r) ==
  LET day == Digits(r.day, 3)
      month == Digits(r.month, 1)
      year == Digits(r.year, 15)
      months == IF year % 4 = 0 THEN dpmleap ELSE dpm
      newMonth == day = months[month]
      newYear == newMonth /\ month = 12
      weekday == (Weekday(r.weekday) + 1) % 7
  IN  [r EXCEPT !.weekday = WeekdayCode(weekday),
                !.day = Bcd(IF newMonth THEN 1 ELSE day + 1),
                !.month = IF newMonth THEN Bcd((month % 12) + 1) ELSE @,
                !.year = IF newYear THEN Bcd((year + 1) % 100) ELSE @]

AtSecond(r, sec) ==
  [r EXCEPT !.hour = Bcd(sec \div 3600), !.min = Bcd((sec \div 60) % 60),
            !.sec = Bcd(sec % 60)]

(* the next second, of the registers and of the time *)
Ticked(r, time) ==
  IF time.sec = 86399 THEN NextDay(AtSecond(r, 0))
  ELSE AtSecond(r, time.sec + 1)

Later(time) ==
  IF time.sec = 86399 THEN [day |-> time.day + 1, sec |-> 0]
  ELSE [time EXCEPT !.sec = @ + 1]

NotAfter(a, b) == a.day < b.day \/ (a.day = b.day /\ a.sec <= b.sec)

MayTick ==
  /\ known = "known"
  /\ Later(now).day \in Days /\ Later(now).sec \in Seconds
  /\ rtc # << >> =>
       (now.day - since.day) * 86400 + now.sec - since.sec < MaxLag

Tick ==
  /\ MayTick
  /\ reg' = Ticked(reg, now)
  /\ now' = Later(now)
  /\ answer' = NoAnswer
  /\ UNCHANGED << model, known, rtc, since >>

(* more time passes between two calls *)
TimePasses ==
  /\ known = "known" /\ rtc = << >>
  /\ \E s \in {x \in Seconds : x > now.sec} :
       /\ reg' = AtSecond(reg, s)
       /\ now' = [now EXCEPT !.sec = s]
  /\ answer' = NoAnswer
  /\ UNCHANGED << model, known, rtc, since >>

(* The registers after a loss of power, which is noticed.  The chip has a   *)
(* battery, so that the processor has lost its power before                 *)
Garbage ==
  {[sec |-> b, min |-> b, hour |-> b, weekday |-> b, day |-> b, month |-> b,
    year |-> b, lost |-> TRUE] : b \in {0, 1, 255}}

PowerFails ==
  /\ rtc = << >>
  /\ reg' \in Garbage
  /\ now' = NoTime
  /\ known' = "lost"
  /\ answer' = NoAnswer
  /\ UNCHANGED << model, rtc, since >>

-----------------------------------------------------------------------------
(* The driver *)

RtcInit ==
  /\ model \in Models
  /\ reg \in Garbage
  /\ now = NoTime
  /\ known = "lost"
  /\ rtc = << >>
  /\ since = NoTime
  /\ answer = NoAnswer

(* One write of all registers.  If the bus fails the first n have been      *)
(* written                                                                  *)
Written(new, n) ==
  [f \in DOMAIN reg |->
    IF \/ \E i \in 1 .. n : Order[i] = f
       \/ f = "lost" /\ model \in FlagInSeconds /\ n > 0
    THEN new[f] ELSE reg[f]]

SetFails(d) ==
  \E n \in 0 .. Len(Order) - 1 :
    /\ reg' = Written(Encoded(d), n)
    /\ now' = NoTime
    /\ known' = IF known = "lost" /\ (model \notin FlagInSeconds \/ n = 0)
                THEN "lost" ELSE "unsure"

set_datetime(d) ==
  /\ rtc = << >>
  /\ \/ /\ reg' = Encoded(d)
        /\ now' = nk_datetime_to_unix(d)
        /\ known' = IF now' = NoTime THEN "unsure" ELSE "known"
     \/ SetFails(d)
  /\ answer' = NoAnswer
  /\ UNCHANGED << model, rtc, since >>

(* nk_rtc_command with a date.  Months and days are bytes.  For a month     *)
(* that is none the weekday is read from behind t, and refused anyway       *)
nk_rtc_command ==
  \E date \in Dates :
    LET month == Byte(date.month - 1)
        day == Byte(date.day - 1)
        checked == nk_datetime_sanity(
          [sec |-> date.sec, min |-> date.min, hour |-> date.hour,
           weekday |-> IF month > 11 THEN 0
                       ELSE nk_calc_day_of_week(date.year, month, day),
           day |-> day, month |-> month, year |-> date.year])
    IN  checked.ok /\ set_datetime(checked.datetime)

(* a program sets the clock from a UNIX time *)
SetUnix ==
  \E unix \in UnixTimes : set_datetime(nk_unix_to_datetime(unix))

(* get_datetime begins *)
get_datetime ==
  /\ rtc = << >>
  /\ rtc' = [reading |-> 1, tries |-> 1, first |-> << >>]
  /\ since' = now
  /\ answer' = NoAnswer
  /\ UNCHANGED << model, reg, now, known >>

Returns(rtn, datetime) ==
  /\ answer' = [rtn |-> rtn, datetime |-> datetime]
  /\ rtc' = << >>
  /\ since' = NoTime

Checked(r) ==
  LET checked == nk_datetime_sanity(Decoded(r))
  IN  Returns(IF checked.ok /\ ~r.lost THEN "0" ELSE "NK_ERROR_TIME_LOST",
              checked.datetime)

At59(r) == r.sec % 128 = Bcd(59)

(* mutant: a reading at second 59 is not repeated *)
AfterReadingOnce(r) == Checked(r)

(* the address is written, and the registers are read as r *)
AfterReading(r) ==
  IF model = "rv8803" /\ rtc.reading = 1 /\ At59(r)
  THEN /\ rtc' = [reading |-> 2, tries |-> 1, first |-> r]
       /\ answer' = NoAnswer
       /\ UNCHANGED since
  ELSE Checked(IF rtc.reading = 2 /\ At59(r) THEN rtc.first ELSE r)

ReadRegisters ==
  /\ rtc # << >>
  /\ AfterReading(reg)
  /\ UNCHANGED << model, reg, now, known >>

(* rv8803 counts while its registers are read: n of them are from before    *)
ReadAcrossTick ==
  /\ rtc # << >> /\ model = "rv8803"
  /\ MayTick
  /\ \E n \in 1 .. Len(Order) - 1 :
       AfterReading([f \in DOMAIN reg |->
         IF \E i \in 1 .. n : Order[i] = f THEN reg[f]
         ELSE Ticked(reg, now)[f]])
  /\ reg' = Ticked(reg, now)
  /\ now' = Later(now)
  /\ UNCHANGED << model, known >>

(* the bus fails; nk_rv8803_read tries twice *)
ReadFails ==
  /\ rtc # << >>
  /\ IF model = "rv8803" /\ rtc.tries = 1
     THEN /\ rtc' = [rtc EXCEPT !.tries = 2]
          /\ answer' = NoAnswer
          /\ UNCHANGED since
     ELSE Returns("-1", Cleared)
  /\ UNCHANGED << model, reg, now, known >>

RtcNext ==
  \/ Tick
  \/ TimePasses
  \/ PowerFails
  \/ nk_rtc_command
  \/ SetUnix
  \/ get_datetime
  \/ ReadRegisters
  \/ ReadAcrossTick
  \/ ReadFails

RtcSpec == RtcInit /\ [][RtcNext]_rvars

-----------------------------------------------------------------------------
(* Properties *)

RtcTypeOK ==
  /\ model \in Models
  /\ known \in {"known", "lost", "unsure"}
  /\ now \in [day : Int, sec : 0 .. 86399]
  /\ rtc # << >> => rtc.reading \in 1 .. 2 /\ rtc.tries \in 1 .. 2

(***************************************************************************)
(* A date that get_datetime returns as good is one of the moments of the   *)
(* call, and its weekday is the right one, also if the chip counts while   *)
(* it is read, through the ends of months, of leap years and of years; and *)
(* no date is returned as good after a loss of power until the clock has   *)
(* been set, even if setting it was tried and failed (in pcf8523 and       *)
(* ds1307: failed before the seconds).                                     *)
(***************************************************************************)
IsTrue(d) ==
  LET time == nk_datetime_to_unix(d)
  IN  /\ NotAfter(since, time) /\ NotAfter(time, now')
      /\ d.weekday = (4 + time.day) % 7

TimeIsTrue ==
  [][ rtc # << >> /\ rtc' = << >> /\ answer'.rtn = "0" =>
        CASE known = "known" -> IsTrue(answer'.datetime)
          [] known = "lost" -> FALSE
          [] known = "unsure" -> TRUE ]_rvars
=============================================================================
