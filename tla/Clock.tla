------------------------------- MODULE Clock -------------------------------
(***************************************************************************)
(* The real-time clock as the kernel reads it: GET_CURRENT_UNIX_TIME of    *)
(* dev/time/rtc.h with rtc.c, which stamps the files, and the conversion   *)
(* back to a date, TIMESTAMP_TO_STRING of dev/vfs.h.                       *)
(*                                                                         *)
(* The clock is external: it counts seconds, and shows BCD in 24-hour      *)
(* mode.  rtc_wait_for_update leaves time to read three registers before   *)
(* the next second, so that the registers of rtc_read_time belong to one   *)
(* second, and so do those of rtc_read_date; this is said of a thread that *)
(* no interrupt holds up in between, as in a system call.                  *)
(*                                                                         *)
(* A timestamp is kept as its days and the seconds of its last day.  Years *)
(* are 2000 to 2099, so that the 32 bits of the timestamp never overflow.  *)
(***************************************************************************)
EXTENDS Integers, Sequences, FiniteSetsExt

CONSTANTS Instant,      \* when the clock may be read first
          MaxTicks      \* seconds that pass while it is read

VARIABLES now,          \* year, month, day, hours, minutes, seconds
          ticks,        \* that have passed during the call
          reading,      \* of GET_CURRENT_UNIX_TIME: "none", "time", "date", "done"
          time, date,   \* what was read
          atTime, atDate, \* the instants it was read at
          stamp         \* the result

vars == <<now, ticks, reading, time, date, atTime, atDate, stamp>>

RTC_DAYS_IN_MONTHS == <<31, 28, 31, 30, 31, 30, 31, 31, 30, 31, 30, 31>>
NoCentury(y) == y % 4 = 0 /\ y % 100 # 0
RTC_IS_LEAP_YEAR(y) == y % 4 = 0 /\ (y % 100 # 0 \/ y % 400 = 0)

-----------------------------------------------------------------------------
(* The clock.                                                              *)

\* The Gregorian calendar: the length of a month
MonthLength(y, m) ==
    CASE m \in {4, 6, 9, 11} -> 30
      [] m = 2 -> IF y % 400 = 0 \/ (y % 4 = 0 /\ y % 100 # 0) THEN 29 ELSE 28
      [] OTHER -> 31

NextDay(t) ==
    IF t.day < MonthLength(t.year, t.month) THEN [t EXCEPT !.day = @ + 1]
    ELSE IF t.month < 12 THEN [t EXCEPT !.month = @ + 1, !.day = 1]
    ELSE [t EXCEPT !.year = @ + 1, !.month = 1, !.day = 1]

NextSecond(t) ==
    IF t.seconds < 59 THEN [t EXCEPT !.seconds = @ + 1]
    ELSE IF t.minutes < 59 THEN [t EXCEPT !.minutes = @ + 1, !.seconds = 0]
    ELSE IF t.hours < 23 THEN [t EXCEPT !.hours = @ + 1, !.minutes = 0, !.seconds = 0]
    ELSE [NextDay(t) EXCEPT !.hours = 0, !.minutes = 0, !.seconds = 0]

Bcd(n) == (n \div 10) * 16 + (n % 10)

Tick ==
    /\ reading \in {"time", "date"} /\ ticks < MaxTicks
    /\ now' = NextSecond(now) /\ now'.year < 2100
    /\ ticks' = ticks + 1
    /\ UNCHANGED <<reading, time, date, atTime, atDate, stamp>>

-----------------------------------------------------------------------------
(* Reading it.                                                             *)

rtc_bcd_to_binary(bcd) == (bcd \div 16) * 10 + (bcd % 16)

NoStamp == [day |-> 0, rest |-> 0]

Epoch == [year |-> 1970, month |-> 1, day |-> 1, hours |-> 0, minutes |-> 0, seconds |-> 0]

GET_CURRENT_UNIX_TIME ==
    /\ reading = "none" /\ reading' = "time"
    /\ now' \in Instant
    /\ UNCHANGED <<ticks, time, date, atTime, atDate, stamp>>

rtc_read_time ==
    /\ reading = "time" /\ reading' = "date"
    /\ time' = <<rtc_bcd_to_binary(Bcd(now.hours)), rtc_bcd_to_binary(Bcd(now.minutes)),
                 rtc_bcd_to_binary(Bcd(now.seconds))>>
    /\ atTime' = now
    /\ UNCHANGED <<now, ticks, date, atDate, stamp>>

YearAsRead(y) == rtc_bcd_to_binary(Bcd(y % 100)) + 2000

\* The loop that adds up the years since 1970, the leap years one day longer
DaysOfYears(years) ==
    365 * Cardinality(years) + Cardinality({y \in years : RTC_IS_LEAP_YEAR(y)})
DaysBeforeYear(year) == DaysOfYears(1970 .. year - 1)

DaysOfMonths(year, months) ==
    MapThenSumSet(LAMBDA m : RTC_DAYS_IN_MONTHS[m]
                                + IF m = 2 /\ RTC_IS_LEAP_YEAR(year) THEN 1 ELSE 0, months)
DaysBeforeMonth(year, month) == DaysOfMonths(year, 1 .. month - 1)

RTC_TO_UNIX_TIMESTAMP(year, month, day, hours, minutes, seconds) ==
    [day |-> DaysBeforeYear(year) + DaysBeforeMonth(year, month) + (day - 1),
     rest |-> hours * 3600 + minutes * 60 + seconds]

\* rtc_read_date, and the conversion
rtc_read_date ==
    LET year == YearAsRead(now.year)
        month == rtc_bcd_to_binary(Bcd(now.month))
        day == rtc_bcd_to_binary(Bcd(now.day)) IN
    /\ reading = "date" /\ reading' = "done"
    /\ date' = <<year, month, day>>
    /\ stamp' = RTC_TO_UNIX_TIMESTAMP(year, month, day, time[1], time[2], time[3])
    /\ atDate' = now
    /\ UNCHANGED <<now, ticks, time, atTime>>

Init ==
    /\ now = Epoch /\ ticks = 0 /\ reading = "none"
    /\ time = <<0, 0, 0>> /\ date = <<0, 0, 0>>
    /\ atTime = now /\ atDate = now /\ stamp = NoStamp

Next == GET_CURRENT_UNIX_TIME \/ Tick \/ rtc_read_time \/ rtc_read_date

-----------------------------------------------------------------------------
(* TIMESTAMP_TO_STRING, the fields of what it prints: the loops over the    *)
(* years and over the months, each left with the days that remain.          *)

\* The loop runs from year y while the days that remain fill a year: it ends in
\* the first year that they do not.
YearLoop(y, t) ==
    LET left(year) == t - DaysOfYears(y .. year - 1)
        last == CHOOSE year \in y .. 2100 :
                    0 <= left(year) /\ left(year) < DaysOfYears({year}) IN
    [y |-> last, t |-> left(last)]

\* The loop over the months, from m = 0, breaks in the same way, or ends at 12.
MonthLoop(y, t) ==
    LET left(m) == t - DaysOfMonths(y, 1 .. m)
        broken == {m \in 0 .. 11 : left(m) < DaysOfMonths(y, {m + 1})}
        last == IF broken = {} THEN 12 ELSE Min(broken) IN
    [m |-> last, t |-> left(last)]

TIMESTAMP_TO_STRING(t) ==
    LET year == YearLoop(1970, t.day)
        month == MonthLoop(year.y, year.t) IN
    [year |-> year.y, month |-> month.m + 1, day |-> 1 + month.t,
     hours |-> t.rest \div 3600, minutes |-> (t.rest % 3600) \div 60, seconds |-> t.rest % 60]

-----------------------------------------------------------------------------
LeapDaysBefore(y) == (y - 1) \div 4 - (y - 1) \div 100 + (y - 1) \div 400

\* The days from 1 January 1970, by counting the leap days
DayNumber(t) ==
    365 * (t.year - 1970) + LeapDaysBefore(t.year) - LeapDaysBefore(1970)
        + MapThenSumSet(LAMBDA m : MonthLength(t.year, m), 1 .. t.month - 1) + t.day - 1

SameDay(t, u) == t.year = u.year /\ t.month = u.month /\ t.day = u.day

\* A stamp is the very second at which the time was read, in any month of any
\* year; but when midnight comes before the date is read, it is one day late.
\* TIMESTAMP_TO_STRING prints the date and the time that were read.
StampMeans ==
    reading = "done" =>
        /\ stamp = [day |-> DayNumber(atTime) + IF SameDay(atTime, atDate) THEN 0 ELSE 1,
                    rest |-> atTime.hours * 3600 + atTime.minutes * 60 + atTime.seconds]
        /\ TIMESTAMP_TO_STRING(stamp) =
              [atTime EXCEPT !.year = atDate.year, !.month = atDate.month, !.day = atDate.day]
=============================================================================
