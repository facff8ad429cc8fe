------------------------------ MODULE TimeTexts ------------------------------
(***************************************************************************)
(* The texts of the time classes, in UTC, in local time and as intervals,  *)
(* and what FromString reads.  A text is its date, hour, minute and second, *)
(* as far as they are there, and the digits of the fraction; "torn" says   *)
(* that it ends within one of the four fields or behind a separator.  The  *)
(* calendar is that of gmtime_r() and boost: a date is the number of its   *)
(* day, from that of 1970.                                                 *)
(***************************************************************************)
EXTENDS TimeValues

CONSTANTS
  Base, Places,      \* radix and number of the digits of a fraction, by class
  HoursPerDay, MinutesPerHour, SecondsPerMinute,
  DaysShown,         \* ToStringInterval writes the days modulo this (10^6)
  DatesShown,        \* the days of 10000 years, of which ToString writes the digits
  DatesBefore1970,   \* the days from the year 0 on
  FirstDate,         \* the first date that boost accepts, of the year 1400
  CalendarEnd,       \* the first second that gmtime_r() cannot convert
  Zones              \* local times: offsets before and after a change

ASSUME DigitsAssumption == \A class \in Classes : Base ^ Places[class] = TicksPerSec(class)

-----------------------------------------------------------------------------
(* TimeTM.                                                                 *)

Fields(sec) ==
  LET minute == sec \div SecondsPerMinute
      hour   == minute \div MinutesPerHour
  IN <<hour \div HoursPerDay, hour % HoursPerDay,
       minute % MinutesPerHour, sec % SecondsPerMinute>>

ClockSeconds(tm) ==
  ((tm[1] * HoursPerDay + tm[2]) * MinutesPerHour + tm[3]) * SecondsPerMinute + tm[4]

TimeUTC(sec)   == Fields(sec)
CannotConvert(sec) == sec < 0 \/ sec >= CalendarEnd

\* Local time is ahead of UTC by another offset from a second on: a clock that is put
\* back shows some times twice.
ZoneOffset(zone, sec) == IF sec < zone.change THEN zone.before ELSE zone.after
TimeLocal(zone, sec)  == Fields(sec + ZoneOffset(zone, sec))

\* Of the year four digits are written.
TimeTMToString(tm) ==
  [tm EXCEPT ![1] = ((@ + DatesBefore1970) % DatesShown) - DatesBefore1970]

\* asctime() writes the year as it is and a line feed, which AscTimeSane cuts off.
AscTime(tm)     == Append(tm, "line feed")
AscTimeSane(tm) == SubSeq(AscTime(tm), 1, 4)

TimeTMCompare(lhs, rhs) ==
  IF lhs = rhs THEN 0
  ELSE LET i == CHOOSE i \in 1 .. 4 :
                  lhs[i] # rhs[i] /\ SubSeq(lhs, 1, i - 1) = SubSeq(rhs, 1, i - 1)
       IN IF lhs[i] > rhs[i] THEN 1 ELSE -1

TimeTCompare(lhs, rhs) == IF lhs > rhs THEN 1 ELSE IF lhs < rhs THEN -1 ELSE 0

-----------------------------------------------------------------------------
(* Writing.                                                                *)

TimeText(fields, digits, torn) == [fields |-> fields, digits |-> digits, torn |-> torn]

AtMost(n, s) == SubSeq(s, 1, IF n < Len(s) THEN n ELSE Len(s))

\* The sign of a fraction is lost in the cast to an unsigned long.
AppendFractionalPortion(t) ==
  LET places == Places[t.class]
      ticks  == Unsigned(t.frac) % TicksPerSec(t.class)
  IN [i \in 1 .. places |-> (ticks \div Base ^ (places - i)) % Base]

TimeValAppendFractionalPortion(t) == AppendFractionalPortion(t)

\* The whole text is written, and then the part copied that was asked for: the first n
\* fields and digits, and with torn a part of the next field.
Shown(fields, digits, n, torn) == TimeText(AtMost(n, fields), AtMost(n - 4, digits), torn)

TimeTFormatString(tm, n, torn) == Shown(TimeTMToString(tm), << >>, n, torn)
TimeValFormatString(t, tm, n, torn) ==
  Shown(TimeTMToString(tm), TimeValAppendFractionalPortion(t), n, torn)
TimeSpecFormatString(t, tm, n, torn) ==
  Shown(TimeTMToString(tm), AppendFractionalPortion(t), n, torn)

\* The days and the time of day of an interval, whose seconds are made unsigned.
TimeTFormatStringInterval(sec, n, torn) ==
  LET fields == Fields(Unsigned(sec))
  IN Shown([fields EXCEPT ![1] = @ % DaysShown], << >>, n, torn)
TimeValFormatStringInterval(t, n, torn) ==
  Shown(TimeTFormatStringInterval(t.sec, 4, FALSE).fields,
        TimeValAppendFractionalPortion(t), n, torn)
TimeSpecFormatStringInterval(t, n, torn) ==
  Shown(TimeTFormatStringInterval(t.sec, 4, FALSE).fields, AppendFractionalPortion(t), n, torn)

\* Each of the calls has a buffer, a result or a reference for its text, with the same text.
TimeTToString(t, n, torn)         == TimeTFormatString(TimeUTC(t.sec), n, torn)
TimeTToStringLocal(z, t, n, torn) == TimeTFormatString(TimeLocal(z, t.sec), n, torn)
TimeTToStringInterval(t, n, torn) == TimeTFormatStringInterval(t.sec, n, torn)

TimeValToString(t, n, torn)         == TimeValFormatString(t, TimeUTC(t.sec), n, torn)
TimeValToStringLocal(z, t, n, torn) == TimeValFormatString(t, TimeLocal(z, t.sec), n, torn)
TimeValToStringInterval(t, n, torn) == TimeValFormatStringInterval(t, n, torn)

TimeSpecToString(t, n, torn)         == TimeSpecFormatString(t, TimeUTC(t.sec), n, torn)
TimeSpecToStringLocal(z, t, n, torn) == TimeSpecFormatString(t, TimeLocal(z, t.sec), n, torn)
TimeSpecToStringInterval(t, n, torn) == TimeSpecFormatStringInterval(t, n, torn)

TimeToString(t, n, torn) ==
  CASE t.class = "TimeT"    -> TimeTToString(t, n, torn)
    [] t.class = "TimeVal"  -> TimeValToString(t, n, torn)
    [] t.class = "TimeSpec" -> TimeSpecToString(t, n, torn)

TimeToStringLocal(z, t, n, torn) ==
  CASE t.class = "TimeT"    -> TimeTToStringLocal(z, t, n, torn)
    [] t.class = "TimeVal"  -> TimeValToStringLocal(z, t, n, torn)
    [] t.class = "TimeSpec" -> TimeSpecToStringLocal(z, t, n, torn)

TimeToStringInterval(t, n, torn) ==
  CASE t.class = "TimeT"    -> TimeTToStringInterval(t, n, torn)
    [] t.class = "TimeVal"  -> TimeValToStringInterval(t, n, torn)
    [] t.class = "TimeSpec" -> TimeSpecToStringInterval(t, n, torn)

-----------------------------------------------------------------------------
(* Reading.                                                                *)

DigitsValue(digits) ==
  LET value[i \in 0 .. Len(digits)] ==
        IF i = 0 THEN 0 ELSE Base * value[i - 1] + digits[i]
  IN value[Len(digits)]

\* The fields and digits that a text has, with zeros for those that it has not.
FilledText(text, places) ==
  <<[i \in 1 .. 4 |-> IF i <= Len(text.fields) THEN text.fields[i] ELSE 0],
    [i \in 1 .. places |-> IF i <= Len(text.digits) THEN text.digits[i] ELSE 0]>>

\* Missing digits are not filled up: ".5" is 5 ticks.
ParseFromStringBasic_Bug(class, text) ==
  Time(class, ClockSeconds(FilledText(text, 0)[1]), DigitsValue(AtMost(Places[class], text.digits)))

\* Digits beyond the places of the class are cut off.
ParseFromStringBasic(class, text) ==
  LET filled == FilledText(text, Places[class])
  IN Time(class, ClockSeconds(filled[1]), DigitsValue(filled[2]))

\* Texts that are cut within a field, and dates that boost does not know, are refused.
ParseFromStringThrows(text) ==
  text.torn \/ text.fields = << >> \/ text.fields[1] < FirstDate

Read(class, text) ==
  IF ParseFromStringThrows(text) THEN [thrown |-> TRUE, time |-> Time(class, 0, 0)]
  ELSE [thrown |-> FALSE, time |-> ParseFromStringBasic(class, text)]

TimeTFromString(text)    == Read("TimeT", text)
TimeValFromString(text)  == Read("TimeVal", text)
TimeSpecFromString(text) == Read("TimeSpec", text)

TimeFromString(class, text) ==
  CASE class = "TimeT"    -> TimeTFromString(text)
    [] class = "TimeVal"  -> TimeValFromString(text)
    [] class = "TimeSpec" -> TimeSpecFromString(text)

-----------------------------------------------------------------------------
(* Properties.                                                             *)

TextLengths == 0 .. 4 + Places["TimeSpec"]
DaySeconds  == HoursPerDay * MinutesPerHour * SecondsPerMinute

\* What is read in class from a text of n fields and digits of t, on a clock that
\* shows tm: the time of the clock, cut off to what the text has.
ReadsBack(class, t, tm, text, n) ==
  LET parsed == TimeFromString(class, text)
      read   == parsed.time
      sec    == ClockSeconds(TimeTMToString(tm))
      kept   == <<DaySeconds, MinutesPerHour * SecondsPerMinute, SecondsPerMinute, 1>>
      \* the digits that were written, and those of them that are read
      places  == Places[t.class]
      written == IF n - 4 < places THEN n - 4 ELSE places
      digits  == IF written < Places[class] THEN written ELSE Places[class]
      dropped == Base ^ (places - digits)
  IN IF parsed.thrown THEN n = 0 \/ text.torn \/ TimeTMToString(tm)[1] < FirstDate
     ELSE IF n < 4 THEN read = Time(class, sec - (sec % kept[n]), 0)
     ELSE /\ read.sec = sec
          /\ read.frac * dropped
               = (t.frac - (t.frac % dropped)) * Base ^ (Places[class] - digits)

\* In the years with four digits the time of a clock is read as what it is.
YearShown(tm) ==
  -DatesBefore1970 <= tm[1] /\ tm[1] < DatesShown - DatesBefore1970
    => ClockSeconds(TimeTMToString(tm)) = ClockSeconds(tm)

\* An interval has the time of day and the last digits of its days.
IntervalShown(t) ==
  LET text == TimeToStringInterval(t, 4 + Places[t.class], FALSE)
  IN /\ ClockSeconds(text.fields) = Unsigned(t.sec) % (DaysShown * DaySeconds)
     /\ DigitsValue(text.digits) = t.frac

\* TimeTM values are in the order of their times, and local ones at least between changes
\* of the clock; AscTimeSane has no line feed.
ClocksInOrder(sec, other) ==
  /\ TimeTMCompare(TimeUTC(sec), TimeUTC(other)) = TimeTCompare(sec, other)
  /\ \A zone \in Zones :
       ZoneOffset(zone, sec) = ZoneOffset(zone, other) =>
         TimeTMCompare(TimeLocal(zone, sec), TimeLocal(zone, other))
           = TimeTMCompare(TimeUTC(sec), TimeUTC(other))
  /\ AscTimeSane(TimeUTC(sec)) = TimeUTC(sec)

\* A text in UTC or in local time that was cut to a length that FromString knows is
\* read back as what the clock showed, cut off to what the text has, in each of the
\* three classes, and a text that was cut elsewhere is refused (TimeSupport.cpp:169);
\* so a local text is a UTC time that is off by the zone's offset, and after the year
\* 9999 the text is that of a year 10000 years before.
TimeTextRoundTrip ==
  Normal(time) =>
    /\ IntervalShown(time)
    /\ ~CannotConvert(time.sec) =>
         /\ YearShown(TimeUTC(time.sec))
         /\ \A class \in Classes, n \in TextLengths, torn \in BOOLEAN :
              LET cut == torn /\ n < 4
              IN /\ ReadsBack(class, time, TimeUTC(time.sec), TimeToString(time, n, cut), n)
                 /\ \A zone \in Zones :
                      ReadsBack(class, time, TimeLocal(zone, time.sec),
                                TimeToStringLocal(zone, time, n, cut), n)
         /\ \A other \in Others : ~CannotConvert(other) => ClocksInOrder(time.sec, other)
=============================================================================
