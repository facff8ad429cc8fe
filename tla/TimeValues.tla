------------------------------ MODULE TimeValues ------------------------------
(***************************************************************************)
(* The time classes of src/Utility: TimeT (whole seconds), TimeVal         *)
(* (seconds and microseconds) and TimeSpec (seconds and nanoseconds).  One *)
(* object of one of them is changed by the calls that its class has.  The  *)
(* integers keep their widths: seconds are a long, tick counts are 64 bits *)
(* and range checks are made in doubles of a few significant bits.         *)
(***************************************************************************)
EXTENDS Integers, Sequences

CONSTANTS
  MilliPerSec, MicroPerMilli, NanoPerMicro,   \* 1000 each in the code
  LongMax,           \* the largest long, one less than a power of two
  DoubleSize,        \* integers below this are exact in a double (2^53)
  Ulps,              \* the powers of two that doubles of that size are multiples of
  Amounts,           \* the arguments of the Add calls
  Others             \* the seconds of other objects and arguments

VARIABLE
  time               \* the object: its class, tv_sec and tv_usec or tv_nsec

Classes     == {"TimeT", "TimeVal", "TimeSpec"}
MicroPerSec == MilliPerSec * MicroPerMilli
NanoPerSec  == MicroPerSec * NanoPerMicro

TicksPerSec(class) ==
  CASE class = "TimeT"    -> 1
    [] class = "TimeVal"  -> MicroPerSec
    [] class = "TimeSpec" -> NanoPerSec

UnitsPerSec(unit) ==
  CASE unit = "second" -> 1
    [] unit = "milli"  -> MilliPerSec
    [] unit = "micro"  -> MicroPerSec
    [] unit = "nano"   -> NanoPerSec

Units == {"second", "milli", "micro", "nano"}
Longs == -LongMax - 1 .. LongMax

ASSUME TicksAssumption ==
  /\ MilliPerSec \in Nat \ {0, 1}
  /\ MicroPerMilli \in Nat \ {0}
  /\ NanoPerMicro \in Nat \ {0}
  /\ LongMax \in Nat
  /\ DoubleSize \in Nat
  /\ Ulps \subseteq Nat \ {0}
  /\ Amounts \subseteq Int
  /\ Others \subseteq Longs

\* Doubles are binary, hold the ticks of a second and the arguments of the Add
\* calls, which are ints, and are no wider than a long, whose range ends where
\* one size of doubles does.
ASSUME DoublesAssumption ==
  /\ DoubleSize % 2 = 0
  /\ 1 \in Ulps
  /\ \A p \in Ulps \ {1} : p % 2 = 0 /\ p \div 2 \in Ulps
  /\ \A p, q \in Ulps : p < q => 2 * p <= q
  /\ \E top \in Ulps : LongMax + 1 = top * DoubleSize /\ 2 * top \in Ulps
  /\ MicroPerSec % 2 = 0
  /\ MicroPerSec < DoubleSize
  /\ DoubleSize <= LongMax
  /\ Amounts \subseteq -DoubleSize .. DoubleSize

-----------------------------------------------------------------------------
(* Integers as the compiler divides, wraps and rounds them.                *)

Quot(a, b) == IF a >= 0 THEN a \div b ELSE -((-a) \div b)
Rem(a, b)  == a - b * Quot(a, b)
Abs(a)     == IF a >= 0 THEN a ELSE -a

Unsigned(a) == a % (2 * (LongMax + 1))
WrapLong(a) == Unsigned(a + LongMax + 1) - LongMax - 1

\* The doubles near a are the multiples of its ulp.
IsUlp(p, a) == a < p * DoubleSize /\ (p = 1 \/ 2 * a >= p * DoubleSize)
UlpOf(a)    == IF \E p \in Ulps : IsUlp(p, a) THEN CHOOSE p \in Ulps : IsUlp(p, a) ELSE 1

\* The multiple of ulp that is nearest to a, ties to the even one.
Nearest(a, ulp) ==
  LET low  == a \div ulp
      rest == 2 * (a % ulp)
  IN IF rest > ulp \/ (rest = ulp /\ low % 2 = 1) THEN (low + 1) * ulp ELSE low * ulp

Double(a) == IF a >= 0 THEN Nearest(a, UlpOf(a)) ELSE -Nearest(-a, UlpOf(-a))

-----------------------------------------------------------------------------
(* Adding.                                                                 *)

Time(class, sec, frac) == [class |-> class, sec |-> sec, frac |-> frac]
Ticks(t) == t.sec * TicksPerSec(t.class) + t.frac

SecondsAllowed_Bug(sec, n) == Double(Double(sec) + Double(n)) <= Double(LongMax)

\* AddSecondsInternal: the sum is checked as a double and made as a long.
SecondsAllowed(sec, n) ==
  LET sum == Double(Double(sec) + Double(n))
  IN Double(-LongMax - 1) <= sum /\ sum <= Double(LongMax)

\* A negative fraction borrows no second, or is not carried over at all.
Carry_BugBorrow(t, n, per, scale) ==
  LET frac == t.frac + Rem(n, per) * scale
  IN [secs |-> Quot(n, per) + Quot(frac, TicksPerSec(t.class)),
      frac |-> frac % TicksPerSec(t.class)]

\* secs_to_add and the new fraction, for n units of which there are per to
\* the second, each of which is scale ticks.
Carry(t, n, per, scale) ==
  LET ticks == TicksPerSec(t.class)
      secs  == Quot(n, per)
      frac  == t.frac + Rem(n, per) * scale
  IN CASE frac >= ticks -> [secs |-> secs + Quot(frac, ticks), frac |-> Rem(frac, ticks)]
       [] frac < 0      -> [secs |-> secs - 1 + Quot(frac, ticks),
                            frac |-> ticks + Rem(frac, ticks)]
       [] OTHER         -> [secs |-> secs, frac |-> frac]

\* The fraction is assigned after AddSeconds, which may throw.
Add(t, carry) ==
  IF carry.secs # 0 /\ ~SecondsAllowed(t.sec, carry.secs) THEN [thrown |-> TRUE, time |-> t]
  ELSE [thrown |-> FALSE, time |-> Time(t.class, WrapLong(t.sec + carry.secs), carry.frac)]

AddSeconds(t, n) == Add(t, [secs |-> n, frac |-> t.frac])

TimeTAddMilliseconds(t, n) == AddSeconds(t, Quot(n, MilliPerSec))
TimeTAddMicroseconds(t, n) == AddSeconds(t, Quot(n, MicroPerSec))
TimeTAddNanoseconds(t, n)  == AddSeconds(t, Quot(n, NanoPerSec))

TimeValAddMilliseconds(t, n) == Add(t, Carry(t, n, MilliPerSec, MicroPerMilli))
TimeValAddMicroseconds(t, n) == Add(t, Carry(t, n, MicroPerSec, 1))
TimeValAddNanoseconds(t, n)  == TimeValAddMicroseconds(t, Quot(n, NanoPerMicro))

TimeSpecAddMilliseconds(t, n) == Add(t, Carry(t, n, MilliPerSec, MicroPerMilli * NanoPerMicro))
TimeSpecAddMicroseconds(t, n) == Add(t, Carry(t, n, MicroPerSec, NanoPerMicro))
TimeSpecAddNanoseconds(t, n)  == Add(t, Carry(t, n, NanoPerSec, 1))

AddUnits(t, unit, n) ==
  CASE unit = "second" -> AddSeconds(t, n)
    [] t.class = "TimeT" /\ unit = "milli"    -> TimeTAddMilliseconds(t, n)
    [] t.class = "TimeT" /\ unit = "micro"    -> TimeTAddMicroseconds(t, n)
    [] t.class = "TimeT" /\ unit = "nano"     -> TimeTAddNanoseconds(t, n)
    [] t.class = "TimeVal" /\ unit = "milli"  -> TimeValAddMilliseconds(t, n)
    [] t.class = "TimeVal" /\ unit = "micro"  -> TimeValAddMicroseconds(t, n)
    [] t.class = "TimeVal" /\ unit = "nano"   -> TimeValAddNanoseconds(t, n)
    [] t.class = "TimeSpec" /\ unit = "milli" -> TimeSpecAddMilliseconds(t, n)
    [] t.class = "TimeSpec" /\ unit = "micro" -> TimeSpecAddMicroseconds(t, n)
    [] t.class = "TimeSpec" /\ unit = "nano"  -> TimeSpecAddNanoseconds(t, n)

-----------------------------------------------------------------------------
(* Comparing and subtracting.                                              *)

TimeSpecCompare(lhs, rhs) ==
  LET Sign(a, b) == IF a > b THEN 1 ELSE IF a < b THEN -1 ELSE 0
  IN IF lhs.sec # rhs.sec THEN Sign(lhs.sec, rhs.sec) ELSE Sign(lhs.frac, rhs.frac)

\* A tick count is unsigned, and a difference of two is taken between signed ones.
ToTicks(t) == Unsigned(Ticks(t))

TimeSpecGetDifference(lhs, rhs) ==
  LET ticks == WrapLong(WrapLong(ToTicks(lhs)) - WrapLong(ToTicks(rhs)))
  IN Time("TimeSpec", Quot(ticks, NanoPerSec), Rem(ticks, NanoPerSec))

\* TimeVal subtracts doubles; the quotient of the rounded difference is exact.
DoubleToLong(a) == IF a \in Longs THEN a ELSE -LongMax - 1   \* as the processor does

DoubleTicks(t) == Double(Double(Double(t.sec) * MicroPerSec) + t.frac)

TimeValGetDifference(lhs, rhs) ==
  LET ticks == Double(DoubleTicks(lhs) - DoubleTicks(rhs))
  IN Time("TimeVal", DoubleToLong(Quot(ticks, MicroPerSec)), Rem(ticks, MicroPerSec))

GetDifference(lhs, rhs) ==
  IF lhs.class = "TimeVal" THEN TimeValGetDifference(lhs, rhs)
  ELSE TimeSpecGetDifference(lhs, rhs)

GetDifferenceAbs_Bug(lhs, rhs) ==
  IF lhs.sec >= rhs.sec THEN GetDifference(lhs, rhs) ELSE GetDifference(rhs, lhs)

GetDifferenceAbs(lhs, rhs) ==
  IF TimeSpecCompare(lhs, rhs) >= 0 THEN GetDifference(lhs, rhs)
  ELSE GetDifference(rhs, lhs)

-----------------------------------------------------------------------------
(* The calls that assign the object.                                       *)

Assign(t) == time' = t

TimeAdd == \E unit \in Units, n \in Amounts : Assign(AddUnits(time, unit, n).time)

OtherTimes(class) == {Time(class, sec, frac) : sec \in Others, frac \in {0, TicksPerSec(class) - 1}}

\* GetMinimumValue and GetMaximumValue: the least value is 0, also of a signed type.
TimeTLimits    == {Time("TimeT", 0, 0), Time("TimeT", LongMax, 0)}
TimeValLimits  == {Time("TimeVal", 0, 0), Time("TimeVal", LongMax, MicroPerSec - 1)}
TimeSpecLimits == {Time("TimeSpec", 0, 0), Time("TimeSpec", LongMax, NanoPerSec - 1)}

\* SetToMinimumValue, SetToMaximumValue, and SetToNow with the time of the clock.
TimeTSetTo ==
  /\ time.class = "TimeT"
  /\ \E t \in TimeTLimits \cup {Time("TimeT", sec, 0) : sec \in Others} : Assign(t)

TimeValSetTo ==
  time.class = "TimeVal" /\ \E t \in TimeValLimits \cup OtherTimes("TimeVal") : Assign(t)

TimeSpecSetTo ==
  time.class = "TimeSpec" /\ \E t \in TimeSpecLimits \cup OtherTimes("TimeSpec") : Assign(t)

TimeSubtract ==
  /\ time.class # "TimeT"
  /\ \E other \in OtherTimes(time.class) :
       Assign(GetDifference(time, other)) \/ Assign(GetDifferenceAbs(time, other))

ToTimeVal(t)   == Time("TimeVal", t.sec, Quot(t.frac, NanoPerMicro))
ToTimeT(t)     == Time("TimeT", t.sec, 0)
TimeValToTimeT(t) == Time("TimeT", t.sec, 0)
FromTimeVal(t) == Time("TimeSpec", t.sec, t.frac * NanoPerMicro)

TimeConvert ==
  \/ time.class = "TimeSpec" /\ (Assign(ToTimeVal(time)) \/ Assign(ToTimeT(time)))
  \/ time.class = "TimeVal" /\ (Assign(TimeValToTimeT(time)) \/ Assign(FromTimeVal(time)))

\* FromSeconds .. FromNanoseconds, of an unsigned count.
TimeSpecFromUnits(unit, n) ==
  LET per == UnitsPerSec(unit)
  IN Time("TimeSpec", WrapLong(n \div per), (n % per) * (NanoPerSec \div per))

TimeValFromMicroseconds(n) == Time("TimeVal", WrapLong(n \div MicroPerSec), n % MicroPerSec)

TimeFromTicks ==
  LET ticks == ToTicks(time)
  IN \/ time.class = "TimeVal" /\ Assign(TimeValFromMicroseconds(ticks))
     \/ /\ time.class = "TimeSpec"
        /\ \E unit \in Units :
             Assign(TimeSpecFromUnits(unit, ticks \div (NanoPerSec \div UnitsPerSec(unit))))

-----------------------------------------------------------------------------
TimeInit == \E class \in Classes, sec \in Others : time = Time(class, sec, 0)

TimeNext ==
  \/ TimeAdd
  \/ TimeTSetTo
  \/ TimeValSetTo
  \/ TimeSpecSetTo
  \/ TimeSubtract
  \/ TimeConvert
  \/ TimeFromTicks

TimeSpecification == TimeInit /\ [][TimeNext]_time

-----------------------------------------------------------------------------
(* Properties.                                                             *)

Normal(t) == 0 <= t.frac /\ t.frac < TicksPerSec(t.class)

\* The fraction is less than a second, of either sign, or just one second:
\* AddNanoseconds(-1) to the difference -0.999999999 s leaves 1000000000
\* nanoseconds (TimeSpec.cpp:236), and every later sum must cope with it.
TimeOK(t) ==
  /\ t \in [class : Classes, sec : Longs, frac : Int]
  /\ t.class = "TimeT" => t.frac = 0
  /\ -TicksPerSec(t.class) < t.frac
  /\ t.frac <= TicksPerSec(t.class)

TimeTypeOK == TimeOK(time)

\* What a call adds, in whole ticks of the class.
TicksAdded(t, unit, n) == Quot(n * TicksPerSec(t.class), UnitsPerSec(unit))

\* The sum of an Add call, and whether it lies within the range of the class,
\* widened by some seconds.
TimeSum(t, unit, n) == Ticks(t) + TicksAdded(t, unit, n)
SumWithin(t, unit, n, by) ==
  LET ticks == TicksPerSec(t.class)
  IN /\ (-LongMax - 1 - by) * ticks <= TimeSum(t, unit, n)
     /\ TimeSum(t, unit, n) < (LongMax + 1 + by) * ticks

\* An Add call adds exactly its argument, cut off to whole ticks, however the
\* carry between fraction and seconds goes and whatever the signs are, or it
\* throws and leaves the object alone (TimeSpec.cpp:172: the fraction is
\* assigned after AddSeconds).
TimeSumExact ==
  \A unit \in Units, n \in Amounts :
    LET sum == AddUnits(time, unit, n)
    IN IF sum.thrown THEN sum.time = time
       ELSE SumWithin(time, unit, n, -1) => Ticks(sum.time) = TimeSum(time, unit, n)

\* AddSecondsInternal checks the range in doubles (TimeSupport.cpp:79): of a
\* normal value it never refuses a sum that fits a long, and the sums that it
\* lets through exceed the range by no more than two roundings of doubles at
\* its ends (512 and 1024 seconds), where the sum of the longs overflows.
TimeLimitChecked ==
  Normal(time) => \A unit \in Units, n \in Amounts :
    LET slack == (3 * ((LongMax + 1) \div DoubleSize)) \div 2
    IN IF AddUnits(time, unit, n).thrown THEN ~SumWithin(time, unit, n, 0)
       ELSE SumWithin(time, unit, n, slack + 1)

\* A difference added to the value that was subtracted gives the value it was
\* taken from, also where the difference is negative and where the fractions
\* borrow, and GetDifferenceAbs of normal values is the distance; as long as
\* the tick counts fit 64 bits (TimeSpec.cpp:450) or a double (TimeVal.cpp:385).
TimeDifferenceExact ==
  time.class # "TimeT" =>
    \A other \in OtherTimes(time.class) :
      LET exact(n) == IF time.class = "TimeVal" THEN Abs(n) <= DoubleSize
                      ELSE n = WrapLong(n)
          between == GetDifference(time, other)
          apart   == GetDifferenceAbs(time, other)
      IN (\A n \in {Ticks(time), Ticks(other), Ticks(time) - Ticks(other),
                    Ticks(other) - Ticks(time)} : exact(n))
         => /\ Ticks(other) + Ticks(between) = Ticks(time)
            /\ Abs(between.frac) < TicksPerSec(time.class)
            /\ between.sec * between.frac >= 0
            /\ Normal(time) => Ticks(apart) = Abs(Ticks(time) - Ticks(other))
=============================================================================
